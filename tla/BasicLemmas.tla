------------------------------- MODULE BasicLemmas -------------------------------
(***************************************************************************)
(* Facts about numbers, finite sets and folds that the proofs of several   *)
(* components rest on.                                                     *)
(*                                                                         *)
(* The library's theorems on induction and on recursive functions take an  *)
(* operator as a parameter, which the provers cannot instantiate. The ones *)
(* here say the same with sets: what is shown by induction is that a set   *)
(* belongs to a set of sets, and what is folded is a function.             *)
(***************************************************************************)
EXTENDS Integers, Sequences, FiniteSetTheorems, FiniteSetsExt, TLAPS

-----------------------------------------------------------------------------
\* Remainders of natural numbers, where one modulus is a multiple of another: what the
\* indices and numbers of a ring buffer rest on.
\* A number is a quotient and a remainder, and has one remainder only.
LEMMA Parts ==
    ASSUME NEW a \in Nat, NEW c \in Nat \ {0}
    PROVE  \E q \in Nat, r \in 0..c-1 : a = c * q + r /\ a % c = r
<1>1. a = c * (a \div c) + (a % c) /\ a \div c \in Nat /\ a % c \in 0..c-1
  OBVIOUS
<1> QED
  BY <1>1

LEMMA Unique ==
    ASSUME NEW c \in Nat \ {0}, NEW q \in Nat, NEW r \in 0..c-1
    PROVE  (c * q + r) % c = r
OBVIOUS

\* The products that the provers need pointed out.
LEMMA Product == ASSUME NEW a \in Nat, NEW b \in Nat PROVE a * b \in Nat
OBVIOUS

LEMMA PositiveProduct ==
    ASSUME NEW a \in Nat \ {0}, NEW b \in Nat \ {0}
    PROVE  a * b \in Nat \ {0}
OBVIOUS

LEMMA Distribute ==
    ASSUME NEW c \in Nat, NEW q \in Nat, NEW i \in Nat, NEW j \in Nat
    PROVE  (q * c) * i + c * j = c * (q * i + j)
OBVIOUS

\* The remainder by a multiple of c, moved on, is where the number itself leads.
Shifts(c, q, a, d) == ((a % (q * c)) + d) % c = (a + d) % c

LEMMA Shift ==
    ASSUME NEW c \in Nat \ {0}, NEW q \in Nat \ {0}, NEW a \in Nat, NEW d \in Nat
    PROVE  Shifts(c, q, a, d)
<1>1. q * c \in Nat \ {0}
  BY PositiveProduct
<1>2. PICK i \in Nat, r \in 0..(q * c)-1 : a = (q * c) * i + r /\ a % (q * c) = r
  BY <1>1, Parts
<1>3. r + d \in Nat
  BY <1>1
<1>4. PICK j \in Nat, s \in 0..c-1 : r + d = c * j + s /\ (r + d) % c = s
  BY Parts, <1>3
<1>5. a + d = c * (q * i + j) + s
  <2>1. (q * c) * i \in Nat /\ c * j \in Nat
    BY Product, <1>1
  <2> QED
    BY <1>1, <1>2, <1>4, <2>1, Distribute
<1>6. q * i + j \in Nat
  BY Product
<1>7. (a + d) % c = s
  <2>1. (c * (q * i + j) + s) % c = s
    BY <1>6, Unique, Zenon
  <2> QED
    BY <1>5, <2>1, Zenon
<1> QED
  BY <1>2, <1>4, <1>7 DEF Shifts

\* A whole turn leads back, and a sum turns once at most.
LEMMA Turn ==
    ASSUME NEW c \in Nat \ {0}, NEW a \in Nat
    PROVE  (a + c) % c = a % c
<1>1. PICK q \in Nat, r \in 0..c-1 : a = c * q + r /\ a % c = r
  BY Parts
<1>2. a + c = c * (q + 1) + r /\ q + 1 \in Nat
  BY <1>1
<1>3. (c * (q + 1) + r) % c = r
  BY <1>2, Unique, Zenon
<1> QED
  BY <1>1, <1>2, <1>3, Zenon

LEMMA ModAdd ==
    ASSUME NEW c \in Nat \ {0}, NEW a \in Nat, NEW d \in 0..c-1
    PROVE  (a + d) % c = IF (a % c) + d < c THEN (a % c) + d ELSE ((a % c) + d) - c
<1>1. PICK q \in Nat, r \in 0..c-1 : a = c * q + r /\ a % c = r
  BY Parts
<1>2. CASE r + d < c
  <2>1. a + d = c * q + (r + d) /\ r + d \in 0..c-1 /\ a + d \in Nat
    BY <1>1, <1>2
  <2>2. (a + d) % c = r + d
    BY <2>1, Unique, Zenon
  <2>3. (a % c) + d < c
    BY <1>1, <1>2
  <2> QED
    BY <1>1, <2>2, <2>3
<1>3. CASE r + d >= c
  <2>1. a + d = c * (q + 1) + (r + d - c) /\ r + d - c \in 0..c-1 /\ q + 1 \in Nat /\ a + d \in Nat
    BY <1>1, <1>3
  <2>2. (a + d) % c = r + d - c
    BY <2>1, Unique, Zenon
  <2>3. ~((a % c) + d < c)
    BY <1>1, <1>3
  <2> QED
    BY <1>1, <2>2, <2>3
<1> QED
  BY <1>1, <1>2, <1>3

\* A whole turn may be left out of a sum, or put into it, before the last remainder.
LEMMA RemainderFirst ==
    ASSUME NEW c \in Nat \ {0}, NEW a \in Nat, NEW d \in Nat
    PROVE  ((a % c) + d) % c = (a + d) % c
<1>1. Shifts(c, 1, a, d)
  <2>1. 1 \in Nat \ {0}
    OBVIOUS
  <2> QED
    BY <2>1, Shift
<1>2. 1 * c = c
  OBVIOUS
<1> QED
  BY <1>1, <1>2, Zenon DEF Shifts

\* From anywhere on, each remainder comes once in a turn.
LEMMA AtMostOnce ==
    ASSUME NEW c \in Nat \ {0}, NEW b \in Nat, NEW j \in 0..c-1, NEW k \in 0..c-1,
           (b + j) % c = (b + k) % c
    PROVE  j = k
<1>1. b % c \in 0..c-1
  OBVIOUS
<1>2. (b + j) % c = IF (b % c) + j < c THEN (b % c) + j ELSE ((b % c) + j) - c
  BY ModAdd
<1>3. (b + k) % c = IF (b % c) + k < c THEN (b % c) + k ELSE ((b % c) + k) - c
  BY ModAdd
<1> QED
  BY <1>1, <1>2, <1>3

LEMMA AtLeastOnce ==
    ASSUME NEW c \in Nat \ {0}, NEW b \in Nat, NEW i \in 0..c-1
    PROVE  \E k \in 0..c-1 : (b + k) % c = i
<1>1. PICK m \in 0..c-1 : b % c = m
  OBVIOUS
<1>2. PICK k \in 0..c-1 : k = IF i < m THEN (i - m) + c ELSE i - m
  OBVIOUS
<1>3. (b + k) % c = IF m + k < c THEN m + k ELSE (m + k) - c
  BY <1>1, ModAdd
<1>4. (b + k) % c = i
  BY <1>2, <1>3
<1> QED
  BY <1>4

\* The unsigned difference of two numbers is the distance between them.
LEMMA DistanceOfSum ==
    ASSUME NEW c \in Nat \ {0}, NEW b \in 0..c-1, NEW k \in 0..c-1
    PROVE  (((b + k) % c) + c - b) % c = k
<1>1. b \in Nat /\ b % c = b /\ k % c = k
  OBVIOUS
<1>2. (b + k) % c = IF b + k < c THEN b + k ELSE (b + k) - c
  BY <1>1, ModAdd
<1>3. (k + c) % c = k
  BY <1>1, Turn
<1>4. CASE b + k < c
  <2>1. ((b + k) % c) + c - b = k + c
    BY <1>2, <1>4
  <2> QED
    BY <1>3, <2>1, Zenon
<1>5. CASE ~(b + k < c)
  <2>1. ((b + k) % c) + c - b = k
    BY <1>2, <1>5
  <2> QED
    BY <1>1, <2>1, Zenon
<1> QED
  BY <1>4, <1>5

LEMMA SumOfDistance ==
    ASSUME NEW c \in Nat \ {0}, NEW b \in 0..c-1, NEW n \in 0..c-1
    PROVE  (b + ((n + c - b) % c)) % c = n
<1> b \in Nat
  OBVIOUS
<1>1. PICK k \in 0..c-1 : (b + k) % c = n
  BY AtLeastOnce
<1>2. (n + c - b) % c = k
  BY <1>1, DistanceOfSum, Zenon
<1> QED
  BY <1>1, <1>2, Zenon

-----------------------------------------------------------------------------
\* Finite sets and folds.

\* Induction over the subsets of a finite set: what holds of a set when it holds of the
\* set without any one of its elements holds of all of them.
LEMMA SetInduction ==
    ASSUME NEW S, IsFiniteSet(S), NEW T,
           \A s \in SUBSET S : (\A x \in s : s \ {x} \in T) => s \in T
    PROVE  S \in T
<1> SUFFICES ASSUME S \notin T PROVE FALSE
  OBVIOUS
<1> DEFINE rest == (SUBSET S) \ T
<1>1. rest # {} /\ rest \subseteq FiniteSubsetsOf(S)
  BY FS_FiniteSubsetsOfFinite
<1>2. IsWellFoundedOn(StrictSubsetOrdering(S), FiniteSubsetsOf(S))
  BY FS_StrictSubsetOrderingWellFounded
<1>3. \E x \in rest : \A y \in rest : <<y, x>> \notin StrictSubsetOrdering(S)
  <2> HIDE DEF rest
  <2> QED
    BY <1>1, <1>2, WFMin
<1>4. PICK s \in rest : \A y \in rest : <<y, s>> \notin StrictSubsetOrdering(S)
  BY <1>3
<1>5. \A x \in s : s \ {x} \in T
  <2> SUFFICES ASSUME NEW x \in s, s \ {x} \notin T PROVE FALSE
    OBVIOUS
  <2>1. s \ {x} \in rest /\ s \in SUBSET S
    OBVIOUS
  <2>2. <<s \ {x}, s>> \in StrictSubsetOrdering(S)
    BY <2>1 DEF StrictSubsetOrdering
  <2> QED
    BY <1>4, <2>1, <2>2
<1> QED
  BY <1>4, <1>5

\* Induction over the natural numbers, in the same form: S has 0 and is closed under adding 1.
LEMMA StepInduction ==
    ASSUME NEW S, 0 \in S, \A n \in Nat : n \in S => n + 1 \in S, NEW n \in Nat
    PROVE  n \in S
<1> DEFINE T == {s \in SUBSET (1..n) : Cardinality(s) \in S}
<1>1. IsFiniteSet(1..n) /\ Cardinality(1..n) = n
  <2>1. 1 \in Int /\ n \in Int
    OBVIOUS
  <2>2. IsFiniteSet(1..n) /\ Cardinality(1..n) = (IF 1 > n THEN 0 ELSE n - 1 + 1)
    BY <2>1, FS_Interval
  <2> QED
    BY <2>2
<1>2. ASSUME NEW s \in SUBSET (1..n), \A x \in s : s \ {x} \in T PROVE s \in T
  <2>1. IsFiniteSet(s) /\ Cardinality(s) \in Nat
    BY <1>1, FS_Subset, FS_CardinalityType
  <2>2. CASE s = {}
    BY <2>2, FS_EmptySet
  <2>3. CASE s # {}
    <3>1. PICK x : x \in s
      BY <2>3
    <3>2. Cardinality(s \ {x}) = Cardinality(s) - 1 /\ Cardinality(s \ {x}) \in Nat
      BY <2>1, <3>1, FS_RemoveElement, FS_CardinalityType
    <3>3. Cardinality(s \ {x}) \in S
      BY <1>2, <3>1
    <3>4. Cardinality(s \ {x}) + 1 = Cardinality(s)
      BY <2>1, <3>2
    <3> QED
      BY <3>2, <3>3, <3>4
  <2> QED
    BY <2>2, <2>3
<1> HIDE DEF T
<1>3. 1..n \in T
  BY <1>1, <1>2, SetInduction
<1> QED
  BY <1>1, <1>3 DEF T

\* The functions that a fold over the subsets of S, from base, may be: F says what comes of
\* a set, and of the result for the set without the element that ch takes from it.
Folds(S, R, base, ch, F) ==
    {f \in [SUBSET S -> R] : \A s \in SUBSET S :
        f[s] = IF s = {} THEN base ELSE F[<<s, f[s \ {ch[s]}]>>]}

\* There is such a function: the least relation that contains the base and is closed
\* under F gives every set one result.
LEMMA FoldExists ==
    ASSUME NEW S, IsFiniteSet(S), NEW R, NEW base \in R,
           NEW ch, \A s \in (SUBSET S) \ {{}} : ch[s] \in s,
           NEW F \in [((SUBSET S) \ {{}}) \X R -> R]
    PROVE  \E f : f \in Folds(S, R, base, ch, F)
<1> DEFINE Closed(Q) == /\ <<{}, base>> \in Q
                        /\ \A s \in (SUBSET S) \ {{}}, r \in R :
                              <<s \ {ch[s]}, r>> \in Q => <<s, F[<<s, r>>]>> \in Q
           all == (SUBSET S) \X R
           G   == {z \in all : \A Q \in SUBSET all : Closed(Q) => z \in Q}
           U   == {s \in SUBSET S : \E r \in R : /\ <<s, r>> \in G
                                                 /\ \A q \in R : <<s, q>> \in G => q = r}
<1>1. Closed(G)
  <2>1. <<{}, base>> \in G
    OBVIOUS
  <2>2. ASSUME NEW s \in (SUBSET S) \ {{}}, NEW r \in R, <<s \ {ch[s]}, r>> \in G
        PROVE  <<s, F[<<s, r>>]>> \in G
    <3>1. <<s, F[<<s, r>>]>> \in all
      OBVIOUS
    <3>2. ASSUME NEW Q \in SUBSET all, Closed(Q) PROVE <<s, F[<<s, r>>]>> \in Q
      BY <2>2, <3>2
    <3> QED
      BY <3>1, <3>2
  <2> HIDE DEF G
  <2> QED
    BY <2>1, <2>2
<1>2. \A Q \in SUBSET all : Closed(Q) => G \subseteq Q
  OBVIOUS
<1>3. G \subseteq all
  OBVIOUS
<1>4. ASSUME NEW s \in SUBSET S, \A x \in s : s \ {x} \in U PROVE s \in U
  <2>1. CASE s = {}
    <3>1. ASSUME NEW q \in R, <<s, q>> \in G, q # base PROVE FALSE
      <4> DEFINE Q == G \ {<<s, q>>}
      <4>1. Closed(Q)
        <5> HIDE DEF G
        <5>1. <<{}, base>> \in Q
          BY <1>1, <3>1
        <5> QED
          BY <1>1, <2>1, <5>1
      <4>2. Q \in SUBSET all
        BY <1>3
      <4> QED
        BY <4>1, <4>2, <1>2, <3>1
    <3> HIDE DEF G
    <3> QED
      BY <1>1, <2>1, <3>1
  <2>2. CASE s # {}
    <3> DEFINE u == s \ {ch[s]}
    <3> HIDE DEF G
    <3>1. u \in U /\ u # s
      BY <1>4, <2>2
    <3>2. PICK r \in R : <<u, r>> \in G /\ \A q \in R : <<u, q>> \in G => q = r
      BY <3>1
    <3>3. <<s, F[<<s, r>>]>> \in G /\ F[<<s, r>>] \in R
      BY <1>1, <2>2, <3>2
    <3>4. ASSUME NEW q \in R, <<s, q>> \in G, q # F[<<s, r>>] PROVE FALSE
      <4> DEFINE Q == G \ {<<s, q>>}
      <4>1. <<{}, base>> \in Q
        BY <1>1, <2>2
      <4>2. ASSUME NEW v \in (SUBSET S) \ {{}}, NEW p \in R, <<v \ {ch[v]}, p>> \in Q
            PROVE  <<v, F[<<v, p>>]>> \in Q
        <5>1. <<v, F[<<v, p>>]>> \in G
          BY <1>1, <4>2
        <5>2. CASE v = s
          <6>1. p = r
            BY <3>2, <4>2, <5>2
          <6> QED
            BY <5>1, <5>2, <6>1, <3>4
        <5> QED
          BY <5>1, <5>2
      <4>3. Closed(Q) /\ Q \in SUBSET all
        BY <4>1, <4>2, <1>3
      <4> QED
        BY <4>3, <1>2, <3>4
    <3> QED
      BY <3>3, <3>4
  <2> QED
    BY <2>1, <2>2
<1>5. \A s \in SUBSET S : s \in U
  <2> HIDE DEF U
  <2>1. ASSUME NEW s \in SUBSET S PROVE s \in U
    <3>1. IsFiniteSet(s)
      BY FS_Subset
    <3> QED
      BY <3>1, <1>4, SetInduction
  <2> QED
    BY <2>1
<1> DEFINE f == [s \in SUBSET S |-> CHOOSE r \in R : <<s, r>> \in G]
<1>6. ASSUME NEW s \in SUBSET S
      PROVE  f[s] \in R /\ <<s, f[s]>> \in G /\ \A q \in R : <<s, q>> \in G => q = f[s]
  <2> HIDE DEF G
  <2> QED BY <1>5
<1>7. f \in [SUBSET S -> R]
  BY <1>6
<1>8. ASSUME NEW s \in SUBSET S
      PROVE  f[s] = IF s = {} THEN base ELSE F[<<s, f[s \ {ch[s]}]>>]
  <2> HIDE DEF f, G
  <2>1. CASE s = {}
    BY <1>1, <1>6, <2>1
  <2>2. CASE s # {}
    <3>1. s \ {ch[s]} \in SUBSET S
      OBVIOUS
    <3>2. <<s, F[<<s, f[s \ {ch[s]}]>>]>> \in G /\ F[<<s, f[s \ {ch[s]}]>>] \in R
      BY <1>1, <1>6, <2>2, <3>1
    <3> QED
      BY <1>6, <2>2, <3>2
  <2> QED
    BY <2>1, <2>2
<1>9. f \in Folds(S, R, base, ch, F)
  <2> HIDE DEF f
  <2> QED
    BY <1>7, <1>8 DEF Folds
<1> QED
  BY <1>9

\* A finite set of numbers has a greatest one.
LEMMA MaxOfFinite ==
    ASSUME NEW S \in SUBSET Nat, IsFiniteSet(S), S # {}
    PROVE  Max(S) \in S /\ \A y \in S : Max(S) >= y
<1> DEFINE T == {s \in SUBSET S : s # {} => \E x \in s : \A y \in s : x >= y}
<1>1. ASSUME NEW s \in SUBSET S, \A x \in s : s \ {x} \in T PROVE s \in T
  <2>1. ASSUME NEW x \in s PROVE \E m \in s : \A y \in s : m >= y
    <3>1. CASE s \ {x} = {}
      BY <3>1
    <3>2. CASE s \ {x} # {}
      <4>1. PICK m \in s \ {x} : \A y \in s \ {x} : m >= y
        BY <1>1, <3>2
      <4>2. m \in Nat /\ x \in Nat
        OBVIOUS
      <4>3. CASE m >= x
        BY <4>1, <4>3
      <4>4. CASE x >= m
        BY <4>1, <4>2, <4>4
      <4> QED
        BY <4>2, <4>3, <4>4
    <3> QED
      BY <3>1, <3>2
  <2> QED
    BY <2>1
<1>2. S \in T
  <2> HIDE DEF T
  <2> QED
    BY <1>1, SetInduction
<1> QED
  BY <1>2 DEF Max

\* What FoldSet and FoldLeft are over a set S of results R: G takes a result and an element.
SetFolds(S, R, base, G) ==
    {f \in [SUBSET S -> R] : \A s \in SUBSET S :
        f[s] = IF s = {} THEN base
               ELSE G[<<f[s \ {CHOOSE x \in s : TRUE}], CHOOSE x \in s : TRUE>>]}

SeqFolds(seq, R, base, G) ==
    {f \in [SUBSET DOMAIN seq -> R] : \A s \in SUBSET DOMAIN seq :
        f[s] = IF s = {} THEN base ELSE G[<<f[s \ {Max(s)}], seq[Max(s)]>>]}

LEMMA SetFoldExists ==
    ASSUME NEW S, IsFiniteSet(S), NEW R, NEW base \in R, NEW G \in [R \X S -> R]
    PROVE  \E f : f \in SetFolds(S, R, base, G)
<1> DEFINE ch == [s \in SUBSET S |-> CHOOSE x \in s : TRUE]
           F  == [z \in ((SUBSET S) \ {{}}) \X R |-> G[<<z[2], ch[z[1]]>>]]
<1>1. \A s \in (SUBSET S) \ {{}} : ch[s] \in s
  OBVIOUS
<1>2. \A s \in SUBSET S : ch[s] = CHOOSE x \in s : TRUE
  OBVIOUS
<1> HIDE DEF ch
<1>3. F \in [((SUBSET S) \ {{}}) \X R -> R]
  BY <1>1
<1>4. \A s \in (SUBSET S) \ {{}}, r \in R : F[<<s, r>>] = G[<<r, ch[s]>>]
  OBVIOUS
<1> HIDE DEF F
<1>5. PICK f : f \in Folds(S, R, base, ch, F)
  BY <1>1, <1>3, FoldExists
<1>6. f \in [SUBSET S -> R]
  BY <1>5 DEF Folds
<1>7. ASSUME NEW s \in SUBSET S
      PROVE  f[s] = IF s = {} THEN base
                    ELSE G[<<f[s \ {CHOOSE x \in s : TRUE}], CHOOSE x \in s : TRUE>>]
  <2>1. f[s] = IF s = {} THEN base ELSE F[<<s, f[s \ {ch[s]}]>>]
    BY <1>5 DEF Folds
  <2>2. s \ {ch[s]} \in SUBSET S
    OBVIOUS
  <2>3. CASE s # {}
    <3>1. F[<<s, f[s \ {ch[s]}]>>] = G[<<f[s \ {ch[s]}], ch[s]>>]
      BY <1>4, <1>6, <2>2, <2>3
    <3> QED
      BY <1>2, <2>1, <2>3, <3>1
  <2> QED
    BY <2>1, <2>3
<1> QED
  BY <1>6, <1>7 DEF SetFolds

\* The last of some indices of a sequence.
LEMMA LastIndex ==
    ASSUME NEW E, NEW seq \in Seq(E), NEW s \in (SUBSET DOMAIN seq) \ {{}}
    PROVE  Max(s) \in s /\ seq[Max(s)] \in E
<1>1. DOMAIN seq = 1..Len(seq) /\ Len(seq) \in Nat
  OBVIOUS
<1>2. IsFiniteSet(DOMAIN seq) /\ DOMAIN seq \subseteq Nat
  BY <1>1, FS_Interval
<1>3. IsFiniteSet(s) /\ s \in SUBSET Nat /\ s # {}
  BY <1>2, FS_Subset
<1>4. Max(s) \in s
  BY <1>3, MaxOfFinite
<1> QED
  BY <1>1, <1>4

LEMMA SeqFoldExists ==
    ASSUME NEW E, NEW seq \in Seq(E), NEW R, NEW base \in R, NEW G \in [R \X E -> R]
    PROVE  \E f : f \in SeqFolds(seq, R, base, G)
<1> DEFINE S  == DOMAIN seq
           ch == [s \in SUBSET S |-> Max(s)]
           F  == [z \in ((SUBSET S) \ {{}}) \X R |-> G[<<z[2], seq[ch[z[1]]]>>]]
<1>1. S \in SUBSET Nat /\ IsFiniteSet(S) /\ \A i \in S : seq[i] \in E
  <2>1. S = 1..Len(seq) /\ Len(seq) \in Nat
    OBVIOUS
  <2> QED
    BY <2>1, FS_Interval
<1>2. \A s \in (SUBSET S) \ {{}} : ch[s] \in s
  BY LastIndex
<1>3. \A s \in SUBSET S : ch[s] = Max(s)
  OBVIOUS
<1> HIDE DEF S, ch
<1>4. F \in [((SUBSET S) \ {{}}) \X R -> R]
  BY <1>1, <1>2
<1>5. \A s \in (SUBSET S) \ {{}}, r \in R : F[<<s, r>>] = G[<<r, seq[ch[s]]>>]
  OBVIOUS
<1> HIDE DEF F
<1>6. PICK f : f \in Folds(S, R, base, ch, F)
  BY <1>1, <1>2, <1>4, FoldExists
<1>7. f \in [SUBSET S -> R]
  BY <1>6 DEF Folds
<1>8. ASSUME NEW s \in SUBSET S
      PROVE  f[s] = IF s = {} THEN base ELSE G[<<f[s \ {Max(s)}], seq[Max(s)]>>]
  <2>1. f[s] = IF s = {} THEN base ELSE F[<<s, f[s \ {ch[s]}]>>]
    BY <1>6 DEF Folds
  <2>2. s \ {ch[s]} \in SUBSET S
    OBVIOUS
  <2>3. CASE s # {}
    <3>1. F[<<s, f[s \ {ch[s]}]>>] = G[<<f[s \ {ch[s]}], seq[ch[s]]>>]
      BY <1>5, <1>7, <2>2, <2>3
    <3> QED
      BY <1>3, <2>1, <2>3, <3>1
  <2> QED
    BY <2>1, <2>3
<1> QED
  BY <1>7, <1>8 DEF SeqFolds, S

\* Where each step of a fold stays in R, its result is in R.
LEMMA SetFoldStays ==
    ASSUME NEW S, IsFiniteSet(S), NEW R, NEW it, it[{}] \in R,
           \A s \in (SUBSET S) \ {{}} :
               it[s \ {CHOOSE x \in s : TRUE}] \in R => it[s] \in R
    PROVE  it[S] \in R
<1> DEFINE T == {s \in SUBSET S : it[s] \in R}
<1>1. ASSUME NEW s \in SUBSET S, \A x \in s : s \ {x} \in T PROVE s \in T
  <2>1. CASE s = {}
    BY <2>1
  <2>2. CASE s # {}
    <3>1. PICK x \in s : x = CHOOSE y \in s : TRUE
      BY <2>2
    <3>2. it[s \ {x}] \in R
      BY <1>1
    <3> QED
      BY <2>2, <3>1, <3>2
  <2> QED
    BY <2>1, <2>2
<1>2. S \in T
  <2> HIDE DEF T
  <2> QED
    BY <1>1, SetInduction
<1> QED
  BY <1>2

LEMMA SeqFoldStays ==
    ASSUME NEW E, NEW seq \in Seq(E), NEW R, NEW it, it[{}] \in R,
           \A s \in (SUBSET DOMAIN seq) \ {{}} : it[s \ {Max(s)}] \in R => it[s] \in R
    PROVE  it[DOMAIN seq] \in R
<1> DEFINE S == DOMAIN seq
           T == {s \in SUBSET S : it[s] \in R}
<1>1. S \in SUBSET Nat /\ IsFiniteSet(S) /\ \A i \in S : seq[i] \in E
  <2>1. S = 1..Len(seq) /\ Len(seq) \in Nat
    OBVIOUS
  <2> QED
    BY <2>1, FS_Interval
<1>2. ASSUME NEW s \in SUBSET S, \A x \in s : s \ {x} \in T PROVE s \in T
  <2>1. CASE s = {}
    BY <2>1
  <2>2. CASE s # {}
    <3>1. PICK m \in s : m = Max(s)
      BY <2>2, LastIndex
    <3>2. it[s \ {m}] \in R
      BY <1>2
    <3> QED
      BY <2>2, <3>1, <3>2
  <2> QED
    BY <2>1, <2>2
<1>3. S \in T
  <2> HIDE DEF T, S
  <2> QED
    BY <1>1, <1>2, SetInduction
<1> QED
  BY <1>3
=============================================================================
