----------------------------- MODULE IPCRingProofs -----------------------------
(***************************************************************************)
(* The ring of IPCRing keeps its frames for every capacity that divides    *)
(* the range of the 16-bit index (WholeTurns), any number of readers and   *)
(* any number of proxies. IPCRingOddCapacity is about the other ones. What *)
(* the proofs need of remainders is in BasicLemmas.                        *)
(***************************************************************************)
EXTENDS IPCRing, BasicLemmas

WholeTurns == \E turns \in Nat \ {0} : IndexMod = turns * Capacity

\* The element at distance k from the oldest frame, and the number of the frame
\* that belongs there.
At(k)  == (begin + k) % Capacity
Num(k) == (beginSeq + k) % SeqMod

\* The producer has the bounds for as long as its put goes on, and is alone.
Locks ==
    /\ boundsLocked <=> wpc # "idle"
    /\ Putting => boundsReaders = {} /\ size > 0 /\ wseq = Num(size - 1)
    /\ eltLocked = IF wpc \in {"lockElt", "copy", "unlockElt"} THEN {BackIndex} ELSE {}
    /\ wpc \in {"copy", "unlockElt", "unlockBounds"} => eltReaders[BackIndex] = {}
    /\ \A r \in Readers :
          rpc[r] \in {"find", "findLatest", "shareElt", "return"} <=> r \in boundsReaders

\* Each element contains what belongs there; the one that is being produced, a frame
\* Capacity numbers older or none before the copy, and no frame during it.
Complete(k) == k < IF wpc \in {"lockElt", "copy"} THEN size - 1 ELSE size
Contents ==
    /\ nextSeq = Num(size)
    /\ \A k \in Slots : Complete(k) => slot[At(k)] = Num(k)
    /\ \A k \in Slots : k >= size => slot[At(k)] = NoFrame
    /\ wpc = "lockElt" => \/ slot[BackIndex] = NoFrame
                          \/ wseq = (slot[BackIndex] + Capacity) % SeqMod

\* What a reader has found stays there until it has shared the element's lock, and
\* after that for as long as its proxy lives.
Found   == \A r \in Readers : rpc[r] = "shareElt" => slot[relt[r]] = rnum[r]
Proxies == \A i \in Slots : \A p \in eltReaders[i] : slot[i] = p[2]

IInv == TypeOK /\ Locks /\ Contents /\ Found /\ Proxies
-----------------------------------------------------------------------------
\* Indices and numbers stay in their ranges.
LEMMA Ranges ==
    ASSUME NEW a \in Nat
    PROVE  /\ a % Capacity \in Slots /\ a % SeqMod \in Seqs
           /\ a % IndexMod \in 0..IndexMod-1 /\ a % IndexMod \in Nat
BY RingAssumption DEF Slots, Seqs

LEMMA OneLess == ASSUME NEW a \in Nat, NEW b \in Nat, b > 0 PROVE a + b - 1 \in Nat
OBVIOUS

LEMMA Sums ==
    ASSUME TypeOK
    PROVE  /\ begin + 1 \in Nat /\ beginSeq + 1 \in Nat /\ nextSeq + 1 \in Nat
           /\ begin + size \in Nat /\ (size > 0 => begin + size - 1 \in Nat)
           /\ nextSeq + SeqMod - 1 \in Nat
           /\ \A num \in Seqs : num + SeqMod - beginSeq \in Nat
BY RingAssumption DEF TypeOK, Seqs

LEMMA TypeOfPut ==
    ASSUME TypeOK, LockBounds \/ PutStep
    PROVE  TypeOK'
<1> USE RingAssumption DEF TypeOK
<1>1. CASE LockBounds
  BY <1>1 DEF LockBounds, GoWriter, ringVars, readerVars
<1>2. CASE Produce
  <2>1. UNCHANGED <<slot, boundsLocked, boundsReaders, eltReaders, readerVars>> /\ wpc' = "lockElt"
    BY <1>2 DEF Produce, GoWriter
  <2>2. wseq' \in Seqs /\ nextSeq' \in Seqs
    BY <1>2, Ranges, Sums, Zenon DEF Produce
  <2>3. begin' \in 0..IndexMod-1 /\ beginSeq' \in Seqs
    BY <1>2, Ranges, Sums, Zenon DEF Produce
  <2>5. size' \in 0..Capacity /\ size' > 0
    BY <1>2 DEF Produce
  <2>4. BackIndex' \in Slots
    <3>1. begin' + size' - 1 \in Nat
      <4>1. begin' \in Nat /\ size' \in Nat /\ size' > 0
        BY <2>3, <2>5
      <4> QED
        BY <4>1, OneLess, Zenon
    <3>2. (begin' + size' - 1) % IndexMod \in Nat
      BY <3>1, Ranges, Zenon
    <3> QED
      BY <3>2, Ranges, Zenon DEF BackIndex
  <2> QED
    BY <1>2, <2>1, <2>2, <2>3, <2>4, <2>5 DEF Produce, readerVars
<1>3. CASE BeginCopy
  BY <1>3 DEF BeginCopy, GoWriter, lockVars, readerVars
<1>4. CASE EndCopy
  BY <1>4 DEF EndCopy, GoWriter, lockVars, readerVars
<1>5. CASE UnlockElt \/ UnlockBounds
  BY <1>5 DEF UnlockElt, UnlockBounds, GoWriter, ringVars, readerVars
<1> QED
  BY <1>1, <1>2, <1>3, <1>4, <1>5 DEF PutStep

LEMMA TypeOfGet ==
    ASSUME TypeOK, NEW r \in Readers,
           (\E num \in Seqs : Get(r, num)) \/ GetLatest(r) \/ GetStep(r) \/ DropProxy(r)
    PROVE  TypeOK'
<1> USE RingAssumption DEF TypeOK
<1>1. CASE (\E num \in Seqs : Get(r, num)) \/ GetLatest(r)
  BY <1>1 DEF Get, GetLatest, GoReader, ringVars, lockVars, writerVars
<1>2. CASE ShareBounds(r)
  BY <1>2 DEF ShareBounds, GoReader, ringVars, writerVars
<1>3. CASE FindBySequence(r)
  <2>1. IndexOfSeq(rnum[r]) \in Slots
    <3>1. rnum[r] \in Seqs
      OBVIOUS
    <3>2. Distance(rnum[r]) \in Seqs
      BY <3>1, Ranges, Sums, Zenon DEF Distance
    <3>3. begin + Distance(rnum[r]) \in Nat
      BY <3>2 DEF Seqs
    <3> QED
      BY <3>3, Ranges, Zenon DEF IndexOfSeq
  <2> QED
    BY <1>3, <2>1 DEF FindBySequence, GoReader, ringVars, lockVars, writerVars
<1>4. CASE FindLatest(r)
  <2>1. (nextSeq + SeqMod - 1) % SeqMod \in Seqs
    BY Ranges, Sums, Zenon
  <2>2. BackIndex \in Slots
    BY <1>4, Ranges, Sums, Zenon DEF FindLatest, BackIndex
  <2> QED
    BY <1>4, <2>1, <2>2 DEF FindLatest, GoReader, ringVars, lockVars, writerVars
<1>5. CASE NotFound(r) \/ GetReturns(r)
  <2>1. 0 \in Seqs /\ 0 \in Slots
    BY DEF Seqs, Slots
  <2> QED
    BY <1>5, <2>1 DEF NotFound, GetReturns, CallEnds, GoReader, ringVars, writerVars
<1>6. CASE ShareElt(r)
  BY <1>6 DEF ShareElt, GoReader, ringVars, writerVars
<1>7. CASE DropProxy(r)
  <2>1. PICK p \in Held(r) : eltReaders' = [eltReaders EXCEPT ![p[1]] = @ \ {<<r, p[2]>>}]
    BY <1>7 DEF DropProxy
  <2>2. eltReaders' \in [Slots -> SUBSET (Readers \X Seqs)]
    BY <2>1
  <2> QED
    BY <1>7, <2>2 DEF DropProxy, ringVars, writerVars, readerVars
<1> QED
  BY <1>1, <1>2, <1>3, <1>4, <1>5, <1>6, <1>7 DEF GetStep

\* The bookkeeping stays within the segment: no index and no number leaves its range,
\* and the size never exceeds the capacity.
THEOREM TypeCorrect == Safe => []TypeOK
<1>1. Init => TypeOK
  <2> SUFFICES ASSUME Init PROVE TypeOK
    OBVIOUS
  <2>1. /\ 0 \in Seqs /\ 0 \in Slots /\ 0 \in 0..IndexMod-1 /\ 0 \in 0..Capacity
    BY RingAssumption DEF Slots, Seqs
  <2> QED
    BY <2>1 DEF Init, TypeOK
<1>2. TypeOK /\ [Next]_vars => TypeOK'
  <2>1. TypeOK /\ UNCHANGED vars => TypeOK'
    BY DEF TypeOK, vars, ringVars, lockVars, writerVars, readerVars
  <2> QED
    BY <2>1, TypeOfPut, TypeOfGet DEF Next
<1> QED
  BY <1>1, <1>2, PTL DEF Safe
-----------------------------------------------------------------------------
\* The 16 bits of an index are lost by no turn of the ring, and one more frame moves
\* every place and every number on by one.
LEMMA CutIndex ==
    ASSUME WholeTurns, NEW a \in Nat, NEW k \in Nat
    PROVE  /\ ((a % IndexMod) + k) % Capacity = (a + k) % Capacity
           /\ (a % IndexMod) % Capacity = a % Capacity
<1>1. PICK turns \in Nat \ {0} : IndexMod = turns * Capacity
  BY DEF WholeTurns
<1>2. Capacity \in Nat \ {0} /\ 0 \in Nat
  BY RingAssumption
<1>3. Shifts(Capacity, turns, a, k) /\ Shifts(Capacity, turns, a, 0)
  BY <1>2, Shift
<1>4. /\ ((a % IndexMod) + k) % Capacity = (a + k) % Capacity
      /\ ((a % IndexMod) + 0) % Capacity = (a + 0) % Capacity
  BY <1>1, <1>3, Zenon DEF Shifts
<1>5. \A x \in Nat : x + 0 = x
  OBVIOUS
<1>6. (a % IndexMod) + 0 = a % IndexMod /\ a + 0 = a
  BY <1>5, Ranges, Zenon
<1> QED
  BY <1>4, <1>6, Zenon

LEMMA Advance ==
    ASSUME WholeTurns, NEW a \in Nat, NEW k \in Nat
    PROVE  /\ (((a + 1) % IndexMod) + k) % Capacity = (a + (k + 1)) % Capacity
           /\ (((a + 1) % SeqMod) + k) % SeqMod = (a + (k + 1)) % SeqMod
           /\ (((a + k) % SeqMod) + 1) % SeqMod = (a + (k + 1)) % SeqMod
<1>1. Capacity \in Nat \ {0} /\ SeqMod \in Nat \ {0} /\ 1 \in Nat
  BY RingAssumption
<1>2. a + 1 \in Nat /\ a + k \in Nat
  OBVIOUS
<1>3. (a + 1) + k = a + (k + 1) /\ (a + k) + 1 = a + (k + 1)
  OBVIOUS
<1>4. (((a + 1) % IndexMod) + k) % Capacity = ((a + 1) + k) % Capacity
  BY <1>2, CutIndex, Zenon
<1>5. (((a + 1) % SeqMod) + k) % SeqMod = ((a + 1) + k) % SeqMod
  BY <1>1, <1>2, RemainderFirst, Zenon
<1>6. (((a + k) % SeqMod) + 1) % SeqMod = ((a + k) + 1) % SeqMod
  BY <1>1, <1>2, RemainderFirst, Zenon
<1> QED
  BY <1>3, <1>4, <1>5, <1>6, Zenon

LEMMA LastPlace ==
    ASSUME WholeTurns, NEW b \in Nat, NEW n \in Nat, n > 0
    PROVE  ((b + n - 1) % IndexMod) % Capacity = (b + (n - 1)) % Capacity
<1>1. b + n - 1 \in Nat /\ b + n - 1 = b + (n - 1)
  OBVIOUS
<1> QED
  BY <1>1, CutIndex, Zenon

\* back() is the place at distance size - 1.
LEMMA BackIsLast ==
    ASSUME WholeTurns, TypeOK, size > 0
    PROVE  /\ BackIndex = At(size - 1) /\ size - 1 \in Slots /\ BackIndex \in Slots
<1>1. begin \in Nat /\ size \in Nat /\ begin + (size - 1) \in Nat /\ size - 1 \in Slots
  BY RingAssumption DEF TypeOK, Slots
<1>2. BackIndex = (begin + (size - 1)) % Capacity
  BY <1>1, LastPlace, Zenon DEF BackIndex
<1>3. (begin + (size - 1)) % Capacity \in Slots
  BY <1>1, Ranges, Zenon
<1> QED
  BY <1>1, <1>2, <1>3 DEF At

\* Each place is at one distance.
LEMMA Places ==
    ASSUME TypeOK
    PROVE  /\ \A k \in Slots : At(k) \in Slots
           /\ \A j, k \in Slots : At(j) = At(k) => j = k
           /\ \A i \in Slots : \E k \in Slots : At(k) = i
<1>1. begin \in Nat /\ Capacity \in Nat \ {0} /\ Slots = 0..Capacity-1
  BY RingAssumption DEF TypeOK, Slots
<1>2. ASSUME NEW k \in Slots PROVE At(k) \in Slots
  <2>1. begin + k \in Nat
    BY <1>1
  <2> QED
    BY <2>1, Ranges, Zenon DEF At
<1>3. ASSUME NEW j \in Slots, NEW k \in Slots, At(j) = At(k) PROVE j = k
  BY <1>1, <1>3, AtMostOnce, Zenon DEF At
<1>4. ASSUME NEW i \in Slots PROVE \E k \in Slots : At(k) = i
  BY <1>1, AtLeastOnce, Zenon DEF At
<1> QED
  BY <1>2, <1>3, <1>4
-----------------------------------------------------------------------------
\* A put begins: every place and number moves on if the ring is full, and the new
\* frame's place has the oldest frame, or none.
LEMMA PlacesAfterProduce ==
    ASSUME WholeTurns, TypeOK, nextSeq = Num(size), Produce
    PROVE  /\ size' \in 1..Capacity /\ begin' \in Nat
           /\ nextSeq' = Num(size)' /\ wseq' = Num(size - 1)'
           /\ BackIndex' = IF size = Capacity THEN At(0) ELSE At(size)
           /\ BackIndex' = At(size - 1)'
           /\ \A k \in Nat : /\ At(k)' = IF size = Capacity THEN At(k + 1) ELSE At(k)
                             /\ Num(k)' = IF size = Capacity THEN Num(k + 1) ELSE Num(k)
<1>1. begin \in Nat /\ beginSeq \in Nat /\ size \in Nat /\ Capacity \in Nat \ {0}
  BY RingAssumption DEF TypeOK, Seqs
<1>2. nextSeq' = (Num(size) + 1) % SeqMod /\ wseq' = Num(size)
  BY DEF Produce
<1>3. (Num(size) + 1) % SeqMod = Num(size + 1)
  BY <1>1, Advance, Zenon DEF Num
<1>4. CASE size = Capacity
  <2>1. begin' = (begin + 1) % IndexMod /\ beginSeq' = (beginSeq + 1) % SeqMod /\ size' = size
    BY <1>4 DEF Produce
  <2>2. \A k \in Nat : At(k)' = At(k + 1) /\ Num(k)' = Num(k + 1)
    BY <1>1, <2>1, Advance, Zenon DEF At, Num
  <2>3. begin' \in Nat
    BY <1>1, <2>1, Ranges, Sums, Zenon
  <2>4. BackIndex' = (begin' + (size' - 1)) % Capacity
    <3>1. size' \in Nat /\ size' > 0
      BY <1>1, <1>4, <2>1
    <3> QED
      BY <2>3, <3>1, LastPlace, Zenon DEF BackIndex
  <2>5. size - 1 \in Nat /\ (size - 1) + 1 = size /\ size' \in 1..Capacity
    BY <1>1, <1>4, <2>1
  <2>6. At(size - 1)' = At(size) /\ Num(size - 1)' = Num(size) /\ Num(size)' = Num(size + 1)
    BY <1>1, <2>1, <2>2, <2>5, Zenon DEF At, Num
  <2>7. At(size) = At(0)
    <3>1. begin + 0 = begin
      BY <1>1
    <3> QED
      BY <1>1, <1>4, <3>1, Turn, Zenon DEF At
  <2> QED
    BY <1>2, <1>3, <1>4, <2>2, <2>3, <2>4, <2>5, <2>6, <2>7, Zenon DEF At
<1>5. CASE size # Capacity
  <2>1. begin' = begin /\ beginSeq' = beginSeq /\ size' = size + 1
    BY <1>5 DEF Produce
  <2>2. \A k \in Nat : At(k)' = At(k) /\ Num(k)' = Num(k)
    BY <2>1, Zenon DEF At, Num
  <2>3. BackIndex' = (begin' + (size' - 1)) % Capacity
    <3>1. size' \in Nat /\ size' > 0
      BY <1>1, <2>1
    <3> QED
      BY <1>1, <2>1, <3>1, LastPlace, Zenon DEF BackIndex
  <2>4. size' - 1 = size /\ size' \in 1..Capacity
    BY <1>1, <1>5, <2>1 DEF TypeOK
  <2>5. At(size - 1)' = At(size) /\ Num(size - 1)' = Num(size) /\ Num(size)' = Num(size + 1)
    BY <2>1, <2>4, Zenon DEF At, Num
  <2> QED
    BY <1>1, <1>2, <1>3, <1>5, <2>1, <2>2, <2>3, <2>4, <2>5, Zenon DEF At
<1> QED
  BY <1>4, <1>5

LEMMA AfterProduce ==
    ASSUME WholeTurns, IInv, Produce
    PROVE  Locks' /\ Contents' /\ Found' /\ Proxies'
<1> USE DEF IInv
<1>1. /\ wpc = "lockBounds" /\ wpc' = "lockElt" /\ boundsReaders = {}
      /\ UNCHANGED <<slot, boundsLocked, boundsReaders, eltReaders, rpc, rnum, relt>>
      /\ eltLocked' = {BackIndex'}
  BY DEF Produce, GoWriter, readerVars
<1>2. /\ size' \in 1..Capacity
      /\ nextSeq' = Num(size)' /\ wseq' = Num(size - 1)'
      /\ BackIndex' = IF size = Capacity THEN At(0) ELSE At(size)
      /\ \A k \in Nat : /\ At(k)' = IF size = Capacity THEN At(k + 1) ELSE At(k)
                        /\ Num(k)' = IF size = Capacity THEN Num(k + 1) ELSE Num(k)
  BY PlacesAfterProduce, Zenon DEF Contents
<1>3. Locks'
  BY <1>1, <1>2 DEF Locks, Putting
<1>4. \A k \in Slots : Complete(k) <=> k < size
  BY <1>1 DEF Complete
<1>5. \A k \in Slots : Complete(k)' <=> k < size' - 1
  BY <1>1 DEF Complete
<1>6. size \in 0..Capacity /\ size' = IF size = Capacity THEN size ELSE size + 1
  BY DEF Produce, TypeOK
<1>7. Capacity \in Nat \ {0} /\ Slots = 0..Capacity-1
  BY RingAssumption DEF Slots
<1>8. ASSUME NEW k \in Slots
      PROVE  /\ k < size' - 1 => slot[At(k)'] = Num(k)'
             /\ k >= size' => slot[At(k)'] = NoFrame
  <2>0. k \in Nat
    BY <1>7
  <2>1. CASE size = Capacity
    <3>1. At(k)' = At(k + 1) /\ Num(k)' = Num(k + 1)
      BY <1>2, <2>0, <2>1, Zenon
    <3>2. k < size' - 1 => k + 1 \in Slots /\ k + 1 < size
      BY <1>6, <1>7, <2>1
    <3>3. ~(k >= size')
      BY <1>6, <1>7, <2>1
    <3> QED
      BY <1>4, <3>1, <3>2, <3>3, Zenon DEF Contents
  <2>2. CASE size # Capacity
    <3>1. At(k)' = At(k) /\ Num(k)' = Num(k)
      BY <1>2, <2>0, <2>2, Zenon
    <3>2. (k < size' - 1 => k < size) /\ (k >= size' => k >= size)
      BY <1>6, <1>7, <2>2
    <3> QED
      BY <1>4, <3>1, <3>2, Zenon DEF Contents
  <2> QED
    BY <2>1, <2>2
<1>9. slot[BackIndex'] = NoFrame \/ wseq' = (slot[BackIndex'] + Capacity) % SeqMod
  <2>1. CASE size = Capacity
    <3>1. 0 \in Slots /\ 0 < size
      BY <1>7, <2>1
    <3>2. slot[At(0)] = Num(0)
      BY <1>4, <3>1, Zenon DEF Contents
    <3>3. Num(0) = beginSeq
      <4>1. beginSeq \in 0..SeqMod-1 /\ SeqMod \in Nat \ {0}
        BY RingAssumption DEF TypeOK, Seqs
      <4>2. beginSeq + 0 = beginSeq /\ beginSeq % SeqMod = beginSeq
        BY <4>1
      <4> QED
        BY <4>2, Zenon DEF Num
    <3>4. wseq' = (beginSeq + Capacity) % SeqMod
      BY <2>1 DEF Produce, Contents, Num
    <3> QED
      BY <1>2, <2>1, <3>2, <3>3, <3>4, Zenon
  <2>2. CASE size # Capacity
    <3>1. size \in Slots /\ size >= size
      BY <1>6, <1>7, <2>2
    <3> QED
      BY <1>2, <2>2, <3>1, Zenon DEF Contents
  <2> QED
    BY <2>1, <2>2
<1>10. Contents'
  BY <1>1, <1>2, <1>5, <1>8, <1>9, Zenon DEF Contents
<1>11. Found' /\ Proxies'
  BY <1>1, Zenon DEF Found, Proxies
<1> QED
  BY <1>3, <1>10, <1>11

\* A copy changes the place at the back, which nobody shares, and no other.
LEMMA AfterCopy ==
    ASSUME WholeTurns, IInv, BeginCopy \/ EndCopy
    PROVE  Locks' /\ Contents' /\ Found' /\ Proxies'
<1> USE DEF IInv
<1> DEFINE new == IF wpc = "lockElt" THEN Torn ELSE wseq
<1>1. /\ \/ wpc = "lockElt" /\ wpc' = "copy"
         \/ wpc = "copy" /\ wpc' = "unlockElt"
      /\ eltReaders[BackIndex] = {}
      /\ slot' = [slot EXCEPT ![BackIndex] = new]
      /\ UNCHANGED <<begin, size, beginSeq, nextSeq, wseq, boundsLocked, boundsReaders,
                     eltLocked, eltReaders, rpc, rnum, relt>>
  <2>1. CASE BeginCopy
    BY <2>1 DEF BeginCopy, GoWriter, lockVars, readerVars
  <2>2. CASE EndCopy
    <3>1. eltReaders[BackIndex] = {}
      BY <2>2 DEF EndCopy, GoWriter, Locks
    <3> QED
      BY <2>2, <3>1 DEF EndCopy, GoWriter, lockVars, readerVars
  <2> QED
    BY <2>1, <2>2
<1>2. Putting /\ boundsReaders = {} /\ size > 0 /\ wseq = Num(size - 1)
  BY <1>1 DEF Locks, Putting
<1>3. BackIndex' = BackIndex /\ \A k : At(k)' = At(k) /\ Num(k)' = Num(k)
  BY <1>1 DEF BackIndex, At, Num
<1>4. Locks'
  BY <1>1, <1>2, <1>3 DEF Locks, Putting
<1>5. /\ slot'[BackIndex] = new
      /\ \A k \in Slots : k # size - 1 => slot'[At(k)] = slot[At(k)]
  <2>1. BackIndex = At(size - 1) /\ size - 1 \in Slots /\ BackIndex \in Slots
    BY <1>2, BackIsLast
  <2>2. \A k \in Slots : k # size - 1 => At(k) # BackIndex
    BY <2>1, Places, Zenon
  <2>3. DOMAIN slot = Slots
    BY DEF TypeOK
  <2> QED
    BY <1>1, <2>1, <2>2, <2>3, Places
<1>6. ASSUME NEW k \in Slots
      PROVE  /\ Complete(k)' => slot'[At(k)] = Num(k)
             /\ k >= size => slot'[At(k)] = NoFrame
  <2>1. CASE k = size - 1
    <3>1. Complete(k)' => wpc = "copy"
      BY <1>1, <2>1 DEF Complete, TypeOK
    <3>2. ~(k >= size)
      BY <2>1 DEF TypeOK
    <3> QED
      BY <1>2, <1>5, <2>1, <3>1, <3>2, BackIsLast
  <2>2. CASE k # size - 1
    <3>1. Complete(k)' => Complete(k)
      BY <1>1, <2>2 DEF Complete, TypeOK, Slots
    <3> QED
      BY <1>5, <2>2, <3>1 DEF Contents
  <2> QED
    BY <2>1, <2>2
<1>7. Contents'
  BY <1>1, <1>3, <1>6, Zenon DEF Contents
<1>8. Found'
  BY <1>1, <1>2 DEF Found, Locks
<1>9. Proxies'
  <2> SUFFICES ASSUME NEW i \in Slots, NEW p \in eltReaders[i] PROVE slot'[i] = p[2]
    BY <1>1 DEF Proxies
  <2>1. i # BackIndex
    BY <1>1
  <2> QED
    BY <1>1, <2>1 DEF Proxies, TypeOK
<1> QED
  BY <1>4, <1>7, <1>8, <1>9

LEMMA AfterLockStep ==
    ASSUME IInv, LockBounds \/ UnlockElt \/ UnlockBounds
    PROVE  Locks' /\ Contents' /\ Found' /\ Proxies'
<1> USE DEF IInv
<1>1. /\ UNCHANGED <<begin, size, beginSeq, nextSeq, slot, wseq, boundsReaders, eltReaders,
                     rpc, rnum, relt>>
      /\ \/ wpc = "idle" /\ wpc' = "lockBounds" /\ boundsLocked' /\ UNCHANGED eltLocked
         \/ wpc = "unlockElt" /\ wpc' = "unlockBounds" /\ eltLocked' = {} /\ UNCHANGED boundsLocked
         \/ wpc = "unlockBounds" /\ wpc' = "idle" /\ ~boundsLocked' /\ UNCHANGED eltLocked
  BY DEF LockBounds, UnlockElt, UnlockBounds, GoWriter, ringVars, readerVars
<1>2. BackIndex' = BackIndex /\ \A k : At(k)' = At(k) /\ Num(k)' = Num(k)
  BY <1>1 DEF BackIndex, At, Num
<1>3. Locks'
  BY <1>1, <1>2 DEF Locks, Putting
<1>4. Contents'
  <2>1. \A k : Complete(k)' <=> Complete(k)
    BY <1>1 DEF Complete
  <2> QED
    BY <1>1, <1>2, <2>1, Zenon DEF Contents
<1>5. Found' /\ Proxies'
  BY <1>1, Zenon DEF Found, Proxies
<1> QED
  BY <1>3, <1>4, <1>5
-----------------------------------------------------------------------------
\* Where no put is under way, a number is found at its place, and only if it is there.
LEMMA Distances ==
    ASSUME TypeOK, NEW num \in Seqs
    PROVE  /\ Distance(num) \in Seqs /\ Num(Distance(num)) = num
           /\ IndexOfSeq(num) = At(Distance(num))
           /\ \A k \in Slots : Num(k) = num => Distance(num) = k
<1>1. SeqMod \in Nat \ {0} /\ beginSeq \in 0..SeqMod-1 /\ num \in 0..SeqMod-1
  BY RingAssumption DEF TypeOK, Seqs
<1>2. Distance(num) \in Seqs
  BY Ranges, Sums, Zenon DEF Distance
<1>3. Num(Distance(num)) = num
  BY <1>1, SumOfDistance, Zenon DEF Distance, Num
<1>4. \A k \in Slots : Num(k) = num => Distance(num) = k
  <2>1. \A k \in Slots : k \in 0..SeqMod-1
    BY RingAssumption DEF Slots
  <2> QED
    BY <1>1, <2>1, DistanceOfSum, Zenon DEF Distance, Num
<1> QED
  BY <1>2, <1>3, <1>4 DEF IndexOfSeq, At

LEMMA PlaceOfNumber ==
    ASSUME TypeOK, Contents, wpc \in {"idle", "lockBounds"}, NEW num \in Seqs
    PROVE  /\ Distance(num) < size => IndexOfSeq(num) \in Slots /\ slot[IndexOfSeq(num)] = num
           /\ \A i \in Slots : slot[i] = num => Distance(num) < size
<1>1. \A k \in Slots : Complete(k) <=> k < size
  BY DEF Complete
<1>2. ASSUME Distance(num) < size
      PROVE  IndexOfSeq(num) \in Slots /\ slot[IndexOfSeq(num)] = num
  <2>1. Distance(num) \in Slots
    BY <1>2, Distances, RingAssumption DEF TypeOK, Slots, Seqs
  <2> QED
    BY <1>1, <1>2, <2>1, Distances, Places, Zenon DEF Contents
<1>3. ASSUME NEW i \in Slots, slot[i] = num
      PROVE  Distance(num) < size
  <2>1. PICK k \in Slots : At(k) = i
    BY Places
  <2>2. num # NoFrame
    BY RingAssumption DEF Seqs
  <2>3. k < size
    <3>1. k < size \/ k >= size
      BY <2>1 DEF Slots, TypeOK
    <3> QED
      BY <1>3, <2>1, <2>2, <3>1, Zenon DEF Contents
  <2>4. Num(k) = num
    BY <1>1, <1>3, <2>1, <2>3, Zenon DEF Contents
  <2> QED
    BY <2>1, <2>3, <2>4, Distances, Zenon
<1> QED
  BY <1>2, <1>3

LEMMA PlaceOfLatest ==
    ASSUME WholeTurns, TypeOK, Contents, wpc \in {"idle", "lockBounds"}, size > 0
    PROVE  slot[BackIndex] = (nextSeq + SeqMod - 1) % SeqMod
<1>1. /\ SeqMod \in Nat \ {0} /\ 1 \in Nat /\ beginSeq \in Nat /\ size \in Nat
      /\ size - 1 \in Nat /\ size - 1 + 1 = size /\ nextSeq \in Nat
  BY RingAssumption DEF TypeOK, Seqs
<1>2. slot[BackIndex] = Num(size - 1)
  <2>1. Complete(size - 1)
    BY <1>1 DEF Complete
  <2> QED
    BY <2>1, BackIsLast DEF Contents
<1>3. nextSeq + SeqMod - 1 = nextSeq + (SeqMod - 1) /\ SeqMod - 1 \in Nat
  BY <1>1
<1>4. (nextSeq + (SeqMod - 1)) % SeqMod = ((beginSeq + size) + (SeqMod - 1)) % SeqMod
  <2>1. beginSeq + size \in Nat
    BY <1>1
  <2> QED
    BY <1>1, <1>3, <2>1, RemainderFirst, Zenon DEF Contents, Num
<1>5. (beginSeq + size) + (SeqMod - 1) = (beginSeq + (size - 1)) + SeqMod
  BY <1>1
<1>6. ((beginSeq + (size - 1)) + SeqMod) % SeqMod = Num(size - 1)
  <2>1. beginSeq + (size - 1) \in Nat
    BY <1>1
  <2> QED
    BY <1>1, <2>1, Turn, Zenon DEF Num
<1> QED
  BY <1>2, <1>3, <1>4, <1>5, <1>6, Zenon

\* Nothing a reader does changes a place or a number.
LEMMA ReadersOnlyRead ==
    ASSUME NEW r \in Readers,
           (\E num \in Seqs : Get(r, num)) \/ GetLatest(r) \/ GetStep(r) \/ DropProxy(r)
    PROVE  UNCHANGED <<ringVars, writerVars, boundsLocked, eltLocked>>
BY DEF Get, GetLatest, GetStep, ShareBounds, FindBySequence, FindLatest, NotFound, CallEnds,
       ShareElt, GetReturns, DropProxy, lockVars

LEMMA ContentsAfterGet ==
    ASSUME Contents, UNCHANGED <<ringVars, writerVars>>
    PROVE  Contents'
<1>1. BackIndex' = BackIndex /\ \A k : At(k)' = At(k) /\ Num(k)' = Num(k)
  BY DEF BackIndex, At, Num, ringVars
<1>2. \A k : Complete(k)' <=> Complete(k)
  BY DEF Complete, ringVars, writerVars
<1> QED
  BY <1>1, <1>2, Zenon DEF Contents, ringVars, writerVars

LEMMA AfterGet ==
    ASSUME WholeTurns, IInv, NEW r \in Readers,
           (\E num \in Seqs : Get(r, num)) \/ GetLatest(r) \/ GetStep(r) \/ DropProxy(r)
    PROVE  Locks' /\ Found' /\ Proxies'
<1> USE DEF IInv
<1>1. /\ UNCHANGED <<ringVars, writerVars, boundsLocked, eltLocked>>
      /\ UNCHANGED <<begin, size, beginSeq, nextSeq, slot, wpc, wseq>>
  BY ReadersOnlyRead DEF ringVars, writerVars
<1>2. BackIndex' = BackIndex /\ (\A k : Num(k)' = Num(k)) /\ Putting' = Putting
  BY <1>1 DEF BackIndex, Num, Putting
<1>3. ASSUME r \in boundsReaders PROVE wpc \in {"idle", "lockBounds"}
  BY <1>3 DEF Locks, Putting, TypeOK
<1>4. DOMAIN rpc = Readers /\ DOMAIN rnum = Readers /\ DOMAIN relt = Readers /\ rnum[r] \in Seqs
  BY DEF TypeOK
<1>5. CASE (\E num \in Seqs : Get(r, num)) \/ GetLatest(r)
  <2>1. /\ rpc[r] = "idle" /\ rpc' = [rpc EXCEPT ![r] = rpc'[r]]
        /\ rpc'[r] \in {"get", "getLatest"}
        /\ \A q \in Readers : q # r => rnum'[q] = rnum[q]
        /\ UNCHANGED <<boundsReaders, eltReaders, relt>>
    BY <1>4, <1>5 DEF Get, GetLatest, GoReader, lockVars
  <2> QED
    BY <1>1, <1>2, <1>4, <2>1 DEF Locks, Found, Proxies
<1>6. CASE ShareBounds(r)
  <2>1. /\ rpc' = [rpc EXCEPT ![r] = rpc'[r]] /\ rpc'[r] \in {"find", "findLatest"}
        /\ ~boundsLocked /\ boundsReaders' = boundsReaders \cup {r}
        /\ UNCHANGED <<eltReaders, rnum, relt>>
    BY <1>4, <1>6 DEF ShareBounds, GoReader
  <2>2. ~Putting
    BY <2>1 DEF Locks, Putting
  <2> QED
    BY <1>1, <1>2, <1>4, <2>1, <2>2 DEF Locks, Found, Proxies, Putting
<1>7. CASE FindBySequence(r)
  <2>1. /\ rpc[r] = "find" /\ rpc' = [rpc EXCEPT ![r] = "shareElt"]
        /\ Distance(rnum[r]) < size
        /\ relt' = [relt EXCEPT ![r] = IndexOfSeq(rnum[r])]
        /\ UNCHANGED <<boundsReaders, eltReaders, rnum>>
    BY <1>7 DEF FindBySequence, GoReader, lockVars
  <2>2. r \in boundsReaders
    BY <2>1 DEF Locks
  <2>3. slot[IndexOfSeq(rnum[r])] = rnum[r]
    BY <1>3, <1>4, <2>1, <2>2, PlaceOfNumber
  <2> QED
    BY <1>1, <1>2, <1>4, <2>1, <2>2, <2>3 DEF Locks, Found, Proxies
<1>8. CASE FindLatest(r)
  <2>1. /\ rpc[r] = "findLatest" /\ rpc' = [rpc EXCEPT ![r] = "shareElt"] /\ size > 0
        /\ relt' = [relt EXCEPT ![r] = BackIndex]
        /\ rnum' = [rnum EXCEPT ![r] = (nextSeq + SeqMod - 1) % SeqMod]
        /\ UNCHANGED <<boundsReaders, eltReaders>>
    BY <1>8 DEF FindLatest, GoReader, lockVars
  <2>2. r \in boundsReaders
    BY <2>1 DEF Locks
  <2>3. slot[BackIndex] = (nextSeq + SeqMod - 1) % SeqMod
    BY <1>3, <2>1, <2>2, PlaceOfLatest
  <2> QED
    BY <1>1, <1>2, <1>4, <2>1, <2>2, <2>3, Zenon DEF Locks, Found, Proxies
<1>9. CASE NotFound(r) \/ GetReturns(r)
  <2>1. /\ rpc' = [rpc EXCEPT ![r] = "idle"] /\ boundsReaders' = boundsReaders \ {r}
        /\ \A q \in Readers : q # r => rnum'[q] = rnum[q] /\ relt'[q] = relt[q]
        /\ UNCHANGED eltReaders
    BY <1>4, <1>9 DEF NotFound, GetReturns, CallEnds, GoReader
  <2> QED
    BY <1>1, <1>2, <1>4, <2>1 DEF Locks, Found, Proxies
<1>10. CASE ShareElt(r)
  <2>1. /\ rpc[r] = "shareElt" /\ rpc' = [rpc EXCEPT ![r] = "return"]
        /\ eltReaders' = [eltReaders EXCEPT ![relt[r]] = @ \cup {<<r, rnum[r]>>}]
        /\ UNCHANGED <<boundsReaders, rnum, relt>>
    BY <1>10 DEF ShareElt, GoReader
  <2>2. r \in boundsReaders /\ ~Putting
    BY <2>1 DEF Locks
  <2>3. slot[relt[r]] = rnum[r]
    BY <2>1 DEF Found
  <2>4. Proxies'
    BY <1>1, <2>1, <2>3 DEF Proxies, TypeOK
  <2> QED
    BY <1>1, <1>2, <1>4, <2>1, <2>2, <2>4 DEF Locks, Found, Putting
<1>11. CASE DropProxy(r)
  <2>1. PICK p \in Held(r) : eltReaders' = [eltReaders EXCEPT ![p[1]] = @ \ {<<r, p[2]>>}]
    BY <1>11 DEF DropProxy
  <2>2. \A i \in Slots : eltReaders'[i] \subseteq eltReaders[i]
    BY <2>1 DEF TypeOK
  <2>3. UNCHANGED <<boundsReaders, rpc, rnum, relt>>
    BY <1>11 DEF DropProxy, readerVars
  <2>4. Putting => BackIndex \in Slots
    BY BackIsLast DEF Locks
  <2> QED
    BY <1>1, <1>2, <2>2, <2>3, <2>4 DEF Locks, Found, Proxies, Putting
<1> QED
  BY <1>5, <1>6, <1>7, <1>8, <1>9, <1>10, <1>11 DEF GetStep

LEMMA InitialRing == Init => IInv
<1> SUFFICES ASSUME Init PROVE IInv
  OBVIOUS
<1>1. TypeOK
  <2>1. 0 \in Seqs /\ 0 \in Slots /\ 0 \in 0..IndexMod-1 /\ 0 \in 0..Capacity
    BY RingAssumption DEF Slots, Seqs
  <2> QED
    BY <2>1 DEF Init, TypeOK
<1>2. Locks
  BY DEF Init, Locks, Putting
<1>3. Contents
  <2>1. Num(0) = 0
    BY RingAssumption DEF Num, Init
  <2>2. \A k \in Slots : ~Complete(k)
    BY DEF Complete, Init, Slots
  <2> QED
    BY <1>1, <2>1, <2>2, Places DEF Contents, Init
<1>4. Found /\ Proxies
  BY DEF Init, Found, Proxies
<1> QED
  BY <1>1, <1>2, <1>3, <1>4 DEF IInv

LEMMA Inductive ==
    ASSUME WholeTurns, IInv, [Next]_vars
    PROVE  IInv'
<1>1. CASE UNCHANGED vars
  <2>1. TypeOK'
    BY <1>1 DEF IInv, TypeOK, vars, ringVars, lockVars, writerVars, readerVars
  <2>2. Contents'
    BY <1>1, ContentsAfterGet DEF IInv, vars
  <2>3. Locks' /\ Found' /\ Proxies'
    BY <1>1 DEF IInv, Locks, Found, Proxies, Putting, BackIndex, Num, vars, ringVars, lockVars,
                writerVars, readerVars
  <2> QED
    BY <2>1, <2>2, <2>3 DEF IInv
<1>2. CASE LockBounds \/ PutStep
  <2>1. TypeOK'
    BY <1>2, TypeOfPut DEF IInv
  <2>2. Locks' /\ Contents' /\ Found' /\ Proxies'
    BY <1>2, AfterProduce, AfterCopy, AfterLockStep DEF PutStep
  <2> QED
    BY <2>1, <2>2 DEF IInv
<1>3. ASSUME NEW r \in Readers,
             (\E num \in Seqs : Get(r, num)) \/ GetLatest(r) \/ GetStep(r) \/ DropProxy(r)
      PROVE  IInv'
  <2>1. TypeOK'
    BY <1>3, TypeOfGet DEF IInv
  <2>2. Contents'
    BY <1>3, ReadersOnlyRead, ContentsAfterGet DEF IInv
  <2>3. Locks' /\ Found' /\ Proxies'
    BY <1>3, AfterGet
  <2> QED
    BY <2>1, <2>2, <2>3 DEF IInv
<1> QED
  BY <1>1, <1>2, <1>3 DEF Next

LEMMA Invariance ==
    ASSUME WholeTurns
    PROVE  Safe => []IInv
<1>1. IInv /\ [Next]_vars => IInv'
  BY Inductive
<1> QED
  BY <1>1, InitialRing, PTL DEF Safe

\* A reader's proxy shows the frame put under its number until it is dropped, whatever the
\* capacity (of those that divide the index range), the readers and their proxies.
THEOREM FramesAreWhole ==
    ASSUME WholeTurns
    PROVE  Safe => []ProxyShowsItsFrame
<1>1. IInv => ProxyShowsItsFrame
  BY DEF IInv, Proxies, ProxyShowsItsFrame, Held
<1> QED
  BY <1>1, Invariance, PTL

\* Between two puts the ring has exactly the last frames, each where its number leads.
THEOREM FramesAreFound ==
    ASSUME WholeTurns
    PROVE  Safe => []RingInOrder
<1>1. IInv => RingInOrder
  <2> SUFFICES ASSUME IInv, wpc \in {"idle", "lockBounds"}
               PROVE  /\ nextSeq = (beginSeq + size) % SeqMod
                      /\ \A num \in Seqs : Distance(num) < size <=> \E i \in Slots : slot[i] = num
                      /\ \A num \in Seqs : Distance(num) < size => slot[IndexOfSeq(num)] = num
                      /\ size > 0 => slot[BackIndex] = (nextSeq + SeqMod - 1) % SeqMod
    BY DEF RingInOrder
  <2>1. nextSeq = (beginSeq + size) % SeqMod
    BY DEF IInv, Contents, Num
  <2>2. size > 0 => slot[BackIndex] = (nextSeq + SeqMod - 1) % SeqMod
    BY PlaceOfLatest DEF IInv
  <2> QED
    BY <2>1, <2>2, PlaceOfNumber, Zenon DEF IInv
<1> QED
  BY <1>1, Invariance, PTL

\* No frame is written over but by the one that comes Capacity puts later.
OldestIsOverwritten == [][\A i \in Slots :
    slot[i] \in Seqs /\ slot'[i] = Torn => wseq = (slot[i] + Capacity) % SeqMod]_vars

\* The place that is written to is the one where the frame Capacity numbers older lies:
\* put() takes what its buffer had at the front.
THEOREM OldestGoesFirst ==
    ASSUME WholeTurns
    PROVE  Safe => OldestIsOverwritten
<1> DEFINE Kept == \A i \in Slots : slot[i] \in Seqs /\ slot'[i] = Torn
                                 => wseq = (slot[i] + Capacity) % SeqMod
<1>1. ASSUME IInv, [Next]_vars PROVE Kept
  <2>1. CASE BeginCopy
    <3> SUFFICES ASSUME NEW i \in Slots, slot[i] \in Seqs, slot'[i] = Torn
                 PROVE  wseq = (slot[i] + Capacity) % SeqMod
      OBVIOUS
    <3>1. i = BackIndex
      BY <1>1, <2>1, RingAssumption DEF BeginCopy, IInv, TypeOK, Seqs
    <3>2. wpc = "lockElt" /\ slot[i] # NoFrame
      BY <2>1, RingAssumption DEF BeginCopy, GoWriter, Seqs
    <3> QED
      BY <1>1, <3>1, <3>2 DEF IInv, Contents
  <2>2. CASE EndCopy
    <3>1. \A i \in Slots : slot'[i] = slot[i] \/ slot'[i] = wseq
      BY <1>1, <2>2 DEF EndCopy, IInv, TypeOK
    <3> QED
      BY <1>1, <3>1, RingAssumption DEF IInv, TypeOK, Seqs
  <2>3. CASE UNCHANGED slot
    BY <2>3, RingAssumption DEF Seqs
  <2>4. BeginCopy \/ EndCopy \/ UNCHANGED slot
    BY <1>1, ReadersOnlyRead DEF Next, PutStep, LockBounds, Produce, UnlockElt, UnlockBounds, vars,
                                 ringVars
  <2> QED
    BY <2>1, <2>2, <2>3, <2>4
<1>2. IInv /\ [Next]_vars => [Kept]_vars
  BY <1>1
<1> QED
  BY <1>2, Invariance, PTL DEF Safe, OldestIsOverwritten
-----------------------------------------------------------------------------
\* The n numbers from b on, as a sequence.
Window(b, n) == [k \in 1..n |-> (b + k - 1) % SeqMod]

LEMMA InWindow ==
    ASSUME NEW b \in Nat, NEW n \in Nat
    PROVE  /\ Len(Window(b, n)) = n /\ DOMAIN Window(b, n) = 1..n
           /\ \A k \in 0..n-1 : k + 1 \in 1..n /\ Window(b, n)[k + 1] = (b + k) % SeqMod
<1>1. Len(Window(b, n)) = n /\ DOMAIN Window(b, n) = 1..n
  BY DEF Window
<1>2. ASSUME NEW k \in 0..n-1
      PROVE  k + 1 \in 1..n /\ Window(b, n)[k + 1] = (b + k) % SeqMod
  <2>1. k + 1 \in 1..n /\ b + (k + 1) - 1 = b + k
    OBVIOUS
  <2> QED
    BY <2>1, Zenon DEF Window
<1> QED
  BY <1>1, <1>2

LEMMA WindowMoves ==
    ASSUME WholeTurns, NEW b \in Nat, NEW n \in Nat \ {0}
    PROVE  Tail(Window(b, n)) = Window((b + 1) % SeqMod, n - 1)
<1> DEFINE w == Window(b, n)
           c == (b + 1) % SeqMod
<1>1. Len(w) = n /\ DOMAIN w = 1..n
  BY InWindow
<1>2. ASSUME NEW k \in 1..n-1 PROVE w[k + 1] = (c + k - 1) % SeqMod
  <2>1. c \in Nat
    <3>1. b + 1 \in Nat
      OBVIOUS
    <3> QED
      BY <3>1, Ranges DEF Seqs
  <2>2. k - 1 \in Nat /\ (k - 1) + 1 = k /\ k \in 0..n-1
    OBVIOUS
  <2>3. c + k - 1 = c + (k - 1)
    BY <2>1
  <2>4. (c + (k - 1)) % SeqMod = (b + ((k - 1) + 1)) % SeqMod
    BY <2>2, Advance, Zenon
  <2>5. w[k + 1] = (b + k) % SeqMod
    BY <2>2, InWindow
  <2> QED
    BY <2>2, <2>3, <2>4, <2>5, Zenon
<1>3. Tail(w) = [k \in 1..n-1 |-> w[k + 1]]
  BY <1>1 DEF Window
<1> QED
  BY <1>2, <1>3, Zenon DEF Window

LEMMA WindowGrows ==
    ASSUME NEW b \in Nat, NEW n \in Nat \ {0}
    PROVE  Append(Window(b, n - 1), (b + (n - 1)) % SeqMod) = Window(b, n)
<1> DEFINE w == Window(b, n - 1)
           x == (b + (n - 1)) % SeqMod
<1>1. Len(w) = n - 1 /\ DOMAIN w = 1..n-1
  BY InWindow
<1>2. Append(w, x) = [k \in 1..n |-> IF k = n THEN x ELSE w[k]]
  BY <1>1 DEF Window
<1>3. ASSUME NEW k \in 1..n PROVE (IF k = n THEN x ELSE w[k]) = (b + k - 1) % SeqMod
  <2>1. k = n => b + k - 1 = b + (n - 1)
    OBVIOUS
  <2>2. k # n => k \in 1..n-1
    OBVIOUS
  <2> QED
    BY <2>1, <2>2, Zenon DEF Window
<1> QED
  BY <1>2, <1>3, Zenon DEF Window

LEMMA FramesAreWindow == Frames = Window(beginSeq, IF Putting THEN size - 1 ELSE size)
BY DEF Frames, Window

\* What is shared and belongs to no put is among the frames.
LEMMA SharedIsThere ==
    ASSUME WholeTurns, IInv, Putting => wpc = "unlockBounds",
           NEW i \in Slots, slot[i] \in Seqs, Putting => i # BackIndex
    PROVE  \E k \in 1..Len(Frames) : Frames[k] = slot[i]
<1> USE DEF IInv
<1> DEFINE n == IF Putting THEN size - 1 ELSE size
<1>1. n \in Nat /\ beginSeq \in Nat /\ size \in Nat
  BY DEF Locks, TypeOK, Seqs
<1>2. PICK k \in Slots : At(k) = i
  BY Places
<1>3. k \in Nat /\ (k < size \/ k >= size)
  BY <1>1, <1>2 DEF Slots
<1>4. k < size
  BY <1>2, <1>3, RingAssumption DEF Contents, Seqs
<1>5. Putting => k # size - 1
  BY <1>2, BackIsLast DEF Locks
<1>6. k \in 0..n-1 /\ Complete(k)
  BY <1>1, <1>3, <1>4, <1>5 DEF Complete, Putting
<1>7. slot[i] = Num(k)
  BY <1>2, <1>6 DEF Contents
<1>8. k + 1 \in 1..Len(Frames) /\ Frames[k + 1] = Num(k)
  <2> HIDE DEF n
  <2>1. Frames = Window(beginSeq, n)
    BY FramesAreWindow DEF n
  <2> QED
    BY <1>1, <1>6, <2>1, InWindow, Zenon DEF Num
<1> QED
  BY <1>7, <1>8

LEMMA ProduceBeginsPut ==
    ASSUME WholeTurns, IInv, Produce
    PROVE  /\ ~Putting /\ Putting' /\ UNCHANGED <<NextNumber, Shown>>
           /\ Frames' = IF Len(Frames) = Capacity THEN Tail(Frames) ELSE Frames
<1> USE DEF IInv
<1>1. ~Putting /\ Putting' /\ wseq' = nextSeq /\ UNCHANGED <<slot, eltReaders>>
  BY DEF Produce, GoWriter, Putting
<1>2. UNCHANGED <<NextNumber, Shown>>
  BY <1>1 DEF NextNumber, Shown
<1>3. beginSeq \in Nat /\ size \in Nat /\ Capacity \in Nat \ {0}
  BY RingAssumption DEF TypeOK, Seqs
<1>4. Frames = Window(beginSeq, size) /\ Len(Frames) = size
  BY <1>1, <1>3, FramesAreWindow, InWindow
<1>5. Frames' = Window(beginSeq', size' - 1)
  BY <1>1 DEF Frames, Window
<1>6. CASE size = Capacity
  <2>1. beginSeq' = (beginSeq + 1) % SeqMod /\ size' = size
    BY <1>6 DEF Produce
  <2> QED
    BY <1>1, <1>2, <1>3, <1>4, <1>5, <1>6, <2>1, WindowMoves, Zenon
<1>7. CASE size # Capacity
  <2>1. beginSeq' = beginSeq /\ size' - 1 = size
    BY <1>3, <1>7 DEF Produce
  <2> QED
    BY <1>1, <1>2, <1>4, <1>5, <1>7, <2>1, Zenon
<1> QED
  BY <1>6, <1>7

LEMMA UnlockEndsPut ==
    ASSUME WholeTurns, IInv, UnlockBounds
    PROVE  /\ Putting /\ ~Putting' /\ UNCHANGED Shown
           /\ \A h \in Shown : \E k \in 1..Len(Frames) : Frames[k] = h[2]
           /\ Frames' = Append(Frames, NextNumber)
           /\ NextNumber' = (NextNumber + 1) % SeqMod
<1> USE DEF IInv
<1>1. /\ Putting /\ ~Putting' /\ wpc = "unlockBounds"
      /\ UNCHANGED <<beginSeq, size, nextSeq, slot, eltReaders>>
  BY DEF UnlockBounds, GoWriter, Putting, ringVars
<1>2. UNCHANGED Shown
  BY <1>1 DEF Shown
<1>3. wseq = Num(size - 1) /\ eltReaders[BackIndex] = {} /\ size > 0
  BY <1>1 DEF Locks
<1>4. \A h \in Shown : \E k \in 1..Len(Frames) : Frames[k] = h[2]
  <2> SUFFICES ASSUME NEW h \in Shown PROVE \E k \in 1..Len(Frames) : Frames[k] = h[2]
    OBVIOUS
  <2>1. PICK i \in Slots, num \in Seqs : <<h[1], num>> \in eltReaders[i] /\ slot[i] = h[2]
    BY DEF Shown
  <2>2. slot[i] \in Seqs
    BY <2>1 DEF Proxies
  <2>3. i # BackIndex
    BY <1>3, <2>1
  <2> QED
    BY <1>1, <2>1, <2>2, <2>3, SharedIsThere
<1>5. beginSeq \in Nat /\ size \in Nat \ {0} /\ size - 1 \in Nat /\ (size - 1) + 1 = size
  BY <1>3 DEF TypeOK, Seqs
<1>6. Frames' = Append(Frames, NextNumber)
  <2>1. Frames = Window(beginSeq, size - 1) /\ NextNumber = (beginSeq + (size - 1)) % SeqMod
    BY <1>1, <1>3, FramesAreWindow DEF NextNumber, Num
  <2>2. Frames' = Window(beginSeq, size)
    BY <1>1 DEF Frames, Window
  <2> QED
    BY <1>5, <2>1, <2>2, WindowGrows, Zenon
<1>7. NextNumber' = (NextNumber + 1) % SeqMod
  <2>1. NextNumber' = Num(size) /\ NextNumber = Num(size - 1)
    BY <1>1, <1>3 DEF NextNumber, Contents
  <2>2. (Num(size - 1) + 1) % SeqMod = Num((size - 1) + 1)
    BY <1>5, Advance, Zenon DEF Num
  <2> QED
    BY <1>5, <2>1, <2>2, Zenon
<1> QED
  BY <1>1, <1>2, <1>4, <1>6, <1>7

\* The steps between are no steps of the abstract ring.
LEMMA Between ==
    ASSUME IInv, LockBounds \/ BeginCopy \/ EndCopy \/ UnlockElt
    PROVE  UNCHANGED <<Frames, NextNumber, Putting, Shown>>
<1> USE DEF IInv
<1>1. UNCHANGED <<Putting, beginSeq, size, nextSeq, wseq, eltReaders>>
  BY DEF LockBounds, BeginCopy, EndCopy, UnlockElt, GoWriter, ringVars, lockVars, Putting
<1>2. \A i \in Slots : eltReaders[i] # {} => slot'[i] = slot[i]
  <2>1. CASE BeginCopy
    BY <2>1 DEF BeginCopy, TypeOK
  <2>2. CASE EndCopy
    <3>1. eltReaders[BackIndex] = {}
      BY <2>2 DEF EndCopy, GoWriter, Locks
    <3> QED
      BY <2>2, <3>1 DEF EndCopy, TypeOK
  <2>3. CASE LockBounds \/ UnlockElt
    BY <2>3 DEF LockBounds, UnlockElt, ringVars
  <2> QED
    BY <2>1, <2>2, <2>3
<1>3. UNCHANGED Shown
  <2>1. \A h, i, num : i \in Slots =>
            (<<h, num>> \in eltReaders'[i] => eltReaders[i] # {} /\ slot'[i] = slot[i])
    BY <1>1, <1>2
  <2> QED
    BY <1>1, <1>2 DEF Shown
<1>4. UNCHANGED <<Frames, NextNumber>>
  BY <1>1 DEF Frames, NextNumber
<1> QED
  BY <1>1, <1>3, <1>4

\* A reader's steps are none but the two that change who shares what.
LEMMA BetweenOfReader ==
    ASSUME NEW r \in Readers, UNCHANGED <<ringVars, writerVars, eltReaders>>
    PROVE  UNCHANGED <<Frames, NextNumber, Putting, Shown>>
BY DEF ringVars, writerVars, Frames, NextNumber, Putting, Shown

LEMMA ShareGets ==
    ASSUME WholeTurns, IInv, NEW r \in Readers, ShareElt(r)
    PROVE  /\ ~Putting /\ UNCHANGED <<Frames, NextNumber, Putting>>
           /\ \E k \in 1..Len(Frames) : Shown' = Shown \cup {<<r, Frames[k]>>}
<1> USE DEF IInv
<1>1. /\ rpc[r] = "shareElt" /\ UNCHANGED <<ringVars, writerVars>>
      /\ eltReaders' = [eltReaders EXCEPT ![relt[r]] = @ \cup {<<r, rnum[r]>>}]
  BY DEF ShareElt, GoReader
<1>2. ~Putting
  BY <1>1 DEF Locks
<1>3. UNCHANGED <<Frames, NextNumber, Putting, slot>>
  BY <1>1 DEF ringVars, writerVars, Frames, NextNumber, Putting
<1>4. slot[relt[r]] = rnum[r] /\ rnum[r] \in Seqs /\ relt[r] \in Slots
  BY <1>1 DEF Found, TypeOK
<1>5. PICK k \in 1..Len(Frames) : Frames[k] = rnum[r]
  BY <1>2, <1>4, SharedIsThere
<1>6. Shown' = Shown \cup {<<r, rnum[r]>>}
  <2>1. \A i \in Slots : eltReaders'[i] = IF i = relt[r] THEN eltReaders[i] \cup {<<r, rnum[r]>>}
                                                      ELSE eltReaders[i]
    BY <1>1 DEF TypeOK
  <2>2. Shown' \subseteq Shown \cup {<<r, rnum[r]>>}
    <3> SUFFICES ASSUME NEW h \in Shown' PROVE h \in Shown \/ h = <<r, rnum[r]>>
      OBVIOUS
    <3>1. PICK i \in Slots, num \in Seqs : <<h[1], num>> \in eltReaders'[i] /\ slot[i] = h[2]
      BY <1>3 DEF Shown
    <3>2. h = <<h[1], h[2]>> /\ h \in Readers \X (Seqs \cup {Torn, NoFrame})
      BY DEF Shown
    <3>3. CASE <<h[1], num>> \in eltReaders[i]
      BY <3>1, <3>2, <3>3 DEF Shown
    <3>4. CASE i = relt[r] /\ <<h[1], num>> = <<r, rnum[r]>>
      BY <1>4, <3>1, <3>2, <3>4
    <3> QED
      BY <2>1, <3>1, <3>3, <3>4
  <2>3. Shown \subseteq Shown'
    BY <1>3, <2>1 DEF Shown
  <2>4. <<r, rnum[r]>> \in Shown'
    BY <1>3, <1>4, <2>1 DEF Shown
  <2> QED
    BY <2>2, <2>3, <2>4
<1> QED
  BY <1>2, <1>3, <1>5, <1>6

LEMMA ProxyDrops ==
    ASSUME IInv, NEW r \in Readers, DropProxy(r)
    PROVE  /\ UNCHANGED <<Frames, NextNumber, Putting>>
           /\ Shown' = Shown \/ \E h \in Shown : h[1] = r /\ Shown' = Shown \ {h}
<1> USE DEF IInv
<1>1. PICK p \in Held(r) : eltReaders' = [eltReaders EXCEPT ![p[1]] = @ \ {<<r, p[2]>>}]
  BY DEF DropProxy
<1>2. UNCHANGED <<Frames, NextNumber, Putting, slot>>
  BY DEF DropProxy, ringVars, writerVars, Frames, NextNumber, Putting
<1>3. p[1] \in Slots /\ p[2] \in Seqs /\ <<r, p[2]>> \in eltReaders[p[1]]
  BY DEF Held
<1>4. slot[p[1]] = p[2]
  BY <1>3 DEF Proxies
<1> DEFINE x == <<r, p[2]>>
<1>5. x \in Shown
  BY <1>3, <1>4 DEF Shown
<1>6. \A i \in Slots : eltReaders'[i] = IF i = p[1] THEN eltReaders[i] \ {x} ELSE eltReaders[i]
  BY <1>1, <1>3 DEF TypeOK
<1>7. Shown' \subseteq Shown
  <2>1. \A i \in Slots : eltReaders'[i] \subseteq eltReaders[i]
    BY <1>6
  <2>2. slot' = slot
    BY <1>2
  <2> QED
    BY <2>1, <2>2 DEF Shown
<1>8. ASSUME NEW h \in Shown, h # x PROVE h \in Shown'
  <2>1. PICK i \in Slots, num \in Seqs : <<h[1], num>> \in eltReaders[i] /\ slot[i] = h[2]
    BY DEF Shown
  <2>2. h = <<h[1], h[2]>> /\ h \in Readers \X (Seqs \cup {Torn, NoFrame})
    BY DEF Shown
  <2>3. num = h[2]
    BY <2>1 DEF Proxies
  <2>4. <<h[1], num>> # x
    BY <1>8, <2>2, <2>3
  <2>5. <<h[1], num>> \in eltReaders'[i]
    BY <1>6, <2>1, <2>4
  <2> QED
    BY <1>2, <2>1, <2>2, <2>5 DEF Shown
<1> HIDE DEF x
<1>9. Shown' = Shown \/ Shown' = Shown \ {x}
  BY <1>7, <1>8
<1>10. x[1] = r
  BY DEF x
<1> QED
  BY <1>2, <1>5, <1>9, <1>10

\* The steps under both levels of locks implement the ring without locks: the last frames,
\* each got by its number and kept until it is dropped, however many there are.
THEOREM Refinement ==
    ASSUME WholeTurns
    PROVE  Safe => ImplementsFrameRing
<1>1. Init => Ring!Init
  <2> SUFFICES ASSUME Init PROVE Frames = <<>> /\ NextNumber = 0 /\ Putting = FALSE /\ Shown = {}
    BY DEF Ring!Init
  <2>1. ~Putting /\ NextNumber = 0 /\ Shown = {}
    BY DEF Init, Putting, NextNumber, Shown
  <2>2. Frames = <<>>
    BY <2>1 DEF Init, Frames
  <2> QED
    BY <2>1, <2>2
<1>2. ASSUME IInv, [Next]_vars PROVE [Ring!Next]_(Ring!ringVars)
  <2>1. CASE Produce
    <3>1. Ring!BeginPut
      BY <1>2, <2>1, ProduceBeginsPut DEF Ring!BeginPut
    <3> QED
      BY <3>1 DEF Ring!Next
  <2>2. CASE UnlockBounds
    <3>1. Ring!EndPut
      BY <1>2, <2>2, UnlockEndsPut DEF Ring!EndPut, Ring!There
    <3> QED
      BY <3>1 DEF Ring!Next
  <2>3. CASE LockBounds \/ BeginCopy \/ EndCopy \/ UnlockElt
    BY <1>2, <2>3, Between DEF Ring!ringVars
  <2>4. ASSUME NEW r \in Readers, ShareElt(r) PROVE Ring!Next
    <3>1. Ring!Get(r)
      BY <1>2, <2>4, ShareGets DEF Ring!Get
    <3> QED
      BY <3>1 DEF Ring!Next
  <2>5. ASSUME NEW r \in Readers, DropProxy(r) PROVE [Ring!Next]_(Ring!ringVars)
    <3>1. Ring!Drop(r) \/ UNCHANGED <<Frames, NextNumber, Putting, Shown>>
      BY <1>2, <2>5, ProxyDrops DEF Ring!Drop
    <3> QED
      BY <3>1 DEF Ring!Next, Ring!ringVars
  <2>6. ASSUME NEW r \in Readers,
               (\E num \in Seqs : Get(r, num)) \/ GetLatest(r) \/ GetStep(r), ~ShareElt(r)
        PROVE  UNCHANGED Ring!ringVars
    <3>1. UNCHANGED eltReaders
      BY <2>6 DEF Get, GetLatest, GetStep, ShareBounds, FindBySequence, FindLatest, NotFound,
                  GetReturns, CallEnds, lockVars
    <3> QED
      BY <2>6, <3>1, ReadersOnlyRead, BetweenOfReader DEF Ring!ringVars
  <2>7. CASE UNCHANGED vars
    BY <2>7 DEF vars, ringVars, lockVars, writerVars, Ring!ringVars, Frames, NextNumber, Putting,
                Shown
  <2> QED
    BY <1>2, <2>1, <2>2, <2>3, <2>4, <2>5, <2>6, <2>7 DEF Next, PutStep
<1>3. IInv /\ [Next]_vars => [Ring!Next]_(Ring!ringVars)
  BY <1>2
<1> QED
  BY <1>1, <1>3, Invariance, PTL DEF Safe, ImplementsFrameRing, Ring!Spec

-----------------------------------------------------------------------------
\* The producer waits for readers, with the bounds taken while it waits for a proxy to go.
\* Those that it waits for can go on: a call that shares the bounds never waits for an
\* element, and a thread that has a proxy is not in a call that waits for the bounds.
ReadersGoOn ==
    /\ \A r \in boundsReaders :
        /\ rpc[r] \in {"find", "findLatest", "shareElt", "return"}
        /\ rpc[r] = "shareElt" => relt[r] \notin eltLocked
    /\ \A i \in Slots : \A p \in eltReaders[i] : rpc[p[1]] \notin {"get", "getLatest"}

\* What it follows from, of the locks and of proxies.
Turns ==
    /\ boundsLocked <=> wpc # "idle"
    /\ Putting => boundsReaders = {}
    /\ eltLocked # {} => wpc \in {"lockElt", "copy", "unlockElt"}
    /\ \A r \in Readers :
          rpc[r] \in {"find", "findLatest", "shareElt", "return"} <=> r \in boundsReaders
    /\ \A i \in Slots : \A p \in eltReaders[i] : rpc[p[1]] \in {"idle", "return"}

\* A reader that may have one proxy, and asks for one, has none.
LEMMA NoneHeld ==
    ASSUME TypeOK, MaxHeld = 1, NEW r \in Readers, Cardinality(Held(r)) < MaxHeld
    PROVE  \A i \in Slots : \A p \in eltReaders[i] : p[1] # r
<1>1. IsFiniteSet(Held(r))
  <2>1. IsFiniteSet(Slots) /\ IsFiniteSet(Seqs)
    BY FS_Interval, RingAssumption DEF Slots, Seqs
  <2>2. IsFiniteSet(Slots \X Seqs)
    BY <2>1, FS_Product
  <2> QED
    BY <2>2, FS_Subset DEF Held
<1>2. Held(r) = {}
  BY <1>1, FS_CardinalityType, FS_EmptySet
<1>3. ASSUME NEW i \in Slots, NEW p \in eltReaders[i], p[1] = r PROVE FALSE
  <2>1. p \in Readers \X Seqs
    BY <1>3 DEF TypeOK
  <2>2. <<i, p[2]>> \in Held(r)
    BY <1>3, <2>1 DEF Held
  <2> QED
    BY <1>2, <2>2
<1> QED
  BY <1>3

LEMMA TurnsInductive ==
    ASSUME TypeOK, Turns, MaxHeld = 1, [Next]_vars
    PROVE  Turns'
<1> USE DEF TypeOK, Turns, Putting
<1>1. CASE UNCHANGED vars
  BY <1>1 DEF vars, ringVars, lockVars, writerVars, readerVars
<1>2. CASE LockBounds \/ PutStep
  <2> USE DEF GoWriter
  <2>1. UNCHANGED <<boundsReaders, eltReaders, rpc>>
    BY <1>2 DEF LockBounds, PutStep, Produce, BeginCopy, EndCopy, UnlockElt, UnlockBounds, lockVars,
                readerVars
  <2>2. boundsLocked' <=> wpc' # "idle"
    BY <1>2 DEF LockBounds, PutStep, Produce, BeginCopy, EndCopy, UnlockElt, UnlockBounds, lockVars
  <2>3. Putting' => boundsReaders = {}
    BY <1>2 DEF LockBounds, PutStep, Produce, BeginCopy, EndCopy, UnlockElt, UnlockBounds
  <2>4. eltLocked' # {} => wpc' \in {"lockElt", "copy", "unlockElt"}
    BY <1>2 DEF LockBounds, PutStep, Produce, BeginCopy, EndCopy, UnlockElt, UnlockBounds, lockVars
  <2> QED
    BY <2>1, <2>2, <2>3, <2>4
<1>3. ASSUME NEW r \in Readers, (\E num \in Seqs : Get(r, num)) \/ GetLatest(r) PROVE Turns'
  <2>1. \A i \in Slots : \A p \in eltReaders[i] : p[1] # r
    BY <1>3, NoneHeld DEF Get, GetLatest
  <2> QED
    BY <1>3, <2>1 DEF Get, GetLatest, GoReader, lockVars, writerVars
<1>4. ASSUME NEW r \in Readers, GetStep(r) PROVE Turns'
  <2> USE DEF GoReader
  <2>1. UNCHANGED <<boundsLocked, wpc, eltLocked>>
    BY <1>4 DEF GetStep, ShareBounds, FindBySequence, FindLatest, NotFound, ShareElt, GetReturns,
                CallEnds, lockVars, writerVars
  <2>2. CASE ShareBounds(r)
    BY <2>1, <2>2 DEF ShareBounds
  <2>3. CASE FindBySequence(r) \/ FindLatest(r)
    BY <2>1, <2>3 DEF FindBySequence, FindLatest, lockVars
  <2>4. CASE NotFound(r) \/ GetReturns(r)
    BY <2>1, <2>4 DEF NotFound, GetReturns, CallEnds
  <2>5. CASE ShareElt(r)
    <3>1. \A i \in Slots : \A p \in eltReaders'[i] : p \in eltReaders[i] \/ p = <<r, rnum[r]>>
      BY <2>5 DEF ShareElt
    <3> QED
      BY <2>1, <2>5, <3>1 DEF ShareElt
  <2> QED
    BY <1>4, <2>2, <2>3, <2>4, <2>5 DEF GetStep
<1>5. ASSUME NEW r \in Readers, DropProxy(r) PROVE Turns'
  <2>1. \A i \in Slots : eltReaders'[i] \subseteq eltReaders[i]
    BY <1>5 DEF DropProxy
  <2> QED
    BY <1>5, <2>1 DEF DropProxy, writerVars, readerVars
<1> QED
  BY <1>1, <1>2, <1>3, <1>4, <1>5 DEF Next

\* Where a reader keeps one proxy at a time, and whatever the capacity: put() never waits
\* for a get() that waits for it. With two proxies a reader can hold the one that the
\* producer waits for, with the bounds taken, while it asks for the other.
THEOREM GetsLetPutsPass ==
    ASSUME MaxHeld = 1
    PROVE  Safe => []ReadersGoOn
<1>1. Init => Turns
  BY DEF Init, Turns, Putting
<1>2. TypeOK /\ Turns => ReadersGoOn
  BY DEF TypeOK, Turns, ReadersGoOn, Putting
<1>3. TypeOK /\ Turns /\ [Next]_vars => Turns'
  BY TurnsInductive
<1> QED
  BY <1>1, <1>2, <1>3, TypeCorrect, PTL DEF Safe
=============================================================================
