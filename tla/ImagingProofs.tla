----------------------------- MODULE ImagingProofs -----------------------------
(***************************************************************************)
(* When the images of a server have one size, its rings can be found: a    *)
(* ring is then only made where there is none, and the name is that of the *)
(* last one made. ImagingResize is about images of several sizes.          *)
(*                                                                         *)
(* For images of any sizes, what a callback was given stays what it was.   *)
(***************************************************************************)
EXTENDS Imaging, BasicLemmas, SequenceTheorems, TLAPS

Sizes == {f.bytes : f \in Formats}

OneSizeOnly == \A b, c \in Sizes : b = c

\* A ring is one of the segments, and has the size of the images.
RingsKnown ==
    /\ Len(segment) \in Nat /\ DOMAIN segment = 1..Len(segment)
    /\ \A r \in DOMAIN segment : DOMAIN segment[r] = {"bytes", "puts", "freed", "locked"}
    /\ DOMAIN ring = Sensors /\ DOMAIN named = Sensors
    /\ \A s \in Sensors : ring[s] # None =>
          ring[s] \in DOMAIN segment /\ segment[ring[s]].bytes \in Sizes
    /\ putting # None => putting.sensor \in Sensors /\ ring[putting.sensor] # None

IInv == RingsKnown /\ RingCanBeFound

\* What is not a server's step leaves rings, segments and names alone.
LEMMA ClientsOnlyRead ==
    ASSUME NEW h, ClientStep(h) \/ LetGo(h) \/ Remake(h)
    PROVE  UNCHANGED <<ring, putting, segment, named>>
BY DEF ClientStep, TakeRegion, OpenRing, Get, Receives, LetGo, Remake, serverVars, memoryVars

LEMMA RingsAfterBeginPut ==
    ASSUME OneSizeOnly, IInv, NEW s \in Sensors, NEW f \in Formats, BeginPut(s, f)
    PROVE  IInv'
<1>1. f.bytes \in Sizes
  BY DEF Sizes
<1>2. putting' = [sensor |-> s, format |-> f, image |-> images']
  BY DEF BeginPut
<1>3. CASE ring[s] = None
  <2> DEFINE new == Len(segment) + 1
  <2>1. CreateRing(s, f.bytes)
    BY <1>3 DEF BeginPut
  <2>2. /\ segment' = [n \in 1..new |->
                          IF n = new THEN [bytes |-> f.bytes, puts |-> <<>>, freed |-> FALSE,
                                           locked |-> FALSE]
                          ELSE [segment[n] EXCEPT !.freed = @ \/ n = None]]
        /\ ring' = [ring EXCEPT ![s] = new] /\ named' = [named EXCEPT ![s] = new]
    BY <1>3, <2>1 DEF CreateRing
  <2>3. DOMAIN segment' = 1..new /\ new \in Nat /\ Len(segment') = new
    BY <2>2 DEF IInv, RingsKnown
  <2>4. \A r \in DOMAIN segment' : DOMAIN segment'[r] = {"bytes", "puts", "freed", "locked"}
    BY <2>2, <2>3 DEF IInv, RingsKnown
  <2>5. \A n \in DOMAIN segment : n \in DOMAIN segment' /\ segment'[n].bytes = segment[n].bytes
    BY <2>2, <2>3 DEF IInv, RingsKnown
  <2>6. new \in DOMAIN segment' /\ segment'[new].bytes = f.bytes
    BY <2>2, <2>3
  <2>7. ring'[s] = new /\ named'[s] = new /\ new # None
    BY <2>2, <2>3, ImagingAssumption DEF IInv, RingsKnown
  <2>8. \A t \in Sensors : t # s => ring'[t] = ring[t] /\ named'[t] = named[t]
    BY <2>2 DEF IInv, RingsKnown
  <2>9. DOMAIN ring' = Sensors /\ DOMAIN named' = Sensors
    BY <2>2 DEF IInv, RingsKnown
  <2>10. \A t \in Sensors : ring'[t] # None =>
            ring'[t] \in DOMAIN segment' /\ segment'[ring'[t]].bytes \in Sizes
    BY <1>1, <2>5, <2>6, <2>7, <2>8 DEF IInv, RingsKnown
  <2>11. \A t \in Sensors : ring'[t] # None => named'[t] = ring'[t]
    BY <2>7, <2>8 DEF IInv, RingCanBeFound
  <2>12. putting'.sensor = s
    BY <1>2
  <2>13. QED
    BY <2>3, <2>4, <2>7, <2>9, <2>10, <2>11, <2>12 DEF IInv, RingsKnown, RingCanBeFound
<1>4. CASE ring[s] # None
  <2>1. segment[ring[s]].bytes = f.bytes
    BY <1>1, <1>4 DEF IInv, RingsKnown, OneSizeOnly
  <2>2. UNCHANGED <<ring, segment, named>>
    BY <1>4, <2>1 DEF BeginPut, memoryVars
  <2>3. putting'.sensor = s
    BY <1>2
  <2>4. QED
    BY <1>4, <2>2, <2>3 DEF IInv, RingsKnown, RingCanBeFound
<1>5. QED
  BY <1>3, <1>4

LEMMA RingsAfterEndPut ==
    ASSUME IInv, EndPut
    PROVE  IInv'
<1> DEFINE r == ring[putting.sensor]
<1>1. /\ segment' = [segment EXCEPT ![r].puts = Append(@, putting.image)]
      /\ putting' = None /\ UNCHANGED <<ring, named>>
  BY DEF EndPut, Announce
<1>2. DOMAIN segment' = DOMAIN segment /\ Len(segment') = Len(segment)
  BY <1>1 DEF IInv, RingsKnown
<1>3. \A n \in DOMAIN segment : /\ DOMAIN segment'[n] = DOMAIN segment[n]
                                /\ segment'[n].bytes = segment[n].bytes
  BY <1>1 DEF IInv, RingsKnown
<1>4. QED
  BY <1>1, <1>2, <1>3 DEF IInv, RingsKnown, RingCanBeFound

LEMMA RingsAfterEnd ==
    ASSUME IInv, Crash \/ Exit
    PROVE  IInv'
<1>1. ring' = NoRings /\ putting' = None
  BY DEF Crash, Exit, Broken
<1>2. /\ Len(segment') \in Nat /\ DOMAIN segment' = 1..Len(segment')
      /\ \A r \in DOMAIN segment' : DOMAIN segment'[r] = {"bytes", "puts", "freed", "locked"}
  <2>1. CASE Crash
    BY <2>1 DEF Crash, IInv, RingsKnown
  <2>2. CASE Exit
    BY <2>2 DEF Exit, IInv, RingsKnown
  <2>3. QED
    BY <2>1, <2>2
<1>3. DOMAIN named' = Sensors
  BY DEF Crash, Exit, IInv, RingsKnown
<1>4. QED
  BY <1>1, <1>2, <1>3 DEF IInv, RingsKnown, RingCanBeFound, NoRings

\* For images of one size, whatever crashes and exits there are and whatever they leave
\* behind: the ring of a sensor has the name by which clients look for it.
THEOREM RingsAreFound ==
    ASSUME OneSizeOnly
    PROVE  Spec => []RingCanBeFound
<1>1. Init => IInv
  BY DEF Init, NoRings, IInv, RingsKnown, RingCanBeFound
<1>2. IInv /\ [Next]_vars => IInv'
  <2> SUFFICES ASSUME IInv, [Next]_vars PROVE IInv'
    OBVIOUS
  <2>1. CASE UNCHANGED vars
    BY <2>1 DEF vars, serverVars, memoryVars, IInv, RingsKnown, RingCanBeFound
  <2>2. CASE \E s \in Sensors, f \in Formats : BeginPut(s, f)
    BY <2>2, RingsAfterBeginPut
  <2>3. CASE Start
    BY <2>3 DEF Start, memoryVars, IInv, RingsKnown, RingCanBeFound
  <2>4. ASSUME NEW h \in Handlers, ClientStep(h) \/ LetGo(h) \/ Remake(h)
        PROVE  IInv'
    <3>1. UNCHANGED <<ring, putting, segment, named>>
      BY <2>4, ClientsOnlyRead
    <3>2. QED
      BY <3>1 DEF IInv, RingsKnown, RingCanBeFound
  <2>5. QED
    BY <2>1, <2>2, <2>3, <2>4, RingsAfterEndPut, RingsAfterEnd DEF Next
<1>3. QED
  BY <1>1, <1>2, PTL DEF Spec, IInv
-----------------------------------------------------------------------------
\* What an application holds. Messages tell the truth about their segment, whatever
\* becomes of it, and the readers' lock keeps the slot of what is held.

Numbers == 0..MaxImages
Rings   == DOMAIN segment \cup {None}

Segments == [bytes : Sizes, puts : Seq(Numbers), freed : BOOLEAN, locked : BOOLEAN]
Puts     == [sensor : Sensors, format : Formats, image : Numbers]
Regions  == [kind : {"region"}, image : Numbers]
Places   == [kind : {"placed"}, sensor : Sensors, bytes : Sizes, num : Nat, ring : Nat,
             image : Numbers]
Holds    == [ring : Nat, num : Nat, image : Numbers, of : Nat]

ServerTyped ==
    /\ up \in BOOLEAN /\ images \in Numbers /\ ends \in 0..MaxEnds
    /\ ring \in [Sensors -> Rings] /\ named \in [Sensors -> Rings]
    /\ putting \in Puts \cup {None} /\ due \in [Handlers -> Numbers]
    /\ ~up => ring = NoRings /\ putting = None
    /\ putting # None => ring[putting.sensor] # None

ClientsTyped ==
    /\ inbox \in [Handlers -> Seq(Regions \cup Places)]
    /\ open \in [Handlers -> [Sensors -> Rings]] /\ getting \in [Handlers -> Rings]
    /\ held \in [Handlers -> SUBSET Holds] /\ seen \in [Handlers -> Numbers]

\* The image has the number in the segment.
Stamped(r, num, image) ==
    /\ r \in DOMAIN segment
    /\ num < Len(segment[r].puts) /\ segment[r].puts[num + 1] = image

MessagesTrue == \A h \in Handlers : \A i \in DOMAIN inbox[h] : inbox[h][i].kind = "placed" =>
    Stamped(inbox[h][i].ring, inbox[h][i].num, inbox[h][i].image)

HeldIntact == \A h \in Handlers : \A p \in held[h] :
    /\ Stamped(p.of, p.num, p.image)
    /\ p.ring \in DOMAIN segment
    /\ segment[p.ring].freed \/ Available(p.ring, p.num)

MInv == segment \in Seq(Segments) /\ ServerTyped /\ ClientsTyped /\ MessagesTrue /\ HeldIntact

\* Segments are never less than they were.
Grown == \A r \in DOMAIN segment :
    /\ r \in DOMAIN segment'
    /\ Len(segment[r].puts) <= Len(segment'[r].puts)
    /\ \A k \in 1..Len(segment[r].puts) : segment'[r].puts[k] = segment[r].puts[k]
    /\ segment[r].freed => segment'[r].freed

LEMMA SegmentsHavePuts ==
    ASSUME segment \in Seq(Segments), NEW r \in DOMAIN segment
    PROVE  /\ segment[r] \in Segments
           /\ segment[r].puts \in Seq(Numbers) /\ Len(segment[r].puts) \in Nat
<1>1. segment[r] \in Segments
  OBVIOUS
<1>2. segment[r].puts \in Seq(Numbers)
  BY <1>1 DEF Segments
<1>3. QED
  BY <1>1, <1>2

LEMMA StampsStay ==
    ASSUME Grown, segment \in Seq(Segments), segment' \in Seq(Segments),
           NEW r, NEW num \in Nat, NEW image, Stamped(r, num, image)
    PROVE  Stamped(r, num, image)'
<1>1. r \in DOMAIN segment /\ r \in DOMAIN segment'
  BY DEF Stamped, Grown
<1>2. segment[r] \in Segments /\ segment'[r] \in Segments
  BY <1>1
<1>3. Len(segment[r].puts) \in Nat /\ Len(segment'[r].puts) \in Nat
  BY <1>2 DEF Segments
<1>4. num < Len(segment[r].puts) /\ segment[r].puts[num + 1] = image
  BY DEF Stamped
<1>5. num + 1 \in 1..Len(segment[r].puts) /\ num < Len(segment'[r].puts)
  BY <1>1, <1>3, <1>4 DEF Grown
<1>6. segment'[r].puts[num + 1] = image
  BY <1>1, <1>4, <1>5 DEF Grown
<1>7. QED
  BY <1>1, <1>5, <1>6 DEF Stamped

\* A segment that is made, and what happens to the ring it replaces.
LEMMA CreateGrows ==
    ASSUME segment \in Seq(Segments), ServerTyped,
           NEW s \in Sensors, NEW b \in Sizes, CreateRing(s, b)
    PROVE  /\ segment' \in Seq(Segments) /\ Grown
           /\ \A r \in DOMAIN segment : segment'[r].puts = segment[r].puts
           /\ ring' \in [Sensors -> Rings'] /\ named' \in [Sensors -> Rings']
           /\ ring'[s] # None
<1> DEFINE old == ring[s]
           new == Len(segment) + 1
           fresh == [bytes |-> b, puts |-> <<>>, freed |-> FALSE, locked |-> FALSE]
<1>1. /\ segment' = [n \in 1..new |-> IF n = new THEN fresh
                                      ELSE [segment[n] EXCEPT !.freed = @ \/ n = old]]
      /\ named' = [named EXCEPT ![s] = IF old = None THEN new ELSE None]
      /\ ring' = [ring EXCEPT ![s] = new]
  BY DEF CreateRing
<1>2. Len(segment) \in Nat /\ DOMAIN segment = 1..Len(segment) /\ new \in Nat
  OBVIOUS
<1>3. fresh \in Segments
  BY DEF Segments
<1>4. ASSUME NEW n \in DOMAIN segment
      PROVE  /\ n \in 1..new /\ segment'[n] \in Segments
             /\ segment'[n].puts = segment[n].puts
             /\ segment[n].freed => segment'[n].freed
  <2>1. n \in 1..new /\ n # new
    BY <1>2
  <2>2. segment[n] \in Segments
    OBVIOUS
  <2>3. segment'[n] = [segment[n] EXCEPT !.freed = @ \/ n = old]
    BY <1>1, <2>1
  <2>4. QED
    BY <2>1, <2>2, <2>3 DEF Segments
<1>5. segment' \in Seq(Segments) /\ DOMAIN segment' = 1..new
  <2>1. \A n \in 1..new : segment'[n] \in Segments
    <3> TAKE n \in 1..new
    <3>1. CASE n = new
      BY <1>1, <1>2, <1>3, <3>1
    <3>2. CASE n \in DOMAIN segment
      BY <1>4, <3>2
    <3>3. QED
      BY <1>2, <3>1, <3>2
  <2>2. segment' \in [1..new -> Segments]
    BY <1>1, <2>1
  <2>3. QED
    BY <1>2, <2>2
<1>6. Grown
  <2> SUFFICES ASSUME NEW r \in DOMAIN segment
               PROVE  /\ r \in DOMAIN segment'
                      /\ Len(segment[r].puts) <= Len(segment'[r].puts)
                      /\ \A k \in 1..Len(segment[r].puts) :
                            segment'[r].puts[k] = segment[r].puts[k]
                      /\ segment[r].freed => segment'[r].freed
    BY DEF Grown
  <2>1. segment[r] \in Segments
    OBVIOUS
  <2>2. Len(segment[r].puts) \in Nat
    BY <2>1 DEF Segments
  <2>3. QED
    BY <1>4, <1>5, <2>2
<1>7. Rings \subseteq Rings' /\ new \in Rings' /\ new # None
  BY <1>2, <1>5, ImagingAssumption DEF Rings
<1>8. ring' \in [Sensors -> Rings'] /\ ring'[s] # None
  BY <1>1, <1>7 DEF ServerTyped
<1>9. named' \in [Sensors -> Rings']
  BY <1>1, <1>7 DEF ServerTyped, Rings
<1>10. QED
  BY <1>4, <1>5, <1>6, <1>8, <1>9


\* A step that lets the segments grow, if anything, keeps messages true; if it writes
\* over no slot that is held, what is held is intact.
LEMMA MessagesStay ==
    ASSUME MessagesTrue, ClientsTyped, Grown,
           segment \in Seq(Segments), segment' \in Seq(Segments), UNCHANGED inbox
    PROVE  MessagesTrue'
<1> SUFFICES ASSUME NEW h \in Handlers, NEW i \in DOMAIN inbox[h],
                    inbox[h][i].kind = "placed"
             PROVE  Stamped(inbox[h][i].ring, inbox[h][i].num, inbox[h][i].image)'
  BY DEF MessagesTrue
<1>1. PICK m : m = inbox[h][i]
  OBVIOUS
<1>2. m \in Places
  BY <1>1 DEF ClientsTyped, Regions
<1>3. m.num \in Nat /\ Stamped(m.ring, m.num, m.image)
  BY <1>1, <1>2 DEF Places, MessagesTrue
<1>4. Stamped(m.ring, m.num, m.image)'
  BY <1>3, StampsStay
<1>5. QED
  BY <1>1, <1>4

LEMMA HoldsStay ==
    ASSUME HeldIntact, ClientsTyped, Grown,
           segment \in Seq(Segments), segment' \in Seq(Segments),
           \A h \in Handlers : \A p \in held[h] :
               Available(p.ring, p.num) => Available(p.ring, p.num)',
           UNCHANGED held
    PROVE  HeldIntact'
<1> SUFFICES ASSUME NEW h \in Handlers, NEW p \in held[h]
             PROVE  /\ Stamped(p.of, p.num, p.image)'
                    /\ p.ring \in DOMAIN segment'
                    /\ segment'[p.ring].freed \/ Available(p.ring, p.num)'
  BY DEF HeldIntact
<1>1. p.num \in Nat
  BY DEF ClientsTyped, Holds
<1>2. Stamped(p.of, p.num, p.image) /\ p.ring \in DOMAIN segment
  BY DEF HeldIntact
<1>3. Stamped(p.of, p.num, p.image)'
  BY <1>1, <1>2, StampsStay
<1>4. QED
  BY <1>2, <1>3 DEF HeldIntact, Grown

\* What is left of the messages is true too.
LEMMA PrefixesStay ==
    ASSUME MessagesTrue, ClientsTyped, Grown,
           segment \in Seq(Segments), segment' \in Seq(Segments),
           NEW lost \in Nat,
           inbox' = [h \in Handlers |-> SubSeq(inbox[h], 1, Len(inbox[h]) - lost)]
    PROVE  inbox' \in [Handlers -> Seq(Regions \cup Places)] /\ MessagesTrue'
<1>1. ASSUME NEW h \in Handlers
      PROVE  /\ inbox'[h] \in Seq(Regions \cup Places)
             /\ \A i \in DOMAIN inbox'[h] : i \in DOMAIN inbox[h] /\ inbox'[h][i] = inbox[h][i]
  <2> DEFINE old == inbox[h]
             n == Len(old) - lost
  <2>1. old \in Seq(Regions \cup Places) /\ n \in Int /\ n <= Len(old) /\ Len(old) \in Nat
    BY LenProperties DEF ClientsTyped
  <2>2. inbox'[h] = SubSeq(old, 1, n)
    OBVIOUS
  <2> HIDE DEF old, n
  <2>3. DOMAIN old = 1..Len(old) /\ \A i \in 1..n : i \in DOMAIN old /\ old[i] \in Regions \cup Places
    BY <2>1, LenProperties, ElementOfSeq
  <2>4. /\ SubSeq(old, 1, n) \in Seq(Regions \cup Places)
        /\ Len(SubSeq(old, 1, n)) = IF 1 <= n THEN n - 1 + 1 ELSE 0
        /\ \A i \in 1..(n - 1 + 1) : SubSeq(old, 1, n)[i] = old[1 + i - 1]
    BY <2>1, <2>3, SubSeqProperties
  <2>5. DOMAIN SubSeq(old, 1, n) \subseteq 1..n /\ \A i \in 1..n : SubSeq(old, 1, n)[i] = old[i]
    BY <2>1, <2>4, LenProperties
  <2>6. QED
    BY <2>2, <2>3, <2>4, <2>5 DEF old
<1>2. inbox' \in [Handlers -> Seq(Regions \cup Places)]
  BY <1>1
<1> SUFFICES ASSUME NEW h \in Handlers, NEW i \in DOMAIN inbox'[h],
                    inbox'[h][i].kind = "placed"
             PROVE  Stamped(inbox[h][i].ring, inbox[h][i].num, inbox[h][i].image)'
  BY <1>2 DEF MessagesTrue
<1>3. PICK m : m = inbox'[h][i]
  OBVIOUS
<1>4. i \in DOMAIN inbox[h] /\ m = inbox[h][i] /\ m \in Places
  BY <1>1, <1>3 DEF ClientsTyped, Regions
<1>5. m.num \in Nat /\ Stamped(m.ring, m.num, m.image)
  BY <1>3, <1>4 DEF Places, MessagesTrue
<1>6. Stamped(m.ring, m.num, m.image)'
  BY <1>5, StampsStay
<1>7. QED
  BY <1>3, <1>6

LEMMA ClientsStay ==
    ASSUME ClientsTyped, Grown, UNCHANGED <<inbox, clientVars>>
    PROVE  ClientsTyped'
<1>1. Rings \subseteq Rings'
  BY DEF Rings, Grown
<1>2. QED
  BY <1>1 DEF ClientsTyped, clientVars

LEMMA MemoryAfterBeginPut ==
    ASSUME MInv, NEW s \in Sensors, NEW f \in Formats, BeginPut(s, f)
    PROVE  MInv'
<1>1. f.bytes \in Sizes
  BY DEF Sizes
<1>2. /\ up = TRUE /\ images' = images + 1 /\ images < MaxImages
      /\ putting' = [sensor |-> s, format |-> f, image |-> images']
      /\ UNCHANGED <<up, due, ends>> /\ UNCHANGED <<inbox, clientVars>>
  BY DEF BeginPut, MInv, ServerTyped
<1>3. /\ segment' \in Seq(Segments) /\ Grown
      /\ \A r \in DOMAIN segment : segment'[r].puts = segment[r].puts
      /\ ring' \in [Sensors -> Rings'] /\ named' \in [Sensors -> Rings']
      /\ ring'[s] # None
  <2>1. CASE CreateRing(s, f.bytes)
    BY <1>1, <2>1, CreateGrows DEF MInv
  <2>2. CASE ring[s] # None /\ UNCHANGED <<memoryVars, ring>>
    <3>1. Grown
      <4>1. \A r \in DOMAIN segment : Len(segment[r].puts) \in Nat
        BY SegmentsHavePuts DEF MInv
      <4>2. QED
        BY <2>2, <4>1 DEF Grown, memoryVars
    <3>2. QED
      BY <2>2, <3>1 DEF MInv, ServerTyped, Rings, memoryVars
  <2>3. QED
    BY <2>1, <2>2 DEF BeginPut
<1>4. images' \in Numbers /\ putting' \in Puts
  BY <1>2, ImagingAssumption DEF MInv, ServerTyped, Numbers, Puts
<1>5. ServerTyped'
  BY <1>2, <1>3, <1>4 DEF MInv, ServerTyped
<1>6. ClientsTyped' /\ MessagesTrue'
  BY <1>2, <1>3, ClientsStay, MessagesStay DEF MInv
<1>7. \A h \in Handlers : \A p \in held[h] : Available(p.ring, p.num) => Available(p.ring, p.num)'
  BY <1>3 DEF MInv, HeldIntact, Available
<1>8. HeldIntact'
  BY <1>2, <1>3, <1>7, HoldsStay DEF MInv, clientVars
<1>9. QED
  BY <1>3, <1>5, <1>6, <1>8 DEF MInv

LEMMA MemoryAfterEnd ==
    ASSUME MInv, Crash \/ Exit
    PROVE  MInv'
<1>1. /\ up' = FALSE /\ ring' = NoRings /\ putting' = None
      /\ ends < MaxEnds /\ ends' = ends + 1 /\ due' = [h \in Handlers |-> 0]
      /\ UNCHANGED <<clientVars, images>>
  BY DEF Crash, Exit, Broken
<1>2. /\ DOMAIN segment' = DOMAIN segment
      /\ \A r \in DOMAIN segment : /\ segment'[r] \in Segments
                                   /\ segment'[r].puts = segment[r].puts
                                   /\ segment[r].freed => segment'[r].freed
  <2>1. \A r \in DOMAIN segment : segment[r] \in Segments
    BY DEF MInv
  <2>2. CASE Crash
    <3>1. segment' = [r \in DOMAIN segment |->
                         [segment[r] EXCEPT !.locked =
                             @ \/ (putting # None /\ r = ring[putting.sensor])]]
      BY <2>2 DEF Crash
    <3>2. QED
      BY <2>1, <3>1 DEF Segments
  <2>3. CASE Exit
    <3>1. segment' = [r \in DOMAIN segment |->
                         [segment[r] EXCEPT !.freed = @ \/ \E s \in Sensors : ring[s] = r]]
      BY <2>3 DEF Exit
    <3>2. ASSUME NEW r \in DOMAIN segment
          PROVE  /\ segment'[r] \in Segments
                 /\ segment'[r].puts = segment[r].puts
                 /\ segment[r].freed => segment'[r].freed
      <4>1. segment'[r] = [segment[r] EXCEPT !.freed = @ \/ \E s \in Sensors : ring[s] = r]
        BY <3>1
      <4>2. (segment[r].freed \/ \E s \in Sensors : ring[s] = r) \in BOOLEAN
        OBVIOUS
      <4>3. QED
        BY <2>1, <4>1, <4>2 DEF Segments
    <3>3. QED
      BY <3>1, <3>2
  <2>4. QED
    BY <2>2, <2>3
<1>3. segment' \in Seq(Segments)
  <2>1. DOMAIN segment = 1..Len(segment) /\ Len(segment) \in Nat
    BY DEF MInv
  <2>2. segment' = [r \in DOMAIN segment |-> segment'[r]]
    <3>1. CASE Crash
      BY <3>1 DEF Crash
    <3>2. CASE Exit
      BY <3>2 DEF Exit
    <3>3. QED
      BY <3>1, <3>2
  <2>3. segment' \in [1..Len(segment) -> Segments]
    BY <1>2, <2>1, <2>2
  <2>4. QED
    BY <2>1, <2>3
<1>4. Grown
  <2>1. \A r \in DOMAIN segment : Len(segment[r].puts) \in Nat
    BY SegmentsHavePuts DEF MInv
  <2>2. QED
    BY <1>2, <2>1 DEF Grown
<1>5. Rings' = Rings /\ None \in Rings
  BY <1>2 DEF Rings
<1>6. ServerTyped'
  <2>1. named' \in [Sensors -> Rings]
    <3>1. CASE Crash
      BY <3>1 DEF Crash, MInv, ServerTyped
    <3>2. CASE Exit
      <4>1. named' = [s \in Sensors |-> IF ring[s] = None THEN named[s] ELSE None]
        BY <3>2 DEF Exit
      <4>2. QED
        BY <1>5, <4>1 DEF MInv, ServerTyped
    <3>3. QED
      BY <3>1, <3>2
  <2>2. ends' \in 0..MaxEnds /\ 0 \in Numbers
    BY <1>1, ImagingAssumption DEF MInv, ServerTyped, Numbers
  <2>3. QED
    BY <1>1, <1>5, <2>1, <2>2 DEF MInv, ServerTyped, NoRings
<1>7. ClientsTyped' /\ MessagesTrue'
  <2>1. PICK lost \in 0..MaxInbox :
            inbox' = [h \in Handlers |-> SubSeq(inbox[h], 1, Len(inbox[h]) - lost)]
    BY DEF Crash, Exit, Broken
  <2>2. lost \in Nat
    OBVIOUS
  <2>3. inbox' \in [Handlers -> Seq(Regions \cup Places)] /\ MessagesTrue'
    BY <1>3, <1>4, <2>1, <2>2, PrefixesStay DEF MInv
  <2>4. QED
    BY <1>1, <1>5, <2>3 DEF MInv, ClientsTyped, clientVars
<1>8. \A h \in Handlers : \A p \in held[h] : Available(p.ring, p.num) => Available(p.ring, p.num)'
  BY <1>2 DEF MInv, HeldIntact, Available
<1>9. HeldIntact'
  BY <1>1, <1>3, <1>4, <1>8, HoldsStay DEF MInv, clientVars
<1>10. QED
  BY <1>3, <1>6, <1>7, <1>9 DEF MInv

\* The slot that is written has no reader, so that what is held is less than a turn old.
LEMMA MemoryAfterEndPut ==
    ASSUME MInv, EndPut
    PROVE  MInv'
<1> DEFINE r == ring[putting.sensor]
           n == Len(segment[r].puts)
           next == Append(segment[r].puts, putting.image)
<1>1. /\ putting # None /\ ReadersOf(r, n) = {}
      /\ segment' = [segment EXCEPT ![r].puts = next]
      /\ Announce(n)
  BY DEF EndPut
<1>2. putting \in Puts /\ r \in DOMAIN segment
  BY <1>1 DEF MInv, ServerTyped, Rings, Puts
<1>3. /\ segment[r] \in Segments /\ segment[r].puts \in Seq(Numbers) /\ n \in Nat
      /\ putting.image \in Numbers
  BY <1>2, SegmentsHavePuts DEF MInv, Puts
<1>4. /\ next \in Seq(Numbers) /\ Len(next) = n + 1 /\ next[n + 1] = putting.image
      /\ \A k \in 1..n : next[k] = segment[r].puts[k]
      /\ Len(segment[r].puts) = n
  BY <1>3
<1> HIDE DEF next, n
<1>5. /\ \A q \in DOMAIN segment \ {r} : segment'[q] = segment[q]
      /\ DOMAIN segment' = DOMAIN segment
  BY <1>1, <1>2
<1>6. /\ segment'[r] \in Segments /\ segment'[r].freed = segment[r].freed
      /\ Len(segment'[r].puts) = n + 1 /\ segment'[r].puts[n + 1] = putting.image
      /\ \A k \in 1..n : segment'[r].puts[k] = segment[r].puts[k]
  <2>1. segment'[r] = [segment[r] EXCEPT !.puts = next]
    BY <1>1, <1>2
  <2>2. segment'[r].puts = next
    BY <1>3, <2>1 DEF Segments
  <2>3. segment'[r] \in Segments /\ segment'[r].freed = segment[r].freed
    BY <1>3, <1>4, <2>1 DEF Segments
  <2>4. QED
    BY <1>4, <2>2, <2>3
<1>7. segment' \in Seq(Segments)
  <2>1. \A q \in DOMAIN segment : segment'[q] \in Segments
    BY <1>5, <1>6 DEF MInv
  <2>2. DOMAIN segment = 1..Len(segment) /\ Len(segment) \in Nat
    BY DEF MInv
  <2>3. segment' = [q \in DOMAIN segment |-> segment'[q]]
    BY <1>1
  <2>4. segment' \in [1..Len(segment) -> Segments]
    BY <2>1, <2>2, <2>3
  <2>5. QED
    BY <2>2, <2>4
<1>8. Grown
  <2> SUFFICES ASSUME NEW q \in DOMAIN segment
               PROVE  /\ q \in DOMAIN segment'
                      /\ Len(segment[q].puts) <= Len(segment'[q].puts)
                      /\ \A k \in 1..Len(segment[q].puts) :
                            segment'[q].puts[k] = segment[q].puts[k]
                      /\ segment[q].freed => segment'[q].freed
    BY DEF Grown
  <2>1. Len(segment[q].puts) \in Nat
    BY SegmentsHavePuts DEF MInv
  <2>2. CASE q = r
    <3>1. n <= n + 1 /\ r \in DOMAIN segment'
      BY <1>2, <1>3, <1>5
    <3>2. QED
      BY <1>4, <1>6, <2>2, <3>1
  <2>3. CASE q # r
    BY <1>5, <2>1, <2>3
  <2>4. QED
    BY <2>2, <2>3
<1>9. Rings' = Rings /\ None \in Rings
  BY <1>5 DEF Rings
<1>10. /\ putting' = None /\ UNCHANGED <<up, ring, named, clientVars, boundVars>>
       /\ inbox' = [h \in Handlers |->
                      inbox[h] \o <<Placed(n)>>
                               \o (IF FitsWire(putting.format) THEN <<Region>> ELSE <<>>)]
       /\ due' = [h \in Handlers |-> IF Reaches(h) THEN putting.image ELSE due[h]]
  BY <1>1 DEF Announce
<1>11. ServerTyped'
  <2>1. due' \in [Handlers -> Numbers]
    BY <1>3, <1>10 DEF MInv, ServerTyped
  <2>2. QED
    BY <1>9, <1>10, <2>1 DEF MInv, ServerTyped, boundVars, NoRings
<1>12. Placed(n) \in Places /\ Region \in Regions
  <2>1. r \in Nat /\ putting.format.bytes \in Sizes /\ putting.sensor \in Sensors
    BY <1>2 DEF MInv, Sizes, Puts
  <2>2. QED
    BY <1>3, <2>1 DEF Placed, Region, Places, Regions
<1>13. \A h \in Handlers :
          /\ inbox'[h] \in Seq(Regions \cup Places)
          /\ \A i \in DOMAIN inbox'[h] :
                \/ i \in DOMAIN inbox[h] /\ inbox'[h][i] = inbox[h][i]
                \/ inbox'[h][i] \in {Placed(n), Region}
  <2> TAKE h \in Handlers
  <2> DEFINE old == inbox[h]
             rest == IF FitsWire(putting.format) THEN <<Region>> ELSE <<>>
  <2>1. old \in Seq(Regions \cup Places)
    BY DEF MInv, ClientsTyped
  <2>2. inbox'[h] = old \o <<Placed(n)>> \o rest
    BY <1>10
  <2> HIDE DEF old
  <2>3. CASE FitsWire(putting.format)
    <3>1. inbox'[h] = Append(Append(old, Placed(n)), Region)
      BY <2>1, <2>2, <2>3, <1>12
    <3>2. QED
      BY <1>12, <2>1, <3>1 DEF old
  <2>4. CASE ~FitsWire(putting.format)
    <3>1. inbox'[h] = Append(old, Placed(n))
      BY <2>1, <2>2, <2>4, <1>12
    <3>2. QED
      BY <1>12, <2>1, <3>1 DEF old
  <2>5. QED
    BY <2>3, <2>4
<1>14. ClientsTyped'
  BY <1>9, <1>10, <1>13 DEF MInv, ClientsTyped, clientVars
<1>15. MessagesTrue'
  <2> SUFFICES ASSUME NEW h \in Handlers, NEW i \in DOMAIN inbox'[h],
                      inbox'[h][i].kind = "placed"
               PROVE  Stamped(inbox[h][i].ring, inbox[h][i].num, inbox[h][i].image)'
    BY DEF MessagesTrue
  <2>1. PICK m : m = inbox'[h][i]
    OBVIOUS
  <2>2. Stamped(m.ring, m.num, m.image)'
    <3>1. CASE m = Placed(n)
      <4>1. m.ring = r /\ m.num = n /\ m.image = putting.image
        BY <3>1 DEF Placed
      <4>2. r \in DOMAIN segment' /\ n < n + 1
        BY <1>2, <1>3, <1>5
      <4>3. QED
        BY <1>6, <4>1, <4>2 DEF Stamped
    <3>2. CASE i \in DOMAIN inbox[h] /\ m = inbox[h][i]
      <4>1. m \in Places /\ m.kind = "placed"
        BY <2>1, <3>2 DEF MInv, ClientsTyped, Regions
      <4>2. m.num \in Nat /\ Stamped(m.ring, m.num, m.image)
        BY <3>2, <4>1 DEF Places, MInv, MessagesTrue
      <4>3. QED
        BY <1>7, <1>8, <4>2, StampsStay DEF MInv
    <3>3. QED
      BY <1>13, <2>1, <3>1, <3>2 DEF Region
  <2>3. QED
    BY <2>1, <2>2
<1>16. ASSUME NEW h \in Handlers, NEW p \in held[h], Available(p.ring, p.num)
       PROVE  Available(p.ring, p.num)'
  <2>1. p.ring \in DOMAIN segment /\ p.num \in Nat
    BY DEF MInv, HeldIntact, ClientsTyped, Holds
  <2>2. CASE p.ring = r
    <3>1. p.num < n /\ n <= p.num + Capacity
      BY <1>4, <1>16, <2>2 DEF Available
    <3>2. p.num % Capacity # n % Capacity
      <4>1. h \notin ReadersOf(r, n)
        BY <1>1
      <4>2. QED
        BY <2>2, <4>1 DEF ReadersOf
    <3>3. n # p.num + Capacity
      BY <2>1, <3>2, Turn, ImagingAssumption
    <3>4. p.num < n + 1 /\ n + 1 <= p.num + Capacity
      BY <1>3, <2>1, <3>1, <3>3, ImagingAssumption
    <3>5. QED
      BY <1>6, <2>2, <3>4 DEF Available
  <2>3. CASE p.ring # r
    BY <1>5, <1>16, <2>1, <2>3 DEF Available
  <2>4. QED
    BY <2>2, <2>3
<1>17. HeldIntact'
  BY <1>7, <1>8, <1>10, <1>16, HoldsStay DEF MInv, clientVars
<1>18. QED
  BY <1>7, <1>11, <1>14, <1>15, <1>17 DEF MInv

\* A client writes to no segment, and takes at most its first message.
LEMMA MemoryAfterReading ==
    ASSUME ClientsTyped, MessagesTrue, NEW h \in Handlers, inbox[h] # <<>>,
           Received(h) \/ UNCHANGED inbox, UNCHANGED segment
    PROVE  inbox' \in [Handlers -> Seq(Regions \cup Places)] /\ MessagesTrue'
<1>1. CASE UNCHANGED inbox
  BY <1>1 DEF ClientsTyped, MessagesTrue, Stamped
<1>2. CASE Received(h)
  <2>1. inbox[h] \in Seq(Regions \cup Places)
    BY DEF ClientsTyped
  <2>2. /\ inbox'[h] = Tail(inbox[h]) /\ inbox'[h] \in Seq(Regions \cup Places)
        /\ \A g \in Handlers \ {h} : inbox'[g] = inbox[g]
        /\ inbox' \in [Handlers -> Seq(Regions \cup Places)]
    BY <1>2, <2>1 DEF Received, ClientsTyped
  <2>3. \A i \in DOMAIN inbox'[h] : i + 1 \in DOMAIN inbox[h] /\ inbox'[h][i] = inbox[h][i + 1]
    BY <2>1, <2>2
  <2>4. \A g \in Handlers : \A i \in DOMAIN inbox'[g] :
            \E j \in DOMAIN inbox[g] : inbox'[g][i] = inbox[g][j]
    BY <2>2, <2>3
  <2>5. QED
    BY <2>2, <2>4 DEF MessagesTrue, Stamped
<1>3. QED
  BY <1>1, <1>2

LEMMA FirstMessage ==
    ASSUME ClientsTyped, NEW h \in Handlers, inbox[h] # <<>>
    PROVE  /\ Head(inbox[h]) \in Regions \cup Places
           /\ 1 \in DOMAIN inbox[h] /\ Head(inbox[h]) = inbox[h][1]
<1>1. inbox[h] \in Seq(Regions \cup Places)
  BY DEF ClientsTyped
<1>2. QED
  BY <1>1

LEMMA MemoryAfterTakeRegion ==
    ASSUME MInv, NEW h \in Handlers, TakeRegion(h)
    PROVE  MInv'
<1>1. /\ inbox[h] # <<>> /\ Head(inbox[h]).kind = "region" /\ Received(h)
      /\ UNCHANGED <<serverVars, memoryVars, boundVars>> /\ UNCHANGED <<open, getting, held>>
      /\ seen' \in {[seen EXCEPT ![h] = Head(inbox[h]).image], seen}
  BY DEF TakeRegion, Receives
<1>2. Head(inbox[h]).image \in Numbers
  BY <1>1, FirstMessage DEF MInv, Regions, Places
<1>3. inbox' \in [Handlers -> Seq(Regions \cup Places)] /\ MessagesTrue'
  BY <1>1, MemoryAfterReading DEF MInv, memoryVars
<1>4. ClientsTyped'
  BY <1>1, <1>2, <1>3 DEF MInv, ClientsTyped, Rings, memoryVars
<1>5. QED
  BY <1>1, <1>3, <1>4 DEF MInv, ServerTyped, Rings, HeldIntact, Stamped, Available,
                          serverVars, memoryVars, boundVars

LEMMA MemoryAfterOpenRing ==
    ASSUME MInv, NEW h \in Handlers, OpenRing(h)
    PROVE  MInv'
<1> DEFINE msg == Head(inbox[h])
           r   == Opened(h, msg)
<1>1. /\ inbox[h] # <<>> /\ msg.kind = "placed" /\ (Received(h) \/ UNCHANGED inbox)
      /\ UNCHANGED <<serverVars, memoryVars, boundVars>> /\ UNCHANGED <<held, seen>>
      /\ open' = [open EXCEPT ![h][msg.sensor] = r] /\ getting' = [getting EXCEPT ![h] = r]
  BY DEF OpenRing, Receives
<1>2. msg \in Places /\ msg.sensor \in Sensors
  BY <1>1, FirstMessage DEF MInv, Regions, Places
<1>3. r \in Rings
  BY <1>2 DEF Opened, MInv, ClientsTyped, ServerTyped, Rings
<1>4. inbox' \in [Handlers -> Seq(Regions \cup Places)] /\ MessagesTrue'
  BY <1>1, MemoryAfterReading DEF MInv, memoryVars
<1> HIDE DEF r
<1>5. open' \in [Handlers -> [Sensors -> Rings]] /\ getting' \in [Handlers -> Rings]
  BY <1>1, <1>2, <1>3 DEF MInv, ClientsTyped
<1>6. ClientsTyped'
  BY <1>1, <1>4, <1>5 DEF MInv, ClientsTyped, Rings, memoryVars
<1>7. QED
  BY <1>1, <1>4, <1>6 DEF MInv, ServerTyped, Rings, HeldIntact, Stamped, Available,
                          serverVars, memoryVars, boundVars

LEMMA MemoryAfterGet ==
    ASSUME MInv, NEW h \in Handlers, Get(h)
    PROVE  MInv'
<1> DEFINE msg == Head(inbox[h])
           r   == getting[h]
           p   == [ring |-> r, num |-> msg.num, image |-> msg.image, of |-> msg.ring]
<1>1. /\ inbox[h] # <<>> /\ msg.kind = "placed" /\ Received(h)
      /\ UNCHANGED <<serverVars, memoryVars, boundVars>> /\ UNCHANGED open
      /\ getting' = [getting EXCEPT ![h] = None] /\ r # None
      /\ \/ (Available(r, msg.num) \/ segment[r].freed) /\ Give(h, msg, r)
         \/ UNCHANGED <<held, seen>>
  BY DEF Get, Receives
<1>2. msg \in Places /\ Stamped(msg.ring, msg.num, msg.image)
  BY <1>1, FirstMessage DEF MInv, Regions, MessagesTrue
<1>3. r \in DOMAIN segment /\ r \in Nat
  BY <1>1 DEF MInv, ClientsTyped, Rings
<1>4. p \in Holds /\ msg.image \in Numbers
  BY <1>2, <1>3 DEF Holds, Places
<1>5. \/ /\ held' = [held EXCEPT ![h] = @ \cup {p}] /\ seen' = [seen EXCEPT ![h] = msg.image]
         /\ Available(r, msg.num) \/ segment[r].freed
      \/ UNCHANGED <<held, seen>>
  BY <1>1 DEF Give
<1> HIDE DEF p, r, msg
<1>6. /\ held' \in [Handlers -> SUBSET Holds] /\ seen' \in [Handlers -> Numbers]
      /\ \A g \in Handlers : \A q \in held'[g] :
            q \in held[g] \/ (q = p /\ (Available(r, msg.num) \/ segment[r].freed))
  <2>1. CASE UNCHANGED <<held, seen>>
    BY <2>1 DEF MInv, ClientsTyped
  <2>2. CASE /\ held' = [held EXCEPT ![h] = @ \cup {p}] /\ seen' = [seen EXCEPT ![h] = msg.image]
             /\ Available(r, msg.num) \/ segment[r].freed
    BY <1>4, <2>2 DEF MInv, ClientsTyped
  <2>3. QED
    BY <1>5, <2>1, <2>2
<1>7. getting' \in [Handlers -> Rings]
  BY <1>1 DEF MInv, ClientsTyped, Rings
<1>8. inbox' \in [Handlers -> Seq(Regions \cup Places)] /\ MessagesTrue'
  BY <1>1, MemoryAfterReading DEF MInv, memoryVars
<1>9. ClientsTyped'
  BY <1>1, <1>6, <1>7, <1>8 DEF MInv, ClientsTyped, Rings, memoryVars
<1>10. \A g \in Handlers : \A q \in held'[g] :
          /\ Stamped(q.of, q.num, q.image) /\ q.ring \in DOMAIN segment
          /\ segment[q.ring].freed \/ Available(q.ring, q.num)
  BY <1>2, <1>3, <1>6 DEF MInv, HeldIntact, p
<1>11. HeldIntact'
  BY <1>1, <1>10 DEF HeldIntact, Stamped, Available, memoryVars
<1>12. QED
  BY <1>1, <1>8, <1>9, <1>11 DEF MInv, ServerTyped, Rings, serverVars, memoryVars, boundVars

LEMMA MemoryAfterLeaving ==
    ASSUME MInv, NEW h \in Handlers, LetGo(h) \/ Remake(h)
    PROVE  MInv'
<1>1. CASE LetGo(h)
  <2>1. /\ UNCHANGED <<serverVars, memoryVars, inbox, open, getting, seen, boundVars>>
        /\ \E p \in held[h] : held' = [held EXCEPT ![h] = @ \ {p}]
    BY <1>1 DEF LetGo
  <2>2. /\ held' \in [Handlers -> SUBSET Holds]
        /\ \A g \in Handlers : held'[g] \subseteq held[g]
    BY <2>1 DEF MInv, ClientsTyped
  <2>3. HeldIntact'
    BY <2>1, <2>2 DEF MInv, HeldIntact, Stamped, Available, memoryVars
  <2>4. QED
    BY <2>1, <2>2, <2>3 DEF MInv, ServerTyped, ClientsTyped, MessagesTrue, Stamped, Rings,
                            serverVars, memoryVars, boundVars
<1>2. CASE Remake(h)
  <2>1. /\ UNCHANGED <<up, ring, putting, memoryVars, inbox, getting, held, seen, boundVars>>
        /\ open' = [open EXCEPT ![h] = NoRings]
        /\ due' \in {[due EXCEPT ![h] = 0], due}
    BY <1>2 DEF Remake
  <2>2. NoRings \in [Sensors -> Rings] /\ 0 \in Numbers
    BY ImagingAssumption DEF NoRings, Rings, Numbers
  <2>3. open' \in [Handlers -> [Sensors -> Rings]] /\ due' \in [Handlers -> Numbers]
    BY <2>1, <2>2 DEF MInv, ClientsTyped, ServerTyped
  <2>4. QED
    BY <2>1, <2>3 DEF MInv, ServerTyped, ClientsTyped, MessagesTrue, HeldIntact, Stamped,
                      Available, Rings, memoryVars, boundVars
<1>3. QED
  BY <1>1, <1>2

\* The segments' invariant, action by action.
LEMMA MemoryInvariance == Spec => []MInv
<1>1. Init => MInv
  <2>1. ASSUME Init PROVE ServerTyped /\ ClientsTyped
    BY <2>1, ImagingAssumption DEF Init, NoRings, ServerTyped, ClientsTyped, Rings, Numbers
  <2>2. QED
    BY <2>1 DEF Init, MInv, MessagesTrue, HeldIntact
<1>2. MInv /\ [Next]_vars => MInv'
  <2> SUFFICES ASSUME MInv, [Next]_vars PROVE MInv'
    OBVIOUS
  <2>1. CASE UNCHANGED vars
    BY <2>1 DEF vars, serverVars, memoryVars, clientVars, boundVars, MInv, ServerTyped,
                ClientsTyped, MessagesTrue, HeldIntact, Stamped, Available, Rings
  <2>2. CASE \E s \in Sensors, f \in Formats : BeginPut(s, f)
    BY <2>2, MemoryAfterBeginPut
  <2>3. CASE Start
    BY <2>3 DEF Start, memoryVars, clientVars, boundVars, MInv, ServerTyped,
                ClientsTyped, MessagesTrue, HeldIntact, Stamped, Available, Rings
  <2>4. ASSUME NEW h \in Handlers, ClientStep(h) \/ LetGo(h) \/ Remake(h)
        PROVE  MInv'
    BY <2>4, MemoryAfterTakeRegion, MemoryAfterOpenRing, MemoryAfterGet, MemoryAfterLeaving
       DEF ClientStep
  <2>5. QED
    BY <2>1, <2>2, <2>3, <2>4, MemoryAfterEndPut, MemoryAfterEnd DEF Next
<1>3. QED
  BY <1>1, <1>2, PTL DEF Spec

\* The variables keep their types, and rings are segments that there are.
THEOREM ImagingTypeCorrect == Spec => []TypeOK
<1>1. MInv => TypeOK
  BY DEF MInv, ServerTyped, ClientsTyped, HeldIntact, Stamped, Available, Rings, Numbers, TypeOK
<1>2. QED
  BY <1>1, MemoryInvariance, PTL

\* Among the images that are in a ring, one slot has one.
LEMMA SlotHasOneImage ==
    ASSUME NEW len \in Nat, NEW j \in Nat, NEW k \in Nat, j < len, k < len,
           j + Capacity >= len, k + Capacity >= len, j % Capacity = k % Capacity
    PROVE  j = k
<1>1. Capacity \in Nat \ {0}
  BY ImagingAssumption
<1> DEFINE first == IF len < Capacity THEN 0 ELSE len - Capacity
<1>2. first \in Nat /\ j - first \in 0..Capacity-1 /\ k - first \in 0..Capacity-1
  BY <1>1
<1>3. first + (j - first) = j /\ first + (k - first) = k
  BY <1>2
<1> HIDE DEF first
<1>4. j - first = k - first
  BY <1>1, <1>2, <1>3, AtMostOnce
<1>5. QED
  BY <1>2, <1>4

\* For images of any sizes, and whether applications free them before their next update
\* or keep them: what a callback was given is the image its message was about, as long as
\* the application has it. No put() writes over it, before or after any crash.
THEOREM HeldImagesAreIntact == Spec => []HeldImagesStay
<1>1. MInv => HeldImagesStay
  <2> SUFFICES ASSUME MInv, NEW h \in Handlers, NEW p \in held[h],
                      p.ring = p.of, ~segment[p.ring].freed
               PROVE  Content(p.ring, p.num) = p.image
    BY DEF HeldImagesStay
  <2> DEFINE puts == segment[p.ring].puts
             len == Len(puts)
             InSlot(k) == k % Capacity = p.num % Capacity /\ k + Capacity >= len
  <2>1. /\ p.ring \in DOMAIN segment /\ Available(p.ring, p.num)
        /\ Stamped(p.ring, p.num, p.image) /\ p.num \in Nat
    BY DEF MInv, HeldIntact, ClientsTyped, Holds
  <2>2. len \in Nat /\ p.num < len /\ puts[p.num + 1] = p.image /\ p.num + Capacity >= len
    BY <2>1, SegmentsHavePuts, ImagingAssumption DEF MInv, Available, Stamped
  <2> HIDE DEF puts, len
  <2>3. p.num \in 0..len-1 /\ InSlot(p.num)
    BY <2>1, <2>2
  <2>4. \A k \in 0..len-1 : InSlot(k) => k = p.num
    BY <2>1, <2>2, SlotHasOneImage
  <2>5. (CHOOSE k \in 0..len-1 : InSlot(k)) = p.num
    BY <2>3, <2>4
  <2>6. Content(p.ring, p.num) = puts[(CHOOSE k \in 0..len-1 : InSlot(k)) + 1]
    BY DEF Content, puts, len
  <2>7. QED
    BY <2>2, <2>5, <2>6
<1>2. QED
  BY <1>1, MemoryInvariance, PTL

-----------------------------------------------------------------------------
\* The server's put() waits for the applications that have an image of the slot. None of
\* them waits in a get(), of the same ring maybe, for the lock that put() has.
HoldersAreFree == \A h \in Handlers : held[h] # {} => getting[h] = None

\* Where applications free their images before they call update() again, whatever the sizes
\* of the images and whoever crashes: who has an image can free it at once. That is what
\* PutReturns rests on, and what an application that keeps its latest image breaks.
THEOREM HoldersCanFree ==
    ASSUME ~Keeps
    PROVE  Spec => []HoldersAreFree
<1> DEFINE FInv == /\ DOMAIN held = Handlers /\ DOMAIN getting = Handlers
                   /\ HoldersAreFree
<1>1. Init => FInv
  BY DEF Init, HoldersAreFree
<1>2. FInv /\ [Next]_vars => FInv'
  <2> SUFFICES ASSUME FInv, [Next]_vars PROVE FInv'
    OBVIOUS
  <2>1. CASE UNCHANGED <<held, getting>>
    BY <2>1 DEF HoldersAreFree
  <2>2. ASSUME NEW h \in Handlers, OpenRing(h) PROVE FInv'
    <3>1. held[h] = {} /\ held' = held
      BY <2>2 DEF OpenRing, Receives
    <3>2. DOMAIN getting' = Handlers /\ \A g \in Handlers \ {h} : getting'[g] = getting[g]
      BY <2>2 DEF OpenRing
    <3> QED
      BY <3>1, <3>2 DEF HoldersAreFree
  <2>3. ASSUME NEW h \in Handlers, Get(h) PROVE FInv'
    <3>1. getting' = [getting EXCEPT ![h] = None]
      BY <2>3 DEF Get
    <3>2. DOMAIN held' = Handlers /\ \A g \in Handlers \ {h} : held'[g] = held[g]
      BY <2>3 DEF Get, Give
    <3> QED
      BY <3>1, <3>2 DEF HoldersAreFree
  <2>4. ASSUME NEW h \in Handlers, LetGo(h) PROVE FInv'
    BY <2>4 DEF LetGo, HoldersAreFree
  <2>5. CASE UNCHANGED vars \/ EndPut \/ Crash \/ Exit \/ Start
             \/ (\E s \in Sensors, f \in Formats : BeginPut(s, f))
             \/ (\E h \in Handlers : TakeRegion(h) \/ Remake(h))
    BY <2>1, <2>5 DEF vars, clientVars, EndPut, Announce, Crash, Exit, Broken, Start, BeginPut,
                      TakeRegion, Remake
  <2> QED
    BY <2>2, <2>3, <2>4, <2>5 DEF Next, ClientStep
<1>3. FInv => HoldersAreFree
  OBVIOUS
<1> QED
  BY <1>1, <1>2, <1>3, PTL DEF Spec

-----------------------------------------------------------------------------
\* The rings as FrameRing sees them. The numbers of the last images, while they are put.
EndsAt(n, count, s) ==
    s \in Seq(Nat) /\ Len(s) = count /\ \A k \in 1..count : s[k] = n - count + k - 1

LEMMA LastNumbersAre ==
    ASSUME NEW n \in Nat, NEW room \in Nat
    PROVE  /\ n < room => EndsAt(n, n, LastNumbers(n, room))
           /\ ~(n < room) => EndsAt(n, room, LastNumbers(n, room))
<1>1. ASSUME NEW count \in Nat, count <= n, count = IF n < room THEN n ELSE room
      PROVE  EndsAt(n, count, LastNumbers(n, room))
  <2>1. LastNumbers(n, room) = [k \in 1..count |-> n - count + k - 1]
    BY <1>1 DEF LastNumbers
  <2>2. \A k \in 1..count : n - count + k - 1 \in Nat
    BY <1>1
  <2>3. LastNumbers(n, room) \in [1..count -> Nat]
    BY <2>1, <2>2
  <2> QED
    BY <1>1, <2>1, <2>3 DEF EndsAt
<1>2. n <= n /\ (~(n < room) => room <= n)
  OBVIOUS
<1> QED
  BY <1>1, <1>2

\* A put takes the place of the oldest number.
LEMMA OldestGoes ==
    ASSUME NEW n \in Nat
    PROVE  LastNumbers(n, Capacity - 1) =
               IF Len(LastNumbers(n, Capacity)) = Capacity THEN Tail(LastNumbers(n, Capacity))
               ELSE LastNumbers(n, Capacity)
<1>1. Capacity \in Nat /\ Capacity - 1 \in Nat /\ Capacity > 0
  BY ImagingAssumption
<1>2. PICK s : s = LastNumbers(n, Capacity)
  OBVIOUS
<1>3. PICK t : t = LastNumbers(n, Capacity - 1)
  OBVIOUS
<1>4. CASE n < Capacity
  <2>1. EndsAt(n, n, s)
    BY <1>1, <1>2, <1>4, LastNumbersAre
  <2>2. EndsAt(n, n, t)
    <3>1. CASE n < Capacity - 1
      BY <1>1, <1>3, <3>1, LastNumbersAre
    <3>2. CASE ~(n < Capacity - 1)
      <4>1. n = Capacity - 1
        BY <1>1, <1>4, <3>2
      <4>2. EndsAt(n, Capacity - 1, t)
        BY <1>1, <1>3, <3>2, LastNumbersAre
      <4> QED
        BY <4>1, <4>2
    <3> QED
      BY <3>1, <3>2
  <2>3. s = t
    BY <2>1, <2>2, SeqEqual DEF EndsAt
  <2>4. Len(s) # Capacity
    BY <1>1, <1>4, <2>1 DEF EndsAt
  <2> QED
    BY <1>2, <1>3, <2>3, <2>4
<1>5. CASE ~(n < Capacity)
  <2>1. ~(n < Capacity - 1)
    BY <1>1, <1>5
  <2>2. EndsAt(n, Capacity, s) /\ EndsAt(n, Capacity - 1, t)
    BY <1>1, <1>2, <1>3, <1>5, <2>1, LastNumbersAre
  <2>3. PICK u : u = Tail(s)
    OBVIOUS
  <2>4. u \in Seq(Nat) /\ Len(u) = Capacity - 1 /\ \A k \in 1..Capacity - 1 : u[k] = s[k + 1]
    BY <1>1, <2>2, <2>3 DEF EndsAt
  <2>5. \A k \in 1..Capacity - 1 : t[k] = u[k]
    <3> TAKE k \in 1..Capacity - 1
    <3>1. k + 1 \in 1..Capacity
      BY <1>1
    <3>2. u[k] = n - Capacity + (k + 1) - 1 /\ t[k] = n - (Capacity - 1) + k - 1
      BY <2>2, <2>4, <3>1 DEF EndsAt
    <3> QED
      BY <1>1, <3>2
  <2>6. t = u
    BY <2>2, <2>4, <2>5, SeqEqual DEF EndsAt
  <2>7. Len(s) = Capacity
    BY <2>2 DEF EndsAt
  <2> QED
    BY <1>2, <1>3, <2>3, <2>6, <2>7
<1> QED
  BY <1>4, <1>5

\* And adds its own.
LEMMA NewestComes ==
    ASSUME NEW n \in Nat
    PROVE  LastNumbers(n + 1, Capacity) = Append(LastNumbers(n, Capacity - 1), n)
<1>1. Capacity \in Nat /\ Capacity - 1 \in Nat /\ Capacity > 0 /\ n + 1 \in Nat
  BY ImagingAssumption
<1>2. PICK s : s = LastNumbers(n, Capacity - 1)
  OBVIOUS
<1>3. PICK t : t = LastNumbers(n + 1, Capacity)
  OBVIOUS
<1>4. PICK u : u = Append(s, n)
  OBVIOUS
<1>5. ASSUME NEW c \in Nat, EndsAt(n, c, s), EndsAt(n + 1, c + 1, t)
      PROVE  t = u
  <2>1. u \in Seq(Nat) /\ Len(u) = c + 1 /\ u[c + 1] = n /\ \A k \in 1..c : u[k] = s[k]
    BY <1>4, <1>5 DEF EndsAt
  <2>2. \A k \in 1..c + 1 : t[k] = u[k]
    <3> TAKE k \in 1..c + 1
    <3>1. t[k] = (n + 1) - (c + 1) + k - 1
      BY <1>5 DEF EndsAt
    <3>2. CASE k = c + 1
      BY <2>1, <3>1, <3>2
    <3>3. CASE k \in 1..c
      <4>1. u[k] = n - c + k - 1
        BY <1>5, <2>1, <3>3 DEF EndsAt
      <4> QED
        BY <3>1, <4>1
    <3> QED
      BY <3>2, <3>3
  <2> QED
    BY <1>5, <2>1, <2>2, SeqEqual DEF EndsAt
<1>6. CASE n < Capacity - 1
  <2>1. EndsAt(n, n, s)
    BY <1>1, <1>2, <1>6, LastNumbersAre
  <2>2. n + 1 < Capacity
    BY <1>1, <1>6
  <2>3. EndsAt(n + 1, n + 1, t)
    BY <1>1, <1>3, <2>2, LastNumbersAre
  <2> QED
    BY <1>2, <1>3, <1>4, <1>5, <2>1, <2>3
<1>7. CASE ~(n < Capacity - 1)
  <2>1. EndsAt(n, Capacity - 1, s)
    BY <1>1, <1>2, <1>7, LastNumbersAre
  <2>2. ~(n + 1 < Capacity)
    BY <1>1, <1>7
  <2>3. EndsAt(n + 1, Capacity, t)
    BY <1>1, <1>3, <2>2, LastNumbersAre
  <2>4. (Capacity - 1) + 1 = Capacity
    BY <1>1
  <2> QED
    BY <1>1, <1>2, <1>3, <1>4, <1>5, <2>1, <2>3, <2>4
<1> QED
  BY <1>6, <1>7

\* What is less than a turn old is there.
Has(s, num) == \E k \in 1..Len(s) : s[k] = num

LEMMA RecentIsThere ==
    ASSUME NEW n \in Nat, NEW room \in Nat, NEW num \in Nat, num < n, n <= num + room
    PROVE  Has(LastNumbers(n, room), num)
<1>1. PICK s : s = LastNumbers(n, room)
  OBVIOUS
<1>2. ASSUME NEW count \in Nat, EndsAt(n, count, s), n <= num + count
      PROVE  Has(s, num)
  <2>1. num - n + count + 1 \in 1..count /\ n - count + (num - n + count + 1) - 1 = num
    BY <1>2
  <2> QED
    BY <1>2, <2>1 DEF EndsAt, Has
<1>3. CASE n < room
  BY <1>1, <1>2, <1>3, LastNumbersAre
<1>4. CASE ~(n < room)
  BY <1>1, <1>2, <1>4, LastNumbersAre
<1> QED
  BY <1>1, <1>3, <1>4

\* The server's rings are not locked by a crash (who is in them is the put that is under
\* way), and have no more images than there have been.
RingsInUse ==
    /\ \A s \in Sensors : ring[s] # None => ~segment[ring[s]].locked
    /\ \A r \in DOMAIN segment :
          Len(segment[r].puts) + (IF putting = None THEN 0 ELSE 1) <= images

\* What FrameRing sees are numbers.
LEMMA RingTyped ==
    ASSUME MInv, NEW r
    PROVE  /\ PutsOf(r) \in Nat /\ Busy(r) \in BOOLEAN
           /\ Frames(r) = LastNumbers(PutsOf(r), IF Busy(r) THEN Capacity - 1 ELSE Capacity)
<1>1. ASSUME Made(r) PROVE Len(segment[r].puts) \in Nat /\ segment[r].locked \in BOOLEAN
  BY <1>1, SegmentsHavePuts DEF MInv, Made, Segments
<1>2. PutsOf(r) \in Nat /\ Busy(r) \in BOOLEAN
  BY <1>1 DEF PutsOf, Busy, Locked
<1> QED
  BY <1>2 DEF Frames

Pairs(of, r) == UNION {{<<h, p.num>> : p \in {q \in of[h] : q.ring = r}} : h \in Handlers}

LEMMA PairsAre ==
    ASSUME NEW of, NEW r
    PROVE  /\ \A x \in Pairs(of, r) : \E h \in Handlers : \E p \in of[h] :
                 p.ring = r /\ x = <<h, p.num>>
           /\ \A h \in Handlers : \A p \in of[h] : p.ring = r => <<h, p.num>> \in Pairs(of, r)
<1>1. ASSUME NEW x \in Pairs(of, r)
      PROVE  \E h \in Handlers : \E p \in of[h] : p.ring = r /\ x = <<h, p.num>>
  <2>1. PICK h \in Handlers : x \in {<<h, p.num>> : p \in {q \in of[h] : q.ring = r}}
    BY <1>1 DEF Pairs
  <2> QED
    BY <2>1
<1>2. ASSUME NEW h \in Handlers, NEW p \in of[h], p.ring = r
      PROVE  <<h, p.num>> \in Pairs(of, r)
  <2>1. <<h, p.num>> \in {<<h, q.num>> : q \in {o \in of[h] : o.ring = r}}
    BY <1>2
  <2> QED
    BY <2>1 DEF Pairs
<1> QED
  BY <1>1, <1>2

\* Before and after a step.
LEMMA HeldOfIs ==
    ASSUME NEW r
    PROVE  /\ \A x \in HeldOf(r) : \E h \in Handlers : \E p \in held[h] :
                 p.ring = r /\ x = <<h, p.num>>
           /\ \A h \in Handlers : \A p \in held[h] : p.ring = r => <<h, p.num>> \in HeldOf(r)
           /\ \A x \in HeldOf(r)' : \E h \in Handlers : \E p \in held'[h] :
                 p.ring = r /\ x = <<h, p.num>>
           /\ \A h \in Handlers : \A p \in held'[h] : p.ring = r => <<h, p.num>> \in HeldOf(r)'
<1>1. HeldOf(r) = Pairs(held, r) /\ HeldOf(r)' = Pairs(held', r)
  BY DEF HeldOf, Pairs
<1> QED
  BY <1>1, PairsAre

\* The steps of FrameRing, from what they do to a ring.
LEMMA RingStays ==
    ASSUME NEW r, UNCHANGED <<PutsOf(r), Busy(r), HeldOf(r)>>
    PROVE  UNCHANGED Ring(r)!ringVars
<1>1. Frames(r)' = Frames(r)
  BY DEF Frames
<1> QED
  BY <1>1 DEF Ring!ringVars

LEMMA RingBegins ==
    ASSUME MInv, MInv', NEW r, ~Busy(r), Busy(r)', UNCHANGED <<PutsOf(r), HeldOf(r)>>
    PROVE  Ring(r)!BeginPut
<1>1. /\ Frames(r) = LastNumbers(PutsOf(r), Capacity) /\ PutsOf(r) \in Nat
      /\ Frames(r)' = LastNumbers(PutsOf(r)', Capacity - 1) /\ Busy(r)' = TRUE
  BY RingTyped DEF Frames
<1>2. Frames(r)' = IF Len(Frames(r)) = Capacity THEN Tail(Frames(r)) ELSE Frames(r)
  BY <1>1, OldestGoes
<1> QED
  BY <1>1, <1>2 DEF Ring!BeginPut

LEMMA RingEnds ==
    ASSUME MInv, MInv', NEW r, Busy(r), ~Busy(r)', PutsOf(r)' = PutsOf(r) + 1,
           PutsOf(r) < MaxImages, UNCHANGED HeldOf(r),
           \A x \in HeldOf(r) : x[2] \in Nat /\ x[2] < PutsOf(r) /\ PutsOf(r) <= x[2] + (Capacity - 1)
    PROVE  Ring(r)!EndPut
<1>1. /\ Frames(r) = LastNumbers(PutsOf(r), Capacity - 1) /\ PutsOf(r) \in Nat
      /\ Frames(r)' = LastNumbers(PutsOf(r)', Capacity) /\ Busy(r) = TRUE /\ Busy(r)' = FALSE
  BY RingTyped DEF Frames
<1>2. Frames(r)' = Append(Frames(r), PutsOf(r))
  BY <1>1, NewestComes
<1>3. PutsOf(r)' = (PutsOf(r) + 1) % (MaxImages + 1)
  BY <1>1, ImagingAssumption
<1>4. \A x \in HeldOf(r) : Has(Frames(r), x[2])
  <2>1. Capacity - 1 \in Nat
    BY ImagingAssumption
  <2> QED
    BY <1>1, <2>1, RecentIsThere
<1> QED
  BY <1>1, <1>2, <1>3, <1>4 DEF Has, Ring!EndPut, Ring!There

LEMMA RingGives ==
    ASSUME MInv, NEW r, ~Busy(r), UNCHANGED <<PutsOf(r), Busy(r)>>,
           NEW h \in Handlers, NEW num \in Nat, num < PutsOf(r), PutsOf(r) <= num + Capacity,
           HeldOf(r)' = HeldOf(r) \cup {<<h, num>>}
    PROVE  Ring(r)!Get(h)
<1>1. Frames(r)' = Frames(r)
  BY DEF Frames
<1>2. Frames(r) = LastNumbers(PutsOf(r), Capacity) /\ PutsOf(r) \in Nat
  BY RingTyped
<1>3. Has(Frames(r), num)
  BY <1>2, RecentIsThere, ImagingAssumption
<1> QED
  BY <1>1, <1>3 DEF Has, Ring!Get

LEMMA RingLosesReader ==
    ASSUME NEW r, UNCHANGED <<PutsOf(r), Busy(r)>>,
           NEW h \in Handlers, NEW num, <<h, num>> \in HeldOf(r),
           HeldOf(r)' = HeldOf(r) \ {<<h, num>>}
    PROVE  Ring(r)!Drop(h)
<1>1. Frames(r)' = Frames(r)
  BY DEF Frames
<1> QED
  BY <1>1 DEF Ring!Drop

-----------------------------------------------------------------------------
\* What a put does to the rings when it begins: its own is made, or nobody was in it.
LEMMA BeginPutOnRings ==
    ASSUME MInv, RingsInUse, NEW s \in Sensors, NEW f \in Formats, BeginPut(s, f)
    PROVE  /\ putting = None /\ putting' # None /\ putting'.sensor = s
           /\ images' = images + 1 /\ UNCHANGED held
           /\ ring'[s] \in DOMAIN segment' /\ ~segment'[ring'[s]].locked
           /\ \A t \in Sensors \ {s} : ring'[t] = ring[t]
           /\ \A r \in DOMAIN segment : /\ r \in DOMAIN segment'
                                        /\ segment'[r].puts = segment[r].puts
                                        /\ segment'[r].locked = segment[r].locked
           /\ \A r \in DOMAIN segment' \ DOMAIN segment :
                 r = ring'[s] /\ Len(segment'[r].puts) = 0
<1>1. /\ putting = None /\ putting' = [sensor |-> s, format |-> f, image |-> images']
      /\ images' = images + 1 /\ UNCHANGED held
  BY DEF BeginPut, clientVars
<1>2. putting' # None /\ putting'.sensor = s
  <2>1. images' \in Nat
    BY <1>1, ImagingAssumption DEF MInv, ServerTyped, Numbers
  <2>2. putting' \in [sensor : Sensors, format : Formats, image : Nat]
    BY <1>1, <2>1
  <2> QED
    BY <1>1, <2>2, ImagingAssumption
<1>3. segment \in Seq(Segments) /\ ring \in [Sensors -> Rings]
  BY DEF MInv, ServerTyped
<1>4. CASE CreateRing(s, f.bytes)
  <2> DEFINE new == Len(segment) + 1
             fresh == [bytes |-> f.bytes, puts |-> <<>>, freed |-> FALSE, locked |-> FALSE]
  <2>1. /\ segment' = [n \in 1..new |-> IF n = new THEN fresh
                                        ELSE [segment[n] EXCEPT !.freed = @ \/ n = ring[s]]]
        /\ ring' = [ring EXCEPT ![s] = new]
    BY <1>4 DEF CreateRing
  <2>2. Len(segment) \in Nat /\ DOMAIN segment = 1..Len(segment) /\ new \in Nat
    BY <1>3
  <2>3. DOMAIN segment' = 1..new /\ segment'[new] = fresh /\ new \in 1..new
    BY <2>1, <2>2
  <2>4. ring'[s] = new /\ \A t \in Sensors \ {s} : ring'[t] = ring[t]
    BY <1>3, <2>1
  <2>5. ASSUME NEW r \in DOMAIN segment
        PROVE  /\ r \in DOMAIN segment'
               /\ segment'[r].puts = segment[r].puts /\ segment'[r].locked = segment[r].locked
    <3>1. r \in 1..new /\ r # new
      BY <2>2
    <3>2. segment'[r] = [segment[r] EXCEPT !.freed = @ \/ r = ring[s]]
      BY <2>1, <3>1
    <3>3. segment[r] \in Segments
      BY <1>3
    <3> QED
      BY <2>3, <3>1, <3>2, <3>3 DEF Segments
  <2>6. ~fresh.locked /\ Len(fresh.puts) = 0
    OBVIOUS
  <2>7. \A r \in DOMAIN segment' \ DOMAIN segment : r = new
    BY <2>2, <2>3
  <2> HIDE DEF fresh, new
  <2> QED
    BY <1>1, <1>2, <2>3, <2>4, <2>5, <2>6, <2>7
<1>5. CASE ring[s] # None /\ UNCHANGED <<memoryVars, ring>>
  <2>1. ring[s] \in DOMAIN segment /\ ~segment[ring[s]].locked
    BY <1>3, <1>5 DEF Rings, RingsInUse
  <2>2. segment' = segment /\ ring' = ring
    BY <1>5 DEF memoryVars
  <2> QED
    BY <1>1, <1>2, <2>1, <2>2
<1> QED
  BY <1>4, <1>5 DEF BeginPut

\* A put begins in its own ring, and in no other one.
LEMMA BeginPutUses ==
    ASSUME MInv, MInv', RingsInUse, NEW s \in Sensors, NEW f \in Formats, BeginPut(s, f)
    PROVE  RingsInUse' /\ \A r \in DOMAIN segment' : RingStep(r)
<1>1. /\ putting = None /\ putting' # None /\ putting'.sensor = s
      /\ images' = images + 1 /\ UNCHANGED held
      /\ ring'[s] \in DOMAIN segment' /\ ~segment'[ring'[s]].locked
      /\ \A t \in Sensors \ {s} : ring'[t] = ring[t]
      /\ \A r \in DOMAIN segment : /\ r \in DOMAIN segment'
                                   /\ segment'[r].puts = segment[r].puts
                                   /\ segment'[r].locked = segment[r].locked
      /\ \A r \in DOMAIN segment' \ DOMAIN segment :
            r = ring'[s] /\ Len(segment'[r].puts) = 0
  BY BeginPutOnRings
<1>2. RingsInUse'
  <2>1. ASSUME NEW t \in Sensors, ring'[t] # None PROVE ~segment'[ring'[t]].locked
    <3>1. CASE t = s
      BY <1>1, <3>1
    <3>2. CASE t # s
      <4>1. ring'[t] = ring[t] /\ ring[t] \in DOMAIN segment
        BY <1>1, <2>1, <3>2 DEF MInv, ServerTyped, Rings
      <4> QED
        BY <1>1, <2>1, <4>1 DEF RingsInUse
    <3> QED
      BY <3>1, <3>2
  <2>2. ASSUME NEW r \in DOMAIN segment' PROVE Len(segment'[r].puts) + 1 <= images'
    <3>1. images \in Nat
      BY ImagingAssumption DEF MInv, ServerTyped, Numbers
    <3>2. CASE r \in DOMAIN segment
      <4>1. Len(segment[r].puts) \in Nat
        BY <3>2, SegmentsHavePuts DEF MInv
      <4>2. Len(segment[r].puts) <= images
        BY <1>1, <3>2, <4>1 DEF RingsInUse
      <4> QED
        BY <1>1, <3>1, <3>2, <4>1, <4>2
    <3>3. CASE r \notin DOMAIN segment
      BY <1>1, <3>1, <3>3
    <3> QED
      BY <3>2, <3>3
  <2> QED
    BY <1>1, <2>1, <2>2 DEF RingsInUse
<1>3. ASSUME NEW r \in DOMAIN segment' PROVE RingStep(r)
  <2>1. PutsOf(r)' = PutsOf(r) /\ HeldOf(r)' = HeldOf(r)
    <3>1. CASE r \in DOMAIN segment
      BY <1>1, <3>1 DEF PutsOf, Made, HeldOf
    <3>2. CASE r \notin DOMAIN segment
      BY <1>1, <1>3, <3>2 DEF PutsOf, Made, HeldOf
    <3> QED
      BY <3>1, <3>2
  <2>2. CASE r = ring'[s]
    <3>1. Busy(r)'
      BY <1>1, <1>3, <2>2 DEF Busy, Made, Locked
    <3>2. ~Busy(r)
      BY <1>1, <2>2 DEF Busy, Made, Locked
    <3> QED
      BY <2>1, <3>1, <3>2, RingBegins DEF RingStep, Ring!Next
  <2>3. CASE r # ring'[s]
    <3>1. r \in DOMAIN segment
      BY <1>1, <1>3, <2>3
    <3>2. Busy(r)' = Busy(r)
      BY <1>1, <1>3, <2>3, <3>1 DEF Busy, Made, Locked
    <3> QED
      BY <2>1, <3>2, RingStays DEF RingStep
  <2> QED
    BY <2>2, <2>3
<1> QED
  BY <1>2, <1>3

\* It ends there, when nobody has the image whose place is taken.
LEMMA EndPutUses ==
    ASSUME MInv, MInv', RingsInUse, EndPut
    PROVE  RingsInUse' /\ \A q \in DOMAIN segment' : ~Freed(q) => RingStep(q)
<1> DEFINE r == ring[putting.sensor]
           n == Len(segment[r].puts)
<1>1. /\ putting # None /\ ReadersOf(r, n) = {} /\ putting' = None
      /\ segment' = [segment EXCEPT ![r].puts = Append(@, putting.image)]
      /\ UNCHANGED <<ring, held, images>>
  BY DEF EndPut, Announce, clientVars, boundVars
<1>2. r \in DOMAIN segment /\ putting.sensor \in Sensors /\ r # None
  BY <1>1 DEF MInv, ServerTyped, Rings, Puts
<1>3. segment[r] \in Segments /\ segment[r].puts \in Seq(Numbers) /\ n \in Nat
  BY <1>2, SegmentsHavePuts DEF MInv
<1>4. /\ DOMAIN segment' = DOMAIN segment
      /\ \A q \in DOMAIN segment \ {r} : segment'[q] = segment[q]
      /\ segment'[r] = [segment[r] EXCEPT !.puts = Append(@, putting.image)]
  BY <1>1, <1>2
<1>5. Len(segment'[r].puts) = n + 1 /\ segment'[r].locked = segment[r].locked
  BY <1>3, <1>4 DEF Segments
<1> HIDE DEF r
<1>6. \A q \in DOMAIN segment : segment'[q].locked = segment[q].locked
  BY <1>4, <1>5
<1>7. n + 1 <= images /\ n < MaxImages
  <2>1. images \in 0..MaxImages /\ MaxImages \in Nat
    BY ImagingAssumption DEF MInv, ServerTyped, Numbers
  <2> QED
    BY <1>1, <1>2, <1>3, <2>1 DEF RingsInUse
<1>8. RingsInUse'
  <2>1. ASSUME NEW q \in DOMAIN segment PROVE Len(segment'[q].puts) <= images
    <3>1. CASE q = r
      BY <1>5, <1>7, <3>1
    <3>2. CASE q # r
      <4>1. Len(segment[q].puts) \in Nat /\ images \in Nat
        BY SegmentsHavePuts, ImagingAssumption DEF MInv, ServerTyped, Numbers
      <4> QED
        BY <1>1, <1>4, <3>2, <4>1 DEF RingsInUse
    <3> QED
      BY <3>1, <3>2
  <2>2. \A q \in DOMAIN segment : Len(segment'[q].puts) + 0 <= images
    <3> TAKE q \in DOMAIN segment
    <3>1. Len(segment'[q].puts) \in Nat
      BY <1>4, SegmentsHavePuts DEF MInv
    <3> QED
      BY <2>1, <3>1
  <2>3. \A s \in Sensors : ring[s] # None => ~segment'[ring[s]].locked
    BY <1>6 DEF RingsInUse, MInv, ServerTyped, Rings
  <2> QED
    BY <1>1, <1>4, <2>2, <2>3 DEF RingsInUse
<1>9. ASSUME NEW q \in DOMAIN segment', ~Freed(q) PROVE RingStep(q)
  <2>1. HeldOf(q)' = HeldOf(q)
    BY <1>1 DEF HeldOf
  <2>2. CASE q = r
    <3>1. Busy(q) /\ ~Busy(q)'
      <4>1. ~segment[r].locked
        BY <1>2 DEF RingsInUse, r
      <4> QED
        BY <1>1, <1>2, <1>4, <1>6, <2>2, <4>1 DEF Busy, Made, Locked, r
    <3>2. PutsOf(q) = n /\ PutsOf(q)' = n + 1
      BY <1>2, <1>4, <1>5, <2>2 DEF PutsOf, Made
    <3>3. ASSUME NEW x \in HeldOf(q)
          PROVE  x[2] \in Nat /\ x[2] < n /\ n <= x[2] + (Capacity - 1)
      <4>1. PICK h \in Handlers : \E p \in held[h] : p.ring = q /\ x = <<h, p.num>>
        BY <3>3, HeldOfIs
      <4>2. PICK p \in held[h] : p.ring = q /\ x = <<h, p.num>>
        BY <4>1
      <4>3. p.num \in Nat /\ ~segment[q].freed /\ Available(q, p.num)
        BY <1>2, <1>9, <2>2, <4>2 DEF MInv, ClientsTyped, Holds, HeldIntact, Freed, Made
      <4>4. p.num < n /\ n <= p.num + Capacity
        BY <2>2, <4>3 DEF Available
      <4>5. p.num % Capacity # n % Capacity
        <5>1. h \notin ReadersOf(r, n)
          BY <1>1 DEF r
        <5> QED
          BY <2>2, <4>2, <5>1 DEF ReadersOf
      <4>6. n # p.num + Capacity
        BY <4>3, <4>5, Turn, ImagingAssumption
      <4>7. x[2] = p.num
        BY <4>2
      <4> HIDE DEF n
      <4>8. Capacity \in Nat
        BY ImagingAssumption
      <4>9. p.num < n /\ n <= p.num + (Capacity - 1)
        BY <1>3, <4>3, <4>4, <4>6, <4>8
      <4> QED
        BY <4>3, <4>7, <4>9
    <3>4. Ring(q)!EndPut
      BY <1>7, <2>1, <3>1, <3>2, <3>3, RingEnds
    <3> QED
      BY <3>4 DEF RingStep, Ring!Next
  <2>3. CASE q # r
    <3>1. PutsOf(q)' = PutsOf(q)
      BY <1>4, <1>9, <2>3 DEF PutsOf, Made
    <3>2. Busy(q)' = Busy(q)
      BY <1>1, <1>4, <1>6, <1>9, <2>3 DEF Busy, Made, Locked, r
    <3> QED
      BY <2>1, <3>1, <3>2, RingStays DEF RingStep
  <2> QED
    BY <2>2, <2>3
<1> QED
  BY <1>4, <1>8, <1>9

\* A crash leaves the put under way, and an exit frees the ring.
LEMMA EndUses ==
    ASSUME MInv, MInv', RingsInUse, Crash \/ Exit
    PROVE  RingsInUse' /\ \A r \in DOMAIN segment' : RingStep(r)
<1>1. ring' = NoRings /\ putting' = None /\ UNCHANGED <<held, images>>
  BY DEF Crash, Exit, Broken, clientVars
<1>2. /\ DOMAIN segment' = DOMAIN segment
      /\ \A r \in DOMAIN segment :
            /\ segment'[r].puts = segment[r].puts
            /\ segment'[r].locked = (segment[r].locked \/ (putting # None /\ r = ring[putting.sensor]))
  <2>1. \A r \in DOMAIN segment : segment[r] \in Segments
    BY DEF MInv
  <2>2. CASE Crash
    <3>1. segment' = [r \in DOMAIN segment |->
                         [segment[r] EXCEPT !.locked =
                             @ \/ (putting # None /\ r = ring[putting.sensor])]]
      BY <2>2 DEF Crash
    <3> QED
      BY <2>1, <3>1 DEF Segments
  <2>3. CASE Exit
    <3>1. /\ putting = None
          /\ segment' = [r \in DOMAIN segment |->
                         [segment[r] EXCEPT !.freed = @ \/ \E s \in Sensors : ring[s] = r]]
      BY <2>3 DEF Exit
    <3> QED
      BY <2>1, <3>1 DEF Segments
  <2> QED
    BY <2>2, <2>3
<1>3. RingsInUse'
  <2>1. \A s \in Sensors : ring'[s] = None
    BY <1>1 DEF NoRings
  <2>2. ASSUME NEW r \in DOMAIN segment' PROVE Len(segment'[r].puts) + 0 <= images'
    <3>1. Len(segment[r].puts) \in Nat /\ images \in Nat
      BY <1>2, SegmentsHavePuts, ImagingAssumption DEF MInv, ServerTyped, Numbers
    <3>2. PICK one \in {0, 1} : Len(segment[r].puts) + one <= images
      <4>1. r \in DOMAIN segment
        BY <1>2
      <4> QED
        BY <4>1 DEF RingsInUse
    <3>3. Len(segment[r].puts) <= images
      BY <3>1, <3>2
    <3> QED
      BY <1>1, <1>2, <3>1, <3>3
  <2> QED
    BY <1>1, <2>1, <2>2 DEF RingsInUse
<1>4. ASSUME NEW r \in DOMAIN segment' PROVE RingStep(r)
  <2>1. Busy(r)' = Busy(r)
    BY <1>1, <1>2 DEF Busy, Made, Locked
  <2>2. PutsOf(r)' = PutsOf(r) /\ HeldOf(r)' = HeldOf(r)
    BY <1>1, <1>2 DEF PutsOf, Made, HeldOf
  <2> QED
    BY <2>1, <2>2, RingStays DEF RingStep
<1> QED
  BY <1>3, <1>4

\* A get in a ring takes what is there, while no put is under way.
LEMMA GetUses ==
    ASSUME MInv, NEW h \in Handlers, Get(h), NEW r \in DOMAIN segment, ~Freed(r)
    PROVE  RingStep(r)
<1>1. /\ inbox[h] # <<>> /\ Head(inbox[h]).kind = "placed" /\ getting[h] # None
      /\ ~Locked(getting[h]) /\ UNCHANGED <<serverVars, memoryVars>>
      /\ \/ /\ Available(getting[h], Head(inbox[h]).num) \/ segment[getting[h]].freed
            /\ Give(h, Head(inbox[h]), getting[h])
         \/ UNCHANGED held
  BY DEF Get, Receives
<1>2. PICK msg : msg = Head(inbox[h]) /\ msg \in Places
  BY <1>1, FirstMessage DEF MInv, Regions
<1>3. UNCHANGED <<PutsOf(r), Busy(r)>>
  BY <1>1 DEF PutsOf, Busy, Made, Locked, serverVars, memoryVars
<1>4. CASE UNCHANGED held
  <2>1. HeldOf(r)' = HeldOf(r)
    BY <1>4 DEF HeldOf
  <2> QED
    BY <1>3, <2>1, RingStays DEF RingStep
<1>5. CASE /\ Available(getting[h], msg.num) \/ segment[getting[h]].freed
           /\ Wanted(h, msg.sensor)
           /\ held' = [held EXCEPT ![h] = @ \cup {[ring |-> getting[h], num |-> msg.num,
                                                   image |-> msg.image, of |-> msg.ring]}]
  <2> DEFINE q == [ring |-> getting[h], num |-> msg.num, image |-> msg.image, of |-> msg.ring]
  <2>1. q.ring = getting[h] /\ q.num = msg.num
    OBVIOUS
  <2>2. /\ DOMAIN held = Handlers /\ held'[h] = held[h] \cup {q}
        /\ \A g \in Handlers \ {h} : held'[g] = held[g]
    BY <1>5 DEF MInv, ClientsTyped
  <2> HIDE DEF q
  <2>3. CASE getting[h] # r
    <3>1. ASSUME NEW g \in Handlers
          PROVE  {p \in held'[g] : p.ring = r} = {p \in held[g] : p.ring = r}
      BY <2>1, <2>2, <2>3
    <3>2. HeldOf(r)' = HeldOf(r)
      BY <3>1 DEF HeldOf
    <3> QED
      BY <1>3, <3>2, RingStays DEF RingStep
  <2>4. CASE getting[h] = r
    <3>1. HeldOf(r)' = HeldOf(r) \cup {<<h, msg.num>>}
      <4>1. /\ \A x \in HeldOf(r)' : \E g \in Handlers : \E p \in held'[g] :
                     p.ring = r /\ x = <<g, p.num>>
            /\ \A g \in Handlers : \A p \in held'[g] : p.ring = r => <<g, p.num>> \in HeldOf(r)'
        BY HeldOfIs
      <4>2. ASSUME NEW x \in HeldOf(r)' PROVE x \in HeldOf(r) \cup {<<h, msg.num>>}
        <5>1. PICK g \in Handlers : \E p \in held'[g] : p.ring = r /\ x = <<g, p.num>>
          BY <4>1, <4>2
        <5>2. PICK p \in held'[g] : p.ring = r /\ x = <<g, p.num>>
          BY <5>1
        <5>3. p \in held[g] \/ (g = h /\ p = q)
          BY <2>2
        <5> QED
          BY <2>1, <5>2, <5>3, HeldOfIs
      <4>3. ASSUME NEW x \in HeldOf(r) PROVE x \in HeldOf(r)'
        <5>1. PICK g \in Handlers : \E p \in held[g] : p.ring = r /\ x = <<g, p.num>>
          BY <4>3, HeldOfIs
        <5>2. PICK p \in held[g] : p.ring = r /\ x = <<g, p.num>>
          BY <5>1
        <5>3. p \in held'[g]
          BY <2>2
        <5> QED
          BY <4>1, <5>2, <5>3
      <4>4. <<h, msg.num>> \in HeldOf(r)'
        BY <2>1, <2>2, <2>4, <4>1
      <4> QED
        BY <4>2, <4>3, <4>4
    <3>2. ~Busy(r)
      BY <1>1, <2>4 DEF Busy
    <3>3. msg.num \in Nat /\ Available(r, msg.num)
      BY <1>2, <1>5, <2>4 DEF Places, Freed, Made
    <3>4. msg.num < PutsOf(r) /\ PutsOf(r) <= msg.num + Capacity
      BY <3>3 DEF Available, PutsOf, Made
    <3>5. Ring(r)!Get(h)
      BY <1>3, <3>1, <3>2, <3>3, <3>4, RingGives
    <3> QED
      BY <3>5 DEF RingStep, Ring!Next
  <2> QED
    BY <2>3, <2>4
<1> QED
  BY <1>1, <1>2, <1>4, <1>5 DEF Give

\* What an application lets go is dropped, unless it has it twice.
LEMMA LetGoUses ==
    ASSUME MInv, NEW h \in Handlers, LetGo(h), NEW r \in DOMAIN segment
    PROVE  RingStep(r)
<1>1. UNCHANGED <<PutsOf(r), Busy(r)>>
  BY DEF LetGo, PutsOf, Busy, Made, Locked, serverVars, memoryVars
<1>2. PICK q \in held[h] : held' = [held EXCEPT ![h] = @ \ {q}]
  BY DEF LetGo
<1>3. /\ DOMAIN held = Handlers /\ held'[h] = held[h] \ {q}
      /\ \A g \in Handlers \ {h} : held'[g] = held[g]
  BY <1>2 DEF MInv, ClientsTyped
<1>4. HeldOf(r)' \subseteq HeldOf(r)
  <2> SUFFICES ASSUME NEW x \in HeldOf(r)' PROVE x \in HeldOf(r)
    OBVIOUS
  <2>1. \A y \in HeldOf(r)' : \E g \in Handlers : \E p \in held'[g] :
            p.ring = r /\ y = <<g, p.num>>
    BY HeldOfIs
  <2>2. PICK g \in Handlers : \E p \in held'[g] : p.ring = r /\ x = <<g, p.num>>
    BY <2>1
  <2>3. PICK p \in held'[g] : p.ring = r /\ x = <<g, p.num>>
    BY <2>2
  <2>4. p \in held[g]
    BY <1>3
  <2> QED
    BY <2>3, <2>4, HeldOfIs
<1>5. ASSUME NEW x \in HeldOf(r), x \notin HeldOf(r)'
      PROVE  q.ring = r /\ x = <<h, q.num>>
  <2>1. PICK g \in Handlers : \E p \in held[g] : p.ring = r /\ x = <<g, p.num>>
    BY <1>5, HeldOfIs
  <2>2. PICK p \in held[g] : p.ring = r /\ x = <<g, p.num>>
    BY <2>1
  <2>3. \A f \in Handlers : \A o \in held'[f] : o.ring = r => <<f, o.num>> \in HeldOf(r)'
    BY HeldOfIs
  <2>4. p \notin held'[g]
    BY <1>5, <2>2, <2>3
  <2>5. g = h /\ p = q
    BY <1>3, <2>4
  <2> QED
    BY <2>2, <2>5
<1>6. CASE HeldOf(r)' = HeldOf(r)
  BY <1>1, <1>6, RingStays DEF RingStep
<1>7. CASE HeldOf(r)' # HeldOf(r)
  <2>1. PICK x \in HeldOf(r) : x \notin HeldOf(r)'
    BY <1>4, <1>7
  <2>2. x = <<h, q.num>>
    BY <1>5, <2>1
  <2>3. HeldOf(r)' = HeldOf(r) \ {<<h, q.num>>}
    BY <1>4, <1>5, <2>1, <2>2
  <2>4. Ring(r)!Drop(h)
    BY <1>1, <2>1, <2>2, <2>3, RingLosesReader
  <2> QED
    BY <2>4 DEF RingStep, Ring!Next
<1> QED
  BY <1>6, <1>7

\* For any images, sensors and clients, and however often the server crashes, exits and is
\* started again: each ring is used as FrameRing says, until it is freed. What IPCRing's
\* calls are proved to implement is what ImagingComponent relies on.
THEOREM RingsAreUsed == Spec => RingsAreUsedAsRings
<1>1. Init => RingsInUse
  BY DEF Init, NoRings, RingsInUse
<1>2. MInv /\ MInv' /\ RingsInUse /\ [Next]_vars
        => RingsInUse' /\ [\A r \in DOMAIN segment' : ~Freed(r) => RingStep(r)]_vars
  <2> SUFFICES ASSUME MInv, MInv', RingsInUse, [Next]_vars
               PROVE  RingsInUse' /\ \A r \in DOMAIN segment' : ~Freed(r) => RingStep(r)
    OBVIOUS
  <2>1. ASSUME UNCHANGED <<segment, ring, putting, held, images>>
        PROVE  RingsInUse' /\ \A r \in DOMAIN segment' : ~Freed(r) => RingStep(r)
    <3>1. RingsInUse'
      BY <2>1 DEF RingsInUse
    <3>2. ASSUME NEW r PROVE UNCHANGED <<PutsOf(r), Busy(r), HeldOf(r)>>
      BY <2>1 DEF PutsOf, Busy, Made, Locked, HeldOf
    <3> QED
      BY <3>1, <3>2, RingStays DEF RingStep
  <2>2. ASSUME NEW h \in Handlers, Get(h) \/ LetGo(h)
        PROVE  RingsInUse' /\ \A r \in DOMAIN segment' : ~Freed(r) => RingStep(r)
    <3>1. UNCHANGED <<segment, ring, putting, images>>
      BY <2>2 DEF Get, LetGo, Receives, serverVars, memoryVars, boundVars
    <3>2. RingsInUse'
      BY <3>1 DEF RingsInUse
    <3> QED
      BY <2>2, <3>1, <3>2, GetUses, LetGoUses
  <2>3. CASE UNCHANGED vars \/ Start \/ \E h \in Handlers : TakeRegion(h) \/ OpenRing(h) \/ Remake(h)
    BY <2>1, <2>3 DEF vars, serverVars, memoryVars, clientVars, boundVars, Start, TakeRegion,
                      OpenRing, Receives, Remake
  <2> QED
    BY <2>2, <2>3, BeginPutUses, EndPutUses, EndUses DEF Next, ClientStep
<1> QED
  BY <1>1, <1>2, MemoryInvariance, PTL DEF Spec, RingsAreUsedAsRings
=============================================================================
