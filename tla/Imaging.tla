-------------------------------- MODULE Imaging --------------------------------
(***************************************************************************)
(* ImagingComponent, on a server's device and in the remote handlers of    *)
(* its clients. An image is put into a ring in shared memory (one for each *)
(* sensor), and a message tells where it is; small 8-bit images are also   *)
(* sent in a message of their own, as a client may be on another host.     *)
(*                                                                         *)
(* IPCRing is about the calls of one ring; here a get is one step, and a   *)
(* put is two: it takes the bounds' lock, then waits for the readers of    *)
(* the slot it will write. An image is known by a number of its own.       *)
(* The server may crash, or exit and run its destructors, and is started   *)
(* again; a client's handlers are made anew when its tree changes.         *)
(***************************************************************************)
EXTENDS Naturals, Sequences, FiniteSets

CONSTANTS Handlers,    \* the remote handlers, each in a client of its own
          Local,       \* those on the server's host, with its ABI level
          Sensors,
          SensorOf,    \* the sensor a handler is for, or All
          All,
          OtherSensor, \* a number that no sensor has
          Formats,     \* [bytes, depth] of the images
          WireMax,     \* vrpn_CONNECTION_TCP_BUFLEN
          Capacity,    \* the slots of a ring
          Keeps,       \* whether applications keep images until after the next update()
          None,
          MaxImages,   \* bound: images sent
          MaxEnds,     \* bound: ends of the server's process
          MaxInbox     \* bound: messages under way to a client

ASSUME ImagingAssumption ==
    /\ Local \subseteq Handlers
    /\ OtherSensor \notin Sensors /\ All \notin Sensors
    /\ Capacity \in Nat \ {0} /\ Keeps \in BOOLEAN
    /\ None \notin Nat \cup [sensor : Sensors, format : Formats, image : Nat]
    /\ MaxImages \in Nat /\ MaxEnds \in Nat

VARIABLES
    up,       \* the server runs
    ring,     \* its m_shmBuf: the segment of each sensor
    putting,  \* the image whose put() is under way
    segment,  \* every segment there has been
    named,    \* the segment that has the name of each sensor's ring
    inbox,    \* messages on their way to each handler's client
    open,     \* each handler's m_shmBuf
    getting,  \* the ring whose get() a handler has called
    held,     \* the images each handler's application has, and where they are
    seen,     \* the last image each handler has given to its callbacks
    due,      \* the last image that each handler should give them
    images,   \* how many images there have been
    ends      \* how often the server's process has ended

serverVars == <<up, ring, putting, due>>
memoryVars == <<segment, named>>
clientVars == <<open, getting, held, seen>>
boundVars  == <<images, ends>>
vars       == <<serverVars, memoryVars, inbox, clientVars, boundVars>>

NoRings == [s \in Sensors |-> None]

Init ==
    /\ up = TRUE /\ ring = NoRings /\ putting = None
    /\ segment = <<>> /\ named = NoRings
    /\ inbox = [h \in Handlers |-> <<>>]
    /\ open = [h \in Handlers |-> NoRings]
    /\ getting = [h \in Handlers |-> None]
    /\ held = [h \in Handlers |-> {}]
    /\ seen = [h \in Handlers |-> 0] /\ due = [h \in Handlers |-> 0]
    /\ images = 0 /\ ends = 0

\* A ring of the last Capacity images that were put; the n-th has the number n - 1.
Available(r, n) == n < Len(segment[r].puts) /\ Len(segment[r].puts) <= n + Capacity

\* What the slot of the n-th image contains: that of the last put into it.
Content(r, n) ==
    LET puts == segment[r].puts
        last == CHOOSE k \in 0..Len(puts)-1 :
                    /\ k % Capacity = n % Capacity
                    /\ k + Capacity >= Len(puts)
    IN  puts[last + 1]

ReadersOf(r, n) == {h \in Handlers : \E p \in held[h] : p.ring = r /\ p.num % Capacity = n % Capacity}

-----------------------------------------------------------------------------
\* The server: sendImageData.

\* Slip: the name is given up after the new segment has been made.
CreateThenRemove(s, bytes) ==
    /\ segment' = Append(segment, [bytes |-> bytes, puts |-> <<>>, freed |-> FALSE,
                                   locked |-> FALSE])
    /\ named' = [named EXCEPT ![s] = IF named[s] = None THEN Len(segment) + 1 ELSE None]
    /\ ring' = [ring EXCEPT ![s] = Len(segment) + 1]

\* IPCRingBuffer::create removes the name and makes a segment of that name; then the
\* assignment destroys the ring that was there, which frees its buffers and removes
\* the name.
CreateRing(s, bytes) ==
    LET old == ring[s]
        new == Len(segment) + 1
    IN  /\ segment' = [n \in 1..new |->
                          IF n = new THEN [bytes |-> bytes, puts |-> <<>>, freed |-> FALSE,
                                           locked |-> FALSE]
                          ELSE [segment[n] EXCEPT !.freed = @ \/ n = old]]
        /\ named' = [named EXCEPT ![s] = IF old = None THEN new ELSE None]
        /\ ring' = [ring EXCEPT ![s] = new]

\* Up to put()'s lock on the bounds.
BeginPut(s, f) ==
    /\ up /\ putting = None
    /\ images < MaxImages /\ images' = images + 1
    /\ \A h \in Handlers : Len(inbox[h]) + 2 <= MaxInbox
    /\ putting' = [sensor |-> s, format |-> f, image |-> images']
    /\ IF ring[s] = None THEN CreateRing(s, f.bytes)
       ELSE IF segment[ring[s]].bytes # f.bytes THEN CreateRing(s, f.bytes)
       ELSE UNCHANGED <<memoryVars, ring>>
    /\ UNCHANGED <<up, due, inbox, clientVars, ends>>

\* The message that tells where an image is.
Placed(num) == [kind |-> "placed", sensor |-> putting.sensor, bytes |-> putting.format.bytes,
                num |-> num, ring |-> ring[putting.sensor], image |-> putting.image]

Region == [kind |-> "region", image |-> putting.image]

\* m_sendImageDataOnTheWire
FitsWire(f) == f.depth = 1 /\ f.bytes <= WireMax

\* The image reaches those who are on the host, and through the wire those for whom
\* the sensor does not matter: a region's message does not contain it.
Reaches(h) ==
    \/ h \in Local /\ SensorOf[h] \in {All, putting.sensor}
    \/ FitsWire(putting.format) /\ SensorOf[h] = All

Announce(num) ==
    /\ inbox' = [h \in Handlers |->
                    inbox[h] \o <<Placed(num)>>
                             \o (IF FitsWire(putting.format) THEN <<Region>> ELSE <<>>)]
    /\ due' = [h \in Handlers |-> IF Reaches(h) THEN putting.image ELSE due[h]]
    /\ putting' = None
    /\ UNCHANGED <<up, ring, named, clientVars, boundVars>>


EndPutOver ==
    /\ putting # None
    /\ LET r == ring[putting.sensor]
           n == Len(segment[r].puts)
       IN  /\ segment' = [segment EXCEPT ![r].puts = Append(@, putting.image)]
           /\ Announce(n)

\* The slot's readers have left: the image is copied, and the messages are sent.
EndPut ==
    /\ putting # None
    /\ LET r == ring[putting.sensor]
           n == Len(segment[r].puts)
       IN  /\ ReadersOf(r, n) = {}
           /\ segment' = [segment EXCEPT ![r].puts = Append(@, putting.image)]
           /\ Announce(n)

\* The end of the process breaks the connections: the last messages are lost, though not
\* the one that a client is at.
Broken ==
    /\ ends < MaxEnds /\ ends' = ends + 1
    /\ up' = FALSE /\ ring' = NoRings /\ putting' = None
    /\ due' = [h \in Handlers |-> 0]
    /\ \E lost \in 0..MaxInbox :
          /\ \A h \in Handlers : getting[h] # None => lost < Len(inbox[h])
          /\ inbox' = [h \in Handlers |-> SubSeq(inbox[h], 1, Len(inbox[h]) - lost)]
    /\ UNCHANGED <<clientVars, images>>

\* Whoever opens the segment finds the lock of a put() that was under way.
Crash ==
    /\ up
    /\ segment' = [r \in DOMAIN segment |->
                      [segment[r] EXCEPT !.locked =
                          @ \/ (putting # None /\ r = ring[putting.sensor])]]
    /\ UNCHANGED named
    /\ Broken

\* ~ServerSharedMemorySegmentHolder for each ring.
Exit ==
    /\ up /\ putting = None
    /\ segment' = [r \in DOMAIN segment |->
                      [segment[r] EXCEPT !.freed = @ \/ \E s \in Sensors : ring[s] = r]]
    /\ named' = [s \in Sensors |-> IF ring[s] = None THEN named[s] ELSE None]
    /\ Broken

Start ==
    /\ ~up /\ up' = TRUE
    /\ UNCHANGED <<ring, putting, due, memoryVars, inbox, clientVars, boundVars>>

-----------------------------------------------------------------------------
\* A client: its handler's callbacks.

Receives(h, kind) ==
    /\ inbox[h] # <<>> /\ Head(inbox[h]).kind = kind
    /\ Keeps \/ held[h] = {}
    /\ UNCHANGED <<serverVars, memoryVars, boundVars>>

Received(h) == inbox' = [inbox EXCEPT ![h] = Tail(@)]

\* m_handleImage: the sensor has to be the handler's.
Wanted(h, sensor) == SensorOf[h] \in {All, sensor}

\* m_handleImageRegion: m_sensor has not been initialised.
TakeRegion(h) ==
    /\ Receives(h, "region") /\ Received(h)
    /\ \E sensor \in Sensors \cup {OtherSensor} :
          seen' = IF Wanted(h, sensor) THEN [seen EXCEPT ![h] = Head(inbox[h]).image] ELSE seen
    /\ UNCHANGED <<open, getting, held>>

\* IPCRingBuffer::find, unless the ring that is open is like the one of the message:
\* it has the message's size (the name and the backend are always the same).
Opened(h, msg) ==
    LET r == open[h][msg.sensor]
    IN  IF r # None /\ segment[r].bytes = msg.bytes THEN r
        ELSE IF h \in Local THEN named[msg.sensor] ELSE None

Locked(r) ==
    \/ segment[r].locked
    \/ putting # None /\ ring[putting.sensor] = r

\* What the callbacks are given and the application acquires.
Give(h, msg, r) ==
    /\ held' = IF Wanted(h, msg.sensor)
               THEN [held EXCEPT ![h] = @ \cup {[ring |-> r, num |-> msg.num,
                                                 image |-> msg.image, of |-> msg.ring]}]
               ELSE held
    /\ seen' = IF Wanted(h, msg.sensor) THEN [seen EXCEPT ![h] = msg.image] ELSE seen

\* m_handleImagePlacedInSharedMemory, up to get()'s lock on the bounds.
OpenRing(h) ==
    LET msg == Head(inbox[h])
        r   == Opened(h, msg)
    IN  /\ Receives(h, "placed") /\ getting[h] = None
        /\ open' = [open EXCEPT ![h][msg.sensor] = r]
        /\ getting' = [getting EXCEPT ![h] = r]
        /\ IF r = None THEN Received(h) ELSE UNCHANGED inbox
        /\ UNCHANGED <<held, seen>>

\* Slip: whatever image is in the slot.
GetSlot(h) ==
    LET msg == Head(inbox[h])
        r   == getting[h]
    IN  /\ r # None /\ ~Locked(r)
        /\ Receives(h, "placed") /\ Received(h)
        /\ getting' = [getting EXCEPT ![h] = None]
        /\ Give(h, msg, r)
        /\ UNCHANGED open

\* Its lock, and the rest. A ring that has been freed may have anything, or nothing.
Get(h) ==
    LET msg == Head(inbox[h])
        r   == getting[h]
    IN  /\ r # None /\ ~Locked(r)
        /\ Receives(h, "placed") /\ Received(h)
        /\ getting' = [getting EXCEPT ![h] = None]
        /\ \/ /\ Available(r, msg.num) \/ segment[r].freed
              /\ Give(h, msg, r)
           \/ /\ ~Available(r, msg.num) \/ segment[r].freed
              /\ UNCHANGED <<held, seen>>
        /\ UNCHANGED open


\* osvrClientFreeImage, which a client that waits in its update() does not reach.
LetGo(h) ==
    /\ getting[h] = None
    /\ \E p \in held[h] : held' = [held EXCEPT ![h] = @ \ {p}]
    /\ UNCHANGED <<serverVars, memoryVars, inbox, open, getting, seen, boundVars>>

KeepsOldRing(h) == \E s \in Sensors : open[h][s] \notin {None, ring[s]}

\* The tree has changed: a new handler, with a component of its own. What has been
\* missed because of an old ring stays missed.
Remake(h) ==
    /\ getting[h] = None /\ open[h] # NoRings
    /\ open' = [open EXCEPT ![h] = NoRings]
    /\ due' = IF KeepsOldRing(h) THEN [due EXCEPT ![h] = 0] ELSE due
    /\ UNCHANGED <<up, ring, putting, memoryVars, inbox, getting, held, seen, boundVars>>

-----------------------------------------------------------------------------
ClientStep(h) == TakeRegion(h) \/ OpenRing(h) \/ Get(h)

Next ==
    \/ \E s \in Sensors, f \in Formats : BeginPut(s, f)
    \/ EndPut \/ Crash \/ Exit \/ Start
    \/ \E h \in Handlers : ClientStep(h) \/ LetGo(h) \/ Remake(h)

\* A put that may go on does, clients run, applications free their images.
Fairness ==
    /\ WF_vars(EndPut)
    /\ \A h \in Handlers : WF_vars(ClientStep(h)) /\ WF_vars(LetGo(h))

Spec == Init /\ [][Next]_vars /\ Fairness
-----------------------------------------------------------------------------
\* The variables keep their types, and rings are segments that there are.
TypeOK ==
    LET Rings == DOMAIN segment \cup {None}
    IN  /\ up \in BOOLEAN /\ images \in 0..MaxImages /\ ends \in 0..MaxEnds
        /\ ring \in [Sensors -> Rings] /\ named \in [Sensors -> Rings]
        /\ ~up => ring = NoRings /\ putting = None
        /\ putting # None => ring[putting.sensor] # None
        /\ open \in [Handlers -> [Sensors -> Rings]] /\ getting \in [Handlers -> Rings]
        /\ seen \in [Handlers -> 0..MaxImages] /\ due \in [Handlers -> 0..MaxImages]
        /\ \A h \in Handlers : \A p \in held[h] :
              segment[p.ring].freed \/ p.num < Len(segment[p.ring].puts)

\* A local client that looks for the ring of a sensor by its name finds the one that
\* the server puts its images into, whatever a crashed server has left behind.
RingCanBeFound == \A s \in Sensors : ring[s] # None => named[s] = ring[s]

\* What a callback was given is the image its message was about, and stays it until
\* the application frees it: it is neither another image of the slot nor written
\* over. The server's exit frees it, and a ring that is not the message's (the
\* server's process is another one) may have another image of the same number.
HeldImagesStay == \A h \in Handlers : \A p \in held[h] :
    p.ring = p.of /\ ~segment[p.ring].freed => Content(p.ring, p.num) = p.image

\* A ring, as FrameRing sees it: a segment that has not been made has nothing in it, a put
\* that is under way has taken the place of the oldest image, and a put that a crash has
\* interrupted stays under way.
Made(r)  == r \in DOMAIN segment
Freed(r) == Made(r) /\ segment[r].freed
Busy(r)  == Made(r) /\ Locked(r)
PutsOf(r) == IF Made(r) THEN Len(segment[r].puts) ELSE 0

LastNumbers(n, room) ==
    LET count == IF n < room THEN n ELSE room
    IN  [k \in 1..count |-> n - count + k - 1]

Frames(r) == LastNumbers(PutsOf(r), IF Busy(r) THEN Capacity - 1 ELSE Capacity)

HeldOf(r) == UNION {{<<h, p.num>> : p \in {q \in held[h] : q.ring = r}} : h \in Handlers}

Ring(r) == INSTANCE FrameRing WITH
    Readers <- Handlers, SeqMod <- MaxImages + 1,
    frames <- Frames(r), next <- PutsOf(r), putting <- Busy(r), held <- HeldOf(r)

RingStep(r) == UNCHANGED Ring(r)!ringVars \/ Ring(r)!Next

\* Until it is freed, each ring is used by the server and by all clients together as
\* FrameRing says, which is what the ring's calls implement: no get and no second put while
\* one is under way, not even one that a crash left so, only what is there is got, and no
\* put ends while somebody has what it would write over.
RingsAreUsedAsRings == [][\A r \in DOMAIN segment' : ~Freed(r) => RingStep(r)]_vars

\* The server does not wait for ever in put(), when applications free their images
\* before they call update() again: what it waits for is never waiting for it.
PutReturns == putting # None ~> putting = None

=============================================================================
