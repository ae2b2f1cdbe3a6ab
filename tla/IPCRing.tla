-------------------------------- MODULE IPCRing --------------------------------
(***************************************************************************)
(* IPCRingBuffer: a ring of image buffers in shared memory, with one       *)
(* producer and any number of reading processes, and the two levels of     *)
(* interprocess locks that protect it: one on the bookkeeping (the         *)
(* "bounds") and one on each element.                                      *)
(*                                                                         *)
(* A frame is known by its sequence number: that is what a slot contains.  *)
(* m_begin has 16 bits and sequence numbers have 32; here they wrap at     *)
(* IndexMod and SeqMod, which stand for 2^16 and 2^32.                     *)
(* interprocess_upgradable_mutex lets no new sharer in while an exclusive  *)
(* lock waits for the sharers to leave.                                    *)
(***************************************************************************)
EXTENDS Naturals, Sequences, FiniteSets

CONSTANTS Readers,   \* the reading threads
          Capacity,  \* m_capacity
          IndexMod,  \* the values of a raw_index_type
          SeqMod,    \* the values of a sequence_type
          MaxHeld,   \* read proxies a reader keeps alive at once
          Torn,      \* what a slot contains while it is being written
          NoFrame    \* what a slot contains before the first write

ASSUME RingAssumption ==
    /\ Capacity \in Nat \ {0} /\ IndexMod \in Nat /\ SeqMod \in Nat
    /\ Capacity < IndexMod /\ Capacity < SeqMod
    /\ MaxHeld \in Nat \ {0}
    /\ Torn \notin 0..SeqMod-1 /\ NoFrame \notin 0..SeqMod-1

VARIABLES
    begin,         \* m_begin
    size,          \* m_size
    beginSeq,      \* m_beginSequenceNumber
    nextSeq,       \* m_nextSequenceNumber
    slot,          \* elementArray: what each buffer contains
    boundsLocked,  \* the producer has asked for the bounds lock, or owns it
    boundsReaders, \* who shares it
    eltLocked,     \* elements whose lock the producer has asked for, or owns
    eltReaders,    \* who shares each element's lock: set of <<reader, sequence number>>
    wpc,           \* where the producer is
    wseq,          \* the sequence number it writes
    rpc,           \* where each reader is
    rnum,          \* the sequence number it looks for
    relt           \* the element it found

ringVars   == <<begin, size, beginSeq, nextSeq, slot>>
lockVars   == <<boundsLocked, boundsReaders, eltLocked, eltReaders>>
writerVars == <<wpc, wseq>>
readerVars == <<rpc, rnum, relt>>
vars       == <<ringVars, lockVars, writerVars, readerVars>>

Slots == 0..Capacity-1
Seqs  == 0..SeqMod-1

Init ==
    /\ begin = 0 /\ size = 0 /\ beginSeq = 0 /\ nextSeq = 0
    /\ slot = [i \in Slots |-> NoFrame]
    /\ boundsLocked = FALSE /\ boundsReaders = {}
    /\ eltLocked = {} /\ eltReaders = [i \in Slots |-> {}]
    /\ wpc = "idle" /\ wseq = 0
    /\ rpc = [r \in Readers |-> "idle"]
    /\ rnum = [r \in Readers |-> 0]
    /\ relt = [r \in Readers |-> 0]

\* Slip: one past the end.
IndexPastEnd == ((begin + size) % IndexMod) % Capacity

\* Bookkeeping::back: the sum is cut to 16 bits when it is passed on.
BackIndex == ((begin + size - 1) % IndexMod) % Capacity

\* getBySequenceNumber: the distance from the oldest frame, as an unsigned
\* difference, and the element at that distance.
Distance(num)   == (num + SeqMod - beginSeq) % SeqMod
IndexOfSeq(num) == (begin + Distance(num)) % Capacity

\* The read proxies that a reader keeps alive.
Held(r) == {p \in Slots \X Seqs : <<r, p[2]>> \in eltReaders[p[1]]}

-----------------------------------------------------------------------------
\* put(): Bookkeeping::produceElement, the copy, and ~IPCPutResult.

GoWriter(from, to) == wpc = from /\ wpc' = to

LockBounds ==
    /\ GoWriter("idle", "lockBounds")
    /\ boundsLocked' = TRUE
    /\ UNCHANGED <<ringVars, boundsReaders, eltLocked, eltReaders, wseq, readerVars>>

\* Slips: the ring is full one frame too late; its beginning stays where it is.
ProduceTooMany ==
    /\ GoWriter("lockBounds", "lockElt")
    /\ boundsReaders = {}
    /\ wseq' = nextSeq
    /\ nextSeq' = (nextSeq + 1) % SeqMod
    /\ IF size > Capacity
       THEN /\ begin' = (begin + 1) % IndexMod
            /\ beginSeq' = (beginSeq + 1) % SeqMod
            /\ UNCHANGED size
       ELSE /\ size' = size + 1
            /\ UNCHANGED <<begin, beginSeq>>
    /\ eltLocked' = {BackIndex'}
    /\ UNCHANGED <<slot, boundsLocked, boundsReaders, eltReaders, readerVars>>

ProduceOverNewest ==
    /\ GoWriter("lockBounds", "lockElt")
    /\ boundsReaders = {}
    /\ wseq' = nextSeq
    /\ nextSeq' = (nextSeq + 1) % SeqMod
    /\ size' = IF size = Capacity THEN size ELSE size + 1
    /\ beginSeq' = IF size = Capacity THEN (beginSeq + 1) % SeqMod ELSE beginSeq
    /\ UNCHANGED <<begin, slot, boundsLocked, boundsReaders, eltReaders, readerVars>>
    /\ eltLocked' = {BackIndex'}

\* The readers of the bounds have left: take a number, drop the oldest frame if
\* the ring is full, ask for the element's lock.
Produce ==
    /\ GoWriter("lockBounds", "lockElt")
    /\ boundsReaders = {}
    /\ wseq' = nextSeq
    /\ nextSeq' = (nextSeq + 1) % SeqMod
    /\ IF size = Capacity
       THEN /\ begin' = (begin + 1) % IndexMod
            /\ beginSeq' = (beginSeq + 1) % SeqMod
            /\ UNCHANGED size
       ELSE /\ size' = size + 1
            /\ UNCHANGED <<begin, beginSeq>>
    /\ eltLocked' = {BackIndex'}
    /\ UNCHANGED <<slot, boundsLocked, boundsReaders, eltReaders, readerVars>>

BeginCopy ==
    /\ GoWriter("lockElt", "copy")
    /\ eltReaders[BackIndex] = {}
    /\ slot' = [slot EXCEPT ![BackIndex] = Torn]
    /\ UNCHANGED <<begin, size, beginSeq, nextSeq, lockVars, wseq, readerVars>>

EndCopy ==
    /\ GoWriter("copy", "unlockElt")
    /\ slot' = [slot EXCEPT ![BackIndex] = wseq]
    /\ UNCHANGED <<begin, size, beginSeq, nextSeq, lockVars, wseq, readerVars>>

\* The element's lock goes first.
UnlockElt ==
    /\ GoWriter("unlockElt", "unlockBounds")
    /\ eltLocked' = {}
    /\ UNCHANGED <<ringVars, boundsLocked, boundsReaders, eltReaders, wseq, readerVars>>

UnlockBounds ==
    /\ GoWriter("unlockBounds", "idle")
    /\ boundsLocked' = FALSE
    /\ UNCHANGED <<ringVars, boundsReaders, eltLocked, eltReaders, wseq, readerVars>>

PutStep == Produce \/ BeginCopy \/ EndCopy \/ UnlockElt \/ UnlockBounds

-----------------------------------------------------------------------------
\* get(num) and getLatest(), by reader r.

GoReader(r, from, to) == rpc[r] = from /\ rpc' = [rpc EXCEPT ![r] = to]

\* The call is made; from here on the reader waits for nothing but its locks.
Get(r, num) ==
    /\ GoReader(r, "idle", "get")
    /\ Cardinality(Held(r)) < MaxHeld
    /\ rnum' = [rnum EXCEPT ![r] = num]
    /\ UNCHANGED <<ringVars, lockVars, writerVars, relt>>

GetLatest(r) ==
    /\ GoReader(r, "idle", "getLatest")
    /\ Cardinality(Held(r)) < MaxHeld
    /\ UNCHANGED <<ringVars, lockVars, writerVars, rnum, relt>>

\* Slip: readers pass a producer that waits for the bounds.
PassProducer(r) ==
    /\ GoReader(r, "get", "find") \/ GoReader(r, "getLatest", "findLatest")
    /\ wpc \in {"idle", "lockBounds"}
    /\ boundsReaders' = boundsReaders \cup {r}
    /\ UNCHANGED <<ringVars, boundsLocked, eltLocked, eltReaders, writerVars, rnum, relt>>

\* Both take a sharable lock on the bounds first.
ShareBounds(r) ==
    /\ GoReader(r, "get", "find") \/ GoReader(r, "getLatest", "findLatest")
    /\ ~boundsLocked
    /\ boundsReaders' = boundsReaders \cup {r}
    /\ UNCHANGED <<ringVars, boundsLocked, eltLocked, eltReaders, writerVars, rnum, relt>>

\* Slip: the bounds are let go before the element's lock is shared.
FindAndRelease(r) ==
    /\ Distance(rnum[r]) < size
    /\ GoReader(r, "find", "shareElt")
    /\ relt' = [relt EXCEPT ![r] = IndexOfSeq(rnum[r])]
    /\ boundsReaders' = boundsReaders \ {r}
    /\ UNCHANGED <<ringVars, boundsLocked, eltLocked, eltReaders, writerVars, rnum>>

FindBySequence(r) ==
    /\ Distance(rnum[r]) < size
    /\ GoReader(r, "find", "shareElt")
    /\ relt' = [relt EXCEPT ![r] = IndexOfSeq(rnum[r])]
    /\ UNCHANGED <<ringVars, lockVars, writerVars, rnum>>

FindLatest(r) ==
    /\ size > 0
    /\ GoReader(r, "findLatest", "shareElt")
    /\ relt' = [relt EXCEPT ![r] = BackIndex]
    /\ rnum' = [rnum EXCEPT ![r] = (nextSeq + SeqMod - 1) % SeqMod]
    /\ UNCHANGED <<ringVars, lockVars, writerVars>>

\* The bounds lock and the call's variables go.
CallEnds(r) ==
    /\ boundsReaders' = boundsReaders \ {r}
    /\ rnum' = [rnum EXCEPT ![r] = 0]
    /\ relt' = [relt EXCEPT ![r] = 0]
    /\ UNCHANGED <<ringVars, boundsLocked, eltLocked, eltReaders, writerVars>>

\* No such element: an empty proxy is returned.
NotFound(r) ==
    /\ \/ Distance(rnum[r]) >= size /\ GoReader(r, "find", "idle")
       \/ size = 0 /\ GoReader(r, "findLatest", "idle")
    /\ CallEnds(r)

\* The element's lock is shared by the proxy that is returned.
ShareElt(r) ==
    /\ GoReader(r, "shareElt", "return")
    /\ relt[r] \notin eltLocked
    /\ eltReaders' = [eltReaders EXCEPT ![relt[r]] = @ \cup {<<r, rnum[r]>>}]
    /\ UNCHANGED <<ringVars, boundsLocked, boundsReaders, eltLocked, writerVars, rnum, relt>>

GetReturns(r) ==
    /\ GoReader(r, "return", "idle")
    /\ CallEnds(r)

GetStep(r) ==
    \/ ShareBounds(r) \/ FindBySequence(r) \/ FindLatest(r) \/ NotFound(r) \/ ShareElt(r)
    \/ GetReturns(r)

\* ~IPCGetResult: the last owner of a proxy is gone.
DropProxy(r) ==
    /\ rpc[r] = "idle"
    /\ \E p \in Held(r) :
        eltReaders' = [eltReaders EXCEPT ![p[1]] = @ \ {<<r, p[2]>>}]
    /\ UNCHANGED <<ringVars, boundsLocked, boundsReaders, eltLocked, writerVars, readerVars>>

-----------------------------------------------------------------------------
Next ==
    \/ LockBounds \/ PutStep
    \/ \E r \in Readers :
        \/ \E num \in Seqs : Get(r, num)
        \/ GetLatest(r) \/ GetStep(r) \/ DropProxy(r)

Safe == Init /\ [][Next]_vars

\* Calls end, and so does the life of a proxy.
Fairness ==
    /\ WF_vars(PutStep)
    /\ \A r \in Readers : WF_vars(GetStep(r)) /\ WF_vars(DropProxy(r))

Spec == Safe /\ Fairness

-----------------------------------------------------------------------------
\* Types of the bookkeeping, of the locks and of the program counters.
TypeOK ==
    /\ begin \in 0..IndexMod-1 /\ size \in 0..Capacity
    /\ beginSeq \in Seqs /\ nextSeq \in Seqs
    /\ slot \in [Slots -> Seqs \cup {Torn, NoFrame}]
    /\ boundsLocked \in BOOLEAN /\ boundsReaders \subseteq Readers
    /\ eltLocked \subseteq Slots /\ eltReaders \in [Slots -> SUBSET (Readers \X Seqs)]
    /\ wpc \in {"idle", "lockBounds", "lockElt", "copy", "unlockElt", "unlockBounds"}
    /\ wseq \in Seqs
    /\ rpc \in [Readers -> {"idle", "get", "getLatest", "find", "findLatest", "shareElt", "return"}]
    /\ rnum \in [Readers -> Seqs] /\ relt \in [Readers -> Slots]

\* A proxy gives access to the frame that was put under its sequence number, and
\* goes on doing so for as long as it lives: the buffer is neither being written
\* nor written over.
ProxyShowsItsFrame == \A r \in Readers : \A p \in Held(r) : slot[p[1]] = p[2]

\* Outside put, the ring holds exactly the last frames put, the oldest at the
\* beginning, and finds each of them by its number, across both wrap-arounds.
RingInOrder == wpc \in {"idle", "lockBounds"} =>
    /\ nextSeq = (beginSeq + size) % SeqMod
    /\ \A num \in Seqs : Distance(num) < size <=> \E i \in Slots : slot[i] = num
    /\ \A num \in Seqs : Distance(num) < size => slot[IndexOfSeq(num)] = num
    /\ size > 0 => slot[BackIndex] = (nextSeq + SeqMod - 1) % SeqMod

\* The ring is the abstract one. Its frames are known by their numbers, and what a
\* reader has is what the buffer of its proxy contains, whatever number it asked for.
Putting == wpc \in {"lockElt", "copy", "unlockElt", "unlockBounds"}
Frames  == [k \in 1..(IF Putting THEN size - 1 ELSE size) |-> (beginSeq + k - 1) % SeqMod]
Shown   == {h \in Readers \X (Seqs \cup {Torn, NoFrame}) :
              \E i \in Slots, num \in Seqs : <<h[1], num>> \in eltReaders[i] /\ slot[i] = h[2]}
NextNumber == IF Putting THEN wseq ELSE nextSeq

Ring == INSTANCE FrameRing WITH
    frames <- Frames, next <- NextNumber, putting <- Putting, held <- Shown
ImplementsFrameRing == Ring!Spec

\* put returns, whatever readers do: they cannot keep the producer out.
PutReturns == wpc = "lockBounds" ~> wpc = "idle"
=============================================================================
