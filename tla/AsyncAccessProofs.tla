--------------------------- MODULE AsyncAccessProofs ---------------------------
(***************************************************************************)
(* Theorems about AsyncAccess, for every set of devices.                   *)
(***************************************************************************)
EXTENDS AsyncAccess, TLAPS

-----------------------------------------------------------------------------
\* The inductive invariant, for one device d.

HoldsMut  == {"lockDone", "check", "granted", "reqNested", "nested", "denied"}
HoldsDone == {"check", "waiting", "wake", "granted", "reqNested", "nested", "denied", "unlockDone"}
InRequest == {"lockDone", "check", "waiting", "wake", "granted", "reqNested", "nested", "denied"}

\* Who owns m_mut and m_mutDone is written in the program counters.
Locks(d) ==
    /\ mut[d] = "async" <=> apc[d] \in HoldsMut
    /\ mut[d] = "main" <=> mainDev = d /\ mainPc = "check"
    /\ doneMut[d] = "async" <=> apc[d] \in HoldsDone
    /\ doneMut[d] = "main" <=> mainDev = d /\ mainPc \in {"checkDone", "restore"}

\* So are m_rts and m_currentRequestThread; an answered request that is over left m_done.
Flags(d) ==
    /\ rts[d] <=> apc[d] \in InRequest
    /\ requester[d] <=> Using(d)
    /\ rts[d] => ~done[d]
    /\ Handling(d) /\ ~rts[d] => done[d]

\* m_mainMessage is the answer while the main thread handles the request, WAIT
\* or a permanent DENY outside; a thread only goes to sleep on WAIT.
Message(d) ==
    /\ Handling(d) => msg[d] = Response(mainOp)
    /\ msg[d] = "CTS" => Handling(d)
    /\ apc[d] \in {"waiting", "wake"} /\ ~Handling(d) => msg[d] = "WAIT"
    /\ Using(d) => msg[d] = "CTS"
    /\ apc[d] = "denied" => msg[d] = "DENY"

\* A thread asleep on a condition that holds has a notification coming.
Wakeups(d) ==
    /\ apc[d] = "waiting" /\ msg[d] # "WAIT" => mainPc = "notify" /\ mainDev = d
    /\ mainPc = "waitDone" /\ mainDev = d /\ done[d] => apc[d] \in {"unlockDone", "notify"}

DevInv(d) == Locks(d) /\ Flags(d) /\ Message(d) /\ Wakeups(d)

IInv ==
    /\ TypeOK
    /\ mainPc = "idle" <=> mainDev = NoDev
    /\ \A d \in Devices : DevInv(d)

-----------------------------------------------------------------------------
\* Every value of every variable has its type.
THEOREM TypeCorrect == Safe => []TypeOK
<1> USE NoDevAssumption DEF TypeOK, Owner, Messages, Ops, AsyncPcs, MainPcs
<1>1. Init => TypeOK
  BY DEF Init
<1>2. TypeOK /\ [Next]_accessVars => TypeOK'
  <2> SUFFICES ASSUME TypeOK, [Next]_accessVars PROVE TypeOK'
    OBVIOUS
  <2> USE DEF GoAsync, mainVars, Response, PostCompletion
  <2>1. CASE UNCHANGED accessVars
    BY <2>1 DEF accessVars
  <2>2. ASSUME NEW e \in Devices, Request(e) PROVE TypeOK'
    BY <2>2 DEF Request
  <2>3. ASSUME NEW e \in Devices, LockDone(e) PROVE TypeOK'
    BY <2>3 DEF LockDone
  <2>4. ASSUME NEW e \in Devices, AwaitAnswer(e) PROVE TypeOK'
    BY <2>4 DEF AwaitAnswer
  <2>5. ASSUME NEW e \in Devices, SpuriousAsync(e) PROVE TypeOK'
    BY <2>5 DEF SpuriousAsync
  <2>6. ASSUME NEW e \in Devices, Wake(e) PROVE TypeOK'
    BY <2>6 DEF Wake
  <2>7. ASSUME NEW e \in Devices, Granted(e) PROVE TypeOK'
    BY <2>7 DEF Granted
  <2>8. ASSUME NEW e \in Devices, Denied(e) PROVE TypeOK'
    BY <2>8 DEF Denied
  <2>9. ASSUME NEW e \in Devices, NestedRequest(e) PROVE TypeOK'
    BY <2>9 DEF NestedRequest
  <2>10. ASSUME NEW e \in Devices, NestedGranted(e) PROVE TypeOK'
    BY <2>10 DEF NestedGranted
  <2>11. ASSUME NEW e \in Devices, NestedRelease(e) PROVE TypeOK'
    BY <2>11 DEF NestedRelease
  <2>12. ASSUME NEW e \in Devices, Release(e) PROVE TypeOK'
    BY <2>12 DEF Release
  <2>13. ASSUME NEW e \in Devices, UnlockDone(e) PROVE TypeOK'
    BY <2>13 DEF UnlockDone
  <2>14. ASSUME NEW e \in Devices, NotifyMain(e) PROVE TypeOK'
    BY <2>14 DEF NotifyMain
  <2>15. ASSUME NEW e \in Devices, MainLock(e) PROVE TypeOK'
    BY <2>15 DEF MainLock
  <2>16. ASSUME NEW e \in Devices, MainNoRequest(e) PROVE TypeOK'
    BY <2>16 DEF MainNoRequest
  <2>17. ASSUME NEW e \in Devices, MainRespond(e) PROVE TypeOK'
    BY <2>17 DEF MainRespond
  <2>18. ASSUME NEW e \in Devices, MainNotify(e) PROVE TypeOK'
    BY <2>18 DEF MainNotify
  <2>19. ASSUME NEW e \in Devices, MainLockDone(e) PROVE TypeOK'
    BY <2>19 DEF MainLockDone
  <2>20. ASSUME NEW e \in Devices, MainAwaitDone(e) PROVE TypeOK'
    BY <2>20 DEF MainAwaitDone
  <2>21. ASSUME NEW e \in Devices, SpuriousMain(e) PROVE TypeOK'
    BY <2>21 DEF SpuriousMain
  <2>22. ASSUME NEW e \in Devices, MainSeesDone(e) \/ MainFinish(e) PROVE TypeOK'
    BY <2>22 DEF MainSeesDone, MainFinish
  <2>23. ASSUME NEW e \in Devices, NEW op \in Ops, MainCall(e, op) PROVE TypeOK'
    BY <2>23 DEF MainCall
  <2>24. QED
    BY <2>1, <2>2, <2>3, <2>4, <2>5, <2>6, <2>7, <2>8, <2>9, <2>10, <2>11, <2>12, <2>13, <2>14, <2>15, <2>16, <2>17, <2>18, <2>19, <2>20, <2>21, <2>22, <2>23 DEF Next, AsyncStep, MainStep
<1>3. QED
  BY <1>1, <1>2, PTL DEF Safe

-----------------------------------------------------------------------------
\* The invariant is inductive: a step of one device, or of the main thread on
\* behalf of one device, keeps the part of every device.
LEMMA Inductive == IInv /\ [Next]_accessVars => IInv'
<1> SUFFICES ASSUME IInv, [Next]_accessVars PROVE IInv'
  OBVIOUS
<1> USE NoDevAssumption
  DEF IInv, TypeOK, Owner, Messages, Ops, AsyncPcs, MainPcs, DevInv, Locks, Flags, Message,
      Wakeups, HoldsMut, HoldsDone, InRequest, Using, Handling, GoAsync, mainVars,
      Response, PostCompletion
<1>1. CASE UNCHANGED accessVars
  BY <1>1 DEF accessVars
<1>2. ASSUME NEW e \in Devices, Request(e) PROVE IInv'
  BY <1>2 DEF Request
<1>3. ASSUME NEW e \in Devices, LockDone(e) PROVE IInv'
  BY <1>3 DEF LockDone
<1>4. ASSUME NEW e \in Devices, AwaitAnswer(e) PROVE IInv'
  BY <1>4 DEF AwaitAnswer
<1>5. ASSUME NEW e \in Devices, SpuriousAsync(e) PROVE IInv'
  BY <1>5 DEF SpuriousAsync
<1>6. ASSUME NEW e \in Devices, Wake(e) PROVE IInv'
  BY <1>6 DEF Wake
<1>7. ASSUME NEW e \in Devices, Granted(e) PROVE IInv'
  BY <1>7 DEF Granted
<1>8. ASSUME NEW e \in Devices, Denied(e) PROVE IInv'
  BY <1>8 DEF Denied
<1>9. ASSUME NEW e \in Devices, NestedRequest(e) PROVE IInv'
  BY <1>9 DEF NestedRequest
<1>10. ASSUME NEW e \in Devices, NestedGranted(e) PROVE IInv'
  BY <1>10 DEF NestedGranted
<1>11. ASSUME NEW e \in Devices, NestedRelease(e) PROVE IInv'
  BY <1>11 DEF NestedRelease
<1>12. ASSUME NEW e \in Devices, Release(e) PROVE IInv'
  BY <1>12 DEF Release
<1>13. ASSUME NEW e \in Devices, UnlockDone(e) PROVE IInv'
  BY <1>13 DEF UnlockDone
<1>14. ASSUME NEW e \in Devices, NotifyMain(e) PROVE IInv'
  BY <1>14 DEF NotifyMain
<1>15. ASSUME NEW e \in Devices, MainLock(e) PROVE IInv'
  BY <1>15 DEF MainLock
<1>16. ASSUME NEW e \in Devices, MainNoRequest(e) PROVE IInv'
  BY <1>16 DEF MainNoRequest
<1>17. ASSUME NEW e \in Devices, MainRespond(e) PROVE IInv'
  BY <1>17 DEF MainRespond
<1>18. ASSUME NEW e \in Devices, MainNotify(e) PROVE IInv'
  BY <1>18 DEF MainNotify
<1>19. ASSUME NEW e \in Devices, MainLockDone(e) PROVE IInv'
  BY <1>19 DEF MainLockDone
<1>20. ASSUME NEW e \in Devices, MainAwaitDone(e) PROVE IInv'
  BY <1>20 DEF MainAwaitDone
<1>21. ASSUME NEW e \in Devices, SpuriousMain(e) PROVE IInv'
  BY <1>21 DEF SpuriousMain
<1>22. ASSUME NEW e \in Devices, MainSeesDone(e) \/ MainFinish(e) PROVE IInv'
  <2>1. CASE MainSeesDone(e)
    BY <2>1 DEF MainSeesDone
  <2>2. CASE MainFinish(e)
    BY <2>2 DEF MainFinish
  <2> QED
    BY <1>22, <2>1, <2>2
<1>23. ASSUME NEW e \in Devices, NEW op \in Ops, MainCall(e, op) PROVE IInv'
  BY <1>23 DEF MainCall
<1> HIDE DEF IInv
<1>24. QED
  BY <1>1, <1>2, <1>3, <1>4, <1>5, <1>6, <1>7, <1>8, <1>9, <1>10, <1>11, <1>12, <1>13, <1>14, <1>15, <1>16, <1>17, <1>18, <1>19, <1>20, <1>21, <1>22, <1>23 DEF Next, AsyncStep, MainStep

LEMMA Invariance == Safe => []IInv
<1>1. Init => IInv
  <2> SUFFICES ASSUME Init PROVE IInv
    OBVIOUS
  <2>1. TypeOK
    BY DEF Init, TypeOK, Owner, Messages, Ops, AsyncPcs, MainPcs
  <2>2. ASSUME NEW d \in Devices PROVE DevInv(d)
    BY NoDevAssumption
    DEF Init, DevInv, Locks, Flags, Message, Wakeups, HoldsMut, HoldsDone, InRequest, Using, Handling
  <2>3. mainPc = "idle" /\ mainDev = NoDev
    BY DEF Init
  <2> QED
    BY <2>1, <2>2, <2>3 DEF IInv
<1>2. QED
  BY <1>1, Inductive, PTL DEF Safe

-----------------------------------------------------------------------------
\* A device uses the connection only while the main thread is parked in
\* mainThreadCTS for it: granted means CTS, and CTS means being handled.
THEOREM Exclusion == Safe => []ExclusiveUse
<1>1. IInv => ExclusiveUse
  BY DEF IInv, DevInv, Locks, Message, ExclusiveUse, Using, Handling, HoldsDone, Response,
         TypeOK, Ops
<1>2. QED
  BY <1>1, Invariance, PTL

\* Neither condition variable loses a notification, and the main thread never waits for a
\* thread that waits: the invariant has that thread hold the mutex, or be in the request.
THEOREM Progress == Safe => []NobodyIsStuck
<1>1. IInv => NobodyIsStuck
  <2> SUFFICES ASSUME IInv, NEW d \in Devices
               PROVE  /\ Wakeups(d)
                      /\ MainWaits(d) => ~AsyncWaits(d)
    BY DEF NobodyIsStuck, Wakeups
  <2> USE DEF IInv, DevInv, TypeOK, Owner, MainPcs, Wakeups, Locks, Flags, Message, Handling,
              HoldsMut, HoldsDone, InRequest
  <2>1. Wakeups(d)
    OBVIOUS
  <2>2. ASSUME mainPc = "waitDone" /\ mainDev = d PROVE ~AsyncWaits(d)
    <3>1. msg[d] # "WAIT"
      BY <2>2 DEF Response
    <3>2. apc[d] \notin {"idle", "waiting"}
      BY <2>2, <3>1
    <3>3. QED
      BY <2>2, <3>2 DEF AsyncWaits
  <2>3. ASSUME mainPc = "lockMut" /\ mainDev = d, mut[d] # "nobody" PROVE ~AsyncWaits(d)
    BY <2>3 DEF AsyncWaits
  <2>4. ASSUME mainPc = "lockDone" /\ mainDev = d, doneMut[d] # "nobody" PROVE ~AsyncWaits(d)
    <3>1. msg[d] # "WAIT"
      BY <2>4 DEF Response
    <3>2. QED
      BY <2>4, <3>1 DEF AsyncWaits
  <2> QED
    BY <2>1, <2>2, <2>3, <2>4 DEF MainWaits
<1>2. QED
  BY <1>1, Invariance, PTL

\* The assertions of RequestToSend::request never fail.
THEOREM Assertions == Safe => []RequestAssertions
<1>1. IInv => RequestAssertions
  BY DEF IInv, DevInv, Flags, RequestAssertions, InRequest, Using
<1>2. QED
  BY <1>1, Invariance, PTL

\* A permanent denial stays: the requests that it denies never let go of m_mut, so the
\* main thread never sees one that it would answer otherwise.
LEMMA ClosedStays ==
    ASSUME IInv, IInv', [Next]_accessVars, NEW d \in Devices, Closed(d)
    PROVE  Closed(d)'
<1> USE NoDevAssumption
  DEF Closed, Handling, IInv, TypeOK, Ops, Messages, DevInv, Message, Flags, Locks,
      HoldsMut, HoldsDone, InRequest, mainVars, GoAsync
<1>1. CASE UNCHANGED accessVars
  BY <1>1 DEF accessVars
<1>2. ASSUME NEW e \in Devices, Request(e) PROVE Closed(d)'
  BY <1>2 DEF Request
<1>3. ASSUME NEW e \in Devices, LockDone(e) PROVE Closed(d)'
  BY <1>3 DEF LockDone
<1>4. ASSUME NEW e \in Devices, AwaitAnswer(e) PROVE Closed(d)'
  BY <1>4 DEF AwaitAnswer
<1>5. ASSUME NEW e \in Devices, SpuriousAsync(e) PROVE Closed(d)'
  BY <1>5 DEF SpuriousAsync
<1>6. ASSUME NEW e \in Devices, Wake(e) PROVE Closed(d)'
  BY <1>6 DEF Wake
<1>7. ASSUME NEW e \in Devices, Granted(e) PROVE Closed(d)'
  BY <1>7 DEF Granted
<1>8. ASSUME NEW e \in Devices, Denied(e) PROVE Closed(d)'
  BY <1>8 DEF Denied
<1>9. ASSUME NEW e \in Devices, NestedRequest(e) PROVE Closed(d)'
  BY <1>9 DEF NestedRequest
<1>10. ASSUME NEW e \in Devices, NestedGranted(e) PROVE Closed(d)'
  BY <1>10 DEF NestedGranted
<1>11. ASSUME NEW e \in Devices, NestedRelease(e) PROVE Closed(d)'
  BY <1>11 DEF NestedRelease
<1>12. ASSUME NEW e \in Devices, Release(e) PROVE Closed(d)'
  BY <1>12 DEF Release
<1>13. ASSUME NEW e \in Devices, UnlockDone(e) PROVE Closed(d)'
  BY <1>13 DEF UnlockDone
<1>14. ASSUME NEW e \in Devices, NotifyMain(e) PROVE Closed(d)'
  BY <1>14 DEF NotifyMain
<1>15. ASSUME NEW e \in Devices, MainLock(e) PROVE Closed(d)'
  BY <1>15 DEF MainLock
<1>16. ASSUME NEW e \in Devices, MainNoRequest(e) PROVE Closed(d)'
  BY <1>16 DEF MainNoRequest
<1>17. ASSUME NEW e \in Devices, MainRespond(e) PROVE Closed(d)'
  BY <1>17 DEF MainRespond, Response, PostCompletion
<1>18. ASSUME NEW e \in Devices, MainNotify(e) PROVE Closed(d)'
  BY <1>18 DEF MainNotify
<1>19. ASSUME NEW e \in Devices, MainLockDone(e) PROVE Closed(d)'
  BY <1>19 DEF MainLockDone
<1>20. ASSUME NEW e \in Devices, MainAwaitDone(e) PROVE Closed(d)'
  BY <1>20 DEF MainAwaitDone
<1>21. ASSUME NEW e \in Devices, SpuriousMain(e) PROVE Closed(d)'
  BY <1>21 DEF SpuriousMain
<1>22. ASSUME NEW e \in Devices, MainSeesDone(e) \/ MainFinish(e) PROVE Closed(d)'
  <2>1. CASE MainSeesDone(e)
    BY <2>1 DEF MainSeesDone
  <2>2. CASE MainFinish(e)
    BY <2>2 DEF MainFinish, Response, PostCompletion
  <2> QED
    BY <1>22, <2>1, <2>2
<1>23. ASSUME NEW e \in Devices, NEW op \in Ops, MainCall(e, op) PROVE Closed(d)'
  BY <1>23 DEF MainCall
<1>24. QED
  BY <1>1, <1>2, <1>3, <1>4, <1>5, <1>6, <1>7, <1>8, <1>9, <1>10, <1>11, <1>12, <1>13, <1>14, <1>15, <1>16, <1>17, <1>18, <1>19, <1>20, <1>21, <1>22, <1>23 DEF Next, AsyncStep, MainStep

\* mainThreadDenyPermanently denies future requests as well: no later call of
\* any of the three functions reopens the device.
DenialIsPermanent == [][\A d \in Devices : Closed(d) => Closed(d)' /\ ~Using(d)']_accessVars

\* A device denied for good never sends again, whatever is called later: a thread that
\* uses the connection holds an answer that permits it.
THEOREM Denial == Safe => DenialIsPermanent
<1>1. IInv /\ IInv' /\ [Next]_accessVars
        => [\A d \in Devices : Closed(d) => Closed(d)' /\ ~Using(d)']_accessVars
  <2> SUFFICES ASSUME IInv, IInv', [Next]_accessVars, NEW d \in Devices, Closed(d)
               PROVE  Closed(d)' /\ ~Using(d)'
    BY DEF accessVars
  <2>1. Closed(d)'
    BY ClosedStays
  <2>2. msg'[d] = "DENY" => ~Using(d)'
    BY DEF IInv, DevInv, Message
  <2>3. QED
    BY <2>1, <2>2 DEF Closed
<1>2. QED
  BY <1>1, Invariance, PTL DEF Safe, DenialIsPermanent

\* A call that answered a request returns when that request's RequestToSend is destroyed,
\* whatever has come since it read m_done: up to its return it has m_mutDone, which every
\* request keeps from its second step to the end.
THEOREM Completion == Safe => ReturnsAfterRelease
<1>1. IInv /\ [Next]_accessVars
        => [\A d \in Devices : Handling(d) /\ mainPc' = "idle"
              => apc[d] \in {"idle", "lockDone", "notify"}]_accessVars
  <2> SUFFICES ASSUME IInv, [Next]_accessVars, NEW d \in Devices, Handling(d), mainPc' = "idle"
               PROVE  apc[d] \in {"idle", "lockDone", "notify"}
    BY DEF accessVars
  <2>1. mainPc = "restore"
    BY DEF Next, AsyncStep, MainStep, accessVars, Handling, mainVars, Request, LockDone,
           AwaitAnswer, SpuriousAsync, Wake, Granted, Denied, NestedRequest, NestedGranted,
           NestedRelease, Release, UnlockDone, NotifyMain, MainCall, MainLock, MainNoRequest,
           MainRespond, MainNotify, MainLockDone, MainAwaitDone, SpuriousMain, MainSeesDone,
           MainFinish, IInv, TypeOK
  <2>2. apc[d] \notin HoldsDone
    BY <2>1 DEF IInv, DevInv, Locks, Handling
  <2>3. QED
    BY <2>2 DEF IInv, TypeOK, AsyncPcs, HoldsDone
<1>2. QED
  BY <1>1, Invariance, PTL DEF Safe, ReturnsAfterRelease

-----------------------------------------------------------------------------
\* The access control implements BusGrant.

\* What BusGrant sees of the state.
Lent == IF mainOp = "CTS" /\ mainDev # NoDev /\ Handling(mainDev) THEN mainDev ELSE NoDev
InUse == \E d \in Devices : Using(d)
Open == {d \in Devices : ~Closed(d)}

LentTo(d) == mainOp = "CTS" /\ Handling(d)

\* It is lent to the device being handled with a CTS, and to no other.
LEMMA LentValue ==
  ASSUME NEW d \in Devices
  PROVE  /\ LentTo(d) => Lent = d
         /\ mainDev = d /\ ~LentTo(d) => Lent = NoDev
         /\ mainDev = NoDev => Lent = NoDev
BY NoDevAssumption DEF Lent, LentTo, Handling

\* The device that uses the connection is the one it is lent to.
LEMMA UserIsBorrower ==
  ASSUME IInv, NEW d \in Devices, Using(d)
  PROVE  LentTo(d) /\ \A e \in Devices : Using(e) => e = d
BY DEF IInv, DevInv, Message, TypeOK, Ops, LentTo, Handling, Response

\* A step that keeps the messages, the call under way, the stage of that call and
\* who may be sending is invisible.
LEMMA Invisible ==
  ASSUME UNCHANGED <<msg, mainDev, mainOp>>,
         mainDev \in Devices \cup {NoDev},
         \A d \in Devices : Handling(d)' = Handling(d) /\ Using(d)' = Using(d)
  PROVE  UNCHANGED <<Lent, InUse, Open>>
BY DEF Lent, InUse, Open, Closed

THEOREM Refinement == Safe => ImplementsBusGrant
<1>1. Init => Bus!Init
  <2> SUFFICES ASSUME Init PROVE Lent = NoDev /\ InUse = FALSE /\ Open = Devices
    BY DEF Bus!Init, Lent, InUse, Open
  <2>1. QED
    BY DEF Init, Lent, InUse, Open, Closed, Using
<1>2. IInv /\ IInv' /\ [Next]_accessVars => [Bus!Next]_(Bus!busVars)
  <2> SUFFICES ASSUME IInv, IInv', [Next]_accessVars
               PROVE  \/ UNCHANGED <<Lent, InUse, Open>>
                      \/ \E d \in Devices : Bus!Lend(d) \/ Bus!BeginUse(d) \/ Bus!EndUse(d)
                                         \/ Bus!TakeBack(d) \/ Bus!Close(d)
    BY DEF Bus!Next, Bus!busVars, Lent, InUse, Open
  <2> USE NoDevAssumption DEF IInv, TypeOK
  <2>1. CASE UNCHANGED accessVars
    BY <2>1 DEF accessVars, Lent, InUse, Open, Closed, Using, Handling
  <2>2. ASSUME NEW e \in Devices, LockDone(e) PROVE UNCHANGED <<Lent, InUse, Open>>
    BY <2>2, Invisible DEF LockDone, GoAsync, mainVars, Handling, Using, AsyncPcs, MainPcs
  <2>3. ASSUME NEW e \in Devices, AwaitAnswer(e) PROVE UNCHANGED <<Lent, InUse, Open>>
    BY <2>3, Invisible DEF AwaitAnswer, GoAsync, mainVars, Handling, Using, AsyncPcs, MainPcs
  <2>4. ASSUME NEW e \in Devices, SpuriousAsync(e) PROVE UNCHANGED <<Lent, InUse, Open>>
    BY <2>4, Invisible DEF SpuriousAsync, GoAsync, mainVars, Handling, Using, AsyncPcs, MainPcs
  <2>5. ASSUME NEW e \in Devices, Wake(e) PROVE UNCHANGED <<Lent, InUse, Open>>
    BY <2>5, Invisible DEF Wake, GoAsync, mainVars, Handling, Using, AsyncPcs, MainPcs
  <2>6. ASSUME NEW e \in Devices, Denied(e) PROVE UNCHANGED <<Lent, InUse, Open>>
    BY <2>6, Invisible DEF Denied, GoAsync, mainVars, Handling, Using, AsyncPcs, MainPcs
  <2>7. ASSUME NEW e \in Devices, NestedRequest(e) PROVE UNCHANGED <<Lent, InUse, Open>>
    BY <2>7, Invisible DEF NestedRequest, GoAsync, mainVars, Handling, Using, AsyncPcs, MainPcs
  <2>8. ASSUME NEW e \in Devices, NestedGranted(e) PROVE UNCHANGED <<Lent, InUse, Open>>
    BY <2>8, Invisible DEF NestedGranted, GoAsync, mainVars, Handling, Using, AsyncPcs, MainPcs
  <2>9. ASSUME NEW e \in Devices, NestedRelease(e) PROVE UNCHANGED <<Lent, InUse, Open>>
    BY <2>9, Invisible DEF NestedRelease, GoAsync, mainVars, Handling, Using, AsyncPcs, MainPcs
  <2>10. ASSUME NEW e \in Devices, UnlockDone(e) PROVE UNCHANGED <<Lent, InUse, Open>>
    BY <2>10, Invisible DEF UnlockDone, GoAsync, mainVars, Handling, Using, AsyncPcs, MainPcs
  <2>11. ASSUME NEW e \in Devices, NotifyMain(e) PROVE UNCHANGED <<Lent, InUse, Open>>
    BY <2>11, Invisible DEF NotifyMain, GoAsync, mainVars, Handling, Using, AsyncPcs, MainPcs
  <2>12. ASSUME NEW e \in Devices, Request(e) PROVE UNCHANGED <<Lent, InUse, Open>>
    BY <2>12, Invisible DEF Request, GoAsync, mainVars, Handling, Using, AsyncPcs, MainPcs
  <2>13. ASSUME NEW e \in Devices, MainLock(e) PROVE UNCHANGED <<Lent, InUse, Open>>
    BY <2>13, Invisible DEF MainLock, GoAsync, mainVars, Handling, Using, AsyncPcs, MainPcs
  <2>14. ASSUME NEW e \in Devices, MainNotify(e) PROVE UNCHANGED <<Lent, InUse, Open>>
    BY <2>14, Invisible DEF MainNotify, GoAsync, mainVars, Handling, Using, AsyncPcs, MainPcs
  <2>15. ASSUME NEW e \in Devices, MainLockDone(e) PROVE UNCHANGED <<Lent, InUse, Open>>
    BY <2>15, Invisible DEF MainLockDone, GoAsync, mainVars, Handling, Using, AsyncPcs, MainPcs
  <2>16. ASSUME NEW e \in Devices, MainAwaitDone(e) PROVE UNCHANGED <<Lent, InUse, Open>>
    BY <2>16, Invisible DEF MainAwaitDone, GoAsync, mainVars, Handling, Using, AsyncPcs, MainPcs
  <2>17. ASSUME NEW e \in Devices, SpuriousMain(e) PROVE UNCHANGED <<Lent, InUse, Open>>
    BY <2>17, Invisible DEF SpuriousMain, GoAsync, mainVars, Handling, Using, AsyncPcs, MainPcs
  <2>18. ASSUME NEW e \in Devices, NEW op \in Ops, MainCall(e, op)
        PROVE  UNCHANGED <<Lent, InUse, Open>>
    BY <2>18 DEF MainCall, Lent, InUse, Open, Closed, Handling, Using
  <2>19. ASSUME NEW e \in Devices, Granted(e) PROVE Bus!BeginUse(e)
    <3>1. LentTo(e) /\ Lent = e /\ UNCHANGED Lent
      BY <2>19, LentValue DEF Granted, GoAsync, mainVars, DevInv, Message, Ops, Response, LentTo,
                           Handling, Lent
    <3>2. ~InUse /\ InUse'
      BY <2>19, <3>1, UserIsBorrower DEF Granted, GoAsync, InUse, Using, LentTo, Handling
    <3>3. e \in Open /\ UNCHANGED Open
      BY <2>19 DEF Granted, GoAsync, mainVars, Open, Closed, Handling
    <3>4. QED
      BY <3>1, <3>2, <3>3 DEF Bus!BeginUse, Lent, InUse, Open
  <2>20. ASSUME NEW e \in Devices, Release(e)
        PROVE  Bus!EndUse(e) \/ UNCHANGED <<Lent, InUse, Open>>
    <3>1. UNCHANGED <<Lent, Open>>
      BY <2>20 DEF Release, mainVars, Lent, Open, Closed, Handling
    <3>2. CASE Using(e)
      <4>1. Lent = e /\ InUse
        BY <3>2, UserIsBorrower, LentValue DEF InUse
      <4>2. ~InUse'
        BY <2>20, <3>2, UserIsBorrower DEF Release, GoAsync, InUse, Using
      <4>3. QED
        BY <3>1, <4>1, <4>2 DEF Bus!EndUse, Lent, InUse, Open
    <3>3. CASE ~Using(e)
      <4>1. \A d \in Devices : Using(d)' = Using(d)
        BY <2>20, <3>3 DEF Release, GoAsync, Using
      <4>2. QED
        BY <3>1, <4>1 DEF InUse
    <3>4. QED
      BY <3>2, <3>3
  <2>21. ASSUME NEW e \in Devices, MainNoRequest(e)
        PROVE  Bus!Close(e) \/ UNCHANGED <<Lent, InUse, Open>>
    <3>1. Lent = NoDev /\ UNCHANGED <<Lent, InUse>>
      BY <2>21, LentValue DEF MainNoRequest, LentTo, Handling, Lent, InUse, Using
    <3>2. Open' = IF mainOp = "DENYPERM" THEN Open \ {e} ELSE Open
      BY <2>21 DEF MainNoRequest, Open, Closed, Handling, Messages
    <3>3. QED
      BY <3>1, <3>2 DEF Bus!Close, Lent, InUse, Open
  <2>22. ASSUME NEW e \in Devices, MainRespond(e)
        PROVE  Bus!Lend(e) \/ Bus!Close(e) \/ UNCHANGED <<Lent, InUse, Open>>
    <3>1. Lent = NoDev /\ UNCHANGED InUse
      BY <2>22, LentValue DEF MainRespond, LentTo, Handling, InUse, Using
    <3>2. apc[e] \in {"waiting", "wake"} /\ msg[e] = "WAIT"
      BY <2>22 DEF MainRespond, DevInv, Locks, Flags, Message, HoldsMut, InRequest, Handling
    <3>3. CASE mainOp = "CTS"
      <4>1. Lent' = e
        BY <2>22, <3>3 DEF MainRespond, Lent, Handling
      <4>2. e \in Open /\ UNCHANGED Open
        BY <2>22, <3>2, <3>3 DEF MainRespond, Open, Closed, Handling, Response
      <4>3. QED
        BY <3>1, <4>1, <4>2 DEF Bus!Lend, Lent, InUse, Open
    <3>4. CASE mainOp # "CTS"
      <4>1. UNCHANGED Lent
        BY <2>22, <3>1, <3>4 DEF MainRespond, Lent
      <4>2. Open' = IF mainOp = "DENYPERM" THEN Open \ {e} ELSE Open
        BY <2>22, <3>2, <3>4 DEF MainRespond, Open, Closed, Handling, Response, Ops
      <4>3. QED
        BY <3>1, <4>1, <4>2 DEF Bus!Close, Lent, InUse, Open
    <3>5. QED
      BY <3>3, <3>4
  <2>23. ASSUME NEW e \in Devices, MainSeesDone(e) PROVE UNCHANGED <<Lent, InUse, Open>>
    BY <2>23, Invisible DEF MainSeesDone, Handling, Using, AsyncPcs, MainPcs
  <2>24. ASSUME NEW e \in Devices, MainFinish(e)
        PROVE  Bus!TakeBack(e) \/ UNCHANGED <<Lent, InUse, Open>>
    <3>1. Lent' = NoDev /\ UNCHANGED InUse
      BY <2>24 DEF MainFinish, Lent, InUse, Using
    <3>2. UNCHANGED Open
      BY <2>24 DEF MainFinish, Open, Closed, Handling, PostCompletion, DevInv, Message, Response, Ops
    <3>3. CASE mainOp = "CTS"
      <4>1. Lent = e
        BY <2>24, <3>3, LentValue DEF MainFinish, LentTo, Handling
      <4>2. ~Using(e)
        BY <2>24 DEF MainFinish, DevInv, Locks, HoldsDone, Using
      <4>3. ~InUse
        BY <2>24, <4>2, UserIsBorrower DEF MainFinish, InUse, LentTo, Handling
      <4>4. QED
        BY <3>1, <3>2, <4>1, <4>3 DEF Bus!TakeBack, Lent, InUse, Open
    <3>4. CASE mainOp # "CTS"
      BY <3>1, <3>2, <3>4 DEF Lent
    <3>5. QED
      BY <3>3, <3>4
  <2>25. QED
    BY <2>1, <2>2, <2>3, <2>4, <2>5, <2>6, <2>7, <2>8, <2>9, <2>10, <2>11, <2>12, <2>13, <2>14, <2>15, <2>16, <2>17, <2>18, <2>19, <2>20, <2>21, <2>22, <2>23, <2>24 DEF Next, AsyncStep, MainStep
<1>3. QED
  BY <1>1, <1>2, Invariance, PTL DEF Safe, ImplementsBusGrant, Bus!Spec
=============================================================================
