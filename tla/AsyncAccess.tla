------------------------------ MODULE AsyncAccess ------------------------------
(***************************************************************************)
(* Connection/AsyncAccessControl: AsyncAccessControl and RequestToSend,    *)
(* by which the one main thread of the server lends the message bus to the *)
(* asynchronous thread of a device, for every device of the server.        *)
(*                                                                         *)
(* Each device has its own AsyncAccessControl; the main thread is shared.  *)
(* A mutex is its owner. A thread blocked in a condition variable's wait   *)
(* is at pc "waiting" (m_condAsyncThread) or "waitDone" (m_condMainThread) *)
(* and holds no mutex of that wait; boost allows spurious wake-ups.        *)
(* m_mut is recursive, but a thread re-locks it only to unlock it before   *)
(* it does anything else, so its owner is all that matters.                *)
(***************************************************************************)

CONSTANTS Devices,  \* the devices that own an asynchronous thread
          NoDev     \* the main thread is inside no call

ASSUME NoDevAssumption == NoDev \notin Devices

VARIABLES
    mut,        \* owner of m_mut
    doneMut,    \* owner of m_mutDone
    rts,        \* m_rts
    done,       \* m_done
    msg,        \* m_mainMessage
    requester,  \* m_currentRequestThread.is_initialized()
    apc,        \* where the asynchronous thread is
    mainPc,     \* where the main thread is
    mainDev,    \* the device whose access control it is inside
    mainOp      \* the member function it has called

accessVars == <<mut, doneMut, rts, done, msg, requester, apc, mainPc, mainDev, mainOp>>

Owner    == {"nobody", "main", "async"}
Messages == {"WAIT", "CTS", "DENY"}
Ops      == {"CTS", "DENY", "DENYPERM"}
AsyncPcs == {"idle", "lockDone", "check", "waiting", "wake", "granted", "reqNested",
             "nested", "denied", "unlockDone", "notify"}
MainPcs  == {"idle", "lockMut", "check", "notify", "lockDone", "checkDone", "waitDone",
             "restore"}

\* Slips: the function called is passed on as it is, or not at all.
RawResponse(op)    == op
AlwaysRespond(op)  == "CTS"

\* mainThreadCTS/Deny/DenyPermanently: what each passes to m_handleRTS.
Response(op)       == IF op = "CTS" THEN "CTS" ELSE "DENY"
PostCompletion(op) == IF op = "DENYPERM" THEN "DENY" ELSE "WAIT"

Init ==
    /\ mut = [d \in Devices |-> "nobody"]
    /\ doneMut = [d \in Devices |-> "nobody"]
    /\ rts = [d \in Devices |-> FALSE]
    /\ done = [d \in Devices |-> FALSE]
    /\ msg = [d \in Devices |-> "WAIT"]
    /\ requester = [d \in Devices |-> FALSE]
    /\ apc = [d \in Devices |-> "idle"]
    /\ mainPc = "idle"
    /\ mainDev = NoDev
    /\ mainOp = "CTS"

-----------------------------------------------------------------------------
\* RequestToSend, run by the asynchronous thread of device d.

GoAsync(d, from, to) == apc[d] = from /\ apc' = [apc EXCEPT ![d] = to]

mainVars == <<mainPc, mainDev, mainOp>>

\* request() up to m_lockDone.lock(): m_mut is taken and stays taken.
Request(d) ==
    /\ GoAsync(d, "idle", "lockDone")
    /\ mut[d] = "nobody"
    /\ ~(rts[d] /\ requester[d])
    /\ mut' = [mut EXCEPT ![d] = "async"]
    /\ rts' = [rts EXCEPT ![d] = TRUE]
    /\ done' = [done EXCEPT ![d] = FALSE]
    /\ UNCHANGED <<doneMut, msg, requester, mainVars>>

\* m_lockDone.lock() and the second reset of m_done.
LockDone(d) ==
    /\ GoAsync(d, "lockDone", "check")
    /\ doneMut[d] = "nobody"
    /\ doneMut' = [doneMut EXCEPT ![d] = "async"]
    /\ done' = [done EXCEPT ![d] = FALSE]
    /\ UNCHANGED <<mut, rts, msg, requester, mainVars>>

\* No answer yet: wait, letting go of m_mut but not of m_mutDone.
AwaitAnswer(d) ==
    /\ GoAsync(d, "check", "waiting")
    /\ msg[d] = "WAIT"
    /\ mut' = [mut EXCEPT ![d] = "nobody"]
    /\ UNCHANGED <<doneMut, rts, done, msg, requester, mainVars>>

\* A wake-up nobody asked for.
SpuriousAsync(d) ==
    /\ GoAsync(d, "waiting", "wake")
    /\ UNCHANGED <<mut, doneMut, rts, done, msg, requester, mainVars>>

\* The wait takes m_mut back before it returns.
Wake(d) ==
    /\ GoAsync(d, "wake", "check")
    /\ mut[d] = "nobody"
    /\ mut' = [mut EXCEPT ![d] = "async"]
    /\ UNCHANGED <<doneMut, rts, done, msg, requester, mainVars>>

\* request() returns true: the thread may use the connection.
Granted(d) ==
    /\ GoAsync(d, "check", "granted")
    /\ msg[d] = "CTS"
    /\ requester' = [requester EXCEPT ![d] = TRUE]
    /\ UNCHANGED <<mut, doneMut, rts, done, msg, mainVars>>

\* request() returns false; both locks stay held until the destructor.
Denied(d) ==
    /\ GoAsync(d, "check", "denied")
    /\ msg[d] = "DENY"
    /\ UNCHANGED <<mut, doneMut, rts, done, msg, requester, mainVars>>

\* A second RequestToSend while the first is alive: a send inside a guard.
NestedRequest(d) ==
    /\ GoAsync(d, "granted", "reqNested")
    /\ UNCHANGED <<mut, doneMut, rts, done, msg, requester, mainVars>>

\* It is recognised as its own thread's, and takes no lock.
NestedGranted(d) ==
    /\ GoAsync(d, "reqNested", "nested")
    /\ rts[d] /\ requester[d]
    /\ UNCHANGED <<mut, doneMut, rts, done, msg, requester, mainVars>>

NestedRelease(d) ==
    /\ GoAsync(d, "nested", "granted")
    /\ UNCHANGED <<mut, doneMut, rts, done, msg, requester, mainVars>>

\* Slips: a member that is not reset, or not set.
ReleaseStaysIn(d) ==
    /\ GoAsync(d, "granted", "unlockDone") \/ GoAsync(d, "denied", "unlockDone")
    /\ rts' = [rts EXCEPT ![d] = FALSE]
    /\ done' = [done EXCEPT ![d] = TRUE]
    /\ mut' = [mut EXCEPT ![d] = "nobody"]
    /\ UNCHANGED <<doneMut, msg, requester, mainVars>>

ReleaseNotDone(d) ==
    /\ GoAsync(d, "granted", "unlockDone") \/ GoAsync(d, "denied", "unlockDone")
    /\ rts' = [rts EXCEPT ![d] = FALSE]
    /\ requester' = [requester EXCEPT ![d] = FALSE]
    /\ mut' = [mut EXCEPT ![d] = "nobody"]
    /\ UNCHANGED <<doneMut, done, msg, mainVars>>

\* ~RequestToSend of an object that owns its locks, up to m_lock.unlock().
Release(d) ==
    /\ GoAsync(d, "granted", "unlockDone") \/ GoAsync(d, "denied", "unlockDone")
    /\ rts' = [rts EXCEPT ![d] = FALSE]
    /\ done' = [done EXCEPT ![d] = TRUE]
    /\ requester' = [requester EXCEPT ![d] = FALSE]
    /\ mut' = [mut EXCEPT ![d] = "nobody"]
    /\ UNCHANGED <<doneMut, msg, mainVars>>

\* Slip: nobody is notified.
UnlockSilently(d) ==
    /\ GoAsync(d, "unlockDone", "idle")
    /\ doneMut' = [doneMut EXCEPT ![d] = "nobody"]
    /\ UNCHANGED <<mut, rts, done, msg, requester, mainVars>>

\* m_lockDone.unlock().
UnlockDone(d) ==
    /\ GoAsync(d, "unlockDone", "notify")
    /\ doneMut' = [doneMut EXCEPT ![d] = "nobody"]
    /\ UNCHANGED <<mut, rts, done, msg, requester, mainVars>>

\* m_condMainThread.notify_one().
NotifyMain(d) ==
    /\ GoAsync(d, "notify", "idle")
    /\ mainPc' = IF mainPc = "waitDone" /\ mainDev = d THEN "lockDone" ELSE mainPc
    /\ UNCHANGED <<mut, doneMut, rts, done, msg, requester, mainDev, mainOp>>

AsyncStep(d) ==
    \/ LockDone(d) \/ AwaitAnswer(d) \/ Wake(d) \/ Granted(d) \/ Denied(d)
    \/ NestedGranted(d) \/ NestedRelease(d) \/ Release(d) \/ UnlockDone(d) \/ NotifyMain(d)

-----------------------------------------------------------------------------
\* The main thread.

\* It calls op on the access control of device d.
MainCall(d, op) ==
    /\ mainPc = "idle"
    /\ mainPc' = "lockMut"
    /\ mainDev' = d
    /\ mainOp' = op
    /\ UNCHANGED <<mut, doneMut, rts, done, msg, requester, apc>>

\* MainLockType lock(m_mut).
MainLock(d) ==
    /\ mainPc = "lockMut" /\ mainDev = d
    /\ mut[d] = "nobody"
    /\ mut' = [mut EXCEPT ![d] = "main"]
    /\ mainPc' = "check"
    /\ UNCHANGED <<doneMut, rts, done, msg, requester, apc, mainDev, mainOp>>

\* Slip: the post-completion state is stored without a request as well.
NoRequestReopens(d) ==
    /\ mainPc = "check" /\ mainDev = d
    /\ ~rts[d]
    /\ msg' = [msg EXCEPT ![d] = PostCompletion(mainOp)]
    /\ mut' = [mut EXCEPT ![d] = "nobody"]
    /\ mainPc' = "idle"
    /\ mainDev' = NoDev
    /\ UNCHANGED <<doneMut, rts, done, requester, apc, mainOp>>

\* No request: false is returned; a permanent denial is recorded all the same.
MainNoRequest(d) ==
    /\ mainPc = "check" /\ mainDev = d
    /\ ~rts[d]
    /\ msg' = [msg EXCEPT ![d] = IF mainOp = "DENYPERM" THEN "DENY" ELSE @]
    /\ mut' = [mut EXCEPT ![d] = "nobody"]
    /\ mainPc' = "idle"
    /\ mainDev' = NoDev
    /\ UNCHANGED <<doneMut, rts, done, requester, apc, mainOp>>

\* A request: answer it and unlock m_mut.
MainRespond(d) ==
    /\ mainPc = "check" /\ mainDev = d
    /\ rts[d]
    /\ msg' = [msg EXCEPT ![d] = Response(mainOp)]
    /\ mut' = [mut EXCEPT ![d] = "nobody"]
    /\ mainPc' = "notify"
    /\ UNCHANGED <<doneMut, rts, done, requester, apc, mainDev, mainOp>>

\* m_condAsyncThread.notify_one().
MainNotify(d) ==
    /\ mainPc = "notify" /\ mainDev = d
    /\ apc' = [apc EXCEPT ![d] = IF @ = "waiting" THEN "wake" ELSE @]
    /\ mainPc' = "lockDone"
    /\ UNCHANGED <<mut, doneMut, rts, done, msg, requester, mainDev, mainOp>>

\* finishedLock(m_mutDone), or the wait taking m_mutDone back.
MainLockDone(d) ==
    /\ mainPc = "lockDone" /\ mainDev = d
    /\ doneMut[d] = "nobody"
    /\ doneMut' = [doneMut EXCEPT ![d] = "main"]
    /\ mainPc' = "checkDone"
    /\ UNCHANGED <<mut, rts, done, msg, requester, apc, mainDev, mainOp>>

MainAwaitDone(d) ==
    /\ mainPc = "checkDone" /\ mainDev = d
    /\ ~done[d]
    /\ doneMut' = [doneMut EXCEPT ![d] = "nobody"]
    /\ mainPc' = "waitDone"
    /\ UNCHANGED <<mut, rts, done, msg, requester, apc, mainDev, mainOp>>

SpuriousMain(d) ==
    /\ mainPc = "waitDone" /\ mainDev = d
    /\ mainPc' = "lockDone"
    /\ UNCHANGED <<mut, doneMut, rts, done, msg, requester, apc, mainDev, mainOp>>

\* Slip: m_mutDone is unlocked when the loop is over.
MainSeesDoneUnlocked(d) ==
    /\ mainPc = "checkDone" /\ mainDev = d
    /\ done[d]
    /\ mainPc' = "restore"
    /\ doneMut' = [doneMut EXCEPT ![d] = "nobody"]
    /\ UNCHANGED <<mut, rts, done, msg, requester, apc, mainDev, mainOp>>

\* while (!m_done) ends. From here on m_done may be reset by a new request.
MainSeesDone(d) ==
    /\ mainPc = "checkDone" /\ mainDev = d
    /\ done[d]
    /\ mainPc' = "restore"
    /\ UNCHANGED <<mut, doneMut, rts, done, msg, requester, apc, mainDev, mainOp>>

\* The message for the next request is set under m_mutDone only; true is returned.
MainFinish(d) ==
    /\ mainPc = "restore" /\ mainDev = d
    /\ msg' = [msg EXCEPT ![d] = PostCompletion(mainOp)]
    /\ doneMut' = [doneMut EXCEPT ![d] = "nobody"]
    /\ mainPc' = "idle"
    /\ mainDev' = NoDev
    /\ UNCHANGED <<mut, rts, done, requester, apc, mainOp>>

MainStep(d) ==
    \/ MainLock(d) \/ MainNoRequest(d) \/ MainRespond(d) \/ MainNotify(d)
    \/ MainLockDone(d) \/ MainAwaitDone(d) \/ MainSeesDone(d) \/ MainFinish(d)

-----------------------------------------------------------------------------
Next == \E d \in Devices :
    \/ Request(d) \/ NestedRequest(d) \/ AsyncStep(d) \/ SpuriousAsync(d)
    \/ \E op \in Ops : MainCall(d, op)
    \/ MainStep(d) \/ SpuriousMain(d)

Safe == Init /\ [][Next]_accessVars

\* Threads keep running; what a thread does while it may send, nested requests
\* included, comes to an end; and a mutex that is free again and again is at some
\* point given to a thread that wants it. That is not enough for the main thread:
\* a new request resets m_done under m_mut alone, so a device that re-requests at
\* once, every time, can hide each completion from it. The third and fourth
\* lines assume that it does not: the main thread at some point gets m_mutDone,
\* and reads m_done, before the next request.
Fairness ==
    /\ WF_accessVars(\E d \in Devices : MainStep(d))
    /\ SF_accessVars(\E d \in Devices : MainLock(d))
    /\ SF_accessVars(\E d \in Devices : done[d] /\ MainLockDone(d))
    /\ SF_accessVars(\E d \in Devices : MainSeesDone(d))
    /\ \A d \in Devices :
        /\ WF_accessVars(AsyncStep(d)) /\ SF_accessVars(Release(d))
        /\ SF_accessVars(LockDone(d)) /\ SF_accessVars(Wake(d))

Spec == Safe /\ Fairness

-----------------------------------------------------------------------------
\* Types of the variables of AsyncAccessControl and of the program counters.
TypeOK ==
    /\ mut \in [Devices -> Owner]
    /\ doneMut \in [Devices -> Owner]
    /\ rts \in [Devices -> BOOLEAN]
    /\ done \in [Devices -> BOOLEAN]
    /\ msg \in [Devices -> Messages]
    /\ requester \in [Devices -> BOOLEAN]
    /\ apc \in [Devices -> AsyncPcs]
    /\ mainPc \in MainPcs
    /\ mainDev \in Devices \cup {NoDev}
    /\ mainOp \in Ops

\* The asynchronous thread of d may be using the connection.
Using(d) == apc[d] \in {"granted", "reqNested", "nested"}

\* The main thread has answered d's request and has not yet seen it end.
Handling(d) == mainDev = d /\ mainPc \in {"notify", "lockDone", "checkDone", "waitDone", "restore"}

\* d has been denied for good.
Closed(d) == msg[d] = "DENY" /\ ~(Handling(d) /\ mainOp = "DENY")

\* A device uses the connection only while the main thread is parked inside
\* mainThreadCTS for that very device; so no two threads ever use it at once.
ExclusiveUse == \A d \in Devices : Using(d) =>
    /\ mainDev = d /\ mainOp = "CTS"
    /\ mainPc \in {"notify", "lockDone", "waitDone"}

\* What the thread of d waits for: something to send, an answer, or a mutex.
AsyncWaits(d) ==
    \/ apc[d] \in {"idle", "waiting"}
    \/ apc[d] = "lockDone" /\ doneMut[d] # "nobody"
    \/ apc[d] = "wake" /\ mut[d] # "nobody"

\* What the main thread waits for inside d's access control.
MainWaits(d) ==
    /\ mainDev = d
    /\ \/ mainPc = "waitDone"
       \/ mainPc = "lockMut" /\ mut[d] # "nobody"
       \/ mainPc = "lockDone" /\ doneMut[d] # "nobody"

\* No answer and no completion is lost between a test and a wait: a waiting thread whose
\* condition holds has a notification on its way. And whenever the main thread waits, for
\* a mutex or a completion, the thread that it waits for is at a step it can make, although
\* that thread sleeps with m_mutDone locked until its answer comes.
NobodyIsStuck == \A d \in Devices :
    /\ apc[d] = "waiting" /\ msg[d] # "WAIT" => mainPc = "notify" /\ mainDev = d
    /\ mainPc = "waitDone" /\ mainDev = d /\ done[d] => apc[d] \in {"unlockDone", "notify"}
    /\ MainWaits(d) => ~AsyncWaits(d)

\* The assertions of request(): a thread that has got m_mut finds no request
\* under way but its own, which it recognises, and no other thread "in".
RequestAssertions == \A d \in Devices :
    /\ apc[d] = "idle" => ~rts[d] /\ ~requester[d]
    /\ apc[d] = "check" => ~requester[d]
    /\ apc[d] = "reqNested" => rts[d] /\ requester[d]

\* A call that has answered a request returns when that request is over: no RequestToSend
\* of the device is between its m_lockDone.lock() and the unlocking in its destructor. A new
\* one may have come between the main thread's reading of m_done and its return, as
\* request() resets m_done under m_mut alone; but that one still waits for m_mutDone, so it
\* finds the message for the next request and not its predecessor's answer.
ReturnsAfterRelease == [][\A d \in Devices : Handling(d) /\ mainPc' = "idle" =>
    apc[d] \in {"idle", "lockDone", "notify"}]_accessVars

\* A request is granted by an answer given to it, never by the one an earlier
\* request got ("Shouldn't have been permitted to send second yet").
EachSendNeedsItsOwnCTS ==
    [][\A d \in Devices : apc[d] = "lockDone" /\ apc'[d] = "check" => msg[d] # "CTS"]_accessVars

\* The access control implements the lending of one connection.
Bus == INSTANCE BusGrant WITH
    lent  <- IF mainOp = "CTS" /\ mainDev # NoDev /\ Handling(mainDev) THEN mainDev ELSE NoDev,
    using <- \E d \in Devices : Using(d),
    open  <- {d \in Devices : ~Closed(d)}
ImplementsBusGrant == Bus!Spec

\* Every call of the main thread comes back.
MainReturns == \A d \in Devices : mainDev = d ~> mainDev # d
=============================================================================
