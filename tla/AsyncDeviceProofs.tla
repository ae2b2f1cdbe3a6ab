--------------------------- MODULE AsyncDeviceProofs ---------------------------
(***************************************************************************)
(* Theorems about AsyncDevice, for every set of devices. What is proved of *)
(* the access control carries over, since tokens, run loops and the main   *)
(* thread only ever take its steps.                                        *)
(***************************************************************************)
EXTENDS AsyncDevice, AsyncAccessProofs

-----------------------------------------------------------------------------
\* What tokens, run loops and the main thread do to an access control is a step of it.
LEMMA StepProjects == [DeviceNext]_allVars => [Next]_accessVars
<1> SUFFICES ASSUME [DeviceNext]_allVars PROVE [Next]_accessVars
  OBVIOUS
<1>1. CASE UNCHANGED allVars \/ NextPass \/ Finish \/ Ended \/ \E d \in Devices : Create(d)
  BY <1>1 DEF allVars, NextPass, Finish, Ended, Create
<1>2. ASSUME NEW d \in Devices, ThreadStep(d) PROVE [Next]_accessVars
  BY <1>2 DEF ThreadStep, ReportStarting, ReportRunning, LoopTest, CallbackSendStep,
              CallbackReturns, ReportStopped, Next
<1>3. ASSUME NEW d \in Devices, CallbackSends(d) PROVE [Next]_accessVars
  BY <1>3 DEF CallbackSends, Next
<1>4. ASSUME NEW d \in Devices, CallCTS(d) \/ CallDeny(d) PROVE [Next]_accessVars
  BY <1>4 DEF CallCTS, CallDeny, Next, Ops
<1>5. ASSUME NEW d \in Devices, ProgStep(d) PROVE [Next]_accessVars
  BY <1>4, <1>5 DEF ProgStep, Process, EnsureThreadStarted, SignalStart, Started, CTSReturns,
                    Mainloop, SignalShutdown, DenyReturns, Stopped, Destroy
<1>6. ASSUME NEW d \in Devices, InsideCall(d) PROVE [Next]_accessVars
  BY <1>6 DEF InsideCall, Next
<1>7. QED
  BY <1>1, <1>2, <1>3, <1>5, <1>6 DEF DeviceNext

\* The tokens drive the access control as AsyncAccess says that it may be driven.
THEOREM Projection == DeviceSafe => Safe
<1>1. DeviceInit => Init
  BY DEF DeviceInit
<1>2. QED
  BY <1>1, StepProjects, PTL DEF DeviceSafe, Safe

\* So the access control keeps its invariant under them.
LEMMA AccessInvariance == DeviceSafe => []IInv
  BY Projection, Invariance, PTL

-----------------------------------------------------------------------------
\* The inductive invariant of the tokens, on top of the one of the access control.

Passing == {"pass", "interact", "signalStart", "awaitStart", "cts", "inCTS", "mainloop"}

\* The device at hand is alive, and so are those still to come.
Population ==
    /\ alive \subseteq Devices /\ todo \subseteq alive
    /\ cur \in alive \cup {NoDev} /\ cur \notin todo
    /\ prog \in ProgPcs
    /\ prog \in {"pass", "shutdown", "end"} <=> cur = NoDev

\* The main thread is inside the access control of the device at hand, or of none.
Caller == mainDev # NoDev =>
    /\ cur = mainDev
    /\ \/ prog = "inCTS" /\ mainOp = "CTS"
       \/ prog = "inDeny" /\ mainOp = "DENYPERM"

\* Only a callback sends, and a token that is gone has no thread that could.
Threads ==
    /\ thread \in [Devices -> ThreadPcs]
    /\ \A d \in Devices : thread[d] # "callback" => apc[d] = "idle"
    /\ \A d \in Devices \ alive : thread[d] \in {"none", "over"}

\* Nobody is told to stop before the shutdown, no thread ends unless it is told to,
\* and the main thread awaits a thread that exists.
RunLoops ==
    /\ runState \in [Devices -> RunStates] /\ shouldStop \in [Devices -> BOOLEAN]
    /\ \A d \in Devices :
        /\ prog \in Passing => ~shouldStop[d]
        /\ thread[d] \in {"exiting", "over"} => shouldStop[d]
        /\ runState[d] = "RUNNING" => thread[d] \in {"loop", "callback", "exiting"}
    /\ prog \in {"signalStart", "awaitStart", "awaitStop"} => thread[cur] # "none"
    /\ prog \in {"deny", "inDeny", "awaitStop"} => shouldStop[cur]

\* A device whose thread the main thread awaits has been denied for good, or is being so.
Denials ==
    /\ prog = "inDeny" => mainDev = cur \/ Closed(cur)
    /\ prog = "awaitStop" => Closed(cur)

DInv == Population /\ Caller /\ Threads /\ RunLoops

\* What a step of an asynchronous thread leaves alone.
LEMMA AsyncFrame ==
    ASSUME NEW d \in Devices, TypeOK,
           AsyncStep(d) \/ Request(d) \/ NestedRequest(d) \/ SpuriousAsync(d)
    PROVE  UNCHANGED <<mainDev, mainOp>> /\ \A e \in Devices \ {d} : apc'[e] = apc[e]
<1> USE DEF TypeOK, GoAsync, mainVars
<1>1. CASE Request(d) \/ NestedRequest(d) \/ SpuriousAsync(d)
  BY <1>1 DEF Request, NestedRequest, SpuriousAsync
<1>2. CASE AsyncStep(d)
  BY <1>2 DEF AsyncStep, LockDone, AwaitAnswer, Wake, Granted, Denied, NestedGranted,
              NestedRelease, Release, UnlockDone, NotifyMain
<1>3. QED
  BY <1>1, <1>2

\* What the main thread does to the others from inside a call: no thread starts
\* or ends a request by it.
LEMMA MainFrame ==
    ASSUME NEW d \in Devices, TypeOK, MainStep(d) \/ SpuriousMain(d)
    PROVE  /\ mainDev = d /\ mainDev' \in {d, NoDev} /\ mainOp' = mainOp
           /\ mainDev' = NoDev /\ mainOp = "DENYPERM" => msg'[d] = "DENY"
           /\ \A e \in Devices : apc'[e] = "idle" <=> apc[e] = "idle"
BY NoDevAssumption
DEF TypeOK, MainStep, SpuriousMain, MainLock, MainNoRequest, MainRespond, MainNotify,
       MainLockDone, MainAwaitDone, MainSeesDone, MainFinish, PostCompletion

LEMMA DeviceInductive == IInv /\ DInv /\ [DeviceNext]_allVars => DInv'
<1> SUFFICES ASSUME IInv, DInv, [DeviceNext]_allVars PROVE DInv'
  OBVIOUS
<1> USE NoDevAssumption DEF DInv, Population, Caller, Threads, RunLoops, ThreadPcs, RunStates,
                            ProgPcs, Passing
<1>1. CASE UNCHANGED allVars \/ NextPass \/ Finish \/ Ended
  BY <1>1 DEF allVars, accessVars, deviceVars, NextPass, Finish, Ended, GoProg
<1>2. ASSUME NEW d \in Devices, CallbackSends(d) \/ CallbackSendStep(d) PROVE DInv'
  <2>1. thread[d] = "callback" /\ UNCHANGED deviceVars
    BY <1>2 DEF CallbackSends, CallbackSendStep
  <2>2. UNCHANGED <<mainDev, mainOp>> /\ \A e \in Devices \ {d} : apc'[e] = apc[e]
    BY <1>2, AsyncFrame DEF CallbackSends, CallbackSendStep, IInv
  <2>3. QED
    BY <2>1, <2>2 DEF deviceVars
<1>3. ASSUME NEW d \in Devices, ThreadStep(d), ~CallbackSendStep(d) PROVE DInv'
  BY <1>3 DEF ThreadStep, GoThread, ReportStarting, ReportRunning, LoopTest, CallbackReturns,
              ReportStopped, accessVars
<1>4. ASSUME NEW d \in Devices, InsideCall(d) PROVE DInv'
  <2>1. UNCHANGED deviceVars
    BY <1>4 DEF InsideCall
  <2>2. /\ mainDev' \in {mainDev, NoDev} /\ mainOp' = mainOp
        /\ \A e \in Devices : apc'[e] = "idle" <=> apc[e] = "idle"
    BY <1>4, MainFrame DEF InsideCall, IInv
  <2>3. QED
    BY <2>1, <2>2 DEF deviceVars
<1>5. ASSUME NEW d \in Devices, CallCTS(d) \/ CallDeny(d) PROVE DInv'
  BY <1>5 DEF CallCTS, CallDeny, MainCall, GoProg
<1>6. ASSUME NEW d \in Devices, CTSReturns(d) \/ DenyReturns(d) PROVE DInv'
  BY <1>6 DEF CTSReturns, DenyReturns, IInv, GoProg, accessVars
<1>7. ASSUME NEW d \in Devices, EnsureThreadStarted(d) PROVE DInv'
  BY <1>7 DEF EnsureThreadStarted, GoProg, accessVars
<1>8. ASSUME NEW d \in Devices,
             Process(d) \/ Started(d) \/ Mainloop(d) \/ Stopped(d)
      PROVE  DInv'
  BY <1>8 DEF Process, Started, Mainloop, Stopped, GoProg, accessVars
<1>9. ASSUME NEW d \in Devices, Destroy(d) PROVE DInv'
  BY <1>9 DEF Destroy, GoProg, accessVars
<1>10. ASSUME NEW d \in Devices, SignalStart(d) PROVE DInv'
  BY <1>10 DEF SignalStart, GoProg, accessVars
<1>11. ASSUME NEW d \in Devices, SignalShutdown(d) PROVE DInv'
  BY <1>11 DEF SignalShutdown, GoProg, accessVars
<1>12. ASSUME NEW d \in Devices, Create(d) PROVE DInv'
  BY <1>12 DEF Create, GoProg, accessVars
<1>13. QED
  BY <1>1, <1>2, <1>3, <1>4, <1>5, <1>6, <1>7, <1>8, <1>9, <1>10, <1>11, <1>12
  DEF DeviceNext, ProgStep

\* The denial is permanent, and the call that makes it returns only when it is made.
LEMMA DenialsStay ==
    ASSUME IInv, IInv', DInv, DInv', Denials, [DeviceNext]_allVars
    PROVE  Denials'
<1> USE NoDevAssumption
<1> cur \in Devices \cup {NoDev} /\ (prog \in {"pass", "shutdown", "end"} <=> cur = NoDev)
  BY DEF DInv, Population
<1>1. ASSUME Closed(cur), cur \in Devices PROVE Closed(cur)' \/ cur' # cur
  <2>1. PICK d \in Devices : d = cur
    BY <1>1
  <2>2. Closed(d)'
    BY <1>1, <2>1, ClosedStays, StepProjects
  <2>3. QED
    BY <2>1, <2>2 DEF Closed, Handling
<1>2. ASSUME UNCHANGED <<prog, cur, mainDev>> PROVE Denials'
  BY <1>1, <1>2 DEF Denials
<1>3. CASE UNCHANGED allVars \/ NextPass \/ Finish \/ Ended
  BY <1>2, <1>3 DEF allVars, accessVars, deviceVars, NextPass, Finish, Ended, GoProg, Denials
<1>4. ASSUME NEW d \in Devices, Create(d) \/ ThreadStep(d) \/ CallbackSends(d) PROVE Denials'
  BY <1>2, <1>4, AsyncFrame
  DEF Create, ThreadStep, ReportStarting, ReportRunning, LoopTest, CallbackSendStep,
      CallbackReturns, ReportStopped, CallbackSends, accessVars, deviceVars, GoProg, IInv
<1>5. ASSUME NEW d \in Devices, CallDeny(d) PROVE Denials'
  BY <1>5 DEF CallDeny, MainCall, GoProg, Denials
<1>6. ASSUME NEW d \in Devices, DenyReturns(d) PROVE Denials'
  <2>1. Closed(cur) /\ cur' = cur /\ prog' # "inDeny"
    BY <1>6 DEF DenyReturns, GoProg, Denials, IInv
  <2>2. QED
    BY <1>1, <1>6, <2>1 DEF DenyReturns, Denials
<1>7. ASSUME NEW d \in Devices, ProgStep(d), ~CallDeny(d), ~DenyReturns(d) PROVE Denials'
  BY <1>7 DEF ProgStep, Process, EnsureThreadStarted, SignalStart, Started, CallCTS, CTSReturns,
              Mainloop, SignalShutdown, Stopped, Destroy, GoProg, Denials
<1>8. ASSUME NEW d \in Devices, InsideCall(d) PROVE Denials'
  <2>1. /\ UNCHANGED <<prog, cur>> /\ prog \in {"inCTS", "inDeny"}
        /\ mainDev = d /\ mainDev' \in {d, NoDev}
        /\ mainDev' = NoDev /\ mainOp = "DENYPERM" => msg'[d] = "DENY"
    BY <1>8, MainFrame DEF InsideCall, deviceVars, IInv
  <2>2. cur = d /\ (prog = "inDeny" => mainOp = "DENYPERM")
    BY <2>1 DEF DInv, Caller
  <2>3. prog = "inDeny" /\ mainDev' = NoDev => Closed(d)'
    BY <2>1, <2>2 DEF Closed, Handling
  <2>4. QED
    BY <2>1, <2>2, <2>3 DEF Denials, Closed, Handling
<1>9. QED
  BY <1>3, <1>4, <1>5, <1>6, <1>7, <1>8 DEF DeviceNext

LEMMA DeviceInvariance == DeviceSafe => [](IInv /\ DInv /\ Denials)
<1>1. DeviceInit => DInv /\ Denials
  BY NoDevAssumption DEF DeviceInit, Init, DInv, Population, Caller, Threads, RunLoops, ThreadPcs,
                         RunStates, ProgPcs, Passing, Denials
<1>2. DeviceSafe => []DInv
  BY <1>1, AccessInvariance, DeviceInductive, PTL DEF DeviceSafe
<1>3. IInv /\ IInv' /\ DInv /\ DInv' /\ Denials /\ [DeviceNext]_allVars => Denials'
  BY DenialsStay
<1>4. QED
  BY <1>1, <1>2, <1>3, AccessInvariance, PTL DEF DeviceSafe

-----------------------------------------------------------------------------
\* Every variable has its type.
THEOREM DeviceTypeCorrect == DeviceSafe => []DeviceTypeOK
<1>1. IInv /\ DInv => DeviceTypeOK
  BY DEF IInv, DInv, Population, Threads, RunLoops, DeviceTypeOK
<1>2. QED
  BY <1>1, DeviceInvariance, PTL

\* The waits of signalAndWaitForStart and signalAndWaitForShutdown are for a report
\* that the thread has yet to make, or has made; and at the end it does not sleep, since
\* a sleeping thread that the main thread does not handle has no answer yet.
THEOREM AnsweredWaits == DeviceSafe => []WaitsAreAnswered
<1>1. IInv /\ DInv /\ Denials => WaitsAreAnswered
  <2> SUFFICES ASSUME IInv, DInv, Denials PROVE WaitsAreAnswered
    OBVIOUS
  <2>1. ASSUME prog = "awaitStop" PROVE apc[cur] # "waiting"
    <3>1. cur \in Devices /\ mainDev # cur /\ msg[cur] = "DENY"
      BY <2>1, NoDevAssumption DEF DInv, Population, Caller, Denials, Closed
    <3>2. QED
      BY <3>1 DEF IInv, DevInv, Message, Handling
  <2>2. QED
    BY <2>1 DEF DInv, Population, RunLoops, WaitsAreAnswered, Passing
<1>2. QED
  BY <1>1, DeviceInvariance, PTL

\* A device sends only while the main thread is inside connectionInteract for it:
\* never while the connection's own mainloops run.
THEOREM Separation == DeviceSafe => []MainOrDevice
<1>1. IInv /\ DInv => MainOrDevice
  <2> SUFFICES ASSUME IInv, DInv, NEW d \in Devices, Using(d) PROVE prog = "inCTS" /\ cur = d
    BY DEF MainOrDevice
  <2>1. mainDev = d /\ mainOp = "CTS"
    BY DEF IInv, TypeOK, DevInv, Message, Handling, Response, Using, Ops
  <2>2. QED
    BY <2>1, NoDevAssumption DEF DInv, Caller
<1>2. QED
  BY <1>1, DeviceInvariance, PTL

\* A token is destroyed only when nobody is inside its access control, and nobody
\* enters it afterwards.
THEOREM SafeDestruction == DeviceSafe => []NoUseAfterDestroy
<1>1. IInv /\ DInv => NoUseAfterDestroy
  <2> SUFFICES ASSUME IInv, DInv, NEW d \in Devices \ alive
               PROVE  /\ thread[d] \in {"none", "over"}
                      /\ apc[d] = "idle" /\ mut[d] = "nobody" /\ doneMut[d] = "nobody"
                      /\ mainDev # d
    BY DEF NoUseAfterDestroy
  <2>1. thread[d] \in {"none", "over"} /\ apc[d] = "idle"
    BY DEF DInv, Threads
  <2>2. mainDev # d
    BY NoDevAssumption DEF DInv, Population, Caller
  <2>3. mut[d] = "nobody" /\ doneMut[d] = "nobody"
    BY <2>1, <2>2 DEF IInv, TypeOK, Owner, DevInv, Locks, HoldsMut, HoldsDone
  <2>4. QED
    BY <2>1, <2>2, <2>3
<1>2. QED
  BY <1>1, DeviceInvariance, PTL
=============================================================================
