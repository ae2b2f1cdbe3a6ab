------------------------------ MODULE AsyncDevice ------------------------------
(***************************************************************************)
(* AsyncDeviceToken, the RunLoopManager and LoopGuard its thread runs      *)
(* under, and the main thread that drives every token: Connection::process *)
(* while the server runs, the token's destructor when it stops.            *)
(*                                                                         *)
(* The access control of each token is AsyncAccess; this module says who   *)
(* calls it and when. RunLoopManagerBoost changes its state under a mutex  *)
(* and notifies every waiter, so a wait for a state is a guard on it.      *)
(***************************************************************************)
EXTENDS AsyncAccess

VARIABLES
    thread,      \* what the thread of m_callbackThread is doing
    runState,    \* m_run: RunLoopManagerBoost::currentState_
    shouldStop,  \* m_run: RunLoopManagerBase::shouldStop_
    prog,        \* what the main thread is doing
    cur,         \* the device it is doing it to
    todo,        \* the devices left in this pass or in this shutdown
    alive        \* the tokens made and not destroyed yet, in m_devices

deviceVars == <<thread, runState, shouldStop, prog, cur, todo, alive>>
allVars    == <<accessVars, deviceVars>>

ThreadPcs == {"none", "spawned", "starting", "loop", "callback", "exiting", "over"}
RunStates == {"STOPPED", "STARTING", "RUNNING"}
ProgPcs   == {"pass", "interact", "signalStart", "awaitStart", "cts", "inCTS", "mainloop",
              "shutdown", "deny", "inDeny", "awaitStop", "join", "end"}

DeviceInit ==
    /\ Init
    /\ thread = [d \in Devices |-> "none"]
    /\ runState = [d \in Devices |-> "STOPPED"]
    /\ shouldStop = [d \in Devices |-> FALSE]
    /\ prog = "pass"
    /\ cur = NoDev
    /\ todo = {}
    /\ alive = {}

GoProg(from, to) == prog = from /\ prog' = to

-----------------------------------------------------------------------------
\* WaitCallbackLoop, on the thread of device d.

GoThread(d, from, to) == thread[d] = from /\ thread' = [thread EXCEPT ![d] = to]

\* LoopGuard: reportStarting, then reportRunning.
ReportStarting(d) ==
    /\ GoThread(d, "spawned", "starting")
    /\ runState' = [runState EXCEPT ![d] = "STARTING"]
    /\ UNCHANGED <<accessVars, shouldStop, prog, cur, todo, alive>>

ReportRunning(d) ==
    /\ GoThread(d, "starting", "loop")
    /\ runState' = [runState EXCEPT ![d] = "RUNNING"]
    /\ UNCHANGED <<accessVars, shouldStop, prog, cur, todo, alive>>

\* while (m_run->shouldContinue()).
LoopTest(d) ==
    /\ GoThread(d, "loop", IF shouldStop[d] THEN "exiting" ELSE "callback")
    /\ UNCHANGED <<accessVars, runState, shouldStop, prog, cur, todo, alive>>

\* m_cb: any number of sends, each with or without a send guard around it.
CallbackSends(d) ==
    /\ thread[d] = "callback"
    /\ Request(d) \/ NestedRequest(d) \/ SpuriousAsync(d)
    /\ UNCHANGED deviceVars

CallbackSendStep(d) ==
    /\ thread[d] = "callback"
    /\ AsyncStep(d)
    /\ UNCHANGED deviceVars

CallbackReturns(d) ==
    /\ apc[d] = "idle"
    /\ GoThread(d, "callback", "loop")
    /\ UNCHANGED <<accessVars, runState, shouldStop, prog, cur, todo, alive>>

\* ~LoopGuard: reportStopped; the thread's function returns.
ReportStopped(d) ==
    /\ GoThread(d, "exiting", "over")
    /\ runState' = [runState EXCEPT ![d] = "STOPPED"]
    /\ UNCHANGED <<accessVars, shouldStop, prog, cur, todo, alive>>

ThreadStep(d) ==
    \/ ReportStarting(d) \/ ReportRunning(d) \/ LoopTest(d) \/ CallbackSendStep(d)
    \/ CallbackReturns(d) \/ ReportStopped(d)

-----------------------------------------------------------------------------
\* The main thread.

\* createAsyncDevice, between two passes: a token is made, and its device is added to
\* the connection's.
Create(d) ==
    /\ prog = "pass" /\ todo = {}
    /\ d \notin alive
    /\ alive' = alive \cup {d}
    /\ UNCHANGED <<accessVars, thread, runState, shouldStop, prog, cur, todo>>

\* Connection::process goes to the next device.
Process(d) ==
    /\ GoProg("pass", "interact")
    /\ d \in todo
    /\ todo' = todo \ {d}
    /\ cur' = d
    /\ UNCHANGED <<accessVars, thread, runState, shouldStop, alive>>

\* m_ensureThreadStarted: a thread is made for the first interaction only.
EnsureThreadStarted(d) ==
    /\ cur = d
    /\ \/ /\ thread[d] = "none"
          /\ GoProg("interact", "signalStart")
          /\ thread' = [thread EXCEPT ![d] = "spawned"]
       \/ /\ thread[d] # "none"
          /\ GoProg("interact", "cts")
          /\ UNCHANGED thread
    /\ UNCHANGED <<accessVars, runState, shouldStop, cur, todo, alive>>

\* signalAndWaitForStart.
SignalStart(d) ==
    /\ cur = d
    /\ GoProg("signalStart", "awaitStart")
    /\ shouldStop' = [shouldStop EXCEPT ![d] = FALSE]
    /\ UNCHANGED <<accessVars, thread, runState, cur, todo, alive>>

Started(d) ==
    /\ cur = d
    /\ GoProg("awaitStart", "cts")
    /\ runState[d] = "RUNNING"
    /\ UNCHANGED <<accessVars, thread, runState, shouldStop, cur, todo, alive>>

\* m_connectionInteract calls mainThreadCTS, and is called back by its return.
CallCTS(d) ==
    /\ cur = d
    /\ GoProg("cts", "inCTS")
    /\ MainCall(d, "CTS")
    /\ UNCHANGED <<thread, runState, shouldStop, cur, todo, alive>>

\* Slip: the mainloop goes on while the device sends.
CTSReturnsEarly(d) ==
    /\ cur = d
    /\ GoProg("inCTS", "mainloop")
    /\ UNCHANGED <<accessVars, thread, runState, shouldStop, cur, todo, alive>>

CTSReturns(d) ==
    /\ cur = d
    /\ GoProg("inCTS", "mainloop")
    /\ mainPc = "idle"
    /\ UNCHANGED <<accessVars, thread, runState, shouldStop, cur, todo, alive>>

\* VrpnConnectionDevice::m_process: the mainloops, which use the connection.
Mainloop(d) ==
    /\ cur = d
    /\ GoProg("mainloop", "pass")
    /\ cur' = NoDev
    /\ UNCHANGED <<accessVars, thread, runState, shouldStop, todo, alive>>

\* The pass is over: another one, or the server stops and destroys the tokens.
NextPass ==
    /\ todo = {}
    /\ GoProg("pass", "pass") \/ GoProg("pass", "shutdown")
    /\ todo' = alive
    /\ UNCHANGED <<accessVars, thread, runState, shouldStop, cur, alive>>

\* Slips: the loop is not told; the thread is awaited before it is denied.
ShutdownUnsaid(d) ==
    /\ GoProg("shutdown", "deny")
    /\ d \in todo
    /\ todo' = todo \ {d}
    /\ cur' = d
    /\ UNCHANGED <<accessVars, thread, runState, shouldStop, alive>>

ShutdownUndenied(d) ==
    /\ GoProg("shutdown", "awaitStop")
    /\ d \in todo
    /\ todo' = todo \ {d}
    /\ cur' = d
    /\ shouldStop' = [shouldStop EXCEPT ![d] = TRUE]
    /\ UNCHANGED <<accessVars, thread, runState, alive>>

\* ~AsyncDeviceToken, signalAndWaitForShutdown: m_run.signalShutdown().
SignalShutdown(d) ==
    /\ GoProg("shutdown", "deny")
    /\ d \in todo
    /\ todo' = todo \ {d}
    /\ cur' = d
    /\ shouldStop' = [shouldStop EXCEPT ![d] = TRUE]
    /\ UNCHANGED <<accessVars, thread, runState, alive>>

\* Slip: mainThreadDeny in the place of mainThreadDenyPermanently.
CallDenyOnce(d) ==
    /\ cur = d
    /\ GoProg("deny", "inDeny")
    /\ MainCall(d, "DENY")
    /\ UNCHANGED <<thread, runState, shouldStop, cur, todo, alive>>

CallDeny(d) ==
    /\ cur = d
    /\ GoProg("deny", "inDeny")
    /\ MainCall(d, "DENYPERM")
    /\ UNCHANGED <<thread, runState, shouldStop, cur, todo, alive>>

\* if (m_callbackThread) m_run.signalAndWaitForShutdown().
DenyReturns(d) ==
    /\ cur = d
    /\ GoProg("inDeny", IF thread[d] = "none" THEN "join" ELSE "awaitStop")
    /\ mainPc = "idle"
    /\ UNCHANGED <<accessVars, thread, runState, shouldStop, cur, todo, alive>>

Stopped(d) ==
    /\ cur = d
    /\ GoProg("awaitStop", "join")
    /\ runState[d] = "STOPPED"
    /\ UNCHANGED <<accessVars, thread, runState, shouldStop, cur, todo, alive>>

\* Slip: the first thread that has ended takes every token with it.
DestroyAll(d) ==
    /\ cur = d
    /\ thread[d] \in {"none", "over"}
    /\ GoProg("join", "shutdown")
    /\ cur' = NoDev
    /\ alive' = {}
    /\ UNCHANGED <<accessVars, thread, runState, shouldStop, todo>>

\* m_callbackThread->join(); then the token's memory is gone.
Destroy(d) ==
    /\ cur = d
    /\ thread[d] \in {"none", "over"}
    /\ GoProg("join", "shutdown")
    /\ cur' = NoDev
    /\ alive' = alive \ {d}
    /\ UNCHANGED <<accessVars, thread, runState, shouldStop, todo>>

Finish ==
    /\ todo = {}
    /\ GoProg("shutdown", "end")
    /\ UNCHANGED <<accessVars, thread, runState, shouldStop, cur, todo, alive>>

\* Inside mainThreadCTS or mainThreadDenyPermanently.
InsideCall(d) ==
    /\ prog \in {"inCTS", "inDeny"}
    /\ MainStep(d) \/ SpuriousMain(d)
    /\ UNCHANGED deviceVars

ProgStep(d) ==
    \/ Process(d) \/ EnsureThreadStarted(d) \/ SignalStart(d) \/ Started(d) \/ CallCTS(d)
    \/ CTSReturns(d) \/ Mainloop(d) \/ SignalShutdown(d) \/ CallDeny(d) \/ DenyReturns(d)
    \/ Stopped(d) \/ Destroy(d)

Ended == prog = "end" /\ UNCHANGED allVars

DeviceNext ==
    \/ \E d \in Devices : Create(d) \/ ThreadStep(d) \/ CallbackSends(d) \/ ProgStep(d) \/ InsideCall(d)
    \/ NextPass \/ Finish \/ Ended

DeviceSafe == DeviceInit /\ [][DeviceNext]_allVars

\* The fairness of AsyncAccess; threads run; a callback returns, and sends a
\* finite number of times before it does; the main thread goes on. No device has to be
\* made.
DeviceFairness ==
    /\ Fairness
    /\ WF_allVars(NextPass \/ Finish \/ \E d \in Devices : ProgStep(d))
    /\ \A d \in Devices : WF_allVars(ThreadStep(d)) /\ SF_allVars(CallbackReturns(d))

DeviceSpec == DeviceSafe /\ DeviceFairness

-----------------------------------------------------------------------------
\* Types of the run loop's state and of the program counters.
DeviceTypeOK ==
    /\ TypeOK
    /\ thread \in [Devices -> ThreadPcs]
    /\ runState \in [Devices -> RunStates]
    /\ shouldStop \in [Devices -> BOOLEAN]
    /\ prog \in ProgPcs
    /\ cur \in Devices \cup {NoDev}
    /\ todo \subseteq Devices
    /\ alive \subseteq Devices

\* The main thread's own use of the connection, in the mainloops of the devices,
\* never meets a send of a callback: whoever sends does so inside the call of
\* connectionInteract for its device.
MainOrDevice == \A d \in Devices : Using(d) => prog = "inCTS" /\ cur = d

\* When a token is destroyed its thread has ended and left every lock: nothing
\* touches the access control again.
NoUseAfterDestroy == \A d \in Devices \ alive :
    /\ thread[d] \in {"none", "over"}
    /\ apc[d] = "idle" /\ mut[d] = "nobody" /\ doneMut[d] = "nobody" /\ mainDev # d

\* signalAndWaitForStart and signalAndWaitForShutdown wait for a report that is
\* still to come or has come: they never wait on a state that has passed, and a thread
\* that is told to end does not sleep in a request that nobody will answer any more.
WaitsAreAnswered ==
    /\ prog = "awaitStart" => thread[cur] \notin {"none", "exiting", "over"}
    /\ prog = "awaitStop" => shouldStop[cur] /\ thread[cur] # "none" /\ apc[cur] # "waiting"
    /\ \A d \in Devices : runState[d] = "RUNNING" => thread[d] \in {"loop", "callback", "exiting"}

\* A device that asks to send gets an answer, shutdown or not.
RequestAnswered == \A d \in Devices : apc[d] = "lockDone" ~> apc[d] \in {"granted", "denied"}

\* A server that is told to stop does stop, whatever its devices are doing.
ShutdownCompletes == prog = "shutdown" ~> prog = "end"
=============================================================================
