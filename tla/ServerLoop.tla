------------------------------- MODULE ServerLoop -------------------------------
(***************************************************************************)
(* Server/ServerImpl: the thread that runs the server's loop, and the      *)
(* threads of the application that call the server meanwhile.              *)
(*                                                                         *)
(* m_runControl protects the state of the loop and is taken by every       *)
(* call; m_mainThreadMutex is held by the loop during an update. A mutex   *)
(* is its owner. m_run is a RunLoopManagerBoost (see AsyncDevice).         *)
(*                                                                         *)
(* How an application uses the server is a record of Usages, chosen at the *)
(* start: the calls each of its threads makes, again and again in any      *)
(* order, and how many messages clients send.                              *)
(***************************************************************************)
EXTENDS Naturals, FiniteSets

CONSTANTS Callers,  \* the threads of the application
          Server,   \* the thread of m_thread
          Nobody,   \* the owner of a free mutex
          Usages

Controlled == {"change", "detect", "loadPlugin"}
Starting   == {"start", "startAndAwaitShutdown"}
Operations == Controlled \cup Starting \cup {"stop", "signalStop", "awaitShutdown", "update"}

ASSUME CallerAssumption ==
    /\ Server \notin Callers /\ Nobody \notin Callers \cup {Server}
    /\ Usages \subseteq [calls : [Callers -> SUBSET Operations], messages : Nat]

VARIABLES
    usage,       \* the usage of this run
    runControl,  \* owner of m_runControl
    mainMutex,   \* owner of m_mainThreadMutex
    running,     \* m_running
    everStarted, \* m_everStarted
    shouldStop,  \* m_run: shouldStop_
    runState,    \* m_run: currentState_, STARTING being of no interest here
    live,        \* m_ctx, m_systemDevice and m_conn have not been reset
    dirty,       \* m_treeDirty
    behind,      \* some client has not been sent the tree as it is now
    triggered,   \* m_triggeredDetect
    messages,    \* the messages clients will still send
    spc,         \* where the server thread is
    upc,         \* where m_update() is, whoever runs it
    cpc, cop     \* where each caller is, in which operation

mutexVars == <<runControl, mainMutex>>
runVars   == <<running, everStarted, shouldStop, runState>>
treeVars  == <<live, dirty, behind, triggered, messages>>
pcVars    == <<spc, upc, cpc, cop>>
vars      == <<usage, mutexVars, runVars, treeVars, pcVars>>

ServerPcs == {"none", "spawned", "lock", "update", "destroy", "unrun", "report", "over"}
UpdatePcs == {"process", "ping", "pingDetect", "route", "detect", "send", "clear", "done"}
CallerPcs == {"idle", "lockRun", "lockMain", "run", "signalStart", "awaitRunning",
              "awaitStop", "join", "update"}

Init ==
    /\ usage \in Usages
    /\ runControl = Nobody /\ mainMutex = Nobody
    /\ running = FALSE /\ everStarted = FALSE /\ shouldStop = FALSE /\ runState = "STOPPED"
    /\ live = TRUE
    /\ dirty = FALSE /\ behind = FALSE /\ triggered = FALSE
    /\ messages = usage.messages
    /\ spc = "none" /\ upc = "done"
    /\ cpc = [c \in Callers |-> "idle"]
    /\ cop = [c \in Callers |-> "update"]

GoServer(from, to)    == spc = from /\ spc' = to
GoUpdate(from, to)    == upc = from /\ upc' = to
GoCaller(c, from, to) == cpc[c] = from /\ cpc' = [cpc EXCEPT ![c] = to]

\* m_treeDirty += change, where the tree has changed or not.
TreeMayChange ==
    \/ dirty' = TRUE /\ behind' = TRUE
    \/ UNCHANGED <<dirty, behind>>

-----------------------------------------------------------------------------
\* m_update(), run by the server thread or by update().

Updating == spc = "update" \/ \E c \in Callers : cpc[c] = "update"

\* A message of a client arrives, and its handlers have to run.
Arrive ==
    /\ Updating
    /\ GoUpdate("process", "ping") \/ GoUpdate("process", "route")
    /\ messages > 0
    /\ messages' = messages - 1
    /\ UNCHANGED <<usage, mutexVars, runVars, live, dirty, behind, triggered, spc, cpc, cop>>

\* Slips: the handler keeps the mutex; it flags no change.
PingKeepsControl ==
    /\ Updating /\ GoUpdate("ping", "process")
    /\ runControl = Nobody
    /\ dirty' = TRUE /\ behind' = TRUE
    /\ runControl' = Server
    /\ UNCHANGED <<usage, mainMutex, runVars, live, triggered, messages, spc, cpc, cop>>

PingUnflagged ==
    /\ Updating /\ GoUpdate("ping", "process")
    /\ runControl = Nobody
    /\ behind' = TRUE
    /\ UNCHANGED <<usage, mutexVars, runVars, live, dirty, triggered, messages, spc, cpc, cop>>

\* A new client's ping: m_queueTreeSend takes m_runControl, and no other mutex as it
\* runs in the loop. There may be a second handler...
Ping ==
    /\ Updating
    /\ GoUpdate("ping", "process") \/ GoUpdate("ping", "pingDetect")
    /\ runControl = Nobody
    /\ dirty' = TRUE /\ behind' = TRUE
    /\ UNCHANGED <<usage, mutexVars, runVars, live, triggered, messages, spc, cpc, cop>>

\* ...triggerHardwareDetect, which does the same.
PingDetect ==
    /\ Updating /\ GoUpdate("pingDetect", "process")
    /\ runControl = Nobody
    /\ triggered' = TRUE
    /\ UNCHANGED <<usage, mutexVars, runVars, live, dirty, behind, messages, spc, cpc, cop>>

\* A route: its handler asserts m_inServerThread(), which takes m_runControl.
UpdatedRoute ==
    /\ Updating /\ GoUpdate("route", "process")
    /\ runControl = Nobody
    /\ TreeMayChange
    /\ UNCHANGED <<usage, mutexVars, runVars, live, triggered, messages, spc, cpc, cop>>

Handle == Ping \/ PingDetect \/ UpdatedRoute

\* m_conn->process() ends; a device may have got a descriptor.
Process ==
    /\ Updating /\ GoUpdate("process", "detect")
    /\ TreeMayChange
    /\ UNCHANGED <<usage, mutexVars, runVars, live, triggered, messages, spc, cpc, cop>>

\* if (m_triggeredDetect); a device that is found has a descriptor.
Detect ==
    /\ Updating /\ GoUpdate("detect", "send")
    /\ triggered' = FALSE
    /\ IF triggered THEN TreeMayChange ELSE UNCHANGED <<dirty, behind>>
    /\ UNCHANGED <<usage, mutexVars, runVars, live, messages, spc, cpc, cop>>

\* if (m_treeDirty) m_sendTree(), and then reset() it.
SendTree ==
    /\ Updating /\ GoUpdate("send", "clear")
    /\ dirty
    /\ behind' = FALSE
    /\ UNCHANGED <<usage, mutexVars, runVars, live, dirty, triggered, messages, spc, cpc, cop>>

ClearDirty ==
    /\ Updating /\ GoUpdate("clear", "done")
    /\ dirty' = FALSE
    /\ UNCHANGED <<usage, mutexVars, runVars, live, behind, triggered, messages, spc, cpc, cop>>

SkipTree ==
    /\ Updating /\ GoUpdate("send", "done")
    /\ ~dirty
    /\ UNCHANGED <<usage, mutexVars, runVars, treeVars, spc, cpc, cop>>

UpdateStep == Process \/ Detect \/ SendTree \/ ClearDirty \/ SkipTree

-----------------------------------------------------------------------------
\* The server thread.

\* Slip: LoopGuard with DELAY_REPORTING_START.
DelayedReport ==
    /\ GoServer("spawned", "lock")
    /\ UNCHANGED <<usage, mutexVars, runVars, treeVars, upc, cpc, cop>>

\* LoopGuard guard(m_run).
ReportRunning ==
    /\ GoServer("spawned", "lock")
    /\ runState' = "RUNNING"
    /\ UNCHANGED <<usage, mutexVars, running, everStarted, shouldStop, treeVars, upc, cpc, cop>>

\* Slip: m_loop() without its mutex.
LoopWithoutLock ==
    /\ GoServer("lock", "update")
    /\ upc' = "process"
    /\ UNCHANGED <<usage, mutexVars, runVars, treeVars, cpc, cop>>

\* m_loop(): the update, under m_mainThreadMutex...
LoopLock ==
    /\ GoServer("lock", "update")
    /\ mainMutex = Nobody
    /\ mainMutex' = Server
    /\ upc' = "process"
    /\ UNCHANGED <<usage, runControl, runVars, treeVars, cpc, cop>>

\* Slip: the test the wrong way round.
LoopUnlockInverted ==
    /\ upc = "done"
    /\ GoServer("update", IF shouldStop THEN "lock" ELSE "destroy")
    /\ mainMutex' = Nobody
    /\ UNCHANGED <<usage, runControl, runVars, treeVars, upc, cpc, cop>>

\* ...and shouldContinue().
LoopUnlock ==
    /\ upc = "done"
    /\ GoServer("update", IF shouldStop THEN "destroy" ELSE "lock")
    /\ mainMutex' = Nobody
    /\ UNCHANGED <<usage, runControl, runVars, treeVars, upc, cpc, cop>>

\* m_orderedDestruction(), with no mutex held.
Destroy ==
    /\ GoServer("destroy", "unrun")
    /\ live' = FALSE
    /\ UNCHANGED <<usage, mutexVars, runVars, dirty, behind, triggered, messages, upc, cpc, cop>>

\* m_running = false, with no mutex held.
Unrun ==
    /\ GoServer("unrun", "report")
    /\ running' = FALSE
    /\ UNCHANGED <<usage, mutexVars, everStarted, shouldStop, runState, treeVars, upc, cpc, cop>>

ReportStopped ==
    /\ GoServer("report", "over")
    /\ runState' = "STOPPED"
    /\ UNCHANGED <<usage, mutexVars, running, everStarted, shouldStop, treeVars, upc, cpc, cop>>

ServerStep == ReportRunning \/ LoopLock \/ LoopUnlock \/ Destroy \/ Unrun \/ ReportStopped

-----------------------------------------------------------------------------
\* The calls of the application.

\* awaitShutdown() takes no mutex. A server is started once and signalled to stop
\* after that; nothing is loaded into, or updated in, a server known to be gone.
Call(c, op) ==
    /\ op \in usage.calls[c]
    /\ op \in Starting => ~everStarted
    /\ op = "signalStop" => everStarted
    /\ op \in {"loadPlugin", "update"} => live
    /\ GoCaller(c, "idle", IF op = "awaitShutdown" THEN "join" ELSE "lockRun")
    /\ cop' = [cop EXCEPT ![c] = op]
    /\ UNCHANGED <<usage, mutexVars, runVars, treeVars, spc, upc>>

\* m_runControl is free, and the operation goes on under it, or returns at once.
TakesControl(c, ops)  == cop[c] \in ops /\ runControl = Nobody /\ runControl' = c
ReturnsAtOnce(c, ops) == cop[c] \in ops /\ runControl = Nobody /\ GoCaller(c, "lockRun", "idle")

\* Slip: m_runControl taken to be enough.
BeginWithoutMain(c) ==
    /\ TakesControl(c, Controlled)
    /\ GoCaller(c, "lockRun", "run")
    /\ UNCHANGED <<usage, mainMutex, runVars, treeVars, spc, upc, cop>>

\* m_callControlled: the server's thread runs, so it must be kept out.
BeginControlled(c) ==
    /\ TakesControl(c, Controlled)
    /\ GoCaller(c, "lockRun", IF running THEN "lockMain" ELSE "run")
    /\ UNCHANGED <<usage, mainMutex, runVars, treeVars, spc, upc, cop>>

LockMain(c) ==
    /\ GoCaller(c, "lockMain", "run")
    /\ mainMutex = Nobody
    /\ mainMutex' = c
    /\ UNCHANGED <<usage, runControl, runVars, treeVars, spc, upc, cop>>

\* f(): addRoute and the like, triggerHardwareDetect, loadPlugin.
RunControlled(c) ==
    /\ GoCaller(c, "run", "idle")
    /\ IF cop[c] = "detect" THEN triggered' = TRUE /\ UNCHANGED <<dirty, behind>>
                            ELSE TreeMayChange /\ UNCHANGED triggered
    /\ runControl' = Nobody
    /\ mainMutex' = IF mainMutex = c THEN Nobody ELSE mainMutex
    /\ UNCHANGED <<usage, runVars, live, messages, spc, upc, cop>>

\* start() of a server that has been destroyed throws; otherwise a thread is made.
StartThrows(c) ==
    /\ ~live
    /\ ReturnsAtOnce(c, Starting)
    /\ UNCHANGED <<usage, mutexVars, runVars, treeVars, spc, upc, cop>>

\* Slip: m_runControl is not held while the loop starts.
BeginStartUnlocked(c) ==
    /\ live /\ runControl = Nobody /\ cop[c] \in Starting
    /\ GoCaller(c, "lockRun", "signalStart")
    /\ everStarted' = TRUE /\ running' = TRUE
    /\ spc' = "spawned"
    /\ UNCHANGED <<usage, mutexVars, shouldStop, runState, treeVars, upc, cop>>

BeginStart(c) ==
    /\ live
    /\ TakesControl(c, Starting)
    /\ GoCaller(c, "lockRun", "signalStart")
    /\ everStarted' = TRUE /\ running' = TRUE
    /\ spc' = "spawned"
    /\ UNCHANGED <<usage, mainMutex, shouldStop, runState, treeVars, upc, cop>>

\* signalAndWaitForStart, m_runControl being held.
SignalStart(c) ==
    /\ GoCaller(c, "signalStart", "awaitRunning")
    /\ shouldStop' = FALSE
    /\ UNCHANGED <<usage, mutexVars, running, everStarted, runState, treeVars, spc, upc, cop>>

Started(c) ==
    /\ GoCaller(c, "awaitRunning", IF cop[c] = "start" THEN "idle" ELSE "join")
    /\ runState = "RUNNING"
    /\ runControl' = Nobody
    /\ UNCHANGED <<usage, mainMutex, runVars, treeVars, spc, upc, cop>>

\* stop() of a server that was never started.
StopUnstarted(c) ==
    /\ ~everStarted
    /\ ReturnsAtOnce(c, {"stop"})
    /\ live' = FALSE
    /\ UNCHANGED <<usage, mutexVars, runVars, dirty, behind, triggered, messages, spc, upc, cop>>

\* signalAndWaitForShutdown, m_runControl being held.
BeginStop(c) ==
    /\ everStarted
    /\ TakesControl(c, {"stop"})
    /\ GoCaller(c, "lockRun", "awaitStop")
    /\ shouldStop' = TRUE
    /\ UNCHANGED <<usage, mainMutex, running, everStarted, runState, treeVars, spc, upc, cop>>

Stopped(c) ==
    /\ GoCaller(c, "awaitStop", "join")
    /\ runState = "STOPPED"
    /\ UNCHANGED <<usage, mutexVars, runVars, treeVars, spc, upc, cop>>

\* Slip: the thread is left to itself.
Detach(c) ==
    /\ GoCaller(c, "join", "idle")
    /\ runControl' = IF runControl = c THEN Nobody ELSE runControl
    /\ UNCHANGED <<usage, mainMutex, runVars, treeVars, spc, upc, cop>>

\* m_thread.join(), of stop() and of awaitShutdown(), alone or after start().
Join(c) ==
    /\ GoCaller(c, "join", "idle")
    /\ spc \in {"none", "over"}
    /\ runControl' = IF runControl = c THEN Nobody ELSE runControl
    /\ UNCHANGED <<usage, mainMutex, runVars, treeVars, spc, upc, cop>>

SignalStop(c) ==
    /\ ReturnsAtOnce(c, {"signalStop"})
    /\ shouldStop' = TRUE
    /\ UNCHANGED <<usage, mutexVars, running, everStarted, runState, treeVars, spc, upc, cop>>

\* update() throws if the server has a thread; otherwise it is an m_update().
UpdateThrows(c) ==
    /\ everStarted
    /\ ReturnsAtOnce(c, {"update"})
    /\ UNCHANGED <<usage, mutexVars, runVars, treeVars, spc, upc, cop>>

BeginUpdate(c) ==
    /\ ~everStarted
    /\ TakesControl(c, {"update"})
    /\ GoCaller(c, "lockRun", "update")
    /\ upc' = "process"
    /\ UNCHANGED <<usage, mainMutex, runVars, treeVars, spc, cop>>

EndUpdate(c) ==
    /\ GoCaller(c, "update", "idle")
    /\ upc = "done"
    /\ runControl' = Nobody
    /\ UNCHANGED <<usage, mainMutex, runVars, treeVars, spc, upc, cop>>

LockRun(c) ==
    \/ BeginControlled(c) \/ StartThrows(c) \/ BeginStart(c) \/ StopUnstarted(c)
    \/ BeginStop(c) \/ SignalStop(c) \/ UpdateThrows(c) \/ BeginUpdate(c)

CallStep(c) ==
    \/ RunControlled(c) \/ SignalStart(c) \/ Started(c) \/ Stopped(c) \/ Join(c) \/ EndUpdate(c)

-----------------------------------------------------------------------------
Next ==
    \/ Arrive \/ Handle \/ UpdateStep \/ ServerStep
    \/ \E c \in Callers :
        \/ \E op \in Operations : Call(c, op)
        \/ LockRun(c) \/ LockMain(c) \/ CallStep(c)

Safe == Init /\ [][Next]_vars

\* Threads keep running, and a mutex that is free again and again is at some point
\* given to a thread that wants it. Nobody has to make a call or send a message.
Fairness ==
    /\ WF_vars(UpdateStep) /\ WF_vars(ServerStep) /\ SF_vars(LoopLock) /\ SF_vars(Handle)
    /\ \A c \in Callers :
        WF_vars(CallStep(c)) /\ SF_vars(LockRun(c)) /\ SF_vars(LockMain(c))

Spec == Safe /\ Fairness

-----------------------------------------------------------------------------
\* What the users of a server keep to, for the properties below to hold.

Calls(u, ops) == {c \in Callers : u.calls[c] \cap ops # {}}

\* One thread starts the server: m_thread is assigned once.
OneStarter(u) == \A c, d \in Calls(u, Starting) : c = d

\* Where signalStop() is used, only the thread that starts the server changes it, and
\* it does nothing else until the server has ended.
QuietStop(u) == Calls(u, {"signalStop"}) # {} =>
    \A c \in Calls(u, Controlled) : u.calls[c] \cap Starting = {"startAndAwaitShutdown"}

\* A thread that loads plugins is not stopped by another one in the middle of it.
LoadersStop(u) == \A c \in Calls(u, {"loadPlugin"}) : Calls(u, {"stop"}) \subseteq {c}

\* A thread that changes a server or stops it while it runs, or updates one itself, meets
\* no message of a client.
QuietClients(u) == u.messages > 0 =>
    /\ Calls(u, {"stop", "update"}) = {}
    /\ \A c \in Calls(u, Controlled) : u.calls[c] \cap Starting = {"startAndAwaitShutdown"}

-----------------------------------------------------------------------------
\* Types of the members of ServerImpl and of the program counters.
TypeOK ==
    /\ usage \in Usages
    /\ runControl \in Callers \cup {Nobody}
    /\ mainMutex \in Callers \cup {Server, Nobody}
    /\ running \in BOOLEAN /\ everStarted \in BOOLEAN /\ shouldStop \in BOOLEAN
    /\ runState \in {"STOPPED", "RUNNING"}
    /\ live \in BOOLEAN /\ dirty \in BOOLEAN /\ behind \in BOOLEAN /\ triggered \in BOOLEAN
    /\ messages \in Nat
    /\ spc \in ServerPcs /\ upc \in UpdatePcs
    /\ cpc \in [Callers -> CallerPcs] /\ cop \in [Callers -> Operations]

\* The callers that touch the tree and the objects that the loop works on.
Inside == {c \in Callers : cpc[c] \in {"run", "update"}}

\* What the mutexes are for ("Mutex held by anything executing in the main
\* thread"): one thread at a time in the tree, the devices and the plugins, while
\* the server starts, runs, and takes itself down.
MainIsExclusive ==
    /\ Cardinality(Inside) <= 1
    /\ spc \in {"update", "destroy"} => Inside = {}

\* A client that lacks the tree as it is will be sent it: a change made, or a ping
\* received, between the sending of the tree and the reset of its flag is not lost.
NoTreeLost == behind => dirty

\* loadPlugin is "safe to call from any thread, even when server is running": the
\* registration context it works on is there until it returns.
PluginHasContext == \A c \in Callers : cpc[c] = "run" /\ cop[c] = "loadPlugin" => live

\* When stop() or startAndAwaitShutdown() returns, the server's thread has ended, and it has
\* destroyed the context and the connection.
StopReturnsAfterEnd == [][\A c \in Callers :
    cop[c] \in {"stop", "startAndAwaitShutdown"} /\ cpc[c] # "idle" /\ cpc'[c] = "idle" =>
        spc \in {"none", "over"} /\ ~live' /\ ~running']_vars

\* m_update() is at a handler that takes m_runControl.
InHandler == upc \in {"ping", "pingDetect", "route"}

\* The server's thread can make its next step...
ServerGoesOn ==
    \/ spc \in {"spawned", "destroy", "unrun", "report"}
    \/ spc = "lock" /\ mainMutex = Nobody
    \/ spc = "update" /\ (InHandler => runControl = Nobody)

\* ...and so can the thread of the application.
GoesOn(c) ==
    \/ cpc[c] \in {"run", "signalStart"}
    \/ cpc[c] = "lockRun" /\ runControl = Nobody
    \/ cpc[c] = "lockMain" /\ mainMutex = Nobody
    \/ cpc[c] = "update" /\ (InHandler => runControl = Nobody)
    \/ cpc[c] = "awaitRunning" /\ runState = "RUNNING"
    \/ cpc[c] = "awaitStop" /\ runState = "STOPPED"
    \/ cpc[c] = "join" /\ spc \in {"none", "over"}

\* Two mutexes, the start, the end and the join are waited for, in several orders and
\* some with a mutex held. But nobody awaits a report that has passed, or an end that
\* nobody asked for any more; and while there is a server's thread or a call, that thread
\* can go on, or a call that no other one keeps from m_runControl.
NobodyIsStuck ==
    /\ \A c \in Callers :
        /\ cpc[c] = "awaitRunning" => GoesOn(c) \/ spc = "spawned"
        /\ cpc[c] = "awaitStop" => GoesOn(c) \/ shouldStop
    /\ spc \notin {"none", "over"} \/ (\E c \in Callers : cpc[c] # "idle") =>
        \/ ServerGoesOn
        \/ \E c \in Callers : GoesOn(c) /\ runControl \in {c, Nobody}

\* A call that waits for m_runControl gets it, and returns or awaits the end.
CallsReturn == \A c \in Callers : cpc[c] = "lockRun" ~> cpc[c] \in {"idle", "join"}

\* A running server that is behind catches up, or stops.
ClientsCatchUp == behind /\ running ~> ~behind \/ ~running

\* A started server that is told to stop does stop.
StopIsHeard == shouldStop /\ running ~> runState = "STOPPED" /\ ~running
=============================================================================
