---------------------------- MODULE ServerLoopProofs ----------------------------
(***************************************************************************)
(* Theorems about ServerLoop, for every set of callers and every usage     *)
(* that keeps to the rules its conditions name.                            *)
(***************************************************************************)
EXTENDS ServerLoop, FiniteSetTheorems, TLAPS

-----------------------------------------------------------------------------
\* The inductive invariant of every usage with one starter.

Stops(c)    == cpc[c] = "awaitStop" \/ (cpc[c] = "join" /\ cop[c] = "stop")
Launches(c) == cpc[c] \in {"signalStart", "awaitRunning"}

\* Who holds the mutexes. A call that has seen no thread goes on without
\* m_mainThreadMutex, and no thread is started as long as it has m_runControl.
Holders ==
    /\ \A c \in Callers :
        /\ cpc[c] \in {"lockMain", "run", "update"} \/ Launches(c) \/ Stops(c) => runControl = c
        /\ cpc[c] = "run" => mainMutex = c \/ ~running
    /\ spc = "update" => mainMutex = Server

\* m_running, m_everStarted, the context and the thread tell the same story.
Story ==
    /\ running <=> spc \notin {"none", "report", "over"}
    /\ everStarted <=> spc # "none"
    /\ spc \in {"unrun", "report", "over"} => ~live
    /\ spc = "destroy" => shouldStop

\* A caller is in an operation it may call, at a place that operation has.
Places == \A c \in Callers :
    /\ cpc[c] # "idle" => cop[c] \in usage.calls[c]
    /\ cpc[c] = "lockRun" /\ cop[c] \in Starting => ~everStarted
    /\ cpc[c] \in {"lockMain", "run"} => cop[c] \in Controlled
    /\ cpc[c] = "update" => cop[c] = "update" /\ ~everStarted
    /\ Launches(c) => cop[c] \in Starting /\ everStarted
    /\ cpc[c] = "awaitStop" => cop[c] = "stop"
    /\ cpc[c] = "join" => cop[c] \in {"stop", "startAndAwaitShutdown", "awaitShutdown"}
    /\ Stops(c) \/ (cpc[c] = "join" /\ cop[c] = "startAndAwaitShutdown") => everStarted

\* Nobody asks for the end of a server that is not up.
Asked ==
    /\ shouldStop => everStarted /\ \A c \in Callers : cpc[c] # "signalStart"
    /\ \A c \in Callers : cpc[c] = "lockRun" /\ cop[c] = "signalStop" => everStarted

\* An update is somebody's, and its tree is up to date when it resets the flag.
Updates ==
    /\ upc # "done" => Updating
    /\ upc = "clear" => ~behind
    /\ NoTreeLost

\* A stop in progress is waited for under m_runControl, unless there was a signal.
StopIsHeld ==
    shouldStop /\ spc # "over" /\ Calls(usage, {"signalStop"}) = {} => \E c \in Callers : Stops(c)

\* A thread that starts the server only to await its end is doing so.
StarterWaits == \A c \in Callers :
    usage.calls[c] \cap Starting = {"startAndAwaitShutdown"} /\ spc \notin {"none", "over"} =>
        /\ Launches(c) \/ cpc[c] = "join"
        /\ cop[c] = "startAndAwaitShutdown"

SInv == TypeOK /\ Holders /\ Story /\ Places /\ Asked /\ Updates /\ StopIsHeld /\ StarterWaits

\* While a plugin is being loaded there is a context to load it into.
LoadersLive == \A c \in Callers :
    cpc[c] \in {"lockRun", "lockMain", "run"} /\ cop[c] = "loadPlugin" => live

-----------------------------------------------------------------------------
LEMMA ServerInit == (\A u \in Usages : OneStarter(u)) /\ Init => SInv
BY CallerAssumption
DEF Init, SInv, TypeOK, Holders, Story, Places, Asked, Updates, StopIsHeld, StarterWaits, Stops,
    Launches, NoTreeLost, Operations, Starting, Controlled, ServerPcs, UpdatePcs, CallerPcs

\* An update is somebody's, so no caller is inside f() at that time.
LEMMA UpdateIsAlone ==
    ASSUME SInv, Updating
    PROVE  \A c \in Callers : cpc[c] # "run"
BY CallerAssumption DEF SInv, TypeOK, Updating, Holders, Story, Places

LEMMA UpdateInductive ==
    ASSUME SInv, Arrive \/ Handle \/ UpdateStep
    PROVE  SInv'
<1> USE DEF SInv, Holders, Story, Places, Asked, Updates, StopIsHeld, StarterWaits, Stops,
            Launches, NoTreeLost, mutexVars, runVars, treeVars
<1>1. TypeOK'
  <2> USE DEF TypeOK, GoUpdate, TreeMayChange, UpdatePcs
  <2>1. CASE Arrive
    BY <2>1 DEF Arrive
  <2>2. CASE Handle
    BY <2>2 DEF Handle, Ping, PingDetect, UpdatedRoute
  <2>3. CASE Process
    BY <2>3 DEF Process
  <2>4. CASE Detect
    BY <2>4 DEF Detect
  <2>5. CASE SendTree \/ ClearDirty \/ SkipTree
    BY <2>5 DEF SendTree, ClearDirty, SkipTree
  <2>6. QED
    BY <2>1, <2>2, <2>3, <2>4, <2>5 DEF UpdateStep
<1>2. UNCHANGED <<usage, mutexVars, runVars, live, spc, cpc, cop>>
  BY DEF Arrive, Handle, Ping, PingDetect, UpdatedRoute, UpdateStep, Process, Detect,
         SendTree, ClearDirty, SkipTree
<1>3. Updates'
  BY <1>2 DEF Updating, Arrive, Handle, Ping, PingDetect, UpdatedRoute, UpdateStep, Process, Detect,
         SendTree, ClearDirty, SkipTree, GoUpdate, TreeMayChange
<1>4. QED
  BY <1>1, <1>2, <1>3

LEMMA ServerInductive ==
    ASSUME SInv, ServerStep
    PROVE  SInv'
<1> USE CallerAssumption
    DEF SInv, TypeOK, Holders, Story, Places, Asked, Updates, StopIsHeld, StarterWaits, Stops,
        Launches, NoTreeLost, Updating, GoServer, mutexVars, runVars, treeVars, ServerPcs, UpdatePcs
<1>1. CASE ReportRunning
  BY <1>1 DEF ReportRunning
<1>2. CASE LoopLock
  BY <1>2 DEF LoopLock
<1>3. CASE LoopUnlock
  BY <1>3 DEF LoopUnlock
<1>4. CASE Destroy
  <2>1. TypeOK'
    <3> HIDE DEF Holders, Story, Places, Asked, Updates, StopIsHeld, StarterWaits
    <3>1. UNCHANGED <<usage, runControl, mainMutex, running, everStarted, shouldStop, runState, dirty,
                     behind, triggered, messages, upc, cpc, cop>>
      BY <1>4 DEF Destroy
    <3>2. live' \in BOOLEAN /\ spc' \in ServerPcs
      BY <1>4 DEF Destroy
    <3> QED
      BY <3>1, <3>2
  <2>2. Holders' /\ Story'
    BY <1>4 DEF Destroy
  <2>3. Places' /\ Asked' /\ Updates'
    BY <1>4 DEF Destroy
  <2>4. StopIsHeld' /\ StarterWaits'
    BY <1>4 DEF Destroy
  <2>5. QED
    BY <2>1, <2>2, <2>3, <2>4
<1>5. CASE Unrun
  <2>1. TypeOK'
    <3> HIDE DEF Holders, Story, Places, Asked, Updates, StopIsHeld, StarterWaits
    <3>1. UNCHANGED <<usage, runControl, mainMutex, live, everStarted, shouldStop, runState, dirty,
                     behind, triggered, messages, upc, cpc, cop>>
      BY <1>5 DEF Unrun
    <3>2. running' \in BOOLEAN /\ spc' \in ServerPcs
      BY <1>5 DEF Unrun
    <3> QED
      BY <3>1, <3>2
  <2>2. Holders' /\ Story'
    BY <1>5 DEF Unrun
  <2>3. Places' /\ Asked' /\ Updates'
    BY <1>5 DEF Unrun
  <2>4. StopIsHeld' /\ StarterWaits'
    BY <1>5 DEF Unrun
  <2>5. QED
    BY <2>1, <2>2, <2>3, <2>4
<1>6. CASE ReportStopped
  BY <1>6 DEF ReportStopped
<1>7. QED
  BY <1>1, <1>2, <1>3, <1>4, <1>5, <1>6 DEF ServerStep

LEMMA CallInductive ==
    ASSUME SInv, NEW c \in Callers, NEW op \in Operations, Call(c, op)
    PROVE  SInv'
BY CallerAssumption
DEF SInv, TypeOK, Holders, Story, Places, Asked, Updates, StopIsHeld, StarterWaits, Stops,
    Launches, NoTreeLost, Updating, Call, GoCaller, mutexVars, runVars, treeVars, CallerPcs

LEMMA CallerInductive ==
    ASSUME SInv, \A u \in Usages : OneStarter(u),
           NEW c \in Callers, LockRun(c) \/ LockMain(c) \/ CallStep(c)
    PROVE  SInv'
<1> USE CallerAssumption
    DEF SInv, TypeOK, Holders, Story, Places, Asked, Updates, StopIsHeld, StarterWaits, Stops,
        Launches, NoTreeLost, Updating, GoCaller, TakesControl, ReturnsAtOnce, mutexVars, runVars,
        treeVars, CallerPcs, ServerPcs, UpdatePcs, Controlled, Starting
<1>1. CASE BeginControlled(c)
  BY <1>1 DEF BeginControlled
<1>2. CASE StartThrows(c)
  BY <1>2 DEF StartThrows
<1>3. CASE BeginStart(c)
  BY <1>3 DEF BeginStart, OneStarter, Calls
<1>4. CASE StopUnstarted(c)
  BY <1>4 DEF StopUnstarted
<1>5. CASE BeginStop(c)
  BY <1>5 DEF BeginStop
<1>6. CASE SignalStop(c)
  BY <1>6 DEF SignalStop, Calls
<1>7. CASE UpdateThrows(c)
  BY <1>7 DEF UpdateThrows
<1>8. CASE BeginUpdate(c)
  BY <1>8 DEF BeginUpdate
<1>9. CASE LockMain(c)
  BY <1>9 DEF LockMain
<1>10. CASE RunControlled(c)
  <2>1. upc = "done"
    BY <1>10, UpdateIsAlone DEF RunControlled
  <2>2. UNCHANGED <<usage, runVars, live, messages, spc, upc, cop>>
    BY <1>10 DEF RunControlled
  <2>3. Updates'
    BY <1>10, <2>1, <2>2 DEF RunControlled, TreeMayChange
  <2>4. dirty' \in BOOLEAN /\ behind' \in BOOLEAN /\ triggered' \in BOOLEAN
    BY <1>10 DEF RunControlled, TreeMayChange
  <2>5. TypeOK'
    BY <1>10, <2>2, <2>4 DEF RunControlled
  <2>6. Holders'
    BY <1>10, <2>2 DEF RunControlled
  <2>7. Story' /\ Places' /\ Asked' /\ StopIsHeld' /\ StarterWaits'
    BY <1>10, <2>2 DEF RunControlled
  <2>8. QED
    BY <2>3, <2>5, <2>6, <2>7
<1>11. CASE SignalStart(c)
  <2>1. TypeOK'
    <3> HIDE DEF Holders, Story, Places, Asked, Updates, StopIsHeld, StarterWaits
    <3>1. UNCHANGED <<usage, runControl, mainMutex, live, everStarted, running, runState, dirty,
                     behind, triggered, messages, upc, spc, cop>>
      BY <1>11 DEF SignalStart
    <3>2. shouldStop' \in BOOLEAN /\ cpc' \in [Callers -> CallerPcs]
      BY <1>11 DEF SignalStart
    <3> QED
      BY <3>1, <3>2
  <2>2. Holders' /\ Updates'
    BY <1>11 DEF SignalStart
  <2>3. StarterWaits'
    BY <1>11 DEF SignalStart
  <2>4. Story' /\ Asked' /\ StopIsHeld'
    BY <1>11 DEF SignalStart
  <2>5. Places'
    BY <1>11 DEF SignalStart
  <2>6. QED
    BY <2>1, <2>2, <2>3, <2>4, <2>5
<1>12. CASE Started(c)
  BY <1>12 DEF Started
<1>13. CASE Stopped(c)
  BY <1>13 DEF Stopped
<1>14. CASE Join(c)
  BY <1>14 DEF Join
<1>15. CASE EndUpdate(c)
  BY <1>15 DEF EndUpdate
<1>16. QED
  BY <1>1, <1>2, <1>3, <1>4, <1>5, <1>6, <1>7, <1>8, <1>9, <1>10, <1>11, <1>12, <1>13, <1>14,
     <1>15 DEF LockRun, CallStep

\* An application whose threads share a server, with one that starts it.
THEOREM ServerInvariance ==
    ASSUME \A u \in Usages : OneStarter(u)
    PROVE  Safe => []SInv
<1>1. Init => SInv
  BY ServerInit
<1>2. SInv /\ [Next]_vars => SInv'
  <2> SUFFICES ASSUME SInv, [Next]_vars PROVE SInv'
    OBVIOUS
  <2>1. CASE UNCHANGED vars
    BY <2>1 DEF vars, mutexVars, runVars, treeVars, pcVars, SInv, TypeOK, Holders, Story, Places,
                Asked, Updates, StopIsHeld, StarterWaits, Stops, Launches, NoTreeLost, Updating
  <2>2. QED
    BY <2>1, UpdateInductive, ServerInductive, CallInductive, CallerInductive DEF Next
<1>3. QED
  BY <1>1, <1>2, PTL DEF Safe

-----------------------------------------------------------------------------
\* The members of ServerImpl, its mutexes and every thread's place keep their types, under
\* every interleaving of the calls of an application with one starter.
THEOREM ServerTypeCorrect ==
    ASSUME \A u \in Usages : OneStarter(u)
    PROVE  Spec => []TypeOK
<1>1. SInv => TypeOK
  BY DEF SInv
<1>2. QED
  BY <1>1, ServerInvariance, PTL DEF Spec

\* m_treeDirty is never reset while a client lacks the tree: f() of a controlled call
\* is kept out between the sending of the tree and the reset, with or without a thread.
THEOREM TreesAreNotLost ==
    ASSUME \A u \in Usages : OneStarter(u)
    PROVE  Spec => []NoTreeLost
<1>1. SInv => NoTreeLost
  BY DEF SInv, Updates
<1>2. QED
  BY <1>1, ServerInvariance, PTL DEF Spec

\* A caller inside has m_runControl, so there is at most one.
LEMMA OneInside == SInv => Cardinality(Inside) <= 1
<1> SUFFICES ASSUME SInv PROVE Cardinality(Inside) <= 1
  OBVIOUS
<1>1. \A c, d \in Inside : c = d
  BY DEF SInv, Holders, Inside
<1>2. CASE Inside = {}
  BY <1>2, FS_EmptySet
<1>3. CASE Inside # {}
  <2>1. PICK c : Inside = {c}
    BY <1>1, <1>3
  <2>2. Cardinality({c}) = 1
    BY FS_Singleton
  <2>3. QED
    BY <2>1, <2>2
<1>4. QED
  BY <1>2, <1>3

\* While the server takes itself down, what asked it to keeps the callers out: a
\* stop() that holds m_runControl, or the only caller that could being in a wait.
LEMMA DestroyIsAlone ==
    ASSUME SInv, \A u \in Usages : QuietStop(u), spc = "destroy"
    PROVE  \A c \in Callers : cpc[c] \notin {"run", "update"}
<1>1. shouldStop /\ everStarted
  BY DEF SInv, Story
<1>2. CASE Calls(usage, {"signalStop"}) = {}
  <2>1. PICK d \in Callers : Stops(d) /\ runControl = d
    BY <1>1, <1>2 DEF SInv, StopIsHeld, Holders
  <2>2. QED
    BY <2>1 DEF SInv, Holders, Stops
<1>3. CASE Calls(usage, {"signalStop"}) # {}
  <2> SUFFICES ASSUME NEW c \in Callers, cpc[c] = "run" PROVE FALSE
    BY <1>1 DEF SInv, Places
  <2>1. c \in Calls(usage, Controlled)
    BY DEF SInv, Places, Calls
  <2>2. usage.calls[c] \cap Starting = {"startAndAwaitShutdown"}
    BY <1>3, <2>1 DEF SInv, TypeOK, QuietStop
  <2>3. QED
    BY <2>2 DEF SInv, StarterWaits, Launches
<1>4. QED
  BY <1>2, <1>3

\* "Mutex held by anything executing in the main thread", where applications stop the
\* server as QuietStop says; the run server_stopping shows what others meet.
THEOREM MainIsAlone ==
    ASSUME \A u \in Usages : OneStarter(u) /\ QuietStop(u)
    PROVE  Spec => []MainIsExclusive
<1>1. SInv => MainIsExclusive
  <2> SUFFICES ASSUME SInv, spc \in {"update", "destroy"} PROVE Inside = {}
    BY OneInside DEF MainIsExclusive
  <2>1. CASE spc = "update"
    BY <2>1, UpdateIsAlone DEF Updating, Inside, SInv, Places, Story
  <2>2. CASE spc = "destroy"
    BY <2>2, DestroyIsAlone DEF Inside
  <2>3. QED
    BY <2>1, <2>2
<1>2. Safe => []SInv
  BY ServerInvariance
<1>3. QED
  BY <1>1, <1>2, PTL DEF Spec

\* The threads that load plugins find the context until they are through: m_ctx is reset
\* by stop() of a server without a thread, which they are not in, or by its thread.
THEOREM PluginsHaveContext ==
    ASSUME \A u \in Usages : OneStarter(u) /\ QuietStop(u) /\ LoadersStop(u)
    PROVE  Spec => []PluginHasContext
<1>1. Init => LoadersLive
  BY DEF Init, LoadersLive
<1>2. SInv /\ LoadersLive /\ [Next]_vars => LoadersLive'
  <2> SUFFICES ASSUME SInv, LoadersLive, [Next]_vars PROVE LoadersLive'
    OBVIOUS
  <2> USE DEF LoadersLive, GoServer, GoUpdate, GoCaller, mutexVars, runVars, treeVars
  <2>1. CASE UNCHANGED vars
    BY <2>1 DEF vars, pcVars
  <2>2. CASE Arrive \/ Handle \/ UpdateStep
    BY <2>2 DEF Arrive, Handle, Ping, PingDetect, UpdatedRoute, UpdateStep, Process, Detect,
                SendTree, ClearDirty, SkipTree
  <2>3. ASSUME Destroy, NEW c \in Callers,
               cpc[c] \in {"lockRun", "lockMain", "run"}, cop[c] = "loadPlugin"
        PROVE  FALSE
    <3>1. "loadPlugin" \in usage.calls[c] /\ usage \in Usages
      BY <2>3 DEF SInv, TypeOK, Places
    <3>2. c \in Calls(usage, {"loadPlugin"}) /\ c \in Calls(usage, Controlled)
      BY <3>1 DEF Calls, Controlled
    <3>3. CASE Calls(usage, {"signalStop"}) = {}
      <4>1. PICK d \in Callers : Stops(d)
        BY <2>3, <3>3 DEF SInv, Story, StopIsHeld, Destroy
      <4>2. cop[d] = "stop" /\ "stop" \in usage.calls[d]
        BY <4>1 DEF SInv, Places, Stops
      <4>3. d = c
        BY <3>1, <3>2, <4>2 DEF LoadersStop, Calls
      <4>4. QED
        BY <2>3, <4>2, <4>3
    <3>4. CASE Calls(usage, {"signalStop"}) # {}
      <4>1. usage.calls[c] \cap Starting = {"startAndAwaitShutdown"}
        BY <3>1, <3>2, <3>4 DEF QuietStop
      <4>2. QED
        BY <2>3, <4>1 DEF SInv, StarterWaits, Destroy
    <3>5. QED
      BY <3>3, <3>4
  <2>4. CASE ServerStep
    <3>1. CASE Destroy
      BY <2>3, <3>1 DEF Destroy
    <3>2. CASE ~Destroy
      BY <2>4, <3>2 DEF ServerStep, ReportRunning, LoopLock, LoopUnlock, Unrun, ReportStopped
    <3>3. QED
      BY <3>1, <3>2
  <2>5. ASSUME NEW c \in Callers, StopUnstarted(c) PROVE LoadersLive'
    <3>1. cop[c] = "stop" /\ "stop" \in usage.calls[c] /\ usage \in Usages
      BY <2>5 DEF StopUnstarted, ReturnsAtOnce, SInv, TypeOK, Places
    <3>2. ASSUME NEW d \in Callers, cpc[d] # "idle", cop[d] = "loadPlugin" PROVE FALSE
      <4>1. "loadPlugin" \in usage.calls[d]
        BY <3>2 DEF SInv, Places
      <4>2. c = d
        BY <3>1, <4>1 DEF LoadersStop, Calls
      <4>3. QED
        BY <3>1, <3>2, <4>2
    <3>3. QED
      BY <2>5, <3>2 DEF StopUnstarted, ReturnsAtOnce, SInv, TypeOK
  <2>6. ASSUME NEW c \in Callers, NEW op \in Operations, Call(c, op) PROVE LoadersLive'
    BY <2>6 DEF Call, SInv, TypeOK
  <2>7. ASSUME NEW c \in Callers, LockRun(c), ~StopUnstarted(c) PROVE LoadersLive'
    BY <2>7 DEF LockRun, BeginControlled, StartThrows, BeginStart, BeginStop, SignalStop,
                UpdateThrows, BeginUpdate, TakesControl, ReturnsAtOnce, SInv, TypeOK
  <2>8. ASSUME NEW c \in Callers, LockMain(c) \/ CallStep(c) PROVE LoadersLive'
    BY <2>8 DEF LockMain, CallStep, RunControlled, SignalStart, Started, Stopped, Join, EndUpdate,
                SInv, TypeOK
  <2>9. QED
    BY <2>1, <2>2, <2>4, <2>5, <2>6, <2>7, <2>8 DEF Next
<1>3. LoadersLive => PluginHasContext
  BY DEF LoadersLive, PluginHasContext
<1>4. Safe => []SInv
  BY ServerInvariance
<1>5. QED
  BY <1>1, <1>2, <1>3, <1>4, PTL DEF Spec, Safe

-----------------------------------------------------------------------------
\* When stop() or startAndAwaitShutdown() returns, the thread has ended, with the context
\* and the connection destroyed: by the join, or as there never was a thread.
THEOREM StopsReturnAfterEnd ==
    ASSUME \A u \in Usages : OneStarter(u)
    PROVE  Spec => StopReturnsAfterEnd
<1> DEFINE Returns(c) == cop[c] \in {"stop", "startAndAwaitShutdown"} /\ cpc[c] # "idle"
                         /\ cpc'[c] = "idle"
           After == \A c \in Callers : Returns(c) =>
                        spc \in {"none", "over"} /\ ~live' /\ ~running'
<1>1. SInv /\ [Next]_vars => After
  <2> SUFFICES ASSUME SInv, [Next]_vars, NEW c \in Callers, Returns(c)
               PROVE  spc \in {"none", "over"} /\ ~live' /\ ~running'
    OBVIOUS
  <2> USE DEF SInv, TypeOK, GoCaller, mutexVars, runVars, treeVars
  <2>1. PICK d \in Callers : LockRun(d) \/ LockMain(d) \/ CallStep(d)
    <3>1. ASSUME NEW d \in Callers, NEW op \in Operations, Call(d, op) PROVE cpc'[c] # "idle"
      BY <3>1 DEF Call
    <3>2. CASE UNCHANGED vars \/ Arrive \/ Handle \/ UpdateStep \/ ServerStep
      BY <3>2 DEF vars, pcVars, Arrive, Handle, Ping, PingDetect, UpdatedRoute, UpdateStep, Process,
                  Detect, SendTree, ClearDirty, SkipTree, ServerStep, ReportRunning, LoopLock,
                  LoopUnlock, Destroy, Unrun, ReportStopped
    <3>3. QED
      BY <3>1, <3>2 DEF Next
  <2>2. d = c
    BY <2>1 DEF LockRun, BeginControlled, StartThrows, BeginStart, StopUnstarted, BeginStop,
                SignalStop, UpdateThrows, BeginUpdate, TakesControl, ReturnsAtOnce, LockMain,
                CallStep, RunControlled, SignalStart, Started, Stopped, Join, EndUpdate
  <2>3. StartThrows(c) \/ StopUnstarted(c) \/ Join(c)
    BY <2>1, <2>2
    DEF Places, LockRun, BeginControlled, BeginStart, BeginStop, SignalStop, UpdateThrows,
        BeginUpdate, TakesControl, ReturnsAtOnce, LockMain, CallStep, RunControlled, SignalStart,
        Started, Stopped, EndUpdate, Controlled, Launches, Stops
  <2>4. CASE StartThrows(c)
    BY <2>4 DEF StartThrows, ReturnsAtOnce, Places, Story
  <2>5. CASE StopUnstarted(c)
    BY <2>5 DEF StopUnstarted, ReturnsAtOnce, Story
  <2>6. CASE Join(c)
    BY <2>6 DEF Join, Places, Story, Stops
  <2>7. QED
    BY <2>3, <2>4, <2>5, <2>6
<1>2. After => [\A c \in Callers : Returns(c) =>
                   spc \in {"none", "over"} /\ ~live' /\ ~running']_vars
  OBVIOUS
<1>3. Safe => []SInv
  BY ServerInvariance
<1>4. QED
  BY <1>1, <1>2, <1>3, PTL DEF Spec, Safe, StopReturnsAfterEnd

-----------------------------------------------------------------------------
\* Whoever has a mutex is where it was taken, the reports are those of the place of the
\* server's thread, and the handlers run only where clients send.
Owned ==
    /\ \A c \in Callers :
        /\ runControl = c => cpc[c] \in {"lockMain", "run", "update"} \/ Launches(c) \/ Stops(c)
        /\ mainMutex = c => cpc[c] = "run"
        /\ Launches(c) => ~shouldStop /\ spc \in {"spawned", "lock", "update"}
        /\ cpc[c] = "awaitStop" => shouldStop
    /\ mainMutex = Server => spc = "update"
    /\ runState = "RUNNING" <=> spc \in {"lock", "update", "destroy", "unrun", "report"}
    /\ usage.messages = 0 => messages = 0 /\ ~InHandler
    /\ InHandler => Updating

LEMMA OwnedInductive ==
    ASSUME \A u \in Usages : OneStarter(u), SInv, Owned, [Next]_vars
    PROVE  Owned'
<1> USE CallerAssumption
    DEF SInv, TypeOK, Owned, Holders, Story, Places, Stops, Launches, InHandler, Updating,
        GoCaller, GoServer, GoUpdate, mutexVars, runVars, treeVars
<1>1. CASE UNCHANGED vars
  BY <1>1 DEF vars, pcVars
<1>2. CASE Arrive
  BY <1>2 DEF Arrive
<1>3. CASE Handle \/ UpdateStep
  BY <1>3 DEF Handle, Ping, PingDetect, UpdatedRoute, UpdateStep, Process, Detect, SendTree,
              ClearDirty, SkipTree
<1>4. CASE ServerStep
  BY <1>4 DEF ServerStep, ReportRunning, LoopLock, LoopUnlock, Destroy, Unrun, ReportStopped
<1>5. ASSUME NEW c \in Callers, NEW op \in Operations, Call(c, op) PROVE Owned'
  BY <1>5 DEF Call
<1>6. ASSUME NEW c \in Callers, LockRun(c) PROVE Owned'
  <2> USE DEF TakesControl, ReturnsAtOnce
  <2>1. CASE BeginControlled(c)
    BY <2>1 DEF BeginControlled
  <2>2. CASE StartThrows(c) \/ StopUnstarted(c) \/ UpdateThrows(c)
    BY <2>2 DEF StartThrows, StopUnstarted, UpdateThrows
  <2>3. CASE BeginStart(c)
    BY <2>3 DEF BeginStart, Asked
  <2>4. CASE BeginStop(c)
    BY <2>4 DEF BeginStop
  <2>5. CASE SignalStop(c)
    BY <2>5 DEF SignalStop
  <2>6. CASE BeginUpdate(c)
    BY <2>6 DEF BeginUpdate
  <2>7. QED
    BY <1>6, <2>1, <2>2, <2>3, <2>4, <2>5, <2>6 DEF LockRun
<1>7. ASSUME NEW c \in Callers, LockMain(c) \/ CallStep(c) PROVE Owned'
  <2>1. CASE LockMain(c)
    BY <2>1 DEF LockMain
  <2>2. CASE RunControlled(c)
    BY <2>2 DEF RunControlled
  <2>3. CASE SignalStart(c)
    BY <2>3 DEF SignalStart
  <2>4. CASE Started(c)
    BY <2>4 DEF Started
  <2>5. CASE Stopped(c)
    BY <2>5 DEF Stopped
  <2>6. CASE Join(c)
    BY <2>6 DEF Join
  <2>7. CASE EndUpdate(c)
    BY <2>7 DEF EndUpdate
  <2>8. QED
    BY <1>7, <2>1, <2>2, <2>3, <2>4, <2>5, <2>6, <2>7 DEF CallStep
<1>8. QED
  BY <1>1, <1>2, <1>3, <1>4, <1>5, <1>6, <1>7 DEF Next

\* A handler that waits for m_runControl meets a call that goes on: not one that waits for
\* m_mainThreadMutex or for the end, since QuietClients keeps those away from messages.
LEMMA HandlersAreNotBlocked ==
    ASSUME SInv, Owned, \A u \in Usages : QuietClients(u),
           spc = "update", InHandler, runControl # Nobody
    PROVE  \E c \in Callers : GoesOn(c) /\ runControl = c
<1>1. PICK c \in Callers : runControl = c
  BY DEF SInv, TypeOK
<1>2. usage.messages > 0 /\ everStarted /\ running
  BY CallerAssumption DEF SInv, TypeOK, Owned, Story
<1>3. cpc[c] # "update"
  BY <1>1, <1>2 DEF SInv, Places
<1>4. cpc[c] \notin {"lockMain", "run"}
  <2> SUFFICES ASSUME cpc[c] \in {"lockMain", "run"} PROVE FALSE
    OBVIOUS
  <2>1. c \in Calls(usage, Controlled)
    BY DEF SInv, Places, Calls
  <2>2. usage.calls[c] \cap Starting = {"startAndAwaitShutdown"}
    BY <1>2, <2>1 DEF SInv, TypeOK, QuietClients
  <2>3. QED
    BY <2>2 DEF SInv, StarterWaits, Launches
<1>5. ~Stops(c)
  <2>1. "stop" \notin usage.calls[c]
    BY <1>2 DEF SInv, TypeOK, QuietClients, Calls
  <2>2. QED
    BY <2>1 DEF SInv, Places, Stops
<1>6. Launches(c)
  BY <1>1, <1>3, <1>4, <1>5 DEF Owned
<1>7. QED
  BY <1>1, <1>6 DEF Launches, GoesOn, Owned

\* No call and no handler waits for ever for a mutex or a report, where applications keep
\* to QuietClients; the run server_busy shows what others meet.
THEOREM NobodyGetsStuck ==
    ASSUME \A u \in Usages : OneStarter(u) /\ QuietClients(u)
    PROVE  Spec => []NobodyIsStuck
<1>1. Init => Owned
  BY CallerAssumption DEF Init, Owned, Launches, InHandler
<1>2. SInv /\ Owned => NobodyIsStuck
  <2> SUFFICES ASSUME SInv, Owned PROVE NobodyIsStuck
    OBVIOUS
  <2>1. ASSUME NEW c \in Callers
        PROVE  /\ cpc[c] = "awaitRunning" => GoesOn(c) \/ spc = "spawned"
               /\ cpc[c] = "awaitStop" => GoesOn(c) \/ shouldStop
    BY DEF Owned, Launches, GoesOn
  <2>2. ASSUME spc \notin {"none", "over"}
        PROVE  ServerGoesOn \/ \E c \in Callers : GoesOn(c) /\ runControl = c
    <3>1. CASE spc = "lock" /\ mainMutex # Nobody
      <4>1. PICK c \in Callers : mainMutex = c
        BY <3>1 DEF SInv, TypeOK, Owned
      <4>2. cpc[c] = "run" /\ runControl = c
        BY <4>1 DEF Owned, SInv, Holders
      <4>3. QED
        BY <4>2 DEF GoesOn
    <3>2. CASE spc = "update"
      BY <3>2, HandlersAreNotBlocked DEF ServerGoesOn
    <3>3. QED
      BY <2>2, <3>1, <3>2 DEF ServerGoesOn, SInv, TypeOK, ServerPcs
  <2>3. ASSUME spc \in {"none", "over"}, NEW c \in Callers, cpc[c] # "idle"
        PROVE  \E d \in Callers : GoesOn(d) /\ runControl \in {d, Nobody}
    <3>1. CASE runControl # Nobody
      <4>1. PICK d \in Callers : runControl = d
        BY <3>1 DEF SInv, TypeOK
      <4>2. ASSUME cpc[d] = "lockMain" PROVE GoesOn(d)
        <5>1. mainMutex = Nobody
          BY <2>3, <4>1, <4>2 DEF SInv, TypeOK, Owned, Holders
        <5>2. QED
          BY <4>2, <5>1 DEF GoesOn
      <4>3. ASSUME cpc[d] = "update" PROVE GoesOn(d)
        <5>1. "update" \in usage.calls[d] /\ usage \in Usages
          BY <4>3 DEF SInv, TypeOK, Places
        <5>2. usage.messages = 0
          BY <5>1, CallerAssumption DEF QuietClients, Calls
        <5>3. QED
          BY <4>3, <5>2 DEF Owned, GoesOn
      <4>4. ASSUME cpc[d] \in {"run", "awaitStop", "join"} \/ Launches(d) PROVE GoesOn(d)
        BY <2>3, <4>4 DEF SInv, TypeOK, Owned, GoesOn, Launches
      <4>5. cpc[d] \in {"lockMain", "run", "update"} \/ Launches(d) \/ Stops(d)
        BY <4>1 DEF Owned
      <4>6. GoesOn(d)
        BY <4>2, <4>3, <4>4, <4>5 DEF Stops
      <4>7. QED
        BY <4>1, <4>6
    <3>2. CASE runControl = Nobody
      BY <2>3, <3>2 DEF SInv, TypeOK, Owned, GoesOn, Holders, Places, Launches, Stops, CallerPcs
    <3>3. QED
      BY <3>1, <3>2
  <2>4. QED
    BY <2>1, <2>2, <2>3 DEF NobodyIsStuck
<1>3. Safe => []SInv
  BY ServerInvariance
<1>4. SInv /\ Owned /\ [Next]_vars => Owned'
  BY OwnedInductive
<1>5. QED
  BY <1>1, <1>2, <1>3, <1>4, PTL DEF Spec, Safe
=============================================================================
