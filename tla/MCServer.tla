-------------------------------- MODULE MCServer --------------------------------
(***************************************************************************)
(* The ways in which applications use the server, for TLC.                 *)
(***************************************************************************)
EXTENDS ServerLoop

CONSTANTS c1, c2

Use(calls1, calls2, msgs) ==
    [calls |-> [c \in Callers |-> IF c = c1 THEN calls1 ELSE calls2], messages |-> msgs]

\* osvr_server: everything is set up before the loop starts, a handler stops it.
Application == Use({"change", "loadPlugin", "startAndAwaitShutdown"}, {"signalStop"}, 2)

\* Two threads use the server while it runs, and one of them stops it, while no
\* client sends anything (BusyUsages is about the others).
Embedded == Use({"change", "loadPlugin", "start", "stop"}, {"change", "detect"}, 0)

\* The joint client: one thread does it all, and may start the loop in the end. Its
\* own messages go through a loopback, outside update().
Driven == Use({"change", "detect", "loadPlugin", "update", "start", "stop"}, {}, 0)

\* Two threads wait for the end, one of them after it has asked for it.
Awaited == Use({"start", "awaitShutdown"}, {"signalStop", "awaitShutdown"}, 1)

SafeUsages == {Application, Embedded, Driven, Awaited}

\* They are the usages that the theorems are about.
ASSUME SafeUsagesAreSafe == \A u \in SafeUsages :
    OneStarter(u) /\ QuietStop(u) /\ LoadersStop(u) /\ QuietClients(u)

\* osvr_calibrate adds a route to a running server, and others stop one, when a
\* client may be sending a message.
BusyUsages == {Use({"start", "change"}, {}, 1), Use({"start", "stop"}, {}, 1)}

\* One thread loads a plugin while another signals the server to stop.
StoppingUsages == {Use({"start", "loadPlugin"}, {"signalStop"}, 0)}
=============================================================================
