------------------------------- MODULE ClientTree -------------------------------
(***************************************************************************)
(* A client context: its copy of the path tree, the interfaces its         *)
(* application has opened, and the remote handlers that serve them.        *)
(*                                                                         *)
(* The client has one thread. update() runs the connections, then each     *)
(* handler. A tree message that differs from the last one replaces the     *)
(* tree: all handlers are removed, and those that the new tree resolves    *)
(* are made anew. An exception in there (OriginalSource::decompose) leaves *)
(* update(): nothing catches it before the application.                    *)
(***************************************************************************)
EXTENDS PathTree

CONSTANTS Ifaces,  \* the interface objects an application may open
          PathOf,  \* their paths
          Host,    \* the host the client was told to connect to
          None,
          Nested   \* whether messages arrive while a handler is updated

ASSUME ClientAssumption == Nested \in BOOLEAN /\ \A i \in Ifaces : PathOf[i] \in Path

VARIABLES
    cpc,            \* "app", "handlers" (update() is at the handlers) or "ended"
    startup,        \* the constructor's loops: "connect", "tree", then "done"
    gotConnection,  \* m_gotConnection
    valid,          \* m_pathTreeOwner: a tree has been taken
    ctree,          \* its m_tree
    last,           \* m_last of the DeduplicatingFunctionWrapper
    listed,         \* InterfaceTree: the interfaces of each path
    owned,          \* m_interfaces of the context: what the application can release
    handler,        \* InterfaceTree: the handler of each path
    todo,           \* the paths whose handlers are still to be updated in this pass
    current,        \* the path whose handler is being updated
    orphaned,       \* that handler has been destroyed meanwhile
    interrupted     \* an exception has left paths without their handlers

treeVars   == <<valid, ctree, last>>
ifaceVars  == <<listed, owned>>
passVars   == <<todo, current>>
clientVars == <<cpc, startup, gotConnection, treeVars, ifaceVars, handler, passVars,
                orphaned, interrupted>>

Open(ifaces) == {PathOf[i] : i \in ifaces}
Paths        == {PathOf[i] : i \in Ifaces}

ClientInit ==
    /\ cpc = "app" /\ startup = "connect" /\ gotConnection = FALSE
    /\ valid = FALSE /\ ctree = <<>> /\ last = None
    /\ listed = {} /\ owned = {}
    /\ handler = [p \in Paths |-> None]
    /\ todo = {} /\ current = None /\ orphaned = FALSE /\ interrupted = FALSE

-----------------------------------------------------------------------------
\* The tree arrives.

\* replaceLocalhostServers
Localized(t) ==
    [p \in DOMAIN t |->
        IF t[p].kind = "device" /\ t[p].server = "localhost"
        THEN [t[p] EXCEPT !.server = Host] ELSE t[p]]

\* The handlers that m_connectNeededCallbacks makes for these paths.
HandlerOf(t, p)     == IF Connects(t, p) THEN HandlerFor(t, p) ELSE None
Connected(t, paths) == [p \in Paths |-> IF p \in paths THEN HandlerOf(t, p) ELSE None]

\* An exception in the application's call (a context has no interfaces before its
\* constructor is done): the application goes on or ends.
Thrown ==
    /\ cpc' \in {"app", "ended"}
    /\ todo' = {} /\ current' = None

\* Slip: the new tree's handlers are made before the old ones are removed, and
\* only where there is none.
ReconnectMissing(t) ==
    /\ ctree' = t /\ valid' = TRUE
    /\ handler' = [p \in Paths |-> IF handler[p] # None THEN handler[p]
                                   ELSE Connected(ctree', Open(listed))[p]]
    /\ UNCHANGED <<cpc, orphaned, interrupted, passVars>>

\* PathTreeOwner::replaceTree with the manager as its observer: clearHandlers, the
\* new tree, then a handler for each path in the order of the traversal, until a
\* path cannot be decomposed, or is resolved for ever.
ReplaceTree(t) ==
    /\ ctree' = t /\ valid' = TRUE
    /\ orphaned' = (orphaned \/ current # None)
    /\ LET open == Open(listed)
           bad  == {p \in open : Outcome(ctree', p) \in {"throws", "diverges"}}
       IN  \/ /\ bad = {}
              /\ handler' = Connected(ctree', open)
              /\ interrupted' = FALSE
              /\ UNCHANGED <<cpc, passVars>>
           \/ \E p \in bad, before \in SUBSET (open \ bad) :
                 /\ handler' = Connected(ctree', before)
                 /\ interrupted' = TRUE
                 /\ IF Outcome(ctree', p) = "throws" THEN Thrown
                    ELSE cpc' = "ended" /\ UNCHANGED passVars

\* The message goes through the DeduplicatingFunctionWrapper.
TakeTree(msg) ==
    /\ msg # last
    /\ last' = msg
    /\ ReplaceTree(Localized(msg.tree))
    /\ UNCHANGED <<startup, gotConnection, ifaceVars>>

SkipTree(msg) ==
    /\ last # None /\ msg.tree = last.tree
    /\ UNCHANGED clientVars

\* When a connection's mainloop may run: in the first half of update(), which is one
\* with what the application does before, and again from each handler's own update.
Receiving ==
    \/ cpc = "app"
    \/ Nested /\ cpc = "handlers" /\ current # None

-----------------------------------------------------------------------------
\* update(), and the constructor that repeats it.

UpdateHandlers(connected) ==
    /\ cpc = "app" /\ cpc' = "handlers"
    /\ gotConnection' = (gotConnection \/ connected)
    /\ todo' = {p \in Paths : handler[p] # None}
    /\ UNCHANGED <<startup, treeVars, ifaceVars, handler, current, orphaned, interrupted>>

BeginHandler(p) ==
    /\ cpc = "handlers" /\ current = None /\ p \in todo
    /\ current' = p /\ todo' = todo \ {p}
    /\ UNCHANGED <<cpc, startup, gotConnection, treeVars, ifaceVars, handler, orphaned,
                   interrupted>>

EndHandler ==
    /\ cpc = "handlers" /\ current # None
    /\ current' = None
    /\ UNCHANGED <<cpc, startup, gotConnection, treeVars, ifaceVars, handler, todo,
                   orphaned, interrupted>>

EndUpdate ==
    /\ cpc = "handlers" /\ current = None /\ todo = {}
    /\ cpc' = "app"
    /\ startup' = CASE startup = "connect" /\ gotConnection -> "tree"
                    [] startup = "tree" /\ valid            -> "done"
                    [] OTHER                                -> startup
    /\ UNCHANGED <<gotConnection, treeVars, ifaceVars, handler, passVars, orphaned,
                   interrupted>>

\* STARTUP_CONNECT_TIMEOUT or STARTUP_TREE_TIMEOUT has passed.
StartupTimeout ==
    /\ cpc = "app" /\ startup # "done"
    /\ startup' = "done"
    /\ UNCHANGED <<cpc, gotConnection, treeVars, ifaceVars, handler, passVars, orphaned,
                   interrupted>>

-----------------------------------------------------------------------------
\* The application's calls between updates.

Calling == cpc = "app" /\ startup = "done"

\* getInterface: the first interface of a path connects it. After an exception the
\* interface is listed, and the application does not have it.
GetInterface(i) ==
    LET p == PathOf[i]
    IN  /\ Calling /\ i \notin listed
        /\ listed' = listed \cup {i}
        /\ IF p \notin Open(listed) /\ Outcome(ctree, p) \in {"throws", "diverges"}
           THEN /\ IF Outcome(ctree, p) = "throws" THEN Thrown
                   ELSE cpc' = "ended" /\ UNCHANGED passVars
                /\ UNCHANGED <<owned, handler>>
           ELSE /\ owned' = owned \cup {i}
                /\ handler' = IF p \in Open(listed) THEN handler
                              ELSE [handler EXCEPT ![p] = HandlerOf(ctree, p)]
                /\ UNCHANGED <<cpc, passVars>>
        /\ UNCHANGED <<startup, gotConnection, treeVars, orphaned, interrupted>>

\* Slip: the interface tree forgets the interface, the context does not.
ReleaseHalf(i) ==
    /\ Calling /\ i \in owned
    /\ listed' = listed \ {i}
    /\ handler' = IF PathOf[i] \in Open(listed') THEN handler
                  ELSE [handler EXCEPT ![PathOf[i]] = None]
    /\ UNCHANGED <<cpc, startup, gotConnection, treeVars, owned, passVars, orphaned, interrupted>>

ReleaseInterface(i) ==
    /\ Calling /\ i \in owned
    /\ owned' = owned \ {i} /\ listed' = listed \ {i}
    /\ handler' = IF PathOf[i] \in Open(listed') THEN handler
                  ELSE [handler EXCEPT ![PathOf[i]] = None]
    /\ UNCHANGED <<cpc, startup, gotConnection, treeVars, passVars, orphaned, interrupted>>

-----------------------------------------------------------------------------
\* The variables keep their types.
ClientTypeOK ==
    /\ cpc \in {"app", "handlers", "ended"}
    /\ startup \in {"connect", "tree", "done"}
    /\ {gotConnection, valid, orphaned, interrupted} \subseteq BOOLEAN
    /\ listed \subseteq Ifaces /\ owned \subseteq listed
    /\ DOMAIN handler = Paths
    /\ todo \subseteq Paths /\ current \in Paths \cup {None}

\* The paths with an interface that the client's present tree resolves, and no
\* others, have a handler, and it is on the device that this tree names: whatever
\* the order in which trees come and interfaces are opened and released. After an
\* exception (until a tree that raises none) some may be missing, none is stale.
HandlersMatchTree ==
    \A p \in Paths :
        \/ handler[p] = IF p \in Open(listed) THEN HandlerOf(ctree, p) ELSE None
        \/ interrupted /\ handler[p] = None
=============================================================================
