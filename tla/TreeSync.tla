-------------------------------- MODULE TreeSync --------------------------------
(***************************************************************************)
(* A server, a client and the connection between them, which may be lost   *)
(* and made again; the server may be restarted. What was under way when    *)
(* the connection broke is lost from some point on (TCP keeps the order).  *)
(***************************************************************************)
EXTENDS ServerTree, ClientTree

CONSTANTS Routes,    \* the routes the client's application may send
          MaxInbox   \* bound: trees under way

ASSUME LinkAssumption == Routes \subseteq Entries /\ Host \in Text /\ MaxInbox \in Nat

VARIABLES
    connected,  \* m_mainConn->connected()
    pinging,    \* the client's ping has not been answered
    inbox,      \* trees on their way to the client
    outbox      \* the route on its way to the server

linkVars == <<connected, pinging, inbox, outbox>>
vars     == <<serverVars, clientVars, linkVars>>

Init ==
    /\ ServerInit /\ ClientInit
    /\ connected = FALSE /\ pinging = FALSE /\ inbox = <<>> /\ outbox = <<>>

\* VRPN's client tries to connect, and pings whenever it has.
Connect ==
    /\ ~connected
    /\ connected' = TRUE /\ pinging' = TRUE
    /\ UNCHANGED <<serverVars, clientVars, inbox, outbox>>

Break ==
    /\ connected' = FALSE /\ pinging' = FALSE /\ outbox' = <<>>
    /\ \E n \in 0..Len(inbox) : inbox' = SubSeq(inbox, 1, n)
    /\ UNCHANGED clientVars

Disconnect ==
    /\ connected /\ changes < MaxChanges
    /\ changes' = changes + 1
    /\ Break
    /\ UNCHANGED <<tree, treeDirty, descriptor, run>>

RestartServer == Restart /\ Break

\* Slip: a client that comes back is taken to have the tree.
PingUnheard ==
    /\ pinging /\ pinging' = FALSE
    /\ IF gotConnection THEN UNCHANGED serverVars ELSE QueueTreeSend
    /\ UNCHANGED <<clientVars, connected, inbox, outbox>>

Ping ==
    /\ pinging /\ pinging' = FALSE
    /\ QueueTreeSend
    /\ UNCHANGED <<clientVars, connected, inbox, outbox>>

ChangeTree == ServerChange /\ UNCHANGED <<clientVars, linkVars>>

\* m_handleUpdatedRoute
TakeRoute ==
    /\ outbox # <<>> /\ outbox' = <<>>
    /\ AddRoute(outbox[1])
    /\ UNCHANGED <<clientVars, connected, pinging, inbox>>

\* The end of a pass of the server's loop.
SendTree ==
    /\ treeDirty /\ Len(inbox) < MaxInbox
    /\ treeDirty' = FALSE
    /\ inbox' = IF connected THEN Append(inbox, Message) ELSE inbox
    /\ UNCHANGED <<tree, descriptor, run, changes, clientVars, connected, pinging, outbox>>

Receive ==
    /\ Receiving /\ inbox # <<>>
    /\ inbox' = Tail(inbox)
    /\ TakeTree(inbox[1]) \/ SkipTree(inbox[1])
    /\ UNCHANGED <<serverVars, connected, pinging, outbox>>

\* m_sendRoute; the update it ends with is one like the others.
SendRoute(r) ==
    /\ Calling /\ connected /\ outbox = <<>>
    /\ outbox' = <<r>>
    /\ UNCHANGED <<serverVars, clientVars, connected, pinging, inbox>>

UpdateStep ==
    /\ \/ UpdateHandlers(connected)
       \/ \E p \in Paths : BeginHandler(p)
       \/ EndHandler
       \/ EndUpdate
    /\ UNCHANGED <<serverVars, linkVars>>

Application ==
    /\ \/ StartupTimeout
       \/ \E i \in Ifaces : GetInterface(i) \/ ReleaseInterface(i)
    /\ UNCHANGED <<serverVars, linkVars>>

Ended == cpc = "ended" /\ UNCHANGED vars

Next ==
    \/ Connect \/ Disconnect \/ RestartServer \/ Ping
    \/ ChangeTree \/ TakeRoute \/ SendTree
    \/ Receive \/ UpdateStep \/ Application
    \/ \E r \in Routes : SendRoute(r)
    \/ Ended

\* The client's process goes on calling update(), its mainloops read what has
\* arrived, VRPN reconnects and repeats its ping, the server's loop runs.
Fairness ==
    /\ WF_vars(Connect) /\ WF_vars(Ping) /\ WF_vars(TakeRoute) /\ WF_vars(SendTree)
    /\ WF_vars(UpdateStep) /\ SF_vars(Receive)

Spec == Init /\ [][Next]_vars /\ Fairness

-----------------------------------------------------------------------------
\* The variables keep their types, and no tree is from a server that is yet to come.
TypeOK ==
    /\ TreeTypeOK /\ ClientTypeOK
    /\ {connected, pinging} \subseteq BOOLEAN
    /\ Len(inbox) <= MaxInbox /\ \A m \in ToSet(inbox) : m.run \in 0..run
    /\ outbox \in {<<>>} \cup {<<r>> : r \in Routes}

\* An alias at a path where no device and no string is declared stays one, and is replaced
\* only by an alias of at least its priority: a user's route (255) stays, whatever devices
\* describe of themselves and in whatever order. (Where a device is declared, it displaces
\* the alias, and an alias of any priority may then displace the device.)
AliasesKeepPriority ==
    [][run' = run =>
        \A p \in DOMAIN tree \ Declared : tree[p].kind = "alias" =>
            /\ p \in DOMAIN tree' /\ tree'[p].kind = "alias"
            /\ tree'[p].priority >= tree[p].priority]_vars

\* The client has the structure of the server's tree and the handlers that follow from it.
CaughtUp ==
    /\ Structure(ctree) = Structure(Localized(tree))
    /\ HandlersMatchTree

\* Nothing is under way on a connection whose ping has been answered.
Quiet == connected /\ ~pinging /\ ~treeDirty /\ inbox = <<>>

\* No change is lost between the flag, the queue and the duplicates that are dropped:
\* whenever nothing is under way, the client has what the server has.
CaughtUpWhenQuiet == Quiet => CaughtUp

\* When the server's tree has come to rest, the client ends up like that, in spite of
\* lost connections, restarts and trees that were dropped as duplicates; or its process
\* has ended.
ClientCatchesUp == <>[](CaughtUp \/ cpc = "ended")

\* Server, link and client implement TreeCopy: whatever the client has once was the
\* server's tree, it gets them in their order and none but those that were lost is left
\* out, though a tree that equals the last one is dropped and an exception may interrupt
\* the one that takes it.
View(t)     == Structure(Localized(t))
Views(msgs) == [n \in DOMAIN msgs |-> View(msgs[n].tree)]

Copy == INSTANCE TreeCopy WITH
    FirstTree <- View(FirstTree),
    NoTree    <- <<>>,
    now       <- View(tree),
    due       <- treeDirty,
    link      <- IF ~connected THEN "down" ELSE IF pinging THEN "greeting" ELSE "up",
    sent      <- Views(inbox),
    copy      <- Structure(ctree)

ImplementsTreeCopy == Copy!Spec

\* A handler is not destroyed while its update() is on the stack, and the list of
\* handlers does not change while it is being gone through.
HandlerOutlivesUpdate == ~orphaned
=============================================================================
