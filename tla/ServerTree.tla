------------------------------- MODULE ServerTree -------------------------------
(***************************************************************************)
(* The server's side of the path tree: who changes it, when a change is    *)
(* flagged, and when the whole tree is sent. Everything here happens in    *)
(* the server's main thread or under its mutex (ServerLoop is about that), *)
(* so that each operation is one step.                                     *)
(***************************************************************************)
EXTENDS PathTree

CONSTANTS Devices,      \* the paths of the plugins' devices, as they are registered
          Descriptors,  \* the descriptors each of them may have, in use
          Aliases,      \* the alias descriptions of the configuration file
          Strings,      \* <<path, value>> for addString
          Externals,    \* <<path, descriptor>> for addExternalDevice
          Undescribed,  \* a device without a descriptor
          MaxChanges    \* bound: changes of the tree, of all kinds

ASSUME ServerTreeAssumption ==
    /\ Devices \in Seq(Path \ {<<>>})
    /\ \A dev \in ToSet(Devices) :
          Undescribed \notin Descriptors[dev] /\ \A d \in Descriptors[dev] : IsDescriptor(d)
    /\ \A a \in Aliases : a.entries \in Seq(Entries) /\ a.priority \in 0..255
    /\ Strings \subseteq (Path \ {<<>>}) \X Text
    /\ \A x \in Externals : x[1] \in Path \ {<<>>} /\ IsDescriptor(x[2])
    /\ MaxChanges \in Nat

VARIABLES
    tree,        \* m_tree
    treeDirty,   \* m_treeDirty
    descriptor,  \* each device's descriptor, m_conn->getDevices()
    run,         \* which process the server is
    changes      \* how many changes there have been

serverVars == <<tree, treeDirty, descriptor, run, changes>>

\* What the constructor puts into the tree.
FirstTree == [p \in {<<"display">>} |-> StringElt("default")]

ServerInit ==
    /\ tree = FirstTree /\ treeDirty = FALSE
    /\ descriptor = [dev \in ToSet(Devices) |-> Undescribed]
    /\ run = 0 /\ changes = 0

Now == [tree |-> tree, changed |-> treeDirty]

Change(r) ==
    /\ changes < MaxChanges
    /\ changes' = changes + 1
    /\ tree' = r.tree
    /\ treeDirty' = r.changed

\* m_handleDeviceDescriptors goes through all devices, in the order of registration.
DescribeAll(r, of) ==
    FoldLeft(LAMBDA acc, dev : IF of[dev] = Undescribed THEN acc
                               ELSE DescribeDevice(acc, dev, of[dev]), r, Devices)

\* A plugin describes its device.
Describe(dev, d) ==
    /\ d # descriptor[dev]
    /\ descriptor' = [descriptor EXCEPT ![dev] = d]
    /\ UNCHANGED run
    /\ Change(DescribeAll(Now, descriptor'))

\* addAliases, for the configuration; addRoute, and a route from a client, are the
\* same for one alias.
AddAliases(aliases, pr, opts) ==
    /\ Change(ProcessAliases(Now, <<>>, aliases, pr, opts))
    /\ UNCHANGED <<descriptor, run>>

AddRoute(route) == AddAliases(<<[route EXCEPT !.priority = MANUAL]>>, MANUAL, {})

\* Slip: addString reports only a string that was not there.
AddStringQuietly(p, v) ==
    /\ Change([tree |-> Put(tree, p, StringElt(v)),
               changed |-> treeDirty \/ p \notin DOMAIN tree])
    /\ UNCHANGED <<descriptor, run>>

AddString(p, v) ==
    /\ Change([tree |-> Put(tree, p, StringElt(v)),
               changed |-> treeDirty \/ At(tree, p) # StringElt(v)])
    /\ UNCHANGED <<descriptor, run>>

\* addExternalDevice replaces what was there, and its descriptor's changes need no
\* flag of their own.
AddExternalDevice(p, d) ==
    /\ Change([FromExistingDevice([tree |-> Put(tree, p, Device("elsewhere", d)),
                                   changed |-> TRUE], p, d) EXCEPT !.changed = TRUE])
    /\ UNCHANGED <<descriptor, run>>

\* A ping, with which every client begins: m_queueTreeSend.
QueueTreeSend ==
    /\ treeDirty' = TRUE
    /\ UNCHANGED <<tree, descriptor, run, changes>>

\* The server's process ends and a new one takes its place.
Restart ==
    /\ changes < MaxChanges
    /\ changes' = changes + 1
    /\ tree' = FirstTree /\ treeDirty' = FALSE
    /\ descriptor' = [dev \in ToSet(Devices) |-> Undescribed]
    /\ run' = changes'

\* What the whole tree is sent as: an array in the order of the nodes' creation,
\* which only another process may have created in another order.
Message == [run |-> run, tree |-> tree]

ServerChange ==
    \/ \E dev \in ToSet(Devices) : \E d \in Descriptors[dev] : Describe(dev, d)
    \/ \E a \in Aliases : AddAliases(a.entries, a.priority, {"wildcard"})
    \/ \E s \in Strings : AddString(s[1], s[2])
    \/ \E x \in Externals : AddExternalDevice(x[1], x[2])

-----------------------------------------------------------------------------
\* The tree's keys are paths, its aliases have absolute sources and a priority of
\* eight bits: what serialisation and resolution rely on.
TreeTypeOK ==
    /\ treeDirty \in BOOLEAN /\ changes \in 0..MaxChanges /\ run \in 0..changes
    /\ \A p \in DOMAIN tree :
          /\ p # <<>> /\ tree[p].kind \in {"interface", "string", "device", "alias"}
          /\ tree[p].kind = "alias" =>
                IsAbsolute(tree[p].source.leaf) /\ tree[p].priority \in 0..255
    /\ \A dev \in ToSet(Devices) : descriptor[dev] \in Descriptors[dev] \cup {Undescribed}

\* The paths at which something is declared that is not an alias.
Declared == ToSet(Devices) \cup {s[1] : s \in Strings} \cup {x[1] : x \in Externals}

\* Everything in the tree but the devices' descriptors.
Structure(t) == [p \in DOMAIN t |->
                    IF t[p].kind = "device" THEN [t[p] EXCEPT !.descriptor = Undescribed]
                    ELSE t[p]]
=============================================================================
