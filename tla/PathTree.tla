-------------------------------- MODULE PathTree --------------------------------
(***************************************************************************)
(* The path tree that describes an OSVR system, and the pure operations on *)
(* it: aliases with priorities, automatic aliases with wildcards, device   *)
(* descriptors, and the resolution of a path to the device that serves it. *)
(*                                                                         *)
(* A path is a sequence of names. A tree maps the paths of its elements to *)
(* them: a node with a null element, which is not sent to clients, and a   *)
(* node that does not exist are the same. A reference, as descriptions use *)
(* them, is absolute (it starts with "/") or relative to a node. The       *)
(* operations return what they made of the tree and the flag their caller  *)
(* adds to m_treeDirty.                                                    *)
(***************************************************************************)
EXTENDS Naturals, Sequences, FiniteSets, SequencesExt

CONSTANTS Unset,     \* an alias description without a "$priority"
          Factories, \* the kinds of interface the client has a factory for
          Text       \* strings: what names, hosts, values and transforms may be

ASSUME UnsetAssumption == Unset \notin Nat
ASSUME TextAssumption ==
    {"/", "semantic", "display", "default", "localhost", "elsewhere"} \subseteq Text

\* Paths and references, the sources of aliases and the entries of alias descriptions.
\* None of these makes the root of the tree an alias.
Path    == Seq(Text)
Sources == [leaf : Path, transform : Text]
Entries == [dest : Path \ {<<>>, <<"/">>}, source : Sources, priority : Nat \cup {Unset}]

\* What a device descriptor may say: [interfaces, semantic, automatic, data].
IsDescriptor(d) ==
    /\ d.interfaces \subseteq Text /\ IsFiniteSet(d.interfaces)
    /\ d.semantic \subseteq [dest : Path, source : Sources] /\ IsFiniteSet(d.semantic)
    /\ d.automatic \in Seq(Entries)

Null              == [kind |-> "null"]
Interface         == [kind |-> "interface"]
StringElt(v)      == [kind |-> "string", value |-> v]
Device(host, d)   == [kind |-> "device", server |-> host, descriptor |-> d]
Alias(source, pr) == [kind |-> "alias", source |-> source, priority |-> pr]

AUTOMATIC     == 127
SEMANTICROUTE == 128
MANUAL        == 255

At(t, p)     == IF p \in DOMAIN t THEN t[p] ELSE Null
Put(t, p, e) == [q \in DOMAIN t \cup {p} |-> IF q = p THEN e ELSE t[q]]

\* isPathAbsolute, treePathRetrieve
IsAbsolute(ref)    == ref # <<>> /\ Head(ref) = "/"
Located(node, ref) == IF IsAbsolute(ref) THEN Tail(ref) ELSE node \o ref
Absolute(p)        == <<"/">> \o p

HasWildcard(ref) == Len(ref) > 1 /\ Last(ref) = "*"

-----------------------------------------------------------------------------
\* Aliases. A source is [leaf, transform]; r is [tree, changed].

\* Slip: the last one to speak wins, whatever its priority.
NeedsUpdateAlways(t, p, source, pr) ==
    \/ At(t, p).kind # "alias"
    \/ pr # At(t, p).priority
    \/ source # At(t, p).source

\* aliasNeedsUpdate
NeedsUpdate(t, p, source, pr) ==
    \/ At(t, p).kind # "alias"
    \/ pr > At(t, p).priority
    \/ pr = At(t, p).priority /\ source # At(t, p).source

\* Slip: only a new alias is reported, not one that has been replaced.
AddAliasQuietly(r, p, source, pr) ==
    IF NeedsUpdate(r.tree, p, source, pr)
    THEN [tree |-> Put(r.tree, p, Alias(source, pr)),
          changed |-> r.changed \/ At(r.tree, p).kind # "alias"]
    ELSE r

AddAliasImpl(r, p, source, pr) ==
    IF NeedsUpdate(r.tree, p, source, pr)
    THEN [tree |-> Put(r.tree, p, Alias(source, pr)), changed |-> TRUE]
    ELSE r

\* addAliasFromSourceAndRelativeDest
AddRelative(r, node, source, dest, pr) ==
    AddAliasImpl(r, Located(node, dest),
                 [source EXCEPT !.leaf = Absolute(Located(node, source.leaf))], pr)

AddAll(r, node, entries, pr) ==
    FoldSet(LAMBDA e, acc : AddRelative(acc, node, e.source, e.dest, pr), r, entries)

\* applyWildcard: an entry for every element at or below the start. The traversal
\* would also visit what it adds there; descriptions have their aliases elsewhere, and
\* none starts at the root.
Expand(t, node, entry) ==
    LET start == Located(node, Front(entry.source.leaf))
    IN  {[dest   |-> entry.dest \o SubSeq(p, Len(start) + 1, Len(p)),
          source |-> [entry.source EXCEPT !.leaf = Absolute(p)]] :
             p \in {q \in DOMAIN t : IsPrefix(start, q)}}

Expanded(t, node, entry) ==
    IF HasWildcard(entry.source.leaf) THEN Expand(t, node, entry) ELSE {entry}

\* Slip: the priority is taken as it is written.
PriorityAsWritten(entry, default) ==
    IF entry.priority = Unset THEN default ELSE entry.priority

\* m_processObject casts "$priority" to eight bits.
PriorityOf(entry, default) ==
    IF entry.priority = Unset THEN default ELSE entry.priority % 256

\* m_processEntry. A wildcard that is not permitted is reported, and processed.
ProcessEntry(r, node, entry, default, opts) ==
    LET pr == PriorityOf(entry, default)
    IN  IF \/ ~IsAbsolute(entry.dest) /\ "relativePath" \notin opts
           \/ ~IsAbsolute(entry.source.leaf) /\ "relativeSource" \notin opts
        THEN r
        ELSE AddAll(r, node, Expanded(r.tree, node, entry), pr)

\* AliasProcessor::process
ProcessAliases(r, node, aliases, default, opts) ==
    FoldLeft(LAMBDA acc, e : ProcessEntry(acc, node, e, default, opts), r, aliases)

-----------------------------------------------------------------------------
\* Device descriptors.

ProcessInterfaces(r, dev, d) ==
    LET new == {dev \o <<i>> : i \in d.interfaces} \ DOMAIN r.tree
    IN  [tree    |-> [p \in DOMAIN r.tree \cup new |->
                          IF p \in new THEN Interface ELSE r.tree[p]],
         changed |-> r.changed \/ new # {}]

ProcessSemantic(r, dev, d) ==
    AddAll(r, dev, {[e EXCEPT !.dest = <<"semantic">> \o e.dest] : e \in d.semantic},
           SEMANTICROUTE)

ProcessAutomatic(r, dev, d) ==
    ProcessAliases(r, dev, d.automatic, AUTOMATIC,
                   {"relativePath", "relativeSource", "wildcard"})

\* processDeviceDescriptorFromExistingDevice
FromExistingDevice(r, dev, d) ==
    ProcessAutomatic(ProcessSemantic(ProcessInterfaces(r, dev, d), dev, d), dev, d)

\* processDeviceDescriptorForPathTree: a descriptor that differs is stored, but
\* only what follows from it is reported.
DescribeDevice(r, dev, d) ==
    LET fresh == At(r.tree, dev).kind # "device"
        host  == IF fresh THEN "localhost" ELSE r.tree[dev].server
    IN  IF ~fresh /\ r.tree[dev].descriptor = d
        THEN r
        ELSE FromExistingDevice([tree    |-> Put(r.tree, dev, Device(host, d)),
                                 changed |-> r.changed \/ fresh], dev, d)

-----------------------------------------------------------------------------
\* Resolution, on the client: resolveTreeNode and OriginalSource::decompose.

\* ifNullTryInferFromParent: below an interface there are sensors.
KindAt(t, p) ==
    IF At(t, p) = Null /\ p # <<>> /\ At(t, Front(p)) = Interface
    THEN "sensor" ELSE At(t, p).kind

\* Where a path leads when its aliases are followed (the set has one member): if it
\* is still at an alias after as many steps as there are aliases, they form a cycle.
Followed(t, p) ==
    LET aliases == {q \in DOMAIN t : t[q].kind = "alias"}
        after[n \in 0..Cardinality(aliases)] ==
            IF n = 0 THEN {p}
            ELSE {IF q \in aliases THEN Tail(t[q].source.leaf) ELSE q : q \in after[n - 1]}
    IN  CHOOSE q \in after[Cardinality(aliases)] : TRUE

\* The interface, as decompose finds it from where the aliases end. A sensor was
\* inferred below an interface; the interface's parent has to be a device.
InterfaceAt(t, p) == IF KindAt(t, p) = "sensor" THEN Front(p) ELSE p

Outcome(t, p) ==
    LET q == Followed(t, p)
    IN  CASE KindAt(t, q) = "alias"                       -> "diverges"
          [] KindAt(t, q) \notin {"interface", "sensor", "alias"} -> "unresolved"
          [] OTHER -> IF At(t, Front(InterfaceAt(t, q))).kind = "device"
                      THEN "resolved" ELSE "throws"

\* A factory makes a handler for the kinds of interface it knows.
Connects(t, p) ==
    /\ Outcome(t, p) = "resolved"
    /\ Last(InterfaceAt(t, Followed(t, p))) \in Factories

HandlerFor(t, p) ==
    LET q == Followed(t, p)
    IN  [source |-> q, server |-> t[Front(InterfaceAt(t, q))].server]
=============================================================================
