---------------------------- MODULE TreeSyncProofs ----------------------------
(***************************************************************************)
(* Theorems about TreeSync. First the client's handlers, for every tree,   *)
(* whatever its descriptions make of it; then the server's tree: each of   *)
(* its operations makes of a tree a successor of it, which has lost none   *)
(* of its nodes and no alias of a higher priority, and is flagged if its   *)
(* structure is another; then the link between the two.                    *)
(***************************************************************************)
EXTENDS TreeSync, BasicLemmas, SequenceTheorems

\* What a step means to the client: the server's, the connection's and the
\* application's messages leave it alone.
LEMMA ClientSteps ==
    ASSUME [Next]_vars
    PROVE  \/ UNCHANGED clientVars
           \/ \E msg : Receiving /\ TakeTree(msg)
           \/ UpdateStep
           \/ Application
<1>1. CASE UNCHANGED vars
  BY <1>1 DEF vars
<1>2. CASE Connect \/ Disconnect \/ RestartServer \/ Ping \/ ChangeTree
  BY <1>2 DEF Connect, Disconnect, RestartServer, Break, Ping, ChangeTree
<1>3. CASE TakeRoute \/ SendTree \/ Ended \/ \E r \in Routes : SendRoute(r)
  BY <1>3 DEF TakeRoute, SendTree, Ended, SendRoute, vars
<1>4. CASE Receive
  BY <1>4 DEF Receive, SkipTree
<1>5. QED
  BY <1>1, <1>2, <1>3, <1>4 DEF Next

-----------------------------------------------------------------------------
\* A path that raises an exception, or that is resolved for ever, has no handler.
LEMMA BadPathsHaveNone ==
    ASSUME NEW t, NEW p, Outcome(t, p) \in {"throws", "diverges"}
    PROVE  HandlerOf(t, p) = None
BY DEF HandlerOf, Connects

LEMMA HandlersInitially == Init => ClientTypeOK /\ HandlersMatchTree
BY DEF Init, ClientInit, ClientTypeOK, HandlersMatchTree, Open

LEMMA HandlersAfterUpdateStep ==
    ASSUME ClientTypeOK, HandlersMatchTree, UpdateStep
    PROVE  ClientTypeOK' /\ HandlersMatchTree'
<1>1. UNCHANGED <<valid, ctree, listed, owned, handler, orphaned, interrupted>>
  BY DEF UpdateStep, UpdateHandlers, BeginHandler, EndHandler, EndUpdate, treeVars, ifaceVars,
         passVars
<1>2. HandlersMatchTree'
  BY <1>1 DEF HandlersMatchTree, Open
<1>3. CASE UpdateHandlers(connected)
  BY <1>1, <1>2, <1>3 DEF ClientTypeOK, UpdateHandlers, Paths, treeVars, ifaceVars
<1>4. CASE \E p \in Paths : BeginHandler(p)
  BY <1>1, <1>2, <1>4 DEF ClientTypeOK, BeginHandler, Paths, treeVars, ifaceVars
<1>5. CASE EndHandler
  BY <1>1, <1>2, <1>5 DEF ClientTypeOK, EndHandler, Paths, treeVars, ifaceVars
<1>6. CASE EndUpdate
  BY <1>1, <1>2, <1>6 DEF ClientTypeOK, EndUpdate, Paths, treeVars, ifaceVars, passVars
<1>7. QED
  BY <1>3, <1>4, <1>5, <1>6 DEF UpdateStep

LEMMA HandlersAfterTree ==
    ASSUME NEW msg, ClientTypeOK, HandlersMatchTree, TakeTree(msg)
    PROVE  ClientTypeOK' /\ HandlersMatchTree'
<1> DEFINE t == Localized(msg.tree)
           open == Open(listed)
           bad == {p \in open : Outcome(ctree', p) \in {"throws", "diverges"}}
<1>1. /\ ctree' = t /\ valid' = TRUE
      /\ orphaned' = (orphaned \/ current # None)
      /\ UNCHANGED <<startup, gotConnection, listed, owned>>
  BY DEF TakeTree, ReplaceTree, ifaceVars
<1>2. CASE bad = {} /\ handler' = Connected(ctree', open) /\ interrupted' = FALSE
           /\ UNCHANGED <<cpc, passVars>>
  BY <1>1, <1>2 DEF ClientTypeOK, HandlersMatchTree, Connected, Open, Paths, passVars
<1>3. ASSUME NEW p \in bad, NEW before \in SUBSET (open \ bad),
             handler' = Connected(ctree', before), interrupted' = TRUE,
             IF Outcome(ctree', p) = "throws" THEN Thrown
             ELSE cpc' = "ended" /\ UNCHANGED passVars
      PROVE  ClientTypeOK' /\ HandlersMatchTree'
  <2>1. HandlersMatchTree'
    BY <1>1, <1>3 DEF HandlersMatchTree, Connected, Open
  <2>2. cpc' \in {"app", "ended"} /\ todo' \subseteq Paths /\ current' \in Paths \cup {None}
    BY <1>3 DEF Thrown, ClientTypeOK, passVars
  <2>3. ClientTypeOK'
    BY <1>1, <1>3, <2>2 DEF ClientTypeOK, Connected, Paths
  <2>4. QED
    BY <2>1, <2>3
<1>4. QED
  BY <1>2, <1>3 DEF TakeTree, ReplaceTree

LEMMA HandlersAfterApplication ==
    ASSUME ClientTypeOK, HandlersMatchTree, Application
    PROVE  ClientTypeOK' /\ HandlersMatchTree'
<1>1. CASE StartupTimeout
  BY <1>1 DEF StartupTimeout, ClientTypeOK, HandlersMatchTree, treeVars, ifaceVars, passVars,
              Open, Paths
<1>2. ASSUME NEW i \in Ifaces, GetInterface(i)
      PROVE  ClientTypeOK' /\ HandlersMatchTree'
  <2> DEFINE p == PathOf[i]
  <2>1. /\ listed' = listed \cup {i}
        /\ UNCHANGED <<startup, gotConnection, valid, ctree, last, orphaned, interrupted>>
        /\ p \in Paths
    BY <1>2 DEF GetInterface, treeVars, Paths
  <2>2. Open(listed') = Open(listed) \cup {p}
    BY <2>1 DEF Open
  <2>3. CASE p \notin Open(listed) /\ Outcome(ctree, p) \in {"throws", "diverges"}
    <3>1. HandlerOf(ctree, p) = None /\ handler' = handler /\ owned' = owned
      BY <1>2, <2>3, BadPathsHaveNone DEF GetInterface
    <3>2. HandlersMatchTree'
      BY <2>1, <2>2, <2>3, <3>1 DEF HandlersMatchTree
    <3>3. /\ cpc' \in {"app", "ended"} /\ todo' \subseteq Paths
          /\ current' \in Paths \cup {None}
      BY <1>2, <2>3 DEF GetInterface, Thrown, ClientTypeOK, passVars
    <3>4. ClientTypeOK'
      BY <2>1, <3>1, <3>3 DEF ClientTypeOK, Paths
    <3>5. QED
      BY <3>2, <3>4
  <2>4. CASE ~(p \notin Open(listed) /\ Outcome(ctree, p) \in {"throws", "diverges"})
    <3>1. /\ owned' = owned \cup {i} /\ UNCHANGED <<cpc, passVars>>
          /\ handler' = IF p \in Open(listed) THEN handler
                        ELSE [handler EXCEPT ![p] = HandlerOf(ctree, p)]
      BY <1>2, <2>4 DEF GetInterface
    <3>2. HandlersMatchTree'
      BY <2>1, <2>2, <3>1 DEF HandlersMatchTree, ClientTypeOK
    <3>3. ClientTypeOK'
      BY <2>1, <3>1 DEF ClientTypeOK, passVars, Paths
    <3>4. QED
      BY <3>2, <3>3
  <2>5. QED
    BY <2>3, <2>4
<1>3. ASSUME NEW i \in Ifaces, ReleaseInterface(i)
      PROVE  ClientTypeOK' /\ HandlersMatchTree'
  <2> DEFINE p == PathOf[i]
  <2>1. /\ listed' = listed \ {i} /\ owned' = owned \ {i} /\ p \in Paths
        /\ handler' = IF p \in Open(listed') THEN handler ELSE [handler EXCEPT ![p] = None]
        /\ UNCHANGED <<cpc, startup, gotConnection, treeVars, passVars, orphaned, interrupted>>
    BY <1>3 DEF ReleaseInterface, Paths
  <2>2. Open(listed') \subseteq Open(listed) /\ Open(listed) \subseteq Open(listed') \cup {p}
    BY <2>1 DEF Open
  <2>3. HandlersMatchTree'
    BY <2>1, <2>2 DEF HandlersMatchTree, ClientTypeOK, treeVars
  <2>4. ClientTypeOK'
    BY <2>1 DEF ClientTypeOK, treeVars, passVars, Paths
  <2>5. QED
    BY <2>3, <2>4
<1>4. QED
  BY <1>1, <1>2, <1>3 DEF Application

\* The variables keep their types, and every path with an interface that the client's
\* tree resolves has the handler of that tree, whatever comes in between.
THEOREM Handlers == Spec => [](ClientTypeOK /\ HandlersMatchTree)
<1>1. ClientTypeOK /\ HandlersMatchTree /\ [Next]_vars => ClientTypeOK' /\ HandlersMatchTree'
  <2> SUFFICES ASSUME ClientTypeOK, HandlersMatchTree, [Next]_vars
               PROVE  ClientTypeOK' /\ HandlersMatchTree'
    OBVIOUS
  <2>1. CASE UNCHANGED clientVars
    BY <2>1 DEF clientVars, treeVars, ifaceVars, passVars, ClientTypeOK, HandlersMatchTree,
                Open, Paths
  <2>2. QED
    BY <2>1, ClientSteps, HandlersAfterTree, HandlersAfterUpdateStep, HandlersAfterApplication
<1>2. QED
  BY <1>1, HandlersInitially, PTL DEF Spec

-----------------------------------------------------------------------------
\* Everything that a node of the server's tree may hold, and the trees: finitely many
\* nodes, none at the root, aliases with absolute sources and priorities of eight bits.
Described == (UNION {Descriptors[dev] : dev \in ToSet(Devices)}) \cup {x[2] : x \in Externals}

Absolutes == {ref \in Path : IsAbsolute(ref)}

Elements ==
    {Interface} \cup [kind : {"string"}, value : Text]
                \cup [kind : {"device"}, server : Text, descriptor : Described]
                \cup [kind : {"alias"}, source : [leaf : Absolutes, transform : Text],
                      priority : 0..255]

NodePaths == Path \ {<<>>}
Trees     == UNION {[D -> Elements] : D \in {E \in SUBSET NodePaths : IsFiniteSet(E)}}
Results   == [tree : Trees, changed : BOOLEAN]

\* What every operation on the tree has in common (r and s are the tree with the flag its
\* caller keeps, before and after it): no node goes, m_treeDirty is not reset, a change of the
\* structure is flagged, and no alias loses its priority where nothing else is declared.
Follows(r, s) ==
    /\ DOMAIN r.tree \subseteq DOMAIN s.tree
    /\ r.changed => s.changed
    /\ s.changed \/ Structure(s.tree) = Structure(r.tree)
    /\ \A p \in DOMAIN r.tree \ Declared : r.tree[p].kind = "alias" =>
          s.tree[p].kind = "alias" /\ s.tree[p].priority >= r.tree[p].priority

\* Trees, without the union.
LEMMA TreesAre ==
    /\ \A t \in Trees : /\ DOMAIN t \subseteq NodePaths /\ IsFiniteSet(DOMAIN t)
                        /\ t \in [DOMAIN t -> Elements]
    /\ \A t : DOMAIN t \subseteq NodePaths /\ IsFiniteSet(DOMAIN t)
              /\ t \in [DOMAIN t -> Elements] => t \in Trees
BY DEF Trees

\* An operation that returns early leaves what may stay.
LEMMA FollowsItself == ASSUME NEW r \in Results PROVE Follows(r, r)
<1>1. r.tree \in [DOMAIN r.tree -> Elements]
  BY TreesAre DEF Results
<1>2. ASSUME NEW p \in DOMAIN r.tree, r.tree[p].kind = "alias"
      PROVE r.tree[p].priority >= r.tree[p].priority
  BY <1>1, <1>2 DEF Elements, Interface
<1> QED
  BY <1>2 DEF Follows

LEMMA PriorityIsNat == ASSUME NEW e \in Elements, e.kind = "alias" PROVE e.priority \in Nat
BY DEF Elements, Interface

\* Operations may follow each other, as they do in the processing of a descriptor.
LEMMA FollowsOn ==
    ASSUME NEW r \in Results, NEW s \in Results, NEW u \in Results, Follows(r, s), Follows(s, u)
    PROVE  Follows(r, u)
<1>1. ASSUME NEW p \in DOMAIN r.tree \ Declared, r.tree[p].kind = "alias"
      PROVE  u.tree[p].kind = "alias" /\ u.tree[p].priority >= r.tree[p].priority
  <2>1. /\ s.tree[p].kind = "alias" /\ s.tree[p].priority >= r.tree[p].priority
        /\ p \in DOMAIN s.tree
    BY <1>1 DEF Follows
  <2>2. u.tree[p].kind = "alias" /\ u.tree[p].priority >= s.tree[p].priority /\ p \in DOMAIN u.tree
    BY <1>1, <2>1 DEF Follows
  <2>3. r.tree[p] \in Elements /\ s.tree[p] \in Elements /\ u.tree[p] \in Elements
    BY <1>1, <2>1, <2>2, TreesAre DEF Results
  <2>4. r.tree[p].priority \in Nat /\ s.tree[p].priority \in Nat /\ u.tree[p].priority \in Nat
    BY <1>1, <2>1, <2>2, <2>3, PriorityIsNat
  <2> QED
    BY <2>1, <2>2, <2>4
<1>2. u.changed \/ Structure(u.tree) = Structure(r.tree)
  BY DEF Follows
<1>3. DOMAIN r.tree \subseteq DOMAIN u.tree /\ (r.changed => u.changed)
  BY DEF Follows
<1> QED
  BY <1>1, <1>2, <1>3 DEF Follows

\* Assigning to a node of the tree.
IsPut(t, p, e, u) ==
    /\ u \in Trees /\ DOMAIN u = DOMAIN t \cup {p}
    /\ \A q \in DOMAIN t \cup {p} : u[q] = IF q = p THEN e ELSE t[q]

LEMMA PutTyped ==
    ASSUME NEW t \in Trees, NEW p \in NodePaths, NEW e \in Elements
    PROVE  IsPut(t, p, e, Put(t, p, e))
<1> DEFINE u == Put(t, p, e)
<1>1. DOMAIN u = DOMAIN t \cup {p} /\ \A q \in DOMAIN t \cup {p} : u[q] = IF q = p THEN e ELSE t[q]
  BY DEF Put
<1>2. DOMAIN t \subseteq NodePaths /\ IsFiniteSet(DOMAIN t) /\ t \in [DOMAIN t -> Elements]
  BY TreesAre
<1>3. IsFiniteSet(DOMAIN u)
  BY <1>1, <1>2, FS_AddElement
<1>4. u \in [DOMAIN u -> Elements] 
  BY <1>1, <1>2 DEF Put
<1> HIDE DEF u
<1>5. u \in Trees
  BY <1>1, <1>2, <1>3, <1>4, TreesAre
<1> QED
  BY <1>1, <1>5 DEF u, IsPut

\* addAliasImpl: an alias is replaced only by one of its priority or a higher one, and
\* whoever replaces one reports it.
LEMMA AddAliasFollows ==
    ASSUME NEW r \in Results, NEW p \in NodePaths,
           NEW source \in [leaf : Absolutes, transform : Text], NEW pr \in 0..255
    PROVE  AddAliasImpl(r, p, source, pr) \in Results /\ Follows(r, AddAliasImpl(r, p, source, pr))
<1>1. CASE ~NeedsUpdate(r.tree, p, source, pr)
  BY <1>1, FollowsItself DEF AddAliasImpl
<1>2. CASE NeedsUpdate(r.tree, p, source, pr)
  <2> DEFINE e == Alias(source, pr)
             s == [tree |-> Put(r.tree, p, e), changed |-> TRUE]
  <2>0. e \in Elements
    BY DEF Elements, Alias
  <2>1. e.kind = "alias" /\ e.priority = pr
    BY DEF Alias
  <2>2. r.tree \in Trees
    BY DEF Results
  <2>3. /\ Put(r.tree, p, e) \in Trees
        /\ DOMAIN Put(r.tree, p, e) = DOMAIN r.tree \cup {p}
        /\ \A q \in DOMAIN r.tree \cup {p} : Put(r.tree, p, e)[q] = IF q = p THEN e ELSE r.tree[q]
    <3> HIDE DEF e
    <3>1. IsPut(r.tree, p, e, Put(r.tree, p, e))
      BY <2>0, <2>2, PutTyped
    <3> QED
      BY <3>1 DEF IsPut
  <2> HIDE DEF e
  <2>4. AddAliasImpl(r, p, source, pr) = s /\ s \in Results
    BY <1>2, <2>3 DEF AddAliasImpl, e, Results
  <2>5. ASSUME NEW q \in DOMAIN r.tree \ Declared, r.tree[q].kind = "alias"
        PROVE  s.tree[q].kind = "alias" /\ s.tree[q].priority >= r.tree[q].priority
    <3>1. r.tree[q] \in Elements
      BY <2>2, TreesAre
    <3>2. r.tree[q].priority \in Nat
      BY <2>5, <3>1 DEF Elements, Interface
    <3>3. CASE q # p
      BY <2>3, <2>5, <3>2, <3>3
    <3>4. CASE q = p
      <4>1. pr >= r.tree[q].priority
        BY <1>2, <2>5, <3>2, <3>4 DEF NeedsUpdate, At
      <4> QED
        BY <2>1, <2>3, <3>4, <4>1
    <3> QED
      BY <3>3, <3>4
  <2>6. Follows(r, s)
    BY <2>3, <2>5 DEF Follows
  <2> QED
    BY <2>4, <2>6
<1> QED
  BY <1>1, <1>2

-----------------------------------------------------------------------------
\* treePathRetrieve finds a node, and the paths that serialisation makes are absolute.
LEMMA LocatedTyped ==
    ASSUME NEW node \in Path, NEW ref \in Path
    PROVE  Located(node, ref) \in Path /\ Absolute(node) \in Absolutes
<1>1. Tail(ref) \in Path \/ ~IsAbsolute(ref)
  BY DEF IsAbsolute, Path
<1>2. node \o ref \in Path
  BY DEF Path
<1>3. <<"/">> \o node \in Path /\ <<"/">> \o node # <<>> /\ Head(<<"/">> \o node) = "/"
  <2>1. "/" \in Text
    BY TextAssumption
  <2> QED
    BY <2>1 DEF Path
<1> QED
  BY <1>1, <1>2, <1>3 DEF Located, Absolutes, Absolute, IsAbsolute

\* addAliasFromSourceAndRelativeDest, from one result on.
LEMMA AddRelativeFollows ==
    ASSUME NEW r \in Results, NEW node \in Path, NEW source \in Sources, NEW dest \in Path,
           Located(node, dest) \in NodePaths, NEW pr \in 0..255
    PROVE  /\ AddRelative(r, node, source, dest, pr) \in Results
           /\ Follows(r, AddRelative(r, node, source, dest, pr))
<1> DEFINE s == [source EXCEPT !.leaf = Absolute(Located(node, source.leaf))]
<1>1. source.leaf \in Path
  BY DEF Sources
<1>2. Absolute(Located(node, source.leaf)) \in Absolutes
  BY <1>1, LocatedTyped
<1>3. s \in [leaf : Absolutes, transform : Text]
  BY <1>2 DEF Sources
<1> HIDE DEF s
<1>4. AddAliasImpl(r, Located(node, dest), s, pr) \in Results
      /\ Follows(r, AddAliasImpl(r, Located(node, dest), s, pr))
  BY <1>3, AddAliasFollows
<1> QED
  BY <1>4 DEF AddRelative, s

\* A destination, with whatever a wildcard adds to it, is not the root: an entry has
\* something below its node, and the root's own entries are absolute.
LEMMA DestNotRoot ==
    ASSUME NEW node \in Path, NEW dest \in Path, NEW rest \in Path,
           dest # <<>>, dest # <<"/">>, IsAbsolute(dest) \/ node # <<>>
    PROVE  dest \o rest \in Path /\ Located(node, dest \o rest) \in NodePaths
           /\ Located(node, dest) \in NodePaths
<1>1. /\ dest \in Seq(Text) /\ dest # <<>> /\ Len(dest) \in Nat /\ Len(dest) # 0
      /\ rest \in Seq(Text) /\ Len(rest) \in Nat /\ node \in Seq(Text) /\ Len(node) \in Nat
  BY DEF Path
<1>2. /\ dest \o rest \in Seq(Text) /\ Len(dest \o rest) = Len(dest) + Len(rest)
      /\ Head(dest \o rest) = Head(dest) /\ dest \o rest # <<>>
  BY <1>1
<1>3. IsAbsolute(dest \o rest) <=> IsAbsolute(dest)
  BY <1>1, <1>2 DEF IsAbsolute
<1>4. CASE IsAbsolute(dest)
  <2>1. Len(dest) > 1
    <3>1. ASSUME Len(dest) = 1 PROVE dest = <<"/">>
      <4>1. dest[1] = "/"
        BY <1>4 DEF IsAbsolute
      <4> QED
        BY <1>1, <3>1, <4>1
    <3>2. Len(dest) # 1 /\ Len(dest) # 0 /\ Len(dest) \in Nat
      BY <1>1, <3>1
    <3> QED
      BY <3>2
  <2>2. Len(Tail(dest)) = Len(dest) - 1 /\ Len(Tail(dest \o rest)) = Len(dest) + Len(rest) - 1
    BY <1>1, <1>2
  <2>3. Tail(dest) \in Seq(Text) /\ Tail(dest \o rest) \in Seq(Text)
    BY <1>1, <1>2
  <2>4. Tail(dest) # <<>> /\ Tail(dest \o rest) # <<>>
    <3>1. Len(Tail(dest)) # 0 /\ Len(Tail(dest \o rest)) # 0
      <4>1. Len(dest) \in Nat /\ Len(rest) \in Nat
        BY <1>1
      <4>2. \A a, b \in Nat : a > 1 => a - 1 # 0 /\ a + b - 1 # 0
        OBVIOUS
      <4> QED
        BY <2>1, <2>2, <4>1, <4>2, Zenon
    <3> QED
      BY <2>3, <3>1, EmptySeq
  <2> QED
    BY <1>2, <1>3, <1>4, <2>3, <2>4 DEF Located, NodePaths, Path
<1>5. CASE ~IsAbsolute(dest)
  <2>1. node # <<>> /\ Len(node) # 0
    BY <1>1, <1>5
  <2>2. Len(node \o dest) # 0 /\ Len(node \o (dest \o rest)) # 0
    BY <1>1, <1>2, <2>1
  <2>3. node \o dest # <<>> /\ node \o (dest \o rest) # <<>>
    BY <2>2
  <2>4. node \o dest \in Seq(Text) /\ node \o (dest \o rest) \in Seq(Text)
    BY <1>1, <1>2
  <2> QED
    BY <1>2, <1>3, <1>5, <2>3, <2>4 DEF Located, NodePaths, Path
<1> QED
  BY <1>4, <1>5

\* What an entry stands for: finitely many aliases, none at the root.
LEMMA ExpandedTyped ==
    ASSUME NEW t \in Trees, NEW node \in Path, NEW entry \in Entries,
           IsAbsolute(entry.dest) \/ node # <<>>
    PROVE  /\ IsFiniteSet(Expanded(t, node, entry))
           /\ \A e \in Expanded(t, node, entry) :
                 e.source \in Sources /\ e.dest \in Path /\ Located(node, e.dest) \in NodePaths
<1>1. entry.dest \in Path \ {<<>>, <<"/">>} /\ entry.source \in Sources
  BY DEF Entries
<1>2. CASE ~HasWildcard(entry.source.leaf)
  <2>1. Located(node, entry.dest) \in NodePaths
    <3>1. <<>> \in Path
      BY DEF Path
    <3> QED BY <1>1, <3>1, DestNotRoot
  <2>2. Expanded(t, node, entry) = {entry}
    BY <1>2 DEF Expanded
  <2>3. IsFiniteSet({entry})
    BY FS_Singleton
  <2> QED
    BY <1>1, <2>1, <2>2, <2>3
<1>3. CASE HasWildcard(entry.source.leaf)
  <2> DEFINE start == Located(node, Front(entry.source.leaf))
             below == {q \in DOMAIN t : IsPrefix(start, q)}
             One(p) == [dest   |-> entry.dest \o SubSeq(p, Len(start) + 1, Len(p)),
                        source |-> [entry.source EXCEPT !.leaf = Absolute(p)]]
             all == {One(p) : p \in below}
             f == [p \in below |-> One(p)]
  <2>1. Expanded(t, node, entry) = all
    BY <1>3 DEF Expanded, Expand
  <2>2. IsFiniteSet(below) /\ below \subseteq NodePaths
    BY TreesAre, FS_Subset
  <2>3. f \in Surjection(below, all)
    BY DEF Surjection
  <2>4. IsFiniteSet(all)
    <3> HIDE DEF all, f, below
    <3> QED BY <2>2, <2>3, FS_Surjection
  <2>5. start \in Path
    <3>1. entry.source.leaf \in Path /\ Len(entry.source.leaf) > 1
      BY <1>1, <1>3 DEF HasWildcard, Sources
    <3>2. Front(entry.source.leaf) \in Path
      BY <3>1 DEF Path, Front
    <3> QED
      BY <3>2, LocatedTyped
  <2>6. ASSUME NEW p \in below
        PROVE  /\ One(p).source \in Sources /\ One(p).dest \in Path
               /\ Located(node, One(p).dest) \in NodePaths
    <3> DEFINE rest == SubSeq(p, Len(start) + 1, Len(p))
    <3>1. p \in Path
      BY <2>2 DEF NodePaths
    <3>2. rest \in Path
      <4>1. Len(start) \in Nat /\ p \in Seq(Text) /\ Len(p) \in Nat
        BY <2>5, <3>1 DEF Path
      <4> HIDE DEF start
      <4> QED
        BY <4>1 DEF Path
    <3>3. Absolute(p) \in Path
      BY <3>1, LocatedTyped DEF Absolutes
    <3>4. [entry.source EXCEPT !.leaf = Absolute(p)] \in Sources
      BY <1>1, <3>3 DEF Sources
    <3> HIDE DEF rest
    <3>5. entry.dest \o rest \in Path /\ Located(node, entry.dest \o rest) \in NodePaths
      BY <1>1, <3>2, DestNotRoot
    <3> QED
      BY <3>4, <3>5 DEF rest
  <2>7. \A e \in all :
            e.source \in Sources /\ e.dest \in Path /\ Located(node, e.dest) \in NodePaths
    <3> HIDE DEF below, One
    <3> QED
      BY <2>6
  <2> QED
    BY <2>1, <2>4, <2>7
<1> QED
  BY <1>2, <1>3

\* What may become of a tree.
Successors(r) == {s \in Results : Follows(r, s)}

\* Successors of successors are successors.
LEMMA SuccessorsOfSuccessors ==
    ASSUME NEW r \in Results, NEW s \in Successors(r)
    PROVE  s \in Results /\ Successors(s) \subseteq Successors(r) /\ r \in Successors(r)
<1>1. s \in Results /\ Follows(r, s)
  BY DEF Successors
<1>2. \A u \in Results : Follows(s, u) => Follows(r, u)
  BY <1>1, FollowsOn
<1>3. r \in Successors(r)
  BY FollowsItself DEF Successors
<1> QED
  BY <1>1, <1>2, <1>3 DEF Successors

\* addAliasFromSourceAndRelativeDest, in a sequence of them.
LEMMA AddRelativeSucceeds ==
    ASSUME NEW r \in Results, NEW s \in Successors(r), NEW node \in Path, NEW source \in Sources,
           NEW dest \in Path, Located(node, dest) \in NodePaths, NEW pr \in 0..255
    PROVE  AddRelative(s, node, source, dest, pr) \in Successors(r)
<1>1. s \in Results /\ Successors(s) \subseteq Successors(r)
  BY SuccessorsOfSuccessors
<1>2. AddRelative(s, node, source, dest, pr) \in Successors(s)
  BY <1>1, AddRelativeFollows DEF Successors
<1> QED
  BY <1>1, <1>2

\* The cast of "$priority" to eight bits.
LEMMA PriorityTyped ==
    ASSUME NEW entry \in Entries, NEW default \in 0..255
    PROVE  PriorityOf(entry, default) \in 0..255
<1>1. entry.priority = Unset \/ entry.priority \in Nat
  BY DEF Entries
<1> QED
  BY <1>1 DEF PriorityOf

\* The loop over what a wildcard found, or over a device's semantic paths: a fold over a
\* finite set, and the folded function has to be shown to exist.
LEMMA AddAllSucceeds ==
    ASSUME NEW r \in Results, NEW node \in Path, NEW pr \in 0..255, NEW S, IsFiniteSet(S),
           \A e \in S : /\ e.source \in Sources /\ e.dest \in Path
                      /\ Located(node, e.dest) \in NodePaths
    PROVE  AddAll(r, node, S, pr) \in Successors(r)
<1> DEFINE R == Successors(r)
           Op(acc, e) == AddRelative(acc, node, e.source, e.dest, pr)
           G == [z \in R \X S |-> Op(z[1], z[2])]
           IsFold(g) == g = [s \in SUBSET S |->
                                IF s = {} THEN r
                                ELSE Op(g[s \ {CHOOSE x \in s : TRUE}], CHOOSE x \in s : TRUE)]
           it == CHOOSE g : IsFold(g)
<1>1. AddAll(r, node, S, pr) = it[S]
  BY DEF AddAll, FoldSet, MapThenFoldSet
<1>2. \A s \in R, e \in S : Op(s, e) \in R
  BY AddRelativeSucceeds
<1>3. r \in R
  BY FollowsItself DEF Successors
<1> HIDE DEF Op, R
<1>4. G \in [R \X S -> R] /\ \A s \in R, e \in S : G[<<s, e>>] = Op(s, e)
  BY <1>2
<1> HIDE DEF G
<1>5. PICK f : f \in SetFolds(S, R, r, G)
  BY <1>3, <1>4, SetFoldExists
<1>6. IsFold(f)
  <2>1. f \in [SUBSET S -> R]
    BY <1>5 DEF SetFolds
  <2>2. ASSUME NEW s \in (SUBSET S) \ {{}}
        PROVE  f[s] = Op(f[s \ {CHOOSE x \in s : TRUE}], CHOOSE x \in s : TRUE)
    <3>1. PICK x \in s : x = CHOOSE y \in s : TRUE
      OBVIOUS
    <3>2. f[s] = G[<<f[s \ {x}], x>>]
      BY <1>5, <3>1 DEF SetFolds
    <3>3. x \in S /\ f[s \ {x}] \in R
      BY <2>1
    <3> QED
      BY <1>4, <3>1, <3>2, <3>3
  <2>3. f[{}] = r
    BY <1>5 DEF SetFolds
  <2>4. ASSUME NEW s \in SUBSET S
        PROVE  f[s] = IF s = {} THEN r
                      ELSE Op(f[s \ {CHOOSE x \in s : TRUE}], CHOOSE x \in s : TRUE)
    BY <2>2, <2>3
  <2> QED
    BY <2>1, <2>4
<1>7. IsFold(it)
  BY <1>6
<1> HIDE DEF it
<1>8. it[{}] \in R
  BY <1>3, <1>7
<1>9. ASSUME NEW s \in (SUBSET S) \ {{}}, it[s \ {CHOOSE x \in s : TRUE}] \in R
      PROVE  it[s] \in R
  <2>1. PICK x \in s : x = CHOOSE y \in s : TRUE
    OBVIOUS
  <2>2. it[s] = Op(it[s \ {x}], x)
    BY <1>7, <2>1
  <2> QED
    BY <1>2, <1>9, <2>1, <2>2
<1>10. it[S] \in R
  BY <1>8, <1>9, SetFoldStays
<1> QED
  BY <1>1, <1>10 DEF R

\* m_processEntry. Entries with relative destinations are not processed at the root.
LEMMA ProcessEntrySucceeds ==
    ASSUME NEW r \in Results, NEW node \in Path, NEW entry \in Entries, NEW default \in 0..255,
           NEW opts, node = <<>> => "relativePath" \notin opts
    PROVE  ProcessEntry(r, node, entry, default, opts) \in Successors(r)
<1>1. PICK pr \in 0..255 : pr = PriorityOf(entry, default)
  BY PriorityTyped
<1>2. CASE \/ ~IsAbsolute(entry.dest) /\ "relativePath" \notin opts
           \/ ~IsAbsolute(entry.source.leaf) /\ "relativeSource" \notin opts
  BY <1>2, FollowsItself DEF ProcessEntry, Successors
<1>3. CASE ~(\/ ~IsAbsolute(entry.dest) /\ "relativePath" \notin opts
             \/ ~IsAbsolute(entry.source.leaf) /\ "relativeSource" \notin opts)
  <2>1. r.tree \in Trees /\ (IsAbsolute(entry.dest) \/ node # <<>>)
    BY <1>3 DEF Results
  <2>2. PICK S : S = Expanded(r.tree, node, entry)
    OBVIOUS
  <2>3. /\ IsFiniteSet(S)
        /\ \A e \in S : /\ e.source \in Sources /\ e.dest \in Path
                         /\ Located(node, e.dest) \in NodePaths
    BY <2>1, <2>2, ExpandedTyped
  <2>4. ProcessEntry(r, node, entry, default, opts) = AddAll(r, node, S, pr)
    BY <1>1, <1>3, <2>2 DEF ProcessEntry
  <2> QED
    BY <2>3, <2>4, AddAllSucceeds
<1> QED
  BY <1>2, <1>3

\* AliasProcessor::process goes through an array of aliases: a fold over a sequence.
LEMMA ProcessAliasesSucceeds ==
    ASSUME NEW r \in Results, NEW node \in Path, NEW aliases \in Seq(Entries),
           NEW default \in 0..255, NEW opts, node = <<>> => "relativePath" \notin opts
    PROVE  ProcessAliases(r, node, aliases, default, opts) \in Successors(r)
<1> DEFINE R == Successors(r)
           Op(acc, e) == ProcessEntry(acc, node, e, default, opts)
           G == [z \in R \X Entries |-> Op(z[1], z[2])]
           S == DOMAIN aliases
           IsFold(g) == g = [s \in SUBSET S |->
                                IF s = {} THEN r ELSE Op(g[s \ {Max(s)}], aliases[Max(s)])]
           it == CHOOSE g : IsFold(g)
<1>1. ProcessAliases(r, node, aliases, default, opts) = it[S]
  BY DEF ProcessAliases, FoldLeft, MapThenFoldSet
<1>2. \A s \in R, e \in Entries : Op(s, e) \in R
  BY ProcessEntrySucceeds, SuccessorsOfSuccessors
<1>3. r \in R
  BY FollowsItself DEF Successors
<1> HIDE DEF Op, R
<1>4. G \in [R \X Entries -> R] /\ \A s \in R, e \in Entries : G[<<s, e>>] = Op(s, e)
  BY <1>2
<1> HIDE DEF G
<1>5. PICK f : f \in SeqFolds(aliases, R, r, G)
  BY <1>3, <1>4, SeqFoldExists
<1>6. \A s \in (SUBSET S) \ {{}} : aliases[Max(s)] \in Entries
  BY LastIndex
<1>7. IsFold(f)
  BY <1>4, <1>5, <1>6 DEF SeqFolds
<1>8. IsFold(it)
  BY <1>7
<1> HIDE DEF it
<1>9. it[{}] \in R
  BY <1>3, <1>8
<1>10. \A s \in (SUBSET S) \ {{}} : it[s \ {Max(s)}] \in R => it[s] \in R
  BY <1>2, <1>6, <1>8
<1>11. it[S] \in R
  BY <1>9, <1>10, SeqFoldStays
<1> QED
  BY <1>1, <1>11 DEF R

-----------------------------------------------------------------------------
\* The nodes of a descriptor's interfaces are added where there are none.
LEMMA ProcessInterfacesSucceeds ==
    ASSUME NEW r \in Results, NEW dev \in NodePaths, NEW d, IsDescriptor(d)
    PROVE  ProcessInterfaces(r, dev, d) \in Successors(r)
<1> DEFINE below == {dev \o <<i>> : i \in d.interfaces}
           new == below \ DOMAIN r.tree
           f == [i \in d.interfaces |-> dev \o <<i>>]
           t == [p \in DOMAIN r.tree \cup new |-> IF p \in new THEN Interface ELSE r.tree[p]]
           s == [tree |-> t, changed |-> r.changed \/ new # {}]
<1>1. d.interfaces \subseteq Text /\ IsFiniteSet(d.interfaces)
  BY DEF IsDescriptor
<1>2. below \subseteq NodePaths
  <2>1. ASSUME NEW i \in d.interfaces PROVE dev \o <<i>> \in NodePaths
    <3>1. i \in Text /\ dev \in Seq(Text) /\ dev # <<>>
      BY <1>1 DEF NodePaths, Path
    <3>2. dev \o <<i>> \in Seq(Text) /\ Len(dev \o <<i>>) = Len(dev) + 1 /\ Len(dev) \in Nat
      BY <3>1
    <3>3. dev \o <<i>> # <<>>
      BY <3>1, <3>2, EmptySeq
    <3> QED
      BY <3>2, <3>3 DEF NodePaths, Path
  <2> QED
    BY <2>1
<1>3. IsFiniteSet(below)
  <2>1. f \in Surjection(d.interfaces, below)
    BY DEF Surjection
  <2> HIDE DEF f, below
  <2> QED
    BY <1>1, <2>1, FS_Surjection
<1>4. /\ r.tree \in [DOMAIN r.tree -> Elements] /\ DOMAIN r.tree \subseteq NodePaths
      /\ IsFiniteSet(DOMAIN r.tree) /\ r.changed \in BOOLEAN
  BY TreesAre DEF Results
<1> HIDE DEF below
<1>5. IsFiniteSet(DOMAIN r.tree \cup new)
  <2>1. IsFiniteSet(new)
    BY <1>3, FS_Subset
  <2> HIDE DEF new
  <2> QED
    BY <1>4, <2>1, FS_Union
<1>6. t \in [DOMAIN r.tree \cup new -> Elements] /\ DOMAIN t = DOMAIN r.tree \cup new
  <2>1. Interface \in Elements
    BY DEF Elements
  <2> QED
    BY <1>4, <2>1
<1>7. t \in Trees
  <2>1. DOMAIN t \subseteq NodePaths
    BY <1>2, <1>4, <1>6
  <2> HIDE DEF t, new
  <2> QED
    BY <1>5, <1>6, <2>1, TreesAre
<1>8. \A p \in DOMAIN r.tree : t[p] = r.tree[p]
  OBVIOUS
<1>9. new = {} => t = r.tree
  BY <1>4
<1>10. Follows(r, s)
  <2>1. ASSUME NEW p \in DOMAIN r.tree, r.tree[p].kind = "alias"
        PROVE  t[p].kind = "alias" /\ t[p].priority >= r.tree[p].priority
    <3>1. r.tree[p] \in Elements
      BY <1>4
    <3>2. r.tree[p].priority \in Nat
      BY <2>1, <3>1 DEF Elements, Interface
    <3> QED
      BY <1>8, <2>1, <3>2
  <2> HIDE DEF t, new
  <2> QED
    BY <1>6, <1>9, <2>1 DEF Follows
<1>11. s \in Results
  <2> HIDE DEF t
  <2> QED
    BY <1>4, <1>7 DEF Results
<1>12. ProcessInterfaces(r, dev, d) = s
  BY DEF ProcessInterfaces, below
<1> HIDE DEF s
<1> QED
  BY <1>10, <1>11, <1>12 DEF Successors

\* The aliases below a device's "semantic".
LEMMA ProcessSemanticSucceeds ==
    ASSUME NEW r \in Results, NEW dev \in NodePaths, NEW d, IsDescriptor(d)
    PROVE  ProcessSemantic(r, dev, d) \in Successors(r)
<1> DEFINE One(e) == [e EXCEPT !.dest = <<"semantic">> \o e.dest]
           S == {One(e) : e \in d.semantic}
           f == [e \in d.semantic |-> One(e)]
<1>1. d.semantic \subseteq [dest : Path, source : Sources] /\ IsFiniteSet(d.semantic)
  BY DEF IsDescriptor
<1>2. IsFiniteSet(S)
  <2>1. f \in Surjection(d.semantic, S)
    BY DEF Surjection
  <2> HIDE DEF f, S
  <2> QED
    BY <1>1, <2>1, FS_Surjection
<1>3. ASSUME NEW e \in d.semantic
      PROVE  /\ One(e).source \in Sources /\ One(e).dest \in Path
             /\ Located(dev, One(e).dest) \in NodePaths
  <2>1. e \in [dest : Path, source : Sources] /\ "semantic" \in Text /\ dev \in Path /\ dev # <<>>
    BY <1>1, TextAssumption DEF NodePaths
  <2>2. <<"semantic">> \o e.dest \in Path /\ <<"semantic">> \o e.dest # <<>>
    BY <2>1 DEF Path
  <2>3. Located(dev, <<"semantic">> \o e.dest) = dev \o (<<"semantic">> \o e.dest)
    <3>1. Head(<<"semantic">> \o e.dest) = "semantic"
      BY <2>1 DEF Path
    <3>2. "semantic" # "/"
      OBVIOUS
    <3> QED
      BY <3>1, <3>2 DEF Located, IsAbsolute
  <2>4. dev \o (<<"semantic">> \o e.dest) \in NodePaths
    <3>1. dev \o (<<"semantic">> \o e.dest) \in Seq(Text)
      BY <2>1, <2>2 DEF Path
    <3>2. dev \o (<<"semantic">> \o e.dest) # <<>>
      BY <2>1, <2>2, ConcatEqualIffEmpty DEF Path
    <3> QED
      BY <3>1, <3>2 DEF NodePaths, Path
  <2> QED
    BY <2>1, <2>2, <2>3, <2>4
<1>4. \A e \in S : e.source \in Sources /\ e.dest \in Path /\ Located(dev, e.dest) \in NodePaths
  <2> HIDE DEF One
  <2> QED
    BY <1>3
<1>5. ProcessSemantic(r, dev, d) = AddAll(r, dev, S, SEMANTICROUTE)
  BY DEF ProcessSemantic
<1>6. dev \in Path /\ SEMANTICROUTE \in 0..255
  BY DEF NodePaths, SEMANTICROUTE
<1> HIDE DEF S
<1> QED
  BY <1>2, <1>4, <1>5, <1>6, AddAllSucceeds

\* processDeviceDescriptorFromExistingDevice: interfaces, semantic, automatic.
LEMMA FromExistingDeviceSucceeds ==
    ASSUME NEW r \in Results, NEW dev \in NodePaths, NEW d, IsDescriptor(d)
    PROVE  FromExistingDevice(r, dev, d) \in Successors(r)
<1>1. PICK s : s = ProcessInterfaces(r, dev, d)
  OBVIOUS
<1>2. PICK u : u = ProcessSemantic(s, dev, d)
  OBVIOUS
<1>3. s \in Successors(r) /\ s \in Results
  BY <1>1, ProcessInterfacesSucceeds, SuccessorsOfSuccessors
<1>4. u \in Successors(r) /\ u \in Results
  BY <1>2, <1>3, ProcessSemanticSucceeds, SuccessorsOfSuccessors
<1>5. ProcessAutomatic(u, dev, d) \in Successors(u)
  <2>1. dev \in Path /\ dev # <<>> /\ d.automatic \in Seq(Entries) /\ AUTOMATIC \in 0..255
    BY DEF NodePaths, IsDescriptor, AUTOMATIC
  <2> QED
    BY <1>4, <2>1, ProcessAliasesSucceeds DEF ProcessAutomatic
<1> QED
  BY <1>1, <1>2, <1>4, <1>5, SuccessorsOfSuccessors DEF FromExistingDevice

\* A device or a string that is declared at a path displaces what was there.
LEMMA DeclareSucceeds ==
    ASSUME NEW r \in Results, NEW p \in Declared, p \in NodePaths, NEW e \in Elements,
           NEW changed \in BOOLEAN, r.changed => changed,
           changed \/ Structure(Put(r.tree, p, e)) = Structure(r.tree)
    PROVE  [tree |-> Put(r.tree, p, e), changed |-> changed] \in Successors(r)
<1> DEFINE t == Put(r.tree, p, e)
           s == [tree |-> t, changed |-> changed]
<1>1. r.tree \in Trees
  BY DEF Results
<1>2. t \in Trees /\ DOMAIN t = DOMAIN r.tree \cup {p}
      /\ \A q \in DOMAIN r.tree \cup {p} : t[q] = IF q = p THEN e ELSE r.tree[q]
  <2>1. IsPut(r.tree, p, e, t)
    BY <1>1, PutTyped
  <2> HIDE DEF t
  <2> QED
    BY <2>1 DEF IsPut
<1>3. ASSUME NEW q \in DOMAIN r.tree \ Declared, r.tree[q].kind = "alias"
      PROVE  t[q].kind = "alias" /\ t[q].priority >= r.tree[q].priority
  <2>1. r.tree[q] \in Elements
    BY <1>1, TreesAre
  <2>2. r.tree[q].priority \in Nat
    BY <1>3, <2>1 DEF Elements, Interface
  <2>3. t[q] = r.tree[q]
    BY <1>2, <1>3
  <2> QED
    BY <1>3, <2>2, <2>3
<1> HIDE DEF t
<1> QED
  BY <1>2, <1>3 DEF Follows, Successors, Results, t

\* processDeviceDescriptorForPathTree. A descriptor that differs is stored unflagged: it is
\* not part of the structure.
LEMMA DescribeDeviceSucceeds ==
    ASSUME NEW r \in Results, NEW dev \in ToSet(Devices), dev \in NodePaths,
           NEW d \in Descriptors[dev], IsDescriptor(d)
    PROVE  DescribeDevice(r, dev, d) \in Successors(r)
<1> DEFINE fresh == At(r.tree, dev).kind # "device"
           host == IF fresh THEN "localhost" ELSE r.tree[dev].server
           e == Device(host, d)
           s == [tree |-> Put(r.tree, dev, e), changed |-> r.changed \/ fresh]
<1>1. CASE ~fresh /\ r.tree[dev].descriptor = d
  BY <1>1, FollowsItself DEF DescribeDevice, Successors
<1>2. CASE ~(~fresh /\ r.tree[dev].descriptor = d)
  <2>1. r.tree \in Trees /\ r.changed \in BOOLEAN /\ r.tree \in [DOMAIN r.tree -> Elements]
    BY TreesAre DEF Results
  <2>2. ~fresh => dev \in DOMAIN r.tree /\ r.tree[dev] \in Elements /\ r.tree[dev].kind = "device"
    BY <2>1 DEF At, Null
  <2>3. ~fresh => r.tree[dev] \in [kind : {"device"}, server : Text, descriptor : Described]
    BY <2>2 DEF Elements, Interface
  <2>4. host \in Text
    BY <2>3, TextAssumption
  <2>5. d \in Described
    BY DEF Described
  <2>6. e \in Elements
    <3> HIDE DEF host
    <3> QED
      BY <2>4, <2>5 DEF Elements, Device
  <2>7. ~fresh => Structure(Put(r.tree, dev, e)) = Structure(r.tree)
    <3> SUFFICES ASSUME ~fresh PROVE Structure(Put(r.tree, dev, e)) = Structure(r.tree)
      OBVIOUS
    <3>1. DOMAIN Put(r.tree, dev, e) = DOMAIN r.tree
      BY <2>2 DEF Put
    <3>2. [e EXCEPT !.descriptor = Undescribed] = [r.tree[dev] EXCEPT !.descriptor = Undescribed]
      BY <2>3 DEF Device
    <3>3. e.kind = "device"
      BY DEF Device
    <3> HIDE DEF e
    <3>4. \A q \in DOMAIN r.tree : Put(r.tree, dev, e)[q] = IF q = dev THEN e ELSE r.tree[q]
      BY DEF Put
    <3> QED
      BY <2>2, <3>1, <3>2, <3>3, <3>4 DEF Structure
  <2>8. dev \in Declared
    BY DEF Declared
  <2>9. s \in Successors(r)
    <3> HIDE DEF e, fresh
    <3> QED
      BY <2>1, <2>6, <2>7, <2>8, DeclareSucceeds
  <2>10. FromExistingDevice(s, dev, d) \in Successors(s) /\ s \in Results
    BY <2>9, FromExistingDeviceSucceeds, SuccessorsOfSuccessors
  <2>11. DescribeDevice(r, dev, d) = FromExistingDevice(s, dev, d)
    BY <1>2 DEF DescribeDevice
  <2> HIDE DEF s
  <2> QED
    BY <2>9, <2>10, <2>11, SuccessorsOfSuccessors
<1> QED
  BY <1>1, <1>2

\* The devices' paths and descriptors, from the assumption about them.
LEMMA DevicesAre ==
    \A dev \in ToSet(Devices) :
        dev \in NodePaths /\ \A d \in Descriptors[dev] : IsDescriptor(d) /\ d # Undescribed
<1>1. ToSet(Devices) \subseteq NodePaths
  BY ServerTreeAssumption DEF ToSet, NodePaths
<1> QED
  BY <1>1, ServerTreeAssumption

\* m_handleDeviceDescriptors goes through all devices.
LEMMA DescribeAllSucceeds ==
    ASSUME NEW r \in Results, NEW of,
           \A dev \in ToSet(Devices) : of[dev] \in Descriptors[dev] \cup {Undescribed}
    PROVE  DescribeAll(r, of) \in Successors(r)
<1> DEFINE R == Successors(r)
           E == ToSet(Devices)
           Op(acc, dev) == IF of[dev] = Undescribed THEN acc
                           ELSE DescribeDevice(acc, dev, of[dev])
           G == [z \in R \X E |-> Op(z[1], z[2])]
           S == DOMAIN Devices
           IsFold(g) == g = [s \in SUBSET S |->
                                IF s = {} THEN r ELSE Op(g[s \ {Max(s)}], Devices[Max(s)])]
           it == CHOOSE g : IsFold(g)
<1>1. DescribeAll(r, of) = it[S]
  BY DEF DescribeAll, FoldLeft, MapThenFoldSet
<1>2. ASSUME NEW s \in R, NEW dev \in E PROVE Op(s, dev) \in R
  <2>1. CASE of[dev] = Undescribed
    BY <2>1
  <2>2. CASE of[dev] # Undescribed
    <3>1. DescribeDevice(s, dev, of[dev]) \in Successors(s)
      BY <2>2, DescribeDeviceSucceeds, DevicesAre, SuccessorsOfSuccessors
    <3> QED
      BY <2>2, <3>1, SuccessorsOfSuccessors
  <2> QED
    BY <2>1, <2>2
<1>3. r \in R /\ Devices \in Seq(E)
  <2>1. Devices \in Seq(Path \ {<<>>})
    BY ServerTreeAssumption
  <2>2. \A i \in 1..Len(Devices) : Devices[i] \in E
    BY <2>1 DEF ToSet
  <2> QED
    BY <2>1, <2>2, FollowsItself DEF Successors
<1> HIDE DEF Op, R, E
<1>4. G \in [R \X E -> R] /\ \A s \in R, e \in E : G[<<s, e>>] = Op(s, e)
  BY <1>2
<1> HIDE DEF G
<1>5. PICK f : f \in SeqFolds(Devices, R, r, G)
  BY <1>3, <1>4, SeqFoldExists
<1>6. \A s \in (SUBSET S) \ {{}} : Devices[Max(s)] \in E
  BY <1>3, LastIndex
<1>7. IsFold(f)
  BY <1>4, <1>5, <1>6 DEF SeqFolds
<1>8. IsFold(it)
  BY <1>7
<1> HIDE DEF it
<1>9. it[{}] \in R
  BY <1>3, <1>8
<1>10. \A s \in (SUBSET S) \ {{}} : it[s \ {Max(s)}] \in R => it[s] \in R
  BY <1>2, <1>6, <1>8
<1>11. it[S] \in R
  BY <1>3, <1>9, <1>10, SeqFoldStays
<1> QED
  BY <1>1, <1>11 DEF R

-----------------------------------------------------------------------------
\* The server's tree and m_treeDirty after a step.
Afterwards == [tree |-> tree', changed |-> treeDirty']

\* What it makes of the tree, apart from what is described.
Proceeds ==
    /\ Afterwards \in Successors(Now) /\ run' = run
    /\ changes < MaxChanges /\ changes' = changes + 1

Descriptions ==
    /\ \A dev \in ToSet(Devices) : descriptor[dev] \in Descriptors[dev] \cup {Undescribed}
    /\ DOMAIN descriptor = ToSet(Devices)

\* The inductive invariant of the server's side: the tree is one of those described.
TreeInv ==
    /\ Now \in Results
    /\ changes \in 0..MaxChanges /\ run \in 0..changes
    /\ Descriptions
    /\ outbox \in {<<>>} \cup {<<r>> : r \in Routes}

\* Whatever changes the server's tree makes a successor of it.
LEMMA TreeStep ==
    ASSUME TreeInv, ServerChange \/ TakeRoute
    PROVE  Proceeds /\ Descriptions'
<1> USE DEF TreeInv, Descriptions
<1>1. ASSUME NEW r \in Successors(Now), Change(r), run' = run PROVE Proceeds
  <2>1. r = [tree |-> r.tree, changed |-> r.changed]
    BY DEF Successors, Results
  <2> QED
    BY <1>1, <2>1 DEF Change, Afterwards, Proceeds
<1>2. ASSUME NEW dev \in ToSet(Devices), NEW d \in Descriptors[dev], Describe(dev, d)
      PROVE  Proceeds /\ Descriptions'
  <2>1. /\ \A e \in ToSet(Devices) : descriptor'[e] \in Descriptors[e] \cup {Undescribed}
        /\ DOMAIN descriptor' = ToSet(Devices)
    BY <1>2 DEF Describe
  <2>2. PICK of : of = descriptor'
    OBVIOUS
  <2>3. DescribeAll(Now, of) \in Successors(Now)
    BY <2>1, <2>2, DescribeAllSucceeds
  <2>4. Change(DescribeAll(Now, of)) /\ run' = run
    BY <1>2, <2>2 DEF Describe
  <2> QED
    BY <1>1, <2>1, <2>3, <2>4 DEF Descriptions
<1>3. ASSUME NEW aliases \in Seq(Entries), NEW pr \in 0..255, NEW opts, "relativePath" \notin opts,
             AddAliases(aliases, pr, opts)
      PROVE  Proceeds /\ descriptor' = descriptor
  <2>1. <<>> \in Path
    BY DEF Path
  <2>2. ProcessAliases(Now, <<>>, aliases, pr, opts) \in Successors(Now)
    BY <1>3, <2>1, ProcessAliasesSucceeds
  <2> QED
    BY <1>1, <1>3, <2>2 DEF AddAliases
<1>4. ASSUME NEW s \in Strings, AddString(s[1], s[2])
      PROVE  Proceeds /\ descriptor' = descriptor
  <2> DEFINE e == StringElt(s[2])
             changed == treeDirty \/ At(tree, s[1]) # e
  <2>1. s[1] \in NodePaths /\ s[2] \in Text /\ s[1] \in Declared
    BY ServerTreeAssumption DEF NodePaths, Declared
  <2>2. e \in Elements
    BY <2>1 DEF StringElt, Elements
  <2>3. treeDirty \in BOOLEAN /\ tree \in Trees
    BY DEF Now, Results
  <2>4. At(tree, s[1]) = e => Put(tree, s[1], e) = tree
    <3>1. e # Null
      BY DEF StringElt, Null
    <3>2. tree \in [DOMAIN tree -> Elements]
      BY <2>3, TreesAre
    <3> HIDE DEF e
    <3> QED
      BY <3>1, <3>2 DEF At, Put
  <2>5. [tree |-> Put(tree, s[1], e), changed |-> changed] \in Successors(Now)
    <3> HIDE DEF e
    <3>1. Now.tree = tree /\ Now.changed = treeDirty
      BY DEF Now
    <3>2. changed \/ Structure(Put(Now.tree, s[1], e)) = Structure(Now.tree)
      BY <2>4, <3>1
    <3>3. changed \in BOOLEAN /\ (Now.changed => changed)
      BY <3>1
    <3> HIDE DEF changed
    <3> QED
      BY <2>1, <2>2, <3>1, <3>2, <3>3, DeclareSucceeds
  <2> QED
    BY <1>1, <1>4, <2>5 DEF AddString
<1>5. ASSUME NEW x \in Externals, AddExternalDevice(x[1], x[2])
      PROVE  Proceeds /\ descriptor' = descriptor
  <2> DEFINE e == Device("elsewhere", x[2])
             r == [tree |-> Put(tree, x[1], e), changed |-> TRUE]
             s == FromExistingDevice(r, x[1], x[2])
  <2>1. x[1] \in NodePaths /\ IsDescriptor(x[2]) /\ x[1] \in Declared /\ x[2] \in Described
    <3>1. x[1] \in NodePaths /\ IsDescriptor(x[2])
      BY ServerTreeAssumption DEF NodePaths
    <3>2. x[1] \in Declared
      BY DEF Declared
    <3>3. x[2] \in Described
      BY DEF Described
    <3> QED
      BY <3>1, <3>2, <3>3
  <2>2. e \in Elements
    BY <2>1, TextAssumption DEF Device, Elements
  <2>3. r \in Successors(Now)
    <3> HIDE DEF e
    <3>1. Now.tree = tree
      BY DEF Now
    <3> QED
      BY <2>1, <2>2, <3>1, DeclareSucceeds
  <2>4. s \in Successors(r) /\ s \in Results /\ Successors(r) \subseteq Successors(Now)
    <3> HIDE DEF r
    <3> QED
      BY <2>1, <2>3, FromExistingDeviceSucceeds, SuccessorsOfSuccessors
  <2>5. s.changed = TRUE
    <3>1. r.changed
      OBVIOUS
    <3> HIDE DEF r, s
    <3>2. s.changed \in BOOLEAN /\ (r.changed => s.changed)
      BY <2>4 DEF Successors, Follows, Results
    <3> QED
      BY <3>1, <3>2
  <2>6. [s EXCEPT !.changed = TRUE] = s
    <3> HIDE DEF s
    <3> QED
      BY <2>4, <2>5 DEF Results
  <2>7. Change([s EXCEPT !.changed = TRUE]) /\ run' = run /\ descriptor' = descriptor
    BY <1>5 DEF AddExternalDevice
  <2> HIDE DEF s, r
  <2> QED
    BY <1>1, <2>4, <2>6, <2>7
<1>6. CASE ServerChange
  <2>1. ASSUME NEW a \in Aliases, AddAliases(a.entries, a.priority, {"wildcard"})
        PROVE  Proceeds /\ descriptor' = descriptor
    <3>1. a.entries \in Seq(Entries) /\ a.priority \in 0..255 /\ "relativePath" \notin {"wildcard"}
      BY ServerTreeAssumption
    <3> QED
      BY <1>3, <2>1, <3>1
  <2> QED
    BY <1>2, <1>4, <1>5, <1>6, <2>1 DEF ServerChange
<1>7. CASE TakeRoute
  <2>1. outbox[1] \in Routes /\ AddRoute(outbox[1])
    BY <1>7 DEF TakeRoute
  <2>2. PICK route \in Entries : route = outbox[1]
    BY <2>1, LinkAssumption
  <2>3. [route EXCEPT !.priority = MANUAL] \in Entries
    BY DEF Entries, MANUAL
  <2>4. <<[route EXCEPT !.priority = MANUAL]>> \in Seq(Entries) /\ MANUAL \in 0..255
    BY <2>3 DEF MANUAL
  <2>5. AddAliases(<<[route EXCEPT !.priority = MANUAL]>>, MANUAL, {})
    BY <2>1, <2>2 DEF AddRoute
  <2> QED
    BY <1>3, <2>4, <2>5
<1> QED
  BY <1>6, <1>7

\* The tree of a server that has just been constructed.
LEMMA FirstTreeTyped == FirstTree \in Trees
<1>1. PICK p : p = <<"display">>
  OBVIOUS
<1>2. p \in NodePaths /\ "default" \in Text
  <2>1. "display" \in Text /\ "default" \in Text
    BY TextAssumption
  <2>2. p \in Seq(Text) /\ p # <<>>
    BY <1>1, <2>1
  <2> QED
    BY <2>1, <2>2 DEF NodePaths, Path
<1>3. FirstTree = [q \in {p} |-> StringElt("default")]
  BY <1>1 DEF FirstTree
<1>4. StringElt("default") \in Elements
  BY <1>2 DEF StringElt, Elements
<1>5. FirstTree \in [{p} -> Elements] /\ DOMAIN FirstTree = {p}
  BY <1>3, <1>4
<1>6. IsFiniteSet({p})
  BY FS_Singleton
<1> QED
  BY <1>2, <1>5, <1>6, TreesAre

\* The server begins with such a tree.
LEMMA TreeInvInitially == Init => TreeInv
<1> SUFFICES ASSUME Init PROVE TreeInv
  OBVIOUS
<1>1. Now \in Results
  BY FirstTreeTyped DEF Init, ServerInit, Now, Results
<1> QED
  BY <1>1, ServerTreeAssumption DEF Init, ServerInit, TreeInv, Descriptions

\* What a step means to the server's tree.
LEMMA ServerSteps ==
    ASSUME [Next]_vars
    PROVE  \/ ServerChange \/ TakeRoute
           \/ Restart
           \/ UNCHANGED serverVars
           \/ Disconnect \/ Ping \/ SendTree
BY DEF Next, vars, Connect, Disconnect, RestartServer, Ping, ChangeTree, SendTree, Receive,
       SendRoute, UpdateStep, Application, Ended

\* What a step means to the route on its way.
LEMMA OutboxSteps ==
    ASSUME [Next]_vars
    PROVE  \/ outbox' \in {<<>>, outbox}
           \/ \E r \in Routes : outbox' = <<r>>
BY DEF Next, vars, linkVars, Connect, Disconnect, RestartServer, Break, Ping, ChangeTree, TakeRoute,
       SendTree, Receive, SendRoute, UpdateStep, Application, Ended

\* Every step keeps the server's invariant.
LEMMA TreeInvStep == TreeInv /\ [Next]_vars => TreeInv'
<1> SUFFICES ASSUME TreeInv, [Next]_vars PROVE TreeInv'
  OBVIOUS
<1>0. outbox' \in {<<>>} \cup {<<r>> : r \in Routes}
  BY OutboxSteps DEF TreeInv
<1>01. MaxChanges \in Nat
  BY ServerTreeAssumption
<1>1. CASE ServerChange \/ TakeRoute
  <2>1. /\ Afterwards \in Results /\ run' = run /\ changes < MaxChanges /\ changes' = changes + 1
        /\ Descriptions'
    BY <1>1, TreeStep DEF Successors, Proceeds
  <2>2. changes' \in 0..MaxChanges /\ run' \in 0..changes'
    BY <2>1, <1>01 DEF TreeInv
  <2> QED
    BY <1>0, <2>1, <2>2 DEF TreeInv, Afterwards, Now
<1>2. CASE Restart
  <2>1. FirstTree \in Trees
    BY FirstTreeTyped
  <2>2. Now' \in Results
    BY <1>2, <2>1 DEF Restart, Now, Results
  <2>3. changes' \in 0..MaxChanges /\ run' \in 0..changes'
    BY <1>2, <1>01 DEF Restart, TreeInv
  <2> QED
    BY <1>0, <1>2, <2>2, <2>3 DEF TreeInv, Descriptions, Restart
<1>3. CASE UNCHANGED serverVars
  BY <1>0, <1>3 DEF TreeInv, Descriptions, serverVars, Now
<1>4. CASE Disconnect
  <2>1. changes' \in 0..MaxChanges /\ run' \in 0..changes'
    BY <1>4, <1>01 DEF Disconnect, TreeInv
  <2> QED
    BY <1>0, <1>4, <2>1 DEF TreeInv, Descriptions, Disconnect, Now
<1>5. CASE Ping \/ SendTree
  BY <1>0, <1>5 DEF TreeInv, Descriptions, Ping, QueueTreeSend, SendTree, Now, Results
<1> QED
  BY <1>1, <1>2, <1>3, <1>4, <1>5, ServerSteps

\* The server's tree is always one of those described, whatever is declared and described.
THEOREM TreeInvariant == Spec => []TreeInv
BY TreeInvInitially, TreeInvStep, PTL DEF Spec

\* Whatever changes the structure of the tree leaves m_treeDirty set until that
\* tree has been sent: no change is missed, whichever operation makes it.
ChangesAreFlagged ==
    [][Structure(tree') # Structure(tree) => treeDirty' \/ run' # run]_vars

\* m_treeDirty: no operation changes the structure of the tree without the flag that has it
\* sent, however many of them there are in a descriptor and whichever returns early.
THEOREM ChangesFlagged == Spec => ChangesAreFlagged
<1>1. TreeInv /\ [Next]_vars
        => [Structure(tree') # Structure(tree) => treeDirty' \/ run' # run]_vars
  <2> SUFFICES ASSUME TreeInv, [Next]_vars, Structure(tree') # Structure(tree), run' = run
               PROVE  treeDirty'
    OBVIOUS
  <2>1. CASE ServerChange \/ TakeRoute
    <3>1. Afterwards \in Successors(Now)
      BY <2>1, TreeStep DEF Proceeds
    <3>2. Afterwards.changed \/ Structure(Afterwards.tree) = Structure(Now.tree)
      BY <3>1 DEF Successors, Follows
    <3> QED
      BY <3>2 DEF Afterwards, Now
  <2>2. CASE Restart
    <3>1. run' # run
      BY <2>2 DEF Restart, TreeInv
    <3> QED
      BY <3>1
  <2>3. CASE UNCHANGED serverVars \/ Disconnect \/ Ping \/ SendTree
    <3>1. tree' = tree
      BY <2>3 DEF serverVars, Disconnect, Ping, QueueTreeSend, SendTree
    <3> QED
      BY <3>1
  <2> QED
    BY <2>1, <2>2, <2>3, ServerSteps
<1> QED
  BY <1>1, TreeInvariant, PTL DEF Spec, ChangesAreFlagged

\* aliasNeedsUpdate, through whole descriptors: an alias gives way only to one of its priority
\* or a higher one, in whatever order devices are described and routes are taken.
THEOREM PrioritiesKept == Spec => AliasesKeepPriority
<1> DEFINE Kept == \A p \in DOMAIN tree \ Declared : tree[p].kind = "alias" =>
                      /\ p \in DOMAIN tree' /\ tree'[p].kind = "alias"
                      /\ tree'[p].priority >= tree[p].priority
<1>1. TreeInv /\ [Next]_vars => [run' = run => Kept]_vars
  <2> SUFFICES ASSUME TreeInv, [Next]_vars, run' = run PROVE Kept
    OBVIOUS
  <2>1. CASE ServerChange \/ TakeRoute
    <3>1. Afterwards \in Successors(Now)
      BY <2>1, TreeStep DEF Proceeds
    <3>2. Follows(Now, Afterwards) /\ Now.tree = tree /\ Afterwards.tree = tree'
      BY <3>1 DEF Successors, Now, Afterwards
    <3> QED
      BY <3>2 DEF Follows
  <2>2. CASE Restart
    <3>1. run' # run
      BY <2>2 DEF Restart, TreeInv
    <3> QED
      BY <3>1
  <2>3. CASE UNCHANGED serverVars \/ Disconnect \/ Ping \/ SendTree
    <3>1. tree' = tree
      BY <2>3 DEF serverVars, Disconnect, Ping, QueueTreeSend, SendTree
    <3>2. Follows(Now, Now) /\ Now.tree = tree
      BY FollowsItself DEF TreeInv, Now
    <3> QED
      BY <3>1, <3>2 DEF Follows
  <2> QED
    BY <2>1, <2>2, <2>3, ServerSteps
<1> QED
  BY <1>1, TreeInvariant, PTL DEF Spec, AliasesKeepPriority

-----------------------------------------------------------------------------
\* replaceLocalhostServers, on two trees of one structure.
LEMMA LocalizedKeeps ==
    ASSUME NEW t \in Trees, NEW u \in Trees, Structure(t) = Structure(u)
    PROVE  Structure(Localized(t)) = Structure(Localized(u))
<1> DEFINE Bare(e) == IF e.kind = "device" THEN [e EXCEPT !.descriptor = Undescribed] ELSE e
           Moved(e) == IF e.kind = "device" /\ e.server = "localhost"
                       THEN [e EXCEPT !.server = Host] ELSE e
<1>1. t \in [DOMAIN t -> Elements] /\ u \in [DOMAIN u -> Elements]
  BY TreesAre
<1>2. DOMAIN t = DOMAIN u
  <2>1. DOMAIN Structure(t) = DOMAIN t /\ DOMAIN Structure(u) = DOMAIN u
    BY DEF Structure
  <2> QED
    BY <2>1
<1>3. ASSUME NEW p \in DOMAIN t PROVE Bare(Moved(t[p])) = Bare(Moved(u[p]))
  <2>1. Bare(t[p]) = Bare(u[p])
    <3>1. Structure(t)[p] = Bare(t[p]) /\ Structure(u)[p] = Bare(u[p])
      BY <1>2 DEF Structure
    <3> QED
      BY <3>1
  <2>2. t[p] \in Elements /\ u[p] \in Elements
    BY <1>1, <1>2
  <2>3. \A e \in Elements : e.kind = "device" =>
            e \in [kind : {"device"}, server : Text, descriptor : Described]
    BY DEF Elements, Interface
  <2>4. Bare(t[p]).kind = t[p].kind /\ Bare(u[p]).kind = u[p].kind
    BY <2>2, <2>3
  <2>5. CASE t[p].kind # "device"
    BY <2>1, <2>4, <2>5
  <2>6. CASE t[p].kind = "device"
    <3>1. /\ t[p] \in [kind : {"device"}, server : Text, descriptor : Described]
          /\ u[p] \in [kind : {"device"}, server : Text, descriptor : Described]
      BY <2>1, <2>2, <2>3, <2>4, <2>6
    <3>2. t[p].server = u[p].server
      BY <2>1, <3>1
    <3> QED
      BY <3>1, <3>2
  <2> QED
    BY <2>5, <2>6
<1>4. \A v : Structure(Localized(v)) = [p \in DOMAIN v |-> Bare(Moved(v[p]))]
  BY DEF Structure, Localized
<1> HIDE DEF Bare, Moved
<1> QED
  BY <1>2, <1>3, <1>4

\* The server has answered the client's ping, and what it has is sent: then what was sent
\* last is what the server has.
Fresh == connected /\ ~pinging /\ ~treeDirty

\* The inductive invariant of the link: the last tree under way, or if there is none the last
\* one taken, has the structure of the server's tree, unless the flag is still set or the
\* ping still unanswered.
LinkInv ==
    /\ {connected, pinging} \subseteq BOOLEAN /\ (pinging => connected)
    /\ inbox \in Seq([run : Nat, tree : Trees]) /\ Len(inbox) <= MaxInbox
    /\ \A i \in 1..Len(inbox) : inbox[i].run \in 0..run
    /\ valid \in BOOLEAN /\ (last # None => valid)
    /\ valid => last.tree \in Trees /\ ctree = Localized(last.tree)
    /\ ~valid => ctree = <<>>
    /\ Fresh /\ inbox # <<>> => Structure(inbox[Len(inbox)].tree) = Structure(tree)
    /\ Fresh /\ inbox = <<>> => valid /\ Structure(last.tree) = Structure(tree)

ownVars == <<valid, ctree, last>>

\* Nothing is connected in the beginning.
LEMMA LinkInvInitially == Init => LinkInv
<1> SUFFICES ASSUME Init PROVE LinkInv
  OBVIOUS
<1>1. /\ inbox = <<>> /\ connected = FALSE /\ pinging = FALSE
      /\ valid = FALSE /\ ctree = <<>> /\ last = None
  BY DEF Init, ClientInit
<1>2. inbox \in Seq([run : Nat, tree : Trees]) /\ Len(inbox) = 0 /\ MaxInbox \in Nat
  <2>1. \A S : <<>> \in Seq(S) /\ Len(<<>>) = 0
    OBVIOUS
  <2> QED
    BY <1>1, <2>1, LinkAssumption
<1>3. ~Fresh /\ {connected, pinging} \subseteq BOOLEAN /\ (pinging => connected)
  BY <1>1 DEF Fresh
<1>4. Len(inbox) <= MaxInbox /\ 1..Len(inbox) = {}
  BY <1>2
<1> QED
  BY <1>1, <1>2, <1>3, <1>4 DEF LinkInv

\* A connection that breaks loses the last trees under way, and a new ping will be due.
LEMMA BreakKeeps ==
    ASSUME TreeInv, LinkInv, Break, run' = run \/ Restart
    PROVE  LinkInv'
<1>1. PICK n \in 0..Len(inbox) : inbox' = SubSeq(inbox, 1, n)
  BY DEF Break
<1>2. connected' = FALSE /\ pinging' = FALSE /\ UNCHANGED ownVars
  BY DEF Break, clientVars, treeVars, ownVars
<1>3. inbox \in Seq([run : Nat, tree : Trees]) /\ Len(inbox) \in Nat
  BY DEF LinkInv
<1>4. /\ inbox' \in Seq([run : Nat, tree : Trees]) /\ Len(inbox') = n
      /\ \A i \in 1..n : inbox'[i] = inbox[i]
  <2>1. \A S : \A s \in Seq(S) : \A m \in 0..Len(s) :
            /\ SubSeq(s, 1, m) \in Seq(S) /\ Len(SubSeq(s, 1, m)) = m
            /\ \A i \in 1..m : SubSeq(s, 1, m)[i] = s[i]
    OBVIOUS
  <2> QED
    BY <1>1, <1>3, <2>1
<1>5. run \in Nat /\ run' \in Nat /\ run <= run'
  BY ServerTreeAssumption DEF Restart, TreeInv
<1>6. \A i \in 1..n : inbox'[i].run \in 0..run'
  <2>1. \A i \in 1..n : inbox[i].run \in 0..run
    BY <1>3 DEF LinkInv
  <2> QED
    BY <1>4, <1>5, <2>1
<1>7. Len(inbox') <= MaxInbox
  BY <1>3, <1>4, LinkAssumption DEF LinkInv
<1> QED
  BY <1>2, <1>4, <1>6, <1>7 DEF LinkInv, Fresh, ownVars

\* A tree arrives: it is taken, or it is a duplicate of the last one taken.
LEMMA ReceiveKeeps ==
    ASSUME TreeInv, LinkInv, Receive
    PROVE  LinkInv'
<1> DEFINE T == [run : Nat, tree : Trees]
<1>1. /\ inbox \in Seq(T) /\ inbox # <<>> /\ Len(inbox) \in Nat /\ inbox' = Tail(inbox)
      /\ UNCHANGED <<tree, treeDirty, run, connected, pinging>>
  BY DEF LinkInv, Receive, serverVars
<1>2. /\ inbox' \in Seq(T) /\ Len(inbox') = Len(inbox) - 1 /\ Len(inbox) > 0
      /\ \A i \in 1..Len(inbox') : inbox'[i] = inbox[i + 1]
  BY <1>1
<1>3. PICK msg : msg = inbox[1] /\ msg \in T
  <2>1. 1 \in 1..Len(inbox)
    BY <1>1, <1>2
  <2>2. inbox[1] \in T
    <3> HIDE DEF T
    <3> QED
      BY <1>1, <2>1, ElementOfSeq, Zenon
  <2> QED
    BY <2>2
<1>4. /\ valid' \in BOOLEAN /\ (last' # None => valid')
      /\ valid' => last'.tree \in Trees /\ ctree' = Localized(last'.tree)
      /\ valid' /\ last'.tree = msg.tree
  <2>1. CASE TakeTree(msg)
    BY <1>3, <2>1 DEF TakeTree, ReplaceTree
  <2>2. CASE SkipTree(msg)
    BY <1>3, <2>2 DEF SkipTree, clientVars, treeVars, LinkInv
  <2> QED
    BY <1>3, <2>1, <2>2 DEF Receive
<1>5. Len(inbox') <= MaxInbox /\ \A i \in 1..Len(inbox') : inbox'[i].run \in 0..run'
  <2>1. Len(inbox') <= MaxInbox
    BY <1>1, <1>2, LinkAssumption DEF LinkInv
  <2>2. ASSUME NEW i \in 1..Len(inbox') PROVE inbox'[i].run \in 0..run'
    <3>1. i + 1 \in 1..Len(inbox)
      BY <1>1, <1>2
    <3> QED
      BY <1>1, <1>2, <3>1 DEF LinkInv
  <2> QED
    BY <2>1, <2>2
<1>6. Fresh' => Fresh /\ Structure(inbox[Len(inbox)].tree) = Structure(tree')
  BY <1>1 DEF Fresh, LinkInv
<1>7. Fresh' /\ inbox' # <<>> => Structure(inbox'[Len(inbox')].tree) = Structure(tree')
  <2> SUFFICES ASSUME Fresh', inbox' # <<>>
               PROVE  Structure(inbox'[Len(inbox')].tree) = Structure(tree')
    OBVIOUS
  <2>1. Len(inbox') \in Nat /\ Len(inbox') # 0
    BY <1>2, EmptySeq
  <2>2. inbox'[Len(inbox')] = inbox[Len(inbox)]
    BY <1>1, <1>2, <2>1
  <2> QED
    BY <1>6, <2>2
<1>8. Fresh' /\ inbox' = <<>> => Structure(last'.tree) = Structure(tree')
  <2> SUFFICES ASSUME Fresh', inbox' = <<>> PROVE Structure(last'.tree) = Structure(tree')
    OBVIOUS
  <2>1. Len(inbox) = 1
    BY <1>1, <1>2
  <2> QED
    BY <1>3, <1>4, <1>6, <2>1
<1>9. {connected', pinging'} \subseteq BOOLEAN /\ (pinging' => connected')
  BY <1>1 DEF LinkInv
<1> QED
  BY <1>2, <1>4, <1>5, <1>7, <1>8, <1>9 DEF LinkInv

\* The server's loop sends the tree that was flagged.
LEMMA SendTreeKeeps ==
    ASSUME TreeInv, LinkInv, SendTree
    PROVE  LinkInv'
<1> DEFINE T == [run : Nat, tree : Trees]
<1>1. /\ inbox \in Seq(T) /\ Len(inbox) \in Nat /\ Len(inbox) < MaxInbox
      /\ UNCHANGED <<tree, run, connected, pinging, valid, ctree, last>>
  BY DEF LinkInv, SendTree, clientVars, treeVars
<1>2. Message \in T /\ Message.run = run /\ Message.tree = tree /\ run \in Nat
  BY ServerTreeAssumption DEF TreeInv, Now, Results, Message
<1>3. CASE ~connected
  <2>1. inbox' = inbox
    BY <1>3 DEF SendTree
  <2> QED
    BY <1>1, <1>3, <2>1 DEF LinkInv, Fresh
<1>4. CASE connected
  <2>1. inbox' = Append(inbox, Message)
    BY <1>4 DEF SendTree
  <2>2. /\ inbox' \in Seq(T) /\ Len(inbox') = Len(inbox) + 1 /\ inbox' # <<>>
        /\ inbox'[Len(inbox) + 1] = Message /\ \A i \in 1..Len(inbox) : inbox'[i] = inbox[i]
    BY <1>1, <1>2, <2>1, AppendProperties
  <2>3. Len(inbox') <= MaxInbox
    BY <1>1, <2>2, LinkAssumption
  <2>4. ASSUME NEW i \in 1..Len(inbox') PROVE inbox'[i].run \in 0..run'
    <3>1. CASE i = Len(inbox) + 1
      BY <1>1, <1>2, <2>2, <3>1
    <3>2. CASE i # Len(inbox) + 1
      <4>1. i \in 1..Len(inbox)
        BY <1>1, <2>2, <3>2
      <4> QED
        BY <1>1, <2>2, <4>1 DEF LinkInv
    <3> QED
      BY <3>1, <3>2
  <2>5. Structure(inbox'[Len(inbox')].tree) = Structure(tree')
    BY <1>1, <1>2, <2>2
  <2> QED
    BY <1>1, <2>2, <2>3, <2>4, <2>5 DEF LinkInv, Fresh
<1> QED
  BY <1>3, <1>4

\* Every step keeps the link's invariant.
LEMMA LinkInvStep == TreeInv /\ LinkInv /\ [Next]_vars => LinkInv'
<1> SUFFICES ASSUME TreeInv, LinkInv, [Next]_vars PROVE LinkInv'
  OBVIOUS
<1>1. ASSUME UNCHANGED <<inbox, valid, ctree, last>>, run' = run,
             {connected', pinging'} \subseteq BOOLEAN, pinging' => connected',
             Fresh' => Fresh /\ Structure(tree') = Structure(tree)
      PROVE  LinkInv'
  BY <1>1 DEF LinkInv
<1>2. CASE UNCHANGED vars
  BY <1>1, <1>2 DEF vars, serverVars, clientVars, treeVars, linkVars, Fresh, LinkInv
<1>3. CASE Connect
  BY <1>1, <1>3 DEF Connect, serverVars, clientVars, treeVars, Fresh
<1>4. CASE Disconnect
  BY <1>4, BreakKeeps DEF Disconnect
<1>5. CASE RestartServer
  BY <1>5, BreakKeeps DEF RestartServer
<1>6. CASE Ping
  BY <1>1, <1>6 DEF Ping, QueueTreeSend, clientVars, treeVars, Fresh, LinkInv
<1>7. CASE ChangeTree \/ TakeRoute
  <2>1. /\ UNCHANGED <<inbox, valid, ctree, last, connected, pinging>>
    BY <1>7 DEF ChangeTree, TakeRoute, clientVars, treeVars, linkVars
  <2>2. Afterwards \in Successors(Now) /\ run' = run
    BY <1>7, TreeStep DEF ChangeTree, Proceeds
  <2>3. (treeDirty => treeDirty') /\ (treeDirty' \/ Structure(tree') = Structure(tree))
    BY <2>2 DEF Successors, Follows, Afterwards, Now
  <2> QED
    BY <1>1, <2>1, <2>2, <2>3 DEF Fresh, LinkInv
<1>8. CASE SendTree
  BY <1>8, SendTreeKeeps
<1>9. CASE Receive
  BY <1>9, ReceiveKeeps
<1>10. CASE UpdateStep \/ Application
  <2>1. UNCHANGED <<valid, ctree, last, serverVars, linkVars>>
    BY <1>10 DEF UpdateStep, UpdateHandlers, BeginHandler, EndHandler, EndUpdate, Application,
                 StartupTimeout, GetInterface, ReleaseInterface, treeVars
  <2> QED
    BY <1>1, <2>1 DEF serverVars, linkVars, Fresh, LinkInv
<1>11. CASE \E r \in Routes : SendRoute(r)
  BY <1>1, <1>11 DEF SendRoute, serverVars, clientVars, treeVars, Fresh, LinkInv
<1>12. CASE Ended
  BY <1>2, <1>12 DEF Ended
<1> QED
  BY <1>2, <1>3, <1>4, <1>5, <1>6, <1>7, <1>8, <1>9, <1>10, <1>11, <1>12 DEF Next

\* The link's invariant always holds.
THEOREM LinkInvariant == Spec => []LinkInv
BY TreeInvariant, LinkInvInitially, LinkInvStep, PTL DEF Spec
-----------------------------------------------------------------------------
\* Resolution. What resolveTreeNodeImpl does at a node: it recurs at an alias, to its source.
Aliased(t, q) == q \in DOMAIN t /\ t[q].kind = "alias"
Target(t, q)  == Tail(t[q].source.leaf)

\* The paths that n steps of its recursion, from p on, come past.
Walks(t, p, n) ==
    {w \in [0..n -> Path] : /\ w[0] = p
                            /\ \A i \in 0..n-1 : /\ Aliased(t, w[i])
                                                  /\ w[i + 1] = Target(t, w[i])}

\* The same, with steps that stay where there is no alias: what Followed computes.
Paces(t, p, n) ==
    {w \in [0..n -> Path] :
        /\ w[0] = p
        /\ \A i \in 0..n-1 :
              w[i + 1] = IF Aliased(t, w[i]) THEN Target(t, w[i]) ELSE w[i]}

\* The source of an alias is absolute.
LEMMA TargetTyped ==
    ASSUME NEW t \in Trees, NEW q, Aliased(t, q)
    PROVE  Target(t, q) \in Path
<1>1. t[q] \in Elements
  BY TreesAre DEF Aliased
<1>2. t[q].source.leaf \in Absolutes
  BY <1>1 DEF Elements, Interface, Aliased
<1> QED
  BY <1>2 DEF Absolutes, IsAbsolute, Target, Path

\* Any number of steps may be made.
LEMMA PacesExist ==
    ASSUME NEW t \in Trees, NEW p \in Path, NEW n \in Nat
    PROVE  \E w : w \in Paces(t, p, n)
<1> DEFINE S == {m \in Nat : \E w : w \in Paces(t, p, m)}
<1>1. 0 \in S
  <2>1. [i \in 0..0 |-> p] \in Paces(t, p, 0)
    BY DEF Paces
  <2> QED
    BY <2>1
<1>2. ASSUME NEW m \in Nat, m \in S PROVE m + 1 \in S
  <2>1. PICK w : w \in Paces(t, p, m)
    BY <1>2
  <2> DEFINE q == IF Aliased(t, w[m]) THEN Target(t, w[m]) ELSE w[m]
             v == [i \in 0..(m + 1) |-> IF i = m + 1 THEN q ELSE w[i]]
  <2>2. w \in [0..m -> Path] /\ w[0] = p /\ w[m] \in Path
    BY <2>1 DEF Paces
  <2>3. q \in Path
    BY <2>2, TargetTyped
  <2> HIDE DEF q
  <2>4. v \in [0..(m + 1) -> Path] /\ v[0] = p
    BY <2>2, <2>3
  <2>5. \A i \in 0..m : v[i] = w[i]
    OBVIOUS
  <2>6. v[m + 1] = q
    OBVIOUS
  <2>7. ASSUME NEW i \in 0..m
        PROVE  v[i + 1] = IF Aliased(t, v[i]) THEN Target(t, v[i]) ELSE v[i]
    <3>1. CASE i = m
      BY <2>5, <2>6, <3>1 DEF q
    <3>2. CASE i # m
      <4>1. i \in 0..m-1 /\ i + 1 \in 0..m
        BY <3>2
      <4>2. w[i + 1] = IF Aliased(t, w[i]) THEN Target(t, w[i]) ELSE w[i]
        BY <2>1, <4>1 DEF Paces
      <4>3. v[i + 1] = w[i + 1] /\ v[i] = w[i]
        BY <2>5, <4>1
      <4> HIDE DEF v
      <4> QED
        BY <4>2, <4>3
    <3> QED
      BY <3>1, <3>2
  <2> HIDE DEF v
  <2>8. 0..(m + 1) - 1 = 0..m
    OBVIOUS
  <2>9. v \in Paces(t, p, m + 1)
    BY <2>4, <2>7, <2>8 DEF Paces
  <2> QED
    BY <2>9
<1> HIDE DEF S
<1>3. n \in S
  BY <1>1, <1>2, StepInduction
<1> QED
  BY <1>3 DEF S

\* Followed makes as many steps as there are aliases.
LEMMA FollowedIsPace ==
    ASSUME NEW t \in Trees, NEW p \in Path
    PROVE  \E N \in Nat : /\ N = Cardinality({q \in DOMAIN t : t[q].kind = "alias"})
                          /\ IsFiniteSet({q \in DOMAIN t : t[q].kind = "alias"})
                          /\ \E w \in Paces(t, p, N) : Followed(t, p) = w[N]
<1> DEFINE aliases == {q \in DOMAIN t : t[q].kind = "alias"}
           N == Cardinality(aliases)
           Step(A) == {IF q \in aliases THEN Tail(t[q].source.leaf) ELSE q : q \in A}
           IsAfter(f) == f = [n \in 0..N |-> IF n = 0 THEN {p} ELSE Step(f[n - 1])]
           it == CHOOSE f : IsAfter(f)
<1>1. Followed(t, p) = CHOOSE q \in it[N] : TRUE
  BY DEF Followed
<1>2. IsFiniteSet(aliases) /\ N \in Nat
  BY TreesAre, FS_Subset, FS_CardinalityType
<1>3. \A q : q \in aliases <=> Aliased(t, q)
  BY DEF Aliased
<1>4. \A q : Step({q}) = {IF Aliased(t, q) THEN Target(t, q) ELSE q}
  BY <1>3 DEF Target
<1> HIDE DEF N, Step
<1>5. PICK w : w \in Paces(t, p, N)
  BY <1>2, PacesExist
<1>6. w \in [0..N -> Path] /\ w[0] = p
  BY <1>5 DEF Paces
<1>7. \A n \in 0..N : n # 0 => n - 1 \in 0..N-1 /\ n - 1 \in 0..N /\ n - 1 + 1 = n
  BY <1>2
<1>8. \A n \in 0..N : n # 0 => Step({w[n - 1]}) = {w[n]}
  <2> SUFFICES ASSUME NEW n \in 0..N, n # 0 PROVE Step({w[n - 1]}) = {w[n]}
    OBVIOUS
  <2>1. PICK k \in 0..N-1 : k = n - 1 /\ k + 1 = n
    BY <1>7
  <2>2. w[k + 1] = IF Aliased(t, w[k]) THEN Target(t, w[k]) ELSE w[k]
    BY <1>5 DEF Paces
  <2> QED
    BY <1>4, <2>1, <2>2
<1>9. IsAfter([n \in 0..N |-> {w[n]}])
  <2> DEFINE g == [n \in 0..N |-> {w[n]}]
  <2>1. \A n \in 0..N : g[n] = IF n = 0 THEN {p} ELSE Step(g[n - 1])
    BY <1>6, <1>7, <1>8
  <2>2. g = [n \in 0..N |-> g[n]]
    OBVIOUS
  <2> HIDE DEF g
  <2>3. IsAfter(g)
    BY <2>1, <2>2
  <2> QED
    BY <2>3 DEF g
<1>10. IsAfter(it)
  BY <1>9
<1> HIDE DEF it
<1>16. \A n \in 0..N : it[n] = IF n = 0 THEN {p} ELSE Step(it[n - 1])
  BY <1>10
<1> DEFINE S == {n \in Nat : n \in 0..N => it[n] = {w[n]}}
<1>11. 0 \in S
  <2>1. 0 \in 0..N
    BY <1>2
  <2> QED
    BY <1>6, <1>10, <2>1
<1>12. ASSUME NEW n \in Nat, n \in S PROVE n + 1 \in S
  <2> SUFFICES ASSUME n + 1 \in 0..N PROVE it[n + 1] = {w[n + 1]}
    OBVIOUS
  <2>1. n \in 0..N /\ n + 1 - 1 = n /\ n + 1 # 0
    BY <1>2
  <2>2. it[n + 1] = Step(it[n])
    <3>1. PICK m \in 0..N : m = n + 1 /\ m # 0 /\ m - 1 = n
      BY <2>1
    <3> QED
      BY <1>16, <3>1
  <2> QED
    BY <1>8, <1>12, <2>1, <2>2
<1> HIDE DEF S
<1>13. N \in S
  BY <1>2, <1>11, <1>12, StepInduction
<1>14. it[N] = {w[N]}
  BY <1>2, <1>13 DEF S
<1>15. Followed(t, p) = w[N]
  BY <1>1, <1>14
<1> QED
  BY <1>2, <1>5, <1>15 DEF N

\* As long as only aliases are come past, the two are the same.
LEMMA WalksArePaces ==
    ASSUME NEW t \in Trees, NEW p \in Path, NEW n \in Nat, NEW u \in Walks(t, p, n),
           NEW N \in Nat, NEW w \in Paces(t, p, N)
    PROVE  \A k \in Nat : k <= n /\ k <= N => w[k] = u[k]
<1> DEFINE S == {k \in Nat : k <= n /\ k <= N => w[k] = u[k]}
<1>1. 0 \in S
  BY DEF Walks, Paces
<1>2. ASSUME NEW k \in Nat, k \in S PROVE k + 1 \in S
  <2> SUFFICES ASSUME k + 1 <= n, k + 1 <= N PROVE w[k + 1] = u[k + 1]
    OBVIOUS
  <2>1. k \in 0..n-1 /\ k \in 0..N-1 /\ w[k] = u[k]
    BY <1>2
  <2>2. Aliased(t, u[k]) /\ u[k + 1] = Target(t, u[k])
    BY <2>1 DEF Walks
  <2>3. w[k + 1] = IF Aliased(t, w[k]) THEN Target(t, w[k]) ELSE w[k]
    BY <2>1 DEF Paces
  <2> QED
    BY <2>1, <2>2, <2>3
<1> HIDE DEF S
<1>3. \A k \in Nat : k \in S
  BY <1>1, <1>2, StepInduction
<1> QED
  BY <1>3 DEF S

\* Where there is no alias, all further steps stay.
LEMMA PacesStay ==
    ASSUME NEW t, NEW p, NEW N \in Nat, NEW w \in Paces(t, p, N),
           NEW n \in 0..N, ~Aliased(t, w[n])
    PROVE  w[N] = w[n]
<1> DEFINE S == {k \in Nat : n + k <= N => w[n + k] = w[n]}
<1>1. 0 \in S
  OBVIOUS
<1>2. ASSUME NEW k \in Nat, k \in S PROVE k + 1 \in S
  <2> SUFFICES ASSUME n + k + 1 <= N PROVE w[n + (k + 1)] = w[n]
    OBVIOUS
  <2>1. PICK m \in 0..N-1 : m = n + k /\ m + 1 = n + (k + 1)
    OBVIOUS
  <2>2. w[m] = w[n]
    BY <1>2, <2>1
  <2>3. w[m + 1] = IF Aliased(t, w[m]) THEN Target(t, w[m]) ELSE w[m]
    BY DEF Paces
  <2> QED
    BY <2>1, <2>2, <2>3
<1> HIDE DEF S
<1>3. N - n \in S
  BY <1>1, <1>2, StepInduction
<1> QED
  BY <1>3 DEF S

\* Steps that stay are no steps of the recursion.
LEMMA PacesAreWalks ==
    ASSUME NEW t \in Trees, NEW p \in Path, NEW N \in Nat, NEW w \in Paces(t, p, N)
    PROVE  \E n \in 0..N : \E u \in Walks(t, p, n) : u[n] = w[N]
<1> DEFINE Part(n) == [i \in 0..n |-> w[i]]
<1>1. ASSUME NEW n \in 0..N, \A i \in 0..n-1 : Aliased(t, w[i])
      PROVE  Part(n) \in Walks(t, p, n) /\ Part(n)[n] = w[n]
  <2>1. Part(n) \in [0..n -> Path] /\ Part(n)[0] = p /\ \A i \in 0..n : Part(n)[i] = w[i]
    BY DEF Paces
  <2>2. ASSUME NEW i \in 0..n-1
        PROVE  Aliased(t, Part(n)[i]) /\ Part(n)[i + 1] = Target(t, Part(n)[i])
    <3>1. i \in 0..N-1 /\ i \in 0..n /\ i + 1 \in 0..n
      OBVIOUS
    <3>2. w[i + 1] = Target(t, w[i])
      BY <1>1, <3>1 DEF Paces
    <3> HIDE DEF Part
    <3> QED
      BY <1>1, <2>1, <3>1, <3>2
  <2>3. n \in 0..n
    OBVIOUS
  <2> HIDE DEF Part
  <2> QED
    BY <2>1, <2>2, <2>3 DEF Walks
<1> DEFINE S == {m \in Nat : m <= N => \/ \A i \in 0..m-1 : Aliased(t, w[i])
                                       \/ \E n \in 0..m-1 : /\ ~Aliased(t, w[n])
                                                            /\ \A i \in 0..n-1 : Aliased(t, w[i])}
<1>2. 0 \in S
  OBVIOUS
<1>3. ASSUME NEW m \in Nat, m \in S PROVE m + 1 \in S
  <2> SUFFICES ASSUME m + 1 <= N
               PROVE  \/ \A i \in 0..m : Aliased(t, w[i])
                      \/ \E n \in 0..m : /\ ~Aliased(t, w[n])
                                         /\ \A i \in 0..n-1 : Aliased(t, w[i])
    OBVIOUS
  <2>1. CASE \A i \in 0..m-1 : Aliased(t, w[i])
    <3>1. CASE Aliased(t, w[m])
      <4>1. \A i \in 0..m : i \in 0..m-1 \/ i = m
        OBVIOUS
      <4> QED
        BY <2>1, <3>1, <4>1
    <3>2. CASE ~Aliased(t, w[m])
      <4>1. m \in 0..m
        OBVIOUS
      <4> QED
        BY <2>1, <3>2, <4>1
    <3> QED
      BY <3>1, <3>2
  <2>2. CASE \E n \in 0..m-1 : ~Aliased(t, w[n]) /\ \A i \in 0..n-1 : Aliased(t, w[i])
    <3>1. 0..m-1 \subseteq 0..m
      OBVIOUS
    <3> QED
      BY <2>2, <3>1
  <2>3. m <= N
    OBVIOUS
  <2> QED
    BY <1>3, <2>1, <2>2, <2>3
<1> HIDE DEF S
<1>4. N \in S
  BY <1>2, <1>3, StepInduction
<1> HIDE DEF Part
<1>5. CASE \A i \in 0..N-1 : Aliased(t, w[i])
  <2>1. N \in 0..N
    OBVIOUS
  <2> QED
    BY <1>1, <1>5, <2>1
<1>6. CASE \E n \in 0..N-1 : ~Aliased(t, w[n]) /\ \A i \in 0..n-1 : Aliased(t, w[i])
  <2>1. PICK n \in 0..N-1 : ~Aliased(t, w[n]) /\ \A i \in 0..n-1 : Aliased(t, w[i])
    BY <1>6
  <2>2. n \in 0..N
    OBVIOUS
  <2>3. w[N] = w[n]
    BY <2>1, <2>2, PacesStay
  <2> QED
    BY <1>1, <2>1, <2>2, <2>3
<1> QED
  BY <1>4, <1>5, <1>6 DEF S

\* A walk that ends is not longer than there are aliases: one that passes the same alias
\* twice does so for ever.
LEMMA EndingWalksAreShort ==
    ASSUME NEW t \in Trees, NEW p \in Path, NEW n \in Nat, NEW u \in Walks(t, p, n),
           ~Aliased(t, u[n])
    PROVE  n <= Cardinality({q \in DOMAIN t : t[q].kind = "alias"})
<1> DEFINE aliases == {q \in DOMAIN t : t[q].kind = "alias"}
           N == Cardinality(aliases)
<1>1. IsFiniteSet(aliases) /\ N \in Nat
  BY TreesAre, FS_Subset, FS_CardinalityType
<1>2. \A i \in 0..n-1 : u[i] \in aliases /\ u[i + 1] = Target(t, u[i]) /\ Aliased(t, u[i])
  BY DEF Walks, Aliased
<1>3. ASSUME NEW i \in 0..n-1, NEW j \in 0..n-1, i < j, u[i] = u[j] PROVE FALSE
  <2> DEFINE S == {k \in Nat : j + k <= n => u[i + k] = u[j + k]}
  <2>1. 0 \in S
    BY <1>3
  <2>2. ASSUME NEW k \in Nat, k \in S PROVE k + 1 \in S
    <3> SUFFICES ASSUME j + k + 1 <= n PROVE u[i + (k + 1)] = u[j + (k + 1)]
      OBVIOUS
    <3>1. PICK a \in 0..n-1 : a = i + k /\ a + 1 = i + (k + 1)
      BY <1>3
    <3>2. PICK b \in 0..n-1 : b = j + k /\ b + 1 = j + (k + 1)
      OBVIOUS
    <3>3. u[a] = u[b]
      BY <2>2, <3>1, <3>2
    <3> QED
      BY <1>2, <3>1, <3>2, <3>3
  <2> HIDE DEF S
  <2>3. n - j \in S
    BY <2>1, <2>2, StepInduction
  <2>4. PICK m \in 0..n-1 : m = i + (n - j)
    BY <1>3
  <2>5. u[m] = u[n]
    BY <2>3, <2>4 DEF S
  <2> QED
    BY <1>2, <2>5
<1> SUFFICES ASSUME n > N PROVE FALSE
  BY <1>1
<1>4. IsFiniteSet(0..n-1) /\ Cardinality(0..n-1) = n
  <2>1. IsFiniteSet(0..n-1) /\ Cardinality(0..n-1) = (IF 0 > n - 1 THEN 0 ELSE (n - 1) - 0 + 1)
    BY FS_Interval
  <2> QED
    BY <2>1
<1> DEFINE f == [i \in 0..n-1 |-> u[i]]
<1>5. f \in [0..n-1 -> aliases]
  BY <1>2
<1> HIDE DEF f, aliases
<1>6. \E i, j \in 0..n-1 : i # j /\ f[i] = f[j]
  BY <1>1, <1>4, <1>5, FS_PigeonHole
<1>7. PICK i \in 0..n-1, j \in 0..n-1 : i # j /\ u[i] = u[j]
  BY <1>6 DEF f
<1>8. i < j \/ j < i
  BY <1>7
<1> QED
  BY <1>3, <1>7, <1>8

\* No node is taken for an alias, or an alias for another node, by the inference of sensors.
LEMMA KindOfAlias ==
    ASSUME NEW t \in Trees, NEW q
    PROVE  KindAt(t, q) = "alias" <=> Aliased(t, q)
<1>1. CASE q \in DOMAIN t
  <2>1. t[q] \in Elements
    BY <1>1, TreesAre
  <2>2. t[q].kind \in {"interface", "string", "device", "alias"}
    BY <2>1 DEF Elements, Interface
  <2>3. At(t, q) # Null /\ At(t, q) = t[q]
    BY <1>1, <2>2 DEF At, Null
  <2> QED
    BY <1>1, <2>3 DEF KindAt, Aliased
<1>2. CASE q \notin DOMAIN t
  <2>1. At(t, q) = Null /\ Null.kind # "alias"
    BY <1>2 DEF At, Null
  <2> QED
    BY <1>2, <2>1 DEF KindAt, Aliased
<1> QED
  BY <1>1, <1>2

\* Outcome takes a resolution for endless when it is still at an alias.
LEMMA DivergesAtAlias ==
    ASSUME NEW t \in Trees, NEW p
    PROVE  Outcome(t, p) = "diverges" <=> Aliased(t, Followed(t, p))
<1>1. PICK q : q = Followed(t, p)
  OBVIOUS
<1>2. CASE Aliased(t, q)
  <2>1. KindAt(t, q) = "alias"
    BY <1>2, KindOfAlias
  <2> QED
    BY <1>1, <1>2, <2>1 DEF Outcome
<1>3. CASE ~Aliased(t, q)
  <2>1. KindAt(t, q) # "alias"
    BY <1>3, KindOfAlias
  <2>2. Outcome(t, p) \in {"unresolved", "resolved", "throws"}
    BY <1>1, <2>1 DEF Outcome
  <2> QED
    BY <1>1, <1>3, <2>2
<1> QED
  BY <1>2, <1>3

\* Where the recursion of resolveTreeNodeImpl, which the code does not bound, comes to an end,
\* Followed is that end; and it is taken for endless exactly if it can make any number of
\* steps.
THEOREM ResolutionFollowsAliases ==
    ASSUME NEW t \in Trees, NEW p \in Path
    PROVE  /\ \A n \in Nat : \A u \in Walks(t, p, n) :
                 ~Aliased(t, u[n]) => Followed(t, p) = u[n]
           /\ \E n \in Nat : \E u \in Walks(t, p, n) : u[n] = Followed(t, p)
           /\ Outcome(t, p) = "diverges" <=> \A n \in Nat : Walks(t, p, n) # {}
<1> DEFINE aliases == {q \in DOMAIN t : t[q].kind = "alias"}
<1>1. PICK N \in Nat : /\ N = Cardinality(aliases)
                       /\ \E w \in Paces(t, p, N) : Followed(t, p) = w[N]
  BY FollowedIsPace
<1>2. PICK w \in Paces(t, p, N) : Followed(t, p) = w[N]
  BY <1>1
<1>3. ASSUME NEW n \in Nat, NEW u \in Walks(t, p, n), ~Aliased(t, u[n])
      PROVE  Followed(t, p) = u[n]
  <2>1. n <= N
    BY <1>1, <1>3, EndingWalksAreShort
  <2>2. w[n] = u[n]
    BY <2>1, WalksArePaces
  <2>3. n \in 0..N /\ ~Aliased(t, w[n])
    BY <1>3, <2>1, <2>2
  <2> QED
    BY <1>2, <2>2, <2>3, PacesStay
<1>4. \E m \in Nat : \E v \in Walks(t, p, m) : v[m] = w[N]
  <2>1. \E m \in 0..N : \E v \in Walks(t, p, m) : v[m] = w[N]
    BY PacesAreWalks
  <2> QED
    BY <2>1
<1>5. ASSUME Aliased(t, Followed(t, p)), NEW n \in Nat PROVE Walks(t, p, n) # {}
  <2> DEFINE S == {k \in Nat : Walks(t, p, k) # {}}
  <2>1. 0 \in S
    <3>1. [i \in 0..0 |-> p] \in Walks(t, p, 0)
      BY DEF Walks
    <3> QED
      BY <3>1
  <2>2. ASSUME NEW k \in Nat, k \in S PROVE k + 1 \in S
    <3>1. PICK u : u \in Walks(t, p, k)
      BY <2>2
    <3>2. Aliased(t, u[k])
      BY <1>3, <1>5, <3>1
    <3> DEFINE q == Target(t, u[k])
               x == [i \in 0..(k + 1) |-> IF i = k + 1 THEN q ELSE u[i]]
    <3>3. q \in Path
      BY <3>2, TargetTyped
    <3> HIDE DEF q
    <3>4. x \in [0..(k + 1) -> Path] /\ x[0] = p
      BY <3>1, <3>3 DEF Walks
    <3>5. x[k + 1] = q /\ \A i \in 0..k : x[i] = u[i]
      OBVIOUS
    <3> HIDE DEF x
    <3>6. ASSUME NEW i \in 0..k PROVE Aliased(t, x[i]) /\ x[i + 1] = Target(t, x[i])
      <4>1. CASE i = k
        BY <3>2, <3>5, <4>1 DEF q
      <4>2. CASE i # k
        <5>1. i \in 0..k-1 /\ i + 1 \in 0..k
          BY <4>2
        <5> QED
          BY <3>1, <3>5, <5>1 DEF Walks
      <4> QED
        BY <4>1, <4>2
    <3>7. (k + 1) - 1 = k
      OBVIOUS
    <3>8. x \in Walks(t, p, k + 1)
      BY <3>4, <3>6, <3>7 DEF Walks
    <3> QED
      BY <3>8
  <2> HIDE DEF S
  <2>3. n \in S
    BY <2>1, <2>2, StepInduction
  <2> QED
    BY <2>3 DEF S
<1>6. ASSUME Walks(t, p, N + 1) # {} PROVE Aliased(t, Followed(t, p))
  <2>1. PICK u : u \in Walks(t, p, N + 1)
    BY <1>6
  <2>2. w[N] = u[N]
    BY <2>1, WalksArePaces
  <2>3. N \in 0..(N + 1) - 1
    OBVIOUS
  <2>4. Aliased(t, u[N])
    BY <2>1, <2>3 DEF Walks
  <2> QED
    BY <1>2, <2>2, <2>4
<1>7. Outcome(t, p) = "diverges" <=> \A n \in Nat : Walks(t, p, n) # {}
  BY <1>5, <1>6, DivergesAtAlias
<1> QED
  BY <1>2, <1>3, <1>4, <1>7

-----------------------------------------------------------------------------
\* TypeOK puts together what the two sides and the link keep.
THEOREM TypeCorrect == Spec => []TypeOK
<1>1. TreeInv /\ LinkInv /\ ClientTypeOK => TypeOK
  <2> SUFFICES ASSUME TreeInv, LinkInv, ClientTypeOK PROVE TypeOK
    OBVIOUS
  <2>1. tree \in [DOMAIN tree -> Elements] /\ DOMAIN tree \subseteq NodePaths
    BY TreesAre DEF TreeInv, Now, Results
  <2>2. ASSUME NEW p \in DOMAIN tree
        PROVE  /\ p # <<>> /\ tree[p].kind \in {"interface", "string", "device", "alias"}
               /\ tree[p].kind = "alias" =>
                     IsAbsolute(tree[p].source.leaf) /\ tree[p].priority \in 0..255
    <3>1. p # <<>> /\ tree[p] \in Elements
      BY <2>1 DEF NodePaths
    <3> QED
      BY <3>1 DEF Elements, Interface, Absolutes
  <2>3. TreeTypeOK
    BY <2>2 DEF TreeTypeOK, TreeInv, Descriptions, Now, Results
  <2>4. Len(inbox) <= MaxInbox /\ \A m \in ToSet(inbox) : m.run \in 0..run
    <3>1. inbox \in Seq([run : Nat, tree : Trees])
      BY DEF LinkInv
    <3>2. \A m \in ToSet(inbox) : \E i \in 1..Len(inbox) : m = inbox[i]
      BY <3>1 DEF ToSet
    <3> QED
      BY <3>2 DEF LinkInv
  <2> QED
    BY <2>3, <2>4 DEF TypeOK, TreeInv, LinkInv
<1> QED
  BY <1>1, TreeInvariant, LinkInvariant, Handlers, PTL

\* Whenever a connection is quiet, the client has the structure of the server's tree and the
\* handlers that follow from it: no change is lost between the flag, the queue and the
\* duplicates that are dropped, by lost connections or by restarts.
THEOREM QuietClientsHaveCaughtUp == Spec => []CaughtUpWhenQuiet
<1>1. TreeInv /\ LinkInv /\ HandlersMatchTree => CaughtUpWhenQuiet
  <2> SUFFICES ASSUME TreeInv, LinkInv, HandlersMatchTree, Quiet PROVE CaughtUp
    BY DEF CaughtUpWhenQuiet
  <2>1. Fresh /\ inbox = <<>>
    BY DEF Quiet, Fresh
  <2>2. valid /\ Structure(last.tree) = Structure(tree)
    BY <2>1 DEF LinkInv
  <2>3. last.tree \in Trees /\ ctree = Localized(last.tree)
    BY <2>2 DEF LinkInv
  <2>4. tree \in Trees
    BY DEF TreeInv, Now, Results
  <2>5. Structure(ctree) = Structure(Localized(tree))
    BY <2>2, <2>3, <2>4, LocalizedKeeps
  <2> QED
    BY <2>5 DEF CaughtUp
<1> QED
  BY <1>1, TreeInvariant, LinkInvariant, Handlers, PTL

\* Every handler is on a path to which the client's application is led by aliases of the
\* client's present tree, and which is not an alias itself.
LedByAliases ==
    \A p \in Paths : handler[p] # None =>
        \E n \in Nat : \E u \in Walks(ctree, p, n) :
            handler[p].source = u[n] /\ ~Aliased(ctree, u[n])

\* Putting the host in place of "localhost" keeps a tree a tree.
LEMMA LocalizedTyped == ASSUME NEW t \in Trees PROVE Localized(t) \in Trees
<1>1. /\ DOMAIN t \subseteq NodePaths /\ IsFiniteSet(DOMAIN t) /\ t \in [DOMAIN t -> Elements]
      /\ Host \in Text
  BY TreesAre, LinkAssumption
<1>2. DOMAIN Localized(t) = DOMAIN t
  BY DEF Localized
<1>3. ASSUME NEW p \in DOMAIN t PROVE Localized(t)[p] \in Elements
  <2>1. t[p] \in Elements
    BY <1>1
  <2>2. CASE t[p].kind = "device" /\ t[p].server = "localhost"
    <3>1. t[p] \in [kind : {"device"}, server : Text, descriptor : Described]
      BY <2>1, <2>2 DEF Elements, Interface
    <3>2. [t[p] EXCEPT !.server = Host] \in Elements
      BY <1>1, <3>1 DEF Elements
    <3> QED
      BY <2>2, <3>2 DEF Localized
  <2>3. CASE ~(t[p].kind = "device" /\ t[p].server = "localhost")
    BY <2>1, <2>3 DEF Localized
  <2> QED
    BY <2>2, <2>3
<1>4. Localized(t) \in [DOMAIN t -> Elements]
  BY <1>3 DEF Localized
<1> QED
  BY <1>1, <1>2, <1>4, TreesAre

\* A handler is for the place its interface's aliases lead to, by a walk of finitely many
\* steps through the client's tree that ends where there is no alias: what the bounded
\* recursion of the model computes is what resolveTreeNode's unbounded one does.
THEOREM HandlersAreLedTo == Spec => []LedByAliases
<1>1. LinkInv /\ HandlersMatchTree => LedByAliases
  <2> SUFFICES ASSUME LinkInv, HandlersMatchTree, NEW p \in Paths, handler[p] # None
               PROVE  \E n \in Nat : \E u \in Walks(ctree, p, n) :
                          handler[p].source = u[n] /\ ~Aliased(ctree, u[n])
    BY DEF LedByAliases
  <2>1. ctree \in Trees
    <3>1. <<>> \in Trees
      <4>1. DOMAIN <<>> = {} /\ IsFiniteSet({}) /\ <<>> \in [{} -> Elements]
        BY FS_EmptySet
      <4> QED
        BY <4>1, TreesAre
    <3> QED
      BY <3>1, LocalizedTyped DEF LinkInv
  <2>2. p \in Path
    BY ClientAssumption DEF Paths
  <2>3. handler[p] = HandlerFor(ctree, p) /\ Outcome(ctree, p) = "resolved"
    BY DEF HandlersMatchTree, HandlerOf, Connects
  <2>4. handler[p].source = Followed(ctree, p)
    BY <2>3 DEF HandlerFor
  <2>5. ~Aliased(ctree, Followed(ctree, p))
    BY <2>1, <2>3, DivergesAtAlias
  <2> QED
    BY <2>1, <2>2, <2>4, <2>5, ResolutionFollowsAliases
<1> QED
  BY <1>1, LinkInvariant, Handlers, PTL

-----------------------------------------------------------------------------
\* TreeCopy. What is under way, as TreeCopy sees it: sending, losing and taking a tree are
\* the same to the messages and to what they show.
LEMMA ViewsAre ==
    ASSUME NEW S, NEW s \in Seq(S)
    PROVE  /\ Views(s) \in Seq({View(m.tree) : m \in S}) /\ Len(Views(s)) = Len(s)
           /\ \A i \in 1..Len(s) : Views(s)[i] = View(s[i].tree)
<1>1. DOMAIN s = 1..Len(s) /\ Len(s) \in Nat /\ \A i \in 1..Len(s) : s[i] \in S
  BY ElementOfSeq
<1>2. DOMAIN Views(s) = 1..Len(s) /\ \A i \in 1..Len(s) : Views(s)[i] = View(s[i].tree)
  BY <1>1 DEF Views
<1>3. Views(s) \in [1..Len(s) -> {View(m.tree) : m \in S}]
  BY <1>1 DEF Views
<1>4. Views(s) \in Seq({View(m.tree) : m \in S})
  BY <1>1, <1>3
<1> QED
  BY <1>1, <1>2, <1>4

LEMMA ViewsOfPrefix ==
    ASSUME NEW S, NEW s \in Seq(S), NEW n \in 0..Len(s)
    PROVE  Views(SubSeq(s, 1, n)) = SubSeq(Views(s), 1, n)
<1> DEFINE R == {View(m.tree) : m \in S}
           u == SubSeq(s, 1, n)
<1>1. \A T : \A t \in Seq(T) : \A m \in 0..Len(t) :
         /\ SubSeq(t, 1, m) \in Seq(T) /\ Len(SubSeq(t, 1, m)) = m
         /\ \A i \in 1..m : SubSeq(t, 1, m)[i] = t[i]
  OBVIOUS
<1>2. u \in Seq(S) /\ Len(u) = n /\ \A i \in 1..n : u[i] = s[i]
  BY <1>1
<1>3. /\ Views(u) \in Seq(R) /\ Len(Views(u)) = n
      /\ \A i \in 1..n : Views(u)[i] = View(u[i].tree)
  BY <1>2, ViewsAre
<1>4. /\ Views(s) \in Seq(R) /\ Len(Views(s)) = Len(s)
      /\ \A i \in 1..Len(s) : Views(s)[i] = View(s[i].tree)
  BY ViewsAre
<1> HIDE DEF R, u
<1>5. /\ SubSeq(Views(s), 1, n) \in Seq(R) /\ Len(SubSeq(Views(s), 1, n)) = n
      /\ \A i \in 1..n : SubSeq(Views(s), 1, n)[i] = Views(s)[i]
  BY <1>1, <1>4
<1>6. Len(s) \in Nat /\ 1..n \subseteq 1..Len(s)
  BY LenProperties
<1>7. \A i \in 1..n : Views(u)[i] = SubSeq(Views(s), 1, n)[i]
  BY <1>2, <1>3, <1>4, <1>5, <1>6
<1>8. Views(u) = SubSeq(Views(s), 1, n)
  BY <1>3, <1>5, <1>7, SeqEqual
<1> QED
  BY <1>8 DEF u

LEMMA ViewsOfMore ==
    ASSUME NEW S, NEW s \in Seq(S), NEW m \in S
    PROVE  Views(Append(s, m)) = Append(Views(s), View(m.tree))
<1> DEFINE R == {View(x.tree) : x \in S}
           u == Append(s, m)
<1>1. /\ u \in Seq(S) /\ Len(u) = Len(s) + 1 /\ Len(s) \in Nat
      /\ u[Len(s) + 1] = m /\ \A i \in 1..Len(s) : u[i] = s[i]
  BY AppendProperties, LenProperties
<1>2. /\ Views(u) \in Seq(R) /\ Len(Views(u)) = Len(s) + 1
      /\ \A i \in 1..Len(s) + 1 : Views(u)[i] = View(u[i].tree)
  BY <1>1, ViewsAre
<1>3. /\ Views(s) \in Seq(R) /\ Len(Views(s)) = Len(s)
      /\ \A i \in 1..Len(s) : Views(s)[i] = View(s[i].tree)
  BY ViewsAre
<1>4. View(m.tree) \in R
  OBVIOUS
<1> HIDE DEF R, u
<1>5. PICK w : w = Append(Views(s), View(m.tree))
  OBVIOUS
<1>6. /\ w \in Seq(R) /\ Len(w) = Len(s) + 1
      /\ w[Len(s) + 1] = View(m.tree) /\ \A i \in 1..Len(s) : w[i] = Views(s)[i]
  BY <1>3, <1>4, <1>5, AppendProperties
<1>7. ASSUME NEW i \in 1..Len(s) + 1 PROVE Views(u)[i] = w[i]
  <2>1. i \in 1..Len(s) \/ i = Len(s) + 1
    BY <1>1
  <2> QED
    BY <1>1, <1>2, <1>3, <1>6, <2>1
<1>8. Views(u) = w
  BY <1>2, <1>6, <1>7, SeqEqual
<1> QED
  BY <1>5, <1>8 DEF u

LEMMA ViewsOfRest ==
    ASSUME NEW S, NEW s \in Seq(S), s # <<>>
    PROVE  /\ Views(s) # <<>> /\ Head(Views(s)) = View(s[1].tree)
           /\ Views(Tail(s)) = Tail(Views(s))
<1> DEFINE R == {View(x.tree) : x \in S}
           u == Tail(s)
<1>1. /\ u \in Seq(S) /\ Len(u) = Len(s) - 1 /\ Len(s) \in Nat /\ Len(s) > 0
      /\ \A i \in 1..Len(u) : u[i] = s[i + 1]
  OBVIOUS
<1>2. /\ Views(u) \in Seq(R) /\ Len(Views(u)) = Len(s) - 1
      /\ \A i \in 1..Len(s) - 1 : Views(u)[i] = View(u[i].tree)
  BY <1>1, ViewsAre
<1>3. /\ Views(s) \in Seq(R) /\ Len(Views(s)) = Len(s)
      /\ \A i \in 1..Len(s) : Views(s)[i] = View(s[i].tree)
  BY ViewsAre
<1> HIDE DEF R, u
<1>4. PICK v : v = Views(s)
  OBVIOUS
<1>5. v \in Seq(R) /\ Len(v) = Len(s) /\ v # <<>> /\ Head(v) = v[1]
  BY <1>1, <1>3, <1>4
<1>6. PICK w : w = Tail(v)
  OBVIOUS
<1>7. w \in Seq(R) /\ Len(w) = Len(s) - 1 /\ \A i \in 1..Len(w) : w[i] = v[i + 1]
  BY <1>1, <1>5, <1>6
<1>8. ASSUME NEW i \in 1..Len(s) - 1 PROVE Views(u)[i] = w[i]
  <2>1. i + 1 \in 1..Len(s)
    BY <1>1
  <2> QED
    BY <1>1, <1>2, <1>3, <1>4, <1>7, <2>1
<1>9. Views(u) = w
  BY <1>2, <1>7, <1>8, SeqEqual
<1>10. 1 \in 1..Len(s)
  BY <1>1
<1> QED
  BY <1>3, <1>4, <1>5, <1>6, <1>9, <1>10 DEF u

\* A connection that breaks loses what was sent last.
LEMMA BreakParts ==
    ASSUME LinkInv, Break
    PROVE  Copy!Part
<1>1. PICK n \in 0..Len(inbox) : inbox' = SubSeq(inbox, 1, n)
  BY DEF Break
<1>2. connected' = FALSE /\ ctree' = ctree
  BY DEF Break, clientVars, treeVars
<1>3. inbox \in Seq([run : Nat, tree : Trees])
  BY DEF LinkInv
<1>4. Views(inbox') = SubSeq(Views(inbox), 1, n) /\ Len(Views(inbox)) = Len(inbox)
  BY <1>1, <1>3, ViewsOfPrefix, ViewsAre
<1>5. \E k \in 0..Len(Views(inbox)) : Views(inbox') = SubSeq(Views(inbox), 1, k)
  BY <1>4
<1> QED
  BY <1>2, <1>5 DEF Copy!Part

\* What a step of the server's loop sends is its tree as it is now.
LEMMA SendTreeSends ==
    ASSUME TreeInv, LinkInv, SendTree
    PROVE  Copy!Send
<1>1. /\ treeDirty /\ treeDirty' = FALSE
      /\ UNCHANGED <<tree, connected, pinging, ctree>>
  BY DEF SendTree, clientVars, treeVars
<1>2. CASE ~connected
  BY <1>1, <1>2 DEF SendTree, Copy!Send
<1>3. CASE connected
  <2> DEFINE T == [run : Nat, tree : Trees]
  <2>1. inbox \in Seq(T) /\ Message \in T /\ Message.tree = tree
    BY ServerTreeAssumption DEF LinkInv, TreeInv, Now, Results, Message
  <2>2. inbox' = Append(inbox, Message)
    BY <1>3 DEF SendTree
  <2> HIDE DEF T
  <2>3. Views(inbox') = Append(Views(inbox), View(tree))
    BY <2>1, <2>2, ViewsOfMore
  <2> QED
    BY <1>1, <1>3, <2>3 DEF Copy!Send
<1> QED
  BY <1>2, <1>3

\* A tree that arrives is the client's from then on, whether it is taken or is the one that
\* was taken last.
LEMMA ReceiveTakes ==
    ASSUME LinkInv, Receive
    PROVE  Copy!Take
<1> DEFINE T == [run : Nat, tree : Trees]
<1>1. /\ inbox \in Seq(T) /\ inbox # <<>> /\ inbox' = Tail(inbox)
      /\ UNCHANGED <<tree, treeDirty, connected, pinging>>
  BY DEF LinkInv, Receive, serverVars
<1>2. ctree' = Localized(inbox[1].tree)
  <2>1. CASE TakeTree(inbox[1])
    BY <2>1 DEF TakeTree, ReplaceTree
  <2>2. CASE SkipTree(inbox[1])
    BY <2>2 DEF SkipTree, clientVars, treeVars, LinkInv
  <2> QED
    BY <2>1, <2>2 DEF Receive
<1> HIDE DEF T
<1>3. /\ Views(inbox) # <<>> /\ Head(Views(inbox)) = View(inbox[1].tree)
      /\ Views(inbox') = Tail(Views(inbox))
  BY <1>1, ViewsOfRest
<1>4. Structure(ctree') = Head(Views(inbox))
  BY <1>2, <1>3 DEF View
<1> QED
  BY <1>1, <1>3, <1>4 DEF Copy!Take

\* A change of the tree is one that will be sent, or one that nobody can see.
LEMMA ChangeIsDue ==
    ASSUME TreeInv, TreeInv', ChangeTree \/ TakeRoute
    PROVE  Copy!Change \/ UNCHANGED Copy!copyVars
<1>1. UNCHANGED <<inbox, ctree, connected, pinging>>
  BY DEF ChangeTree, TakeRoute, clientVars, treeVars, linkVars
<1>2. Afterwards \in Successors(Now)
  BY TreeStep DEF ChangeTree, Proceeds
<1>3. /\ treeDirty => treeDirty'
      /\ treeDirty' \/ Structure(tree') = Structure(tree)
      /\ {treeDirty, treeDirty'} \subseteq BOOLEAN
  BY <1>2 DEF Successors, Follows, Afterwards, Now, TreeInv, Results
<1>4. CASE treeDirty'
  BY <1>1, <1>3, <1>4 DEF Copy!Change
<1>5. CASE ~treeDirty'
  <2>1. tree \in Trees /\ tree' \in Trees
    BY DEF TreeInv, Now, Results
  <2>2. View(tree') = View(tree)
    BY <1>3, <1>5, <2>1, LocalizedKeeps DEF View
  <2>3. treeDirty' = treeDirty
    BY <1>3, <1>5
  <2> QED
    BY <1>1, <2>2, <2>3 DEF Copy!copyVars
<1> QED
  BY <1>4, <1>5

\* Every step is one of TreeCopy's, or leaves what it sees alone.
LEMMA StepIsCopied ==
    ASSUME TreeInv, TreeInv', LinkInv, [Next]_vars
    PROVE  [Copy!Next]_(Copy!copyVars)
<1>1. ASSUME UNCHANGED <<tree, treeDirty, inbox, ctree, connected, pinging>>
      PROVE  UNCHANGED Copy!copyVars
  BY <1>1 DEF Copy!copyVars
<1>2. CASE UNCHANGED vars
  BY <1>1, <1>2 DEF vars, serverVars, clientVars, treeVars, linkVars
<1>3. CASE Connect
  <2>1. /\ ~connected /\ connected' /\ pinging'
        /\ UNCHANGED <<tree, treeDirty, inbox, ctree>>
    BY <1>3 DEF Connect, serverVars, clientVars, treeVars
  <2>2. Copy!Meet
    BY <2>1 DEF Copy!Meet
  <2> QED
    BY <2>2 DEF Copy!Next
<1>4. CASE Disconnect
  <2>1. Copy!Lose
    BY <1>4, BreakParts DEF Disconnect, Copy!Lose
  <2> QED
    BY <2>1 DEF Copy!Next
<1>5. CASE RestartServer
  <2>1. Copy!Restart
    BY <1>5, BreakParts DEF RestartServer, Restart, Copy!Restart
  <2> QED
    BY <2>1 DEF Copy!Next
<1>6. CASE Ping
  <2>1. /\ connected /\ pinging /\ ~pinging' /\ treeDirty' = TRUE
        /\ UNCHANGED <<tree, inbox, ctree, connected>>
    BY <1>6 DEF Ping, QueueTreeSend, clientVars, treeVars, LinkInv
  <2>2. Copy!Greet
    BY <2>1 DEF Copy!Greet
  <2> QED
    BY <2>2 DEF Copy!Next
<1>7. CASE ChangeTree \/ TakeRoute
  BY <1>7, ChangeIsDue DEF Copy!Next
<1>8. CASE SendTree
  BY <1>8, SendTreeSends DEF Copy!Next
<1>9. CASE Receive
  BY <1>9, ReceiveTakes DEF Copy!Next
<1>10. CASE UpdateStep \/ Application
  <2>1. UNCHANGED <<ctree, serverVars, linkVars>>
    BY <1>10 DEF UpdateStep, UpdateHandlers, BeginHandler, EndHandler, EndUpdate, Application,
                 StartupTimeout, GetInterface, ReleaseInterface, treeVars
  <2> QED
    BY <1>1, <2>1 DEF serverVars, linkVars
<1>11. CASE (\E r \in Routes : SendRoute(r)) \/ Ended
  <2>1. UNCHANGED <<tree, treeDirty, inbox, ctree, connected, pinging>>
    BY <1>11 DEF SendRoute, Ended, vars, serverVars, clientVars, treeVars, linkVars
  <2> QED
    BY <1>1, <2>1
<1> QED
  BY <1>2, <1>3, <1>4, <1>5, <1>6, <1>7, <1>8, <1>9, <1>10, <1>11 DEF Next

\* Server, link and client implement TreeCopy: through lost connections, restarts, dropped
\* duplicates and interrupted updates, the client has once was the server's tree, in the
\* order in which it was sent, and a tree that is not under way is either had or due.
THEOREM TreeIsCopied == Spec => ImplementsTreeCopy
<1>1. Init => Copy!Init
  <2> SUFFICES ASSUME Init PROVE Copy!Init
    OBVIOUS
  <2>1. /\ tree = FirstTree /\ treeDirty = FALSE /\ inbox = <<>> /\ ctree = <<>>
        /\ connected = FALSE
    BY DEF Init, ServerInit, ClientInit
  <2>2. Views(<<>>) = <<>> /\ Structure(<<>>) = <<>>
    BY DEF Views, Structure
  <2> QED
    BY <2>1, <2>2 DEF Copy!Init
<1>2. TreeInv /\ TreeInv' /\ LinkInv /\ [Next]_vars => [Copy!Next]_(Copy!copyVars)
  BY StepIsCopied
<1> QED
  BY <1>1, <1>2, TreeInvariant, LinkInvariant, PTL DEF Spec, ImplementsTreeCopy, Copy!Spec
=============================================================================
