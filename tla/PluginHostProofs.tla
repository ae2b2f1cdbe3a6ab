---------------------------- MODULE PluginHostProofs ----------------------------
(***************************************************************************)
(* Theorems about PluginHost, for every set of plugins and devices. The    *)
(* theorems of AsyncDeviceProofs carry over, since the host only takes     *)
(* steps of AsyncDevice, in an order of its own.                           *)
(***************************************************************************)
EXTENDS PluginHost, AsyncDeviceProofs, SequenceTheorems

-----------------------------------------------------------------------------
\* Every order in which the host makes and deletes tokens is one that AsyncDevice allows.
THEOREM HostDrivesDevices == HostSafe => DeviceSafe
<1>1. HostInit => DeviceInit
  BY DEF HostInit
<1>2. [HostNext]_systemVars => [DeviceNext]_allVars
  BY DEF HostNext, HostStep, systemVars, Load, MakeDevice, Unload, DeleteData, DeleteToken,
         TokenDeleted, Unloaded, DeviceNext, ProgStep
<1>3. QED
  BY <1>1, <1>2, PTL DEF HostSafe, DeviceSafe

-----------------------------------------------------------------------------
\* The inductive invariant of the lists.

Items == ({"type"} \X Plugins) \cup ({"token", "own"} \X Devices)

Lists == dataList \in [Plugins -> Seq(Items)]

\* A plugin has a list as long as it has a context, with its message type first.
Contexts == prog \in Passing => \A p \in Plugins :
    IF p \in regMap THEN dataList[p] # <<>> /\ dataList[p][1] = Type(p) ELSE dataList[p] = <<>>

\* A token is in its plugin's list, behind what the plugin registered before it.
InPlace(d, i) == LET list == dataList[MadeBy[d]] IN
    /\ i \in 2..Len(list)
    /\ list[i] = Token(d)
    /\ list[1] = Type(MadeBy[d])
    /\ d \in OwnFirst => list[i - 1] = Own(d)

TokensListed == \A d \in alive : \E i \in Nat : InPlace(d, i)

\* The token whose destructor runs is the last of its list.
AtHand == prog \in {"deny", "inDeny", "awaitStop", "join"} =>
    LET list == dataList[MadeBy[cur]] IN list # <<>> /\ list[Len(list)] = Token(cur)

\* What is registered is registered by a plugin whose library is open.
OpenLibraries == \A p \in Plugins : dataList[p] # <<>> => Loaded(p)

HInv == Lists /\ Contexts /\ TokensListed /\ AtHand /\ OpenLibraries

\* What deletion does to a list.
LEMMA DeletionShortens ==
    ASSUME NEW list \in Seq(Items), list # <<>>
    PROVE  /\ Deletion(list).item = list[Len(list)]
           /\ Deletion(list).rest \in Seq(Items)
           /\ Len(Deletion(list).rest) = Len(list) - 1
           /\ \A i \in 1..(Len(list) - 1) : Deletion(list).rest[i] = list[i]
<1>1. Len(list) \in Nat \ {0}
  BY EmptySeq
<1>2. \A i \in 1..(Len(list) - 1) : list[i] \in Items
  BY <1>1, ElementOfSeq
<1> DEFINE n == Len(list) - 1
<1>3. n \in Nat /\ \A i \in 1..n : list[i] \in Items
  BY <1>1, <1>2
<1> HIDE DEF n
<1>4. /\ SubSeq(list, 1, n) \in Seq(Items)
      /\ Len(SubSeq(list, 1, n)) = IF 1 <= n THEN n - 1 + 1 ELSE 0
      /\ \A i \in 1..(n - 1 + 1) : SubSeq(list, 1, n)[i] = list[1 + i - 1]
  BY <1>3, SubSeqProperties
<1>5. /\ Len(SubSeq(list, 1, n)) = n
      /\ \A i \in 1..n : SubSeq(list, 1, n)[i] = list[i]
  BY <1>3, <1>4
<1>6. QED
  BY <1>4, <1>5 DEF Deletion, n

\* A longer list keeps what a shorter one has.
LEMMA AppendKeeps ==
    ASSUME Lists, NEW p \in Plugins, NEW list \in Seq(Items),
           dataList' = [dataList EXCEPT ![p] = list],
           Len(dataList[p]) <= Len(list),
           \A i \in 1..Len(dataList[p]) : list[i] = dataList[p][i],
           NEW d \in Devices, NEW i \in Nat, InPlace(d, i)
    PROVE  InPlace(d, i)'
<1>1. dataList[p] \in Seq(Items) /\ MadeBy[d] \in Plugins
  BY HostAssumption DEF Lists
<1>2. CASE MadeBy[d] # p
  BY <1>1, <1>2 DEF InPlace, Lists
<1>3. CASE MadeBy[d] = p
  <2>1. dataList'[p] = list /\ Len(list) \in Nat /\ Len(dataList[p]) \in Nat
    BY <1>1, LenProperties DEF Lists
  <2>2. i \in 2..Len(list) /\ {1, i - 1, i} \subseteq 1..Len(dataList[p])
    BY <1>3, <2>1 DEF InPlace
  <2>3. QED
    BY <1>3, <2>1, <2>2 DEF InPlace
<1>4. QED
  BY <1>2, <1>3

\* The data of the devices that remain stay where they are.
LEMMA DeletionKeeps ==
    ASSUME Lists, NEW p \in Plugins, dataList[p] # <<>>,
           dataList' = [dataList EXCEPT ![p] = Deletion(dataList[p]).rest],
           NEW d \in Devices, NEW i \in Nat, InPlace(d, i),
           MadeBy[d] = p => Deletion(dataList[p]).item # Token(d)
    PROVE  InPlace(d, i)'
<1>1. dataList[p] \in Seq(Items) /\ MadeBy[d] \in Plugins
  BY HostAssumption DEF Lists
<1>2. CASE MadeBy[d] # p
  BY <1>1, <1>2 DEF InPlace, Lists
<1>3. CASE MadeBy[d] = p
  <2>1. i # Len(dataList[p])
    BY <1>1, <1>3, DeletionShortens DEF InPlace
  <2>2. dataList'[p] = Deletion(dataList[p]).rest
    BY DEF Lists
  <2>3. i \in 2..(Len(dataList[p]) - 1)
    BY <1>1, <1>3, <2>1, LenProperties DEF InPlace
  <2>4. QED
    BY <1>1, <1>3, <2>2, <2>3, DeletionShortens, LenProperties DEF InPlace
<1>4. QED
  BY <1>2, <1>3

\* A device is made by a plugin that has a context, and so a list with its type in it.
LEMMA MakingInPlace ==
    ASSUME DInv, HInv, NEW d \in Devices, MakeDevice(d)
    PROVE  HInv'
<1> DEFINE p == MadeBy[d]
           new == IF d \in OwnFirst THEN <<Own(d), Token(d)>> ELSE <<Token(d), Own(d)>>
<1>1. /\ p \in Plugins /\ dataList[p] \in Seq(Items)
      /\ dataList[p] # <<>> /\ dataList[p][1] = Type(p)
  BY HostAssumption DEF MakeDevice, Create, HInv, Lists, Contexts, Passing
<1>2. new \in Seq(Items) /\ Len(new) = 2
  <2>1. Own(d) \in Items /\ Token(d) \in Items
    BY DEF Items, Own, Token
  <2>2. /\ <<Own(d), Token(d)>> \in Seq(Items) /\ Len(<<Own(d), Token(d)>>) = 2
        /\ <<Token(d), Own(d)>> \in Seq(Items) /\ Len(<<Token(d), Own(d)>>) = 2
    BY <2>1
  <2>3. QED
    BY <2>2
<1>3. Len(dataList[p]) \in Nat \ {0}
  BY <1>1, EmptySeq
<1>4. /\ dataList[p] \o new \in Seq(Items)
      /\ Len(dataList[p] \o new) = Len(dataList[p]) + 2
      /\ \A i \in 1..Len(dataList[p]) : (dataList[p] \o new)[i] = dataList[p][i]
      /\ (dataList[p] \o new)[Len(dataList[p]) + 1] = new[1]
      /\ (dataList[p] \o new)[Len(dataList[p]) + 2] = new[2]
  <2> DEFINE old == dataList[p]
             k == Len(old)
  <2>1. old \in Seq(Items) /\ new \in Seq(Items) /\ Len(new) = 2 /\ k \in Nat
    BY <1>1, <1>2, <1>3
  <2> HIDE DEF new, old
  <2>2. /\ old \o new \in Seq(Items)
        /\ Len(old \o new) = Len(old) + Len(new)
        /\ \A i \in 1..Len(old) + Len(new) :
               (old \o new)[i] = IF i <= Len(old) THEN old[i] ELSE new[i - Len(old)]
    BY <2>1, ConcatProperties
  <2>3. k + 1 \in 1..k + 2 /\ k + 2 \in 1..k + 2 /\ 1..k \subseteq 1..k + 2
    BY <2>1
  <2>4. /\ (old \o new)[k + 1] = new[1] /\ (old \o new)[k + 2] = new[2]
        /\ \A i \in 1..k : (old \o new)[i] = old[i]
    BY <2>1, <2>2, <2>3
  <2>5. QED
    BY <2>1, <2>2, <2>4 DEF old
<1>5. /\ dataList' = [dataList EXCEPT ![p] = dataList[p] \o new]
      /\ regMap' = regMap /\ prog' = prog /\ prog = "pass" /\ alive' = alive \cup {d}
  BY DEF MakeDevice, Create
<1> HIDE DEF new
<1>6. Lists'
  BY <1>1, <1>4, <1>5 DEF HInv, Lists
<1>7. Contexts'
  <2> SUFFICES ASSUME NEW q \in Plugins
               PROVE  IF q \in regMap THEN dataList'[q] # <<>> /\ dataList'[q][1] = Type(q)
                                      ELSE dataList'[q] = <<>>
    BY <1>5 DEF Contexts
  <2>1. CASE q # p
    BY <1>5, <2>1 DEF HInv, Lists, Contexts, Passing
  <2>2. CASE q = p
    BY <1>1, <1>3, <1>4, <1>5, <2>2, EmptySeq DEF HInv, Lists, MakeDevice
  <2>3. QED
    BY <2>1, <2>2
<1>8. ASSUME NEW e \in alive, NEW i \in Nat, InPlace(e, i) PROVE InPlace(e, i)'
  <2>1. Len(dataList[p]) <= Len(dataList[p] \o new)
    BY <1>3, <1>4
  <2>2. QED
    BY <1>1, <1>4, <1>5, <1>8, <2>1, AppendKeeps DEF DInv, Population, HInv
<1>9. \E i \in Nat : InPlace(d, i)'
  <2> DEFINE k == Len(dataList[p])
  <2>1. /\ dataList'[p] = dataList[p] \o new /\ k \in Nat \ {0}
        /\ Len(dataList'[p]) = k + 2 /\ dataList'[p][1] = Type(p)
        /\ dataList'[p][k + 1] = new[1] /\ dataList'[p][k + 2] = new[2]
    BY <1>1, <1>3, <1>4, <1>5 DEF HInv, Lists
  <2> HIDE DEF k
  <2>2. /\ k + 1 \in 2..(k + 2) /\ k + 2 \in 2..(k + 2) /\ k + 2 - 1 = k + 1
    BY <2>1
  <2>3. CASE d \in OwnFirst
    <3>1. new[1] = Own(d) /\ new[2] = Token(d)
      BY <2>3 DEF new
    <3>2. ASSUME NEW i \in Nat, i = k + 2 PROVE InPlace(d, i)'
      <4>1. i \in 2..(k + 2) /\ i - 1 = k + 1
        BY <2>1, <2>2, <3>2
      <4>2. dataList'[p][i] = Token(d) /\ dataList'[p][i - 1] = Own(d)
        BY <2>1, <3>1, <3>2, <4>1
      <4>3. QED
        BY <2>1, <4>1, <4>2 DEF InPlace
    <3>3. QED
      BY <2>1, <3>2
  <2>4. CASE d \notin OwnFirst
    <3>1. new[1] = Token(d)
      BY <2>4 DEF new
    <3>2. ASSUME NEW i \in Nat, i = k + 1 PROVE InPlace(d, i)'
      BY <2>1, <2>2, <2>4, <3>1, <3>2 DEF InPlace
    <3>3. QED
      BY <2>1, <3>2
  <2>5. QED
    BY <2>3, <2>4
<1>10. TokensListed'
  BY <1>3, <1>5, <1>8, <1>9 DEF HInv, TokensListed
<1>11. AtHand'
  BY <1>5 DEF AtHand
<1>12. OpenLibraries'
  <2>1. p \in regMap /\ unloading' = unloading
    BY DEF MakeDevice
  <2>2. QED
    BY <1>5, <2>1 DEF HInv, OpenLibraries, Loaded, Lists
<1>13. QED
  BY <1>6, <1>7, <1>10, <1>11, <1>12 DEF HInv

LEMMA LoadingInPlace ==
    ASSUME DInv, HInv, NEW p \in Plugins, Load(p)
    PROVE  HInv'
<1>1. /\ prog = "pass" /\ prog' = prog /\ alive' = alive /\ p \notin regMap
      /\ regMap' = regMap \cup {p}
      /\ dataList' = [dataList EXCEPT ![p] = <<Type(p)>>]
  BY DEF Load, allVars, deviceVars
<1>2. dataList[p] = <<>>
  BY <1>1 DEF HInv, Contexts, Passing
<1>3. Lists'
  <2>1. <<Type(p)>> \in Seq(Items)
    BY DEF Items, Type
  <2>2. QED
    BY <1>1, <2>1 DEF HInv, Lists
<1>4. Contexts'
  BY <1>1 DEF HInv, Contexts, Passing, Lists
<1>5. ASSUME NEW e \in alive, NEW i \in Nat, InPlace(e, i) PROVE InPlace(e, i)'
  <2>1. MadeBy[e] \in Plugins
    BY HostAssumption DEF DInv, Population
  <2>2. MadeBy[e] # p
    BY <1>2, <1>5 DEF InPlace
  <2>3. QED
    BY <1>1, <1>5, <2>1, <2>2 DEF InPlace, HInv, Lists
<1>6. TokensListed' /\ AtHand'
  BY <1>1, <1>5 DEF HInv, TokensListed, AtHand
<1>7. OpenLibraries'
  BY <1>1 DEF HInv, OpenLibraries, Loaded, Lists, Load
<1>8. QED
  BY <1>3, <1>4, <1>6, <1>7 DEF HInv

\* After the last pass the lists shrink from their end, each token with its device.
LEMMA ShrinkingInPlace ==
    ASSUME DInv, HInv, NEW p \in Plugins, dataList[p] # <<>>,
           dataList' = [dataList EXCEPT ![p] = Deletion(dataList[p]).rest],
           prog' = "shutdown", alive' \subseteq alive, UNCHANGED <<regMap, unloading>>,
           \A e \in alive' : MadeBy[e] = p => Deletion(dataList[p]).item # Token(e)
    PROVE  HInv'
<1>1. Lists'
  <2>1. Deletion(dataList[p]).rest \in Seq(Items)
    BY DeletionShortens DEF HInv, Lists
  <2>2. QED
    BY <2>1 DEF HInv, Lists
<1>2. Contexts' /\ AtHand'
  BY DEF Contexts, AtHand, Passing
<1>3. TokensListed'
  <2> SUFFICES ASSUME NEW e \in alive' PROVE \E i \in Nat : InPlace(e, i)'
    BY DEF TokensListed
  <2>1. PICK i \in Nat : InPlace(e, i)
    BY DEF HInv, TokensListed
  <2>2. InPlace(e, i)'
    BY <2>1, DeletionKeeps DEF DInv, Population, HInv
  <2>3. QED
    BY <2>2
<1>4. OpenLibraries'
  BY DEF HInv, OpenLibraries, Loaded, Lists
<1>5. QED
  BY <1>1, <1>2, <1>3, <1>4 DEF HInv

LEMMA DeletingInPlace ==
    ASSUME DInv, HInv,
           \/ \E p \in Plugins : DeleteData(p)
           \/ \E d \in Devices : TokenDeleted(d)
    PROVE  HInv'
<1>1. ASSUME NEW p \in Plugins, DeleteData(p) PROVE HInv'
  BY <1>1, ShrinkingInPlace DEF DeleteData, allVars, deviceVars, DInv, Population
<1>2. ASSUME NEW d \in Devices, TokenDeleted(d) PROVE HInv'
  <2>1. /\ cur = d /\ prog = "join" /\ prog' = "shutdown" /\ alive' = alive \ {d}
        /\ dataList' = [dataList EXCEPT ![MadeBy[d]] = Deletion(dataList[MadeBy[d]]).rest]
    BY <1>2 DEF TokenDeleted, Destroy, GoProg
  <2> UNCHANGED <<regMap, unloading>>
    BY <1>2 DEF TokenDeleted
  <2>2. /\ MadeBy[d] \in Plugins /\ dataList[MadeBy[d]] \in Seq(Items)
        /\ dataList[MadeBy[d]] # <<>>
        /\ dataList[MadeBy[d]][Len(dataList[MadeBy[d]])] = Token(d)
    BY <2>1, HostAssumption DEF HInv, AtHand, Lists
  <2>3. \A e \in alive' : Deletion(dataList[MadeBy[d]]).item # Token(e)
    BY <2>1, <2>2, DeletionShortens DEF Token
  <2>4. QED
    BY <2>1, <2>2, <2>3, ShrinkingInPlace
<1>3. QED
  BY <1>1, <1>2

\* Every other step leaves the lists alone.
LEMMA ResidingInPlace ==
    ASSUME DInv, HInv, UNCHANGED <<hostVars, alive>>,
           prog' \in Passing => prog \in Passing,
           prog' \in {"deny", "inDeny", "awaitStop", "join"} =>
               prog \in {"deny", "inDeny", "awaitStop", "join"} /\ cur' = cur
    PROVE  HInv'
BY DEF HInv, Lists, Contexts, TokensListed, InPlace, AtHand, OpenLibraries, Loaded, hostVars

LEMMA HostInductive == DInv /\ HInv /\ [HostNext]_systemVars => HInv'
<1> SUFFICES ASSUME DInv, HInv, [HostNext]_systemVars PROVE HInv'
  OBVIOUS
<1>1. CASE \E p \in Plugins : Load(p)
  BY <1>1, LoadingInPlace
<1>2. CASE \E d \in Devices : MakeDevice(d)
  BY <1>2, MakingInPlace
<1>3. CASE \/ \E p \in Plugins : DeleteData(p)
           \/ \E d \in Devices : TokenDeleted(d)
  BY <1>3, DeletingInPlace
<1>4. CASE UNCHANGED systemVars
  BY <1>4, ResidingInPlace DEF systemVars, allVars, deviceVars, hostVars
<1>5. ASSUME NEW p \in Plugins, Unload(p) \/ Unloaded(p) PROVE HInv'
  <2>1. UNCHANGED <<dataList, alive, prog, cur>> /\ prog = "shutdown"
    BY <1>5 DEF Unload, Unloaded, allVars, deviceVars
  <2>2. OpenLibraries'
    BY <1>5, HostAssumption DEF Unload, Unloaded, HInv, OpenLibraries, Loaded
  <2>3. QED
    BY <2>1, <2>2 DEF HInv, Lists, Contexts, TokensListed, InPlace, AtHand, Passing
<1>6. ASSUME NEW d \in Devices, DeleteToken(d) PROVE HInv'
  <2>1. /\ UNCHANGED <<hostVars, alive>> /\ prog' = "deny" /\ cur' = d
        /\ dataList[MadeBy[d]] # <<>> /\ Deletion(dataList[MadeBy[d]]).item = Token(d)
    BY <1>6 DEF DeleteToken, SignalShutdown, GoProg, hostVars
  <2>2. AtHand'
    BY <2>1 DEF AtHand, Deletion, hostVars
  <2>3. QED
    BY <2>1, <2>2
    DEF HInv, Lists, Contexts, TokensListed, InPlace, Passing, OpenLibraries, Loaded, hostVars
<1>7. ASSUME NEW d \in Devices, prog \notin {"shutdown", "join"}, ProgStep(d), UNCHANGED hostVars
      PROVE  HInv'
  BY <1>7, ResidingInPlace
  DEF ProgStep, Process, EnsureThreadStarted, SignalStart, Started, CallCTS, CTSReturns, Mainloop,
      SignalShutdown, CallDeny, DenyReturns, Stopped, Destroy, GoProg, hostVars, Passing
<1>8. ASSUME NEW d \in Devices, ThreadStep(d) \/ CallbackSends(d) \/ InsideCall(d),
             UNCHANGED hostVars
      PROVE  HInv'
  BY <1>8, ResidingInPlace
  DEF ThreadStep, ReportStarting, ReportRunning, LoopTest, CallbackSendStep, CallbackReturns,
      ReportStopped, CallbackSends, InsideCall, deviceVars, hostVars
<1>9. CASE (NextPass \/ Finish \/ Ended) /\ UNCHANGED hostVars
  BY <1>9, ResidingInPlace
  DEF NextPass, Finish, Ended, GoProg, allVars, deviceVars, hostVars, Passing
<1>10. QED
  BY <1>1, <1>2, <1>3, <1>4, <1>5, <1>6, <1>7, <1>8, <1>9 DEF HostNext, HostStep

LEMMA HostInvariance == HostSafe => [](DInv /\ HInv)
<1>1. HostInit => HInv
  BY HostAssumption
  DEF HostInit, DeviceInit, HInv, Lists, Contexts, TokensListed, AtHand, Items, OpenLibraries
<1>2. HostSafe => [](IInv /\ DInv)
  BY HostDrivesDevices, DeviceInvariance, PTL
<1>3. QED
  BY <1>1, <1>2, HostInductive, PTL DEF HostSafe

\* Whatever the plugins, however their devices are made between the passes, and however
\* far each thread is when the server stops: the reverse order of m_dataList keeps what
\* a plugin registered before a token until the token's destructor has joined its thread.
THEOREM DataOutlive == HostSafe => []DataOutliveCallbacks
<1>1. DInv /\ HInv => DataOutliveCallbacks
  <2> SUFFICES ASSUME DInv, HInv, NEW d \in Devices, thread[d] = "callback"
               PROVE  /\ Listed(MadeBy[d], Type(MadeBy[d]))
                      /\ d \in OwnFirst => Listed(MadeBy[d], Own(d))
    BY DEF DataOutliveCallbacks
  <2>1. PICK i \in Nat : InPlace(d, i)
    BY DEF DInv, Threads, HInv, TokensListed
  <2>2. dataList[MadeBy[d]] \in Seq(Items)
    BY HostAssumption DEF HInv, Lists
  <2>3. 1 \in DOMAIN dataList[MadeBy[d]] /\ i - 1 \in DOMAIN dataList[MadeBy[d]]
    BY <2>1, <2>2, LenProperties DEF InPlace
  <2>4. QED
    BY <2>1, <2>3 DEF InPlace, Listed
<1>2. QED
  BY <1>1, HostInvariance, PTL

\* A thread that has not ended belongs to a device that is alive; the device's token is
\* then in its plugin's list, and a plugin with a list has its library open. So no thread is
\* ever in code that is gone, however far it is when the plugin is unloaded.
THEOREM CodeStaysOpen == HostSafe => []CodeOutlivesThreads
<1>1. DInv /\ HInv => CodeOutlivesThreads
  <2> SUFFICES ASSUME DInv, HInv, NEW d \in Devices, thread[d] \notin {"none", "over"}
               PROVE  Loaded(MadeBy[d])
    BY DEF CodeOutlivesThreads
  <2>1. PICK i \in Nat : InPlace(d, i)
    BY DEF DInv, Threads, HInv, TokensListed
  <2>2. MadeBy[d] \in Plugins /\ dataList[MadeBy[d]] # <<>>
    BY <2>1, HostAssumption, EmptySeq DEF InPlace
  <2>3. QED
    BY <2>2 DEF HInv, OpenLibraries
<1>2. QED
  BY <1>1, HostInvariance, PTL

\* Plugins and passes included, there is one user of the connection at a time: whatever
\* the host makes, runs and deletes, and in whatever order, the main thread lends the
\* connection as BusGrant says, nobody waits for a waiter or for a thread that has ended,
\* and no thread outlives its token.
THEOREM HostLends ==
    HostSafe => /\ ImplementsBusGrant
                /\ [](ExclusiveUse /\ NobodyIsStuck)
                /\ [](MainOrDevice /\ WaitsAreAnswered /\ NoUseAfterDestroy)
<1>1. HostSafe => DeviceSafe
  BY HostDrivesDevices
<1>2. DeviceSafe => Safe
  BY Projection
<1>3. Safe => ImplementsBusGrant
  BY Refinement
<1>4. Safe => [](ExclusiveUse /\ NobodyIsStuck)
  BY Exclusion, Progress, PTL
<1>5. DeviceSafe => [](MainOrDevice /\ WaitsAreAnswered /\ NoUseAfterDestroy)
  BY Separation, AnsweredWaits, SafeDestruction, PTL
<1>6. QED
  BY <1>1, <1>2, <1>3, <1>4, <1>5
=============================================================================
