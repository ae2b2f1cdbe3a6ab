------------------------------- MODULE PluginHost -------------------------------
(***************************************************************************)
(* RegistrationContext and the contexts of its plugins: what a plugin      *)
(* registers for deletion while it is loaded and while it makes devices,   *)
(* and the order in which ~RegistrationContext deletes it, the tokens of   *)
(* AsyncDevice among it. All this is done by the main thread, between two  *)
(* passes or after the last, while the threads of devices go on.           *)
(*                                                                         *)
(* Of a plugin's data there are here a message type, as the sends of its   *)
(* devices use it, the tokens, and for each device the object its callback *)
(* is bound to: the plugin registers it before it makes the token, as the  *)
(* example in C does, or after that, as those in C++ do. The order of the  *)
(* plugins' names is any.                                                  *)
(***************************************************************************)
EXTENDS AsyncDevice, Integers, Sequences

CONSTANTS Plugins, NoPlugin,
          MadeBy,    \* the plugin that makes a device
          OwnFirst   \* the devices whose object is registered before their token

ASSUME HostAssumption ==
    /\ NoPlugin \notin Plugins
    /\ MadeBy \in [Devices -> Plugins]
    /\ OwnFirst \subseteq Devices

VARIABLES
    regMap,     \* m_regMap: the plugins with a context
    dataList,   \* m_dataList of each plugin
    unloading   \* the plugin whose context is being destroyed

hostVars == <<regMap, dataList, unloading>>
systemVars == <<allVars, hostVars>>

Type(p)  == <<"type", p>>
Token(d) == <<"token", d>>
Own(d)   == <<"own", d>>

Listed(p, x) == \E i \in DOMAIN dataList[p] : dataList[p][i] = x

\* m_handle: the plugin's library is open until its context's destructor is through.
Loaded(p) == p \in regMap \/ unloading = p

HostInit ==
    /\ DeviceInit
    /\ regMap = {}
    /\ dataList = [p \in Plugins |-> <<>>]
    /\ unloading = NoPlugin

-----------------------------------------------------------------------------
\* loadPlugin: the plugin's entry point registers its message type, and the context is
\* adopted. If it fails, its data go, and nothing has happened.
Load(p) ==
    /\ prog = "pass" /\ todo = {}
    /\ p \notin regMap
    /\ regMap' = regMap \cup {p}
    /\ dataList' = [dataList EXCEPT ![p] = <<Type(p)>>]
    /\ UNCHANGED <<allVars, unloading>>

\* The entry point, a detect callback or a driver of the plugin makes a device:
\* osvrDeviceGenericInit hands the token over, and the plugin its object.
MakeDevice(d) ==
    /\ Create(d)
    /\ MadeBy[d] \in regMap
    /\ dataList' = [dataList EXCEPT ![MadeBy[d]] =
           @ \o IF d \in OwnFirst THEN <<Own(d), Token(d)>> ELSE <<Token(d), Own(d)>>]
    /\ UNCHANGED <<regMap, unloading>>

-----------------------------------------------------------------------------
\* m_ctx.reset(), at the server's end.

\* Slip: the data are deleted in the order of their registration.
DeletionInOrder(list) == [item |-> Head(list), rest |-> Tail(list)]

\* "Delete the data in reverse order."
Deletion(list) == [item |-> list[Len(list)], rest |-> SubSeq(list, 1, Len(list) - 1)]

\* The next plugin; what it has registered is deleted before another one's.
Unload(p) ==
    /\ prog = "shutdown" /\ unloading = NoPlugin
    /\ p \in regMap
    /\ unloading' = p
    /\ regMap' = regMap \ {p}
    /\ UNCHANGED <<allVars, dataList>>

\* A message type or an object of the plugin's own.
DeleteData(p) ==
    /\ prog = "shutdown" /\ unloading = p
    /\ dataList[p] # <<>>
    /\ \A d \in Devices : Deletion(dataList[p]).item # Token(d)
    /\ dataList' = [dataList EXCEPT ![p] = Deletion(dataList[p]).rest]
    /\ UNCHANGED <<allVars, regMap, unloading>>

\* A token: its destructor begins...
DeleteToken(d) ==
    /\ unloading = MadeBy[d]
    /\ dataList[MadeBy[d]] # <<>>
    /\ Deletion(dataList[MadeBy[d]]).item = Token(d)
    /\ SignalShutdown(d)
    /\ UNCHANGED hostVars

\* ...and ends.
TokenDeleted(d) ==
    /\ Destroy(d)
    /\ dataList' = [dataList EXCEPT ![MadeBy[d]] = Deletion(@).rest]
    /\ UNCHANGED <<regMap, unloading>>

\* Slip: the data are left to m_dataList's own destructor, which comes after m_handle's.
UnloadedFirst(p) ==
    /\ prog = "shutdown" /\ unloading = p
    /\ unloading' = NoPlugin
    /\ UNCHANGED <<allVars, regMap, dataList>>

\* The destructor's body is through, and the members go, the library's handle with them.
Unloaded(p) ==
    /\ prog = "shutdown" /\ unloading = p
    /\ dataList[p] = <<>>
    /\ unloading' = NoPlugin
    /\ UNCHANGED <<allVars, regMap, dataList>>

HostStep ==
    \/ \E p \in Plugins : Unload(p) \/ DeleteData(p) \/ Unloaded(p)
    \/ \E d \in Devices :
        \/ DeleteToken(d) \/ TokenDeleted(d)
        \/ prog \notin {"shutdown", "join"} /\ ProgStep(d) /\ UNCHANGED hostVars
    \/ NextPass /\ UNCHANGED hostVars
    \/ regMap = {} /\ unloading = NoPlugin /\ Finish /\ UNCHANGED hostVars

HostNext ==
    \/ HostStep
    \/ \E p \in Plugins : Load(p)
    \/ \E d \in Devices :
        \/ MakeDevice(d)
        \/ (ThreadStep(d) \/ CallbackSends(d) \/ InsideCall(d)) /\ UNCHANGED hostVars
    \/ Ended /\ UNCHANGED hostVars

HostSafe == HostInit /\ [][HostNext]_systemVars

\* As in AsyncDevice. Nothing has to be loaded or made.
HostFairness ==
    /\ Fairness
    /\ WF_systemVars(HostStep)
    /\ \A d \in Devices : WF_allVars(ThreadStep(d)) /\ SF_allVars(CallbackReturns(d))

HostSpec == HostSafe /\ HostFairness

-----------------------------------------------------------------------------
\* What a plugin has registered before it makes a device is there whenever the thread
\* of the device calls back: the message type that its sends name, and the device's
\* object where it was registered first. (An object that is registered after its token
\* is deleted before the token stops the thread.)
DataOutliveCallbacks == \A d \in Devices : thread[d] = "callback" =>
    /\ Listed(MadeBy[d], Type(MadeBy[d]))
    /\ d \in OwnFirst => Listed(MadeBy[d], Own(d))

\* The plugin's code that a thread calls into is there as long as the thread: the
\* library is closed by a member that is destroyed before m_dataList is, so that only the
\* destructor's own loop over m_dataList ends the threads in time.
CodeOutlivesThreads == \A d \in Devices : thread[d] \notin {"none", "over"} => Loaded(MadeBy[d])
=============================================================================
