------------------------------- MODULE BusGrant -------------------------------
(***************************************************************************)
(* What AsyncAccessControl promises, without its mutexes and condition     *)
(* variables. The connection belongs to the main thread. It may lend it to *)
(* one device, which then uses it any number of times, and takes it back   *)
(* when it is not in use. A device may be closed, once and for all.        *)
(***************************************************************************)

CONSTANTS Devices, NoDev

VARIABLES
    lent,    \* the device the connection is lent to, or NoDev
    using,   \* that device is using it
    open     \* the devices that may still borrow it

busVars == <<lent, using, open>>

Init == lent = NoDev /\ using = FALSE /\ open = Devices

Lend(d)     == lent = NoDev /\ d \in open /\ lent' = d /\ UNCHANGED <<using, open>>
BeginUse(d) == lent = d /\ d \in open /\ ~using /\ using' = TRUE /\ UNCHANGED <<lent, open>>
EndUse(d)   == lent = d /\ using /\ using' = FALSE /\ UNCHANGED <<lent, open>>
TakeBack(d) == lent = d /\ ~using /\ lent' = NoDev /\ UNCHANGED <<using, open>>
Close(d)    == lent = NoDev /\ open' = open \ {d} /\ UNCHANGED <<lent, using>>

Next == \E d \in Devices :
    Lend(d) \/ BeginUse(d) \/ EndUse(d) \/ TakeBack(d) \/ Close(d)

Spec == Init /\ [][Next]_busVars
=============================================================================
