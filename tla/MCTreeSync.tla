------------------------------ MODULE MCTreeSync ------------------------------
(***************************************************************************)
(* Two devices that both claim /me/hand, an external one, a configuration  *)
(* file and an application's routes, for TLC.                              *)
(***************************************************************************)
EXTENDS TreeSync

CONSTANTS i1, i2, i3

A == <<"p", "a">>
B == <<"p", "b">>

Hand == <<"me", "hand">>
Left == <<"me", "left">>

From(leaf)          == [leaf |-> leaf, transform |-> "none"]
Entry(dest, src, p) == [dest |-> dest, source |-> src, priority |-> p]

\* What a device says of itself: a hand, and that all it means belongs to /me.
Describing(interfaces, sensor, data) ==
    [interfaces |-> interfaces,
     semantic   |-> {[dest |-> <<"hand">>, source |-> From(<<"tracker", sensor>>)]},
     automatic  |-> <<Entry(<<"/", "me">>, From(<<"semantic", "*">>), Unset)>>,
     data       |-> data]

MCDevices == <<A, B>>

\* A's descriptors differ in nothing that becomes an element.
MCDescriptors ==
    [dev \in {A, B} |->
        IF dev = A
        THEN {Describing({"tracker"}, "0", 1), Describing({"tracker"}, "0", 2)}
        ELSE {Describing({"tracker", "other"}, "1", 1)}]

\* The configuration: a priority of more than eight bits, and a relative source,
\* which is not for a configuration.
MCAliases ==
    {[entries  |-> <<Entry(Left, From(<<"/", "me", "hand">>), Unset),
                     Entry(<<"/", "me", "left">>, From(<<"/", "me", "hand">>), Unset),
                     Entry(<<"/", "you">>, From(<<"/", "p", "a", "semantic", "*">>), 300)>>,
      priority |-> MANUAL]}

MCStrings   == {<<<<"display">>, "headset">>}
MCExternals == {<<<<"vrpn">>, Describing({"other"}, "0", 1)>>}

\* One that devices must not displace, one that is a cycle, and one that hides a
\* device.
MCRoutes == {Entry(<<"/", "me", "hand">>, From(<<"/", "p", "b", "tracker", "0">>), Unset),
             Entry(<<"/", "me", "hand">>, From(<<"/", "me", "hand">>), Unset),
             Entry(<<"/", "p", "a">>, From(<<"/", "p", "b">>), Unset)}

MCPathOf == i1 :> Hand @@ i2 :> Hand @@ i3 :> A \o <<"tracker", "0">>

MCFactories == {"tracker"}
MCText      == STRING
=============================================================================
