------------------------------ MODULE MCPluginHost ------------------------------
(***************************************************************************)
(* Who makes which devices, for TLC: one plugin makes two, one of them as  *)
(* the example in C does, and another plugin makes none.                   *)
(***************************************************************************)
EXTENDS PluginHost

CONSTANTS p1, d1, d2

MadeByOne == [d \in Devices |-> p1]
FirstOnly == {d1}
=============================================================================
