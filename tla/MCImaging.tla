------------------------------- MODULE MCImaging -------------------------------
(***************************************************************************)
(* A camera with two sensors, a client on its host that uses one of them,  *)
(* and one elsewhere that takes whatever there is, for TLC.                *)
(***************************************************************************)
EXTENDS Imaging

CONSTANTS s1, s2, local, remote

MCSensorOf == [h \in Handlers |-> IF h = local THEN s1 ELSE All]

\* Images of one size, which do or do not go through the wire; images of two sizes.
OneSize  == {[bytes |-> 2, depth |-> 1], [bytes |-> 2, depth |-> 2]}
TwoSizes == {[bytes |-> 2, depth |-> 1], [bytes |-> 4, depth |-> 1]}
=============================================================================
