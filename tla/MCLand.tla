------------------------------- MODULE MCLand -------------------------------
(***************************************************************************)
(* Two landing processes and two packets.                                   *)
(***************************************************************************)
EXTENDS Land

CONSTANTS l1, l2, p1, p2

TwoLanders == {l1, l2}
TwoPackets == {p1, p2}
=============================================================================
