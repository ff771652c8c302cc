------------------------------ MODULE MCPacket ------------------------------
(***************************************************************************)
(* Two attempts whose clones do not both fit above the floor.              *)
(***************************************************************************)
EXTENDS Packet, TLC

CONSTANTS a1, a2

Both == {a1, a2}
OneAndTwo == (a1 :> 1 @@ a2 :> 2)
=============================================================================
