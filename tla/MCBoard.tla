------------------------------- MODULE MCBoard -------------------------------
(***************************************************************************)
(* A board with a work task x and its review rx, a retry ry of that review, *)
(* a packet p and the ids its failover and retries may take.                *)
(***************************************************************************)
EXTENDS Board, TLC

CONSTANTS a1, a2, a3

BoardIds == {"x", "rx", "rx2", "p", "p2"}
PacketIds == {"p", "p2", "p3"}
MCKind == [t \in BoardIds \cup PacketIds |->
             CASE t = "x" -> "work" [] t \in {"rx", "rx2"} -> "review" [] OTHER -> "packet"]
MCOrder == <<"p", "p2", "rx", "rx2", "x">>
PacketRetryIds == [t \in PacketIds |->
                    CASE t = "p" -> <<"p2", "p3">> [] t = "p2" -> <<"p3">> [] OTHER -> <<>>]
BoardRetryIds == [t \in BoardIds |->
                   CASE t = "p" -> <<"p2">> [] t = "rx" -> <<"rx2">> [] OTHER -> <<>>]
MCReviewOf == [t \in {"x"} |-> "rx"]
PacketOrder == <<"p", "p2", "p3">>
NoReviews == <<>>
Attempts2 == {a1, a2}
Attempts3 == {a1, a2, a3}
Symmetry == Permutations(Attempts3)
=============================================================================
