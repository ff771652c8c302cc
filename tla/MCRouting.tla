------------------------------ MODULE MCRouting ------------------------------
(* Two lanes on one account of one slot, a canaried one and a windowed one   *)
(* without its canary, and three tasks for them.                             *)
EXTENDS Routing, TLC

TwoLanes ==
  [l \in Lanes |->
    [family |-> IF l = "l1" THEN "go" ELSE "zai", account |-> "acc", concurrency |-> 1,
     tier |-> "build", categories |-> {"packet", "independent_review"}, firstParty |-> FALSE,
     meets |-> TRUE, cap |-> 2, windowed |-> l = "l2", canaried |-> l = "l1",
     proven |-> {"independent_review"}]]
OneSlot == [a \in {"acc"} |-> 1]
ThreeTasks == <<"t1", "t2", "t3">>
TaskKinds ==
  "t1" :> [category |-> "packet", lanes |-> {"l1", "l2"}, author |-> "none", need |-> 1] @@
  "t2" :> [category |-> "independent_review", lanes |-> {}, author |-> "zai", need |-> 1] @@
  "t3" :> [category |-> "packet", lanes |-> {"l2"}, author |-> "none", need |-> 1]
=============================================================================
