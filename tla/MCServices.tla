----------------------------- MODULE MCServices -----------------------------
(***************************************************************************)
(* What the operator's services and a board's pass do around attempts:       *)
(* collect and publish quota readings, answer refresh requests, route tasks, *)
(* run lanes, draft packets, plan branch reviews, calibrate.                 *)
(* These specifications share no variable, so a behaviour moves one of them  *)
(* ("part") and leaves the others as they began: the states of the run are   *)
(* the sum of theirs.  What they promise to do in the end is nobody's here:  *)
(* the run asks for no fairness.  (Landings and what runs on a timer do      *)
(* promise: MCLoop.)                                                         *)
(***************************************************************************)
EXTENDS Refresh, Collector, Readings, Calibration, MCReview, MCRouting, MCDrafts, LaneRun

CONSTANTS case1, case2

\* Calibration: the task ids of case2's attempts begin with case1's.
OneShadow == {<<case1, case2>>}

\* Lane runs: every kind with a free task, some with a listed file, and each reason to decline.
LaneOf(kind, listing, names) ==
  [kind |-> kind, matches |-> TRUE, keyed |-> TRUE, denied |-> FALSE, spoken |-> TRUE,
   listing |-> listing, names |-> names]
OneLane == LaneOf("go_http", "none", {})
LaneTasks ==
  {LaneOf(k, "none", {}) : k \in Kinds}
  \cup {LaneOf(k, "names", {"patch"}) : k \in {"go_http", "codex_cli", "opencode_cli"}}
  \cup {LaneOf("go_http", "names", {"reply"}), LaneOf("zcode_cli", "bad", {}),
        [LaneOf("codex_cli", "none", {}) EXCEPT !.matches = FALSE],
        [LaneOf("go_http", "none", {}) EXCEPT !.spoken = FALSE],
        [LaneOf("claude_headless", "none", {}) EXCEPT !.keyed = FALSE],
        [LaneOf("opencode_cli", "none", {}) EXCEPT !.denied = TRUE]}
-----------------------------------------------------------------------------
VARIABLE part
Parts == {"requests", "collection", "readings", "calibration", "review", "routing", "drafts", "lane"}

servicesVars ==
  <<part, refreshVars, collectorVars, readingsVars, calVars, planVars, routeVars, draftVars, runVars>>

\* A part that does not move begins in one way.
ServicesInit ==
  /\ part \in Parts
  /\ RefreshInit /\ CollectorInit /\ ReadingsInit
  /\ CalibrationInit /\ ReviewInit /\ RouteInit /\ DraftsInit /\ LaneInit
  /\ part # "readings" => subject = "claude"
  /\ part # "calibration" => form = "packet"
  /\ part # "review" => range = SmallBranch
  /\ part # "drafts" => planner
  /\ part # "lane" => setup = OneLane

\* Every part but the one that moves is left as it is.
OthersStay ==
  /\ part # "requests" => UNCHANGED refreshVars
  /\ part # "collection" => UNCHANGED collectorVars
  /\ part # "readings" => UNCHANGED readingsVars
  /\ part # "calibration" => UNCHANGED calVars
  /\ part # "review" => UNCHANGED planVars
  /\ part # "routing" => UNCHANGED routeVars
  /\ part # "drafts" => UNCHANGED draftVars
  /\ part # "lane" => UNCHANGED runVars

ServicesNext ==
  /\ UNCHANGED part
  /\ \/ part = "requests" /\ RefreshNext
     \/ part = "collection" /\ CollectorNext
     \/ part = "readings" /\ ReadingsNext
     \/ part = "calibration" /\ CalibrationNext
     \/ part = "review" /\ ReviewNext
     \/ part = "routing" /\ RouteNext
     \/ part = "drafts" /\ DraftsNext
     \/ part = "lane" /\ LaneNext
  /\ OthersStay

ServicesSpec == ServicesInit /\ [][ServicesNext]_servicesVars
-----------------------------------------------------------------------------
\* Type correctness of every part.
ServicesTyped ==
  /\ RefreshTypeOK /\ CollectorTypeOK /\ ReadingsTypeOK
  /\ CalibrationTypeOK /\ ReviewTypeOK /\ RouteTypeOK /\ DraftsTypeOK /\ LaneTypeOK
=============================================================================
