------------------------------- MODULE MCLoop -------------------------------
(***************************************************************************)
(* What must happen in the end: a landing settles its packet, the boards'    *)
(* loop gives every board its turn, and the alarm watcher tells a problem.   *)
(* The three share no variable, so a behaviour moves one of them ("moving")  *)
(* and leaves the others as they began.                                      *)
(***************************************************************************)
EXTENDS Land, TickLoop, Watch

VARIABLE moving

loopVars == <<moving, landVars, tickVars, watchVars>>

LoopInit == moving \in {"landings", "boards", "alarms"} /\ LandInit /\ TickInit /\ WatchInit

LoopNext ==
  /\ UNCHANGED moving
  /\ \/ moving = "landings" /\ LandNext /\ UNCHANGED <<tickVars, watchVars>>
     \/ moving = "boards" /\ TickNext /\ UNCHANGED <<landVars, watchVars>>
     \/ moving = "alarms" /\ WatchNext /\ UNCHANGED <<landVars, tickVars>>

\* The fairness of each, while it moves.
LoopSpec ==
  /\ LoopInit
  /\ [][LoopNext]_loopVars
  /\ \A l \in Landers : WF_landVars(moving = "landings" /\ LanderStep(l))
  /\ WF_tickVars(moving = "boards" /\ SpawnThreads) /\ WF_tickVars(moving = "boards" /\ LoopEnds)
  /\ WF_tickVars(moving = "boards" /\ WriteHeartbeat) /\ WF_tickVars(moving = "boards" /\ Elapse)
  /\ \A b \in Boards : /\ WF_tickVars(moving = "boards" /\ BoardStep(b))
                       /\ SF_tickVars(moving = "boards" /\ BeginPrepare(b))
  /\ WF_watchVars(moving = "alarms" /\ Evaluate) /\ WF_watchVars(moving = "alarms" /\ WriteState)
  /\ WF_watchVars(moving = "alarms" /\ Notify) /\ WF_watchVars(moving = "alarms" /\ EntriesAge)
-----------------------------------------------------------------------------
\* Land!PassedSettled, where landings move: while no landing dies, every passed packet is
\* landed or blocked in the end.
LandingsSettle == moving = "landings" => PassedSettled
=============================================================================
