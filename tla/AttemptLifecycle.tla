-------------------------- MODULE AttemptLifecycle --------------------------
(***************************************************************************)
(* What the ledger promises about attempts, without accounts, quota,        *)
(* clocks or generations: a task is given to at most one attempt, once and  *)
(* for ever, and an attempt moves along                                    *)
(*                                                                         *)
(*      queued -> dispatching -> completed -> accepted                     *)
(*         \          |                                                    *)
(*          `-----> held -> failed | abandoned                             *)
(*                                                                         *)
(* so nothing that was held, for whatever reason, runs or completes later.  *)
(***************************************************************************)
CONSTANTS AttemptIds, TaskIds, NoTask

VARIABLES state, owner

lifecycleVars == <<state, owner>>

LifecycleInit ==
  /\ state = [a \in AttemptIds |-> "absent"]
  /\ owner = [a \in AttemptIds |-> NoTask]

\* A task enters as an admitted attempt or as a record of work done outside the grid.
Enter(a, t, s) ==
  /\ state[a] = "absent"
  /\ \A b \in AttemptIds : owner[b] # t
  /\ state' = [state EXCEPT ![a] = s]
  /\ owner' = [owner EXCEPT ![a] = t]

Move(a, from, to) ==
  /\ state[a] = from
  /\ state' = [state EXCEPT ![a] = to]
  /\ UNCHANGED owner

LifecycleNext ==
  \E a \in AttemptIds :
    \/ \E t \in TaskIds, s \in {"queued", "completed"} : Enter(a, t, s)
    \/ Move(a, "queued", "dispatching")
    \/ Move(a, "queued", "held")
    \/ Move(a, "dispatching", "held")
    \/ Move(a, "dispatching", "completed")
    \/ Move(a, "completed", "accepted")
    \/ Move(a, "held", "failed")
    \/ Move(a, "held", "abandoned")

LifecycleSpec == LifecycleInit /\ [][LifecycleNext]_lifecycleVars
=============================================================================
