------------------------------- MODULE Watch --------------------------------
(***************************************************************************)
(* Alarms: watch() of src/inference_grid/watch.py.  A pass reads its inputs,  *)
(* compares the alarms they give with the state file, replaces the file and   *)
(* only then runs the notifiers.  It may die between any two of these steps,  *)
(* and a notifier may fail.  Problems come, move on and go at any time, and   *)
(* an input may be gone or unreadable when a pass looks at it.                *)
(*                                                                         *)
(* Time is kept as ages: how long ago an entry's last notice was, up to       *)
(* Renotify, where the difference stops to matter.                            *)
(***************************************************************************)
EXTENDS Integers

CONSTANTS
  Alarms,          \* the alarms watched: "reading", "held", "board", "upload", "cloud"
  Renotify,       \* renotify_s
  WatchFaults     \* bound: deaths of a pass and failures of a notifier

ASSUME WatchAssumption ==
  /\ Alarms \subseteq {"reading", "held", "board", "upload", "cloud"}
  /\ Renotify \in Nat \ {0} /\ WatchFaults \in Nat

VARIABLES
  problem,        \* the kinds whose reading, attempt, board, upload or build is at fault
  input,          \* kind -> "there", "gone" or "unreadable": what a pass finds at its path
  entry,          \* the state file: kind -> age of its last notice, or NoEntry
  watching,       \* the pass: where it is, the events it found, the entries it keeps
  heard,          \* history: problems the operator was told of since they began
  faults

watchVars == <<problem, input, entry, watching, heard, faults>>

NoEntry == -1
Ages == 0..Renotify
WatchRests == [at |-> "rest", delta |-> [k \in Alarms |-> "none"], kept |-> [k \in Alarms |-> NoEntry]]

WatchInit ==
  /\ problem = {} /\ heard = {} /\ faults = 0
  /\ input = [k \in Alarms |-> "there"]
  /\ entry = [k \in Alarms |-> NoEntry]
  /\ watching = WatchRests
-----------------------------------------------------------------------------
(* What a pass reads *)

\* An overlay, a ledger or a tick log that cannot be read is an error and gives no alarm;
\* neither does a reading that is fresh and ok, a young hold, a board with a productive pass
\* or without ready tasks.
InputAlarm(k) == input[k] = "there" /\ k \in problem

\* A missing status file is the stalest; a fresh one that cannot be parsed is an error.
UploadAlarm(k) == input[k] = "gone" \/ InputAlarm(k)

\* An endpoint that cannot be reached is unversioned, and without the deploy bundle's own
\* commit there is nothing to compare with.
CloudAlarm(k) == input[k] = "gone" \/ InputAlarm(k)

Alarmed(k) == CASE k = "upload" -> UploadAlarm(k)
                [] k = "cloud" -> CloudAlarm(k)
                [] OTHER -> InputAlarm(k)

\* As if an alarm were told once only, until it goes.
EventOnce(k) ==
  IF Alarmed(k) = (entry[k] # NoEntry) THEN "none" ELSE IF Alarmed(k) THEN "raised" ELSE "cleared"
\* evaluate(): one event for an alarm that appears, is due again or has gone.
Event(k) ==
  CASE entry[k] = NoEntry -> IF Alarmed(k) THEN "raised" ELSE "none"
    [] entry[k] # NoEntry /\ ~Alarmed(k) -> "cleared"
    [] entry[k] # NoEntry /\ Alarmed(k) -> IF entry[k] >= Renotify THEN "renotified" ELSE "none"
\* ... and the entry it leaves: told now, or as it was.
Kept(k) == CASE Event(k) \in {"raised", "renotified"} -> 0
             [] Event(k) = "cleared" -> NoEntry
             [] OTHER -> entry[k]

Evaluate ==
  /\ watching.at = "rest"
  /\ watching' = IF \A k \in Alarms : Event(k) = "none" THEN WatchRests
                 ELSE [at |-> "write", delta |-> [k \in Alarms |-> Event(k)],
                       kept |-> [k \in Alarms |-> Kept(k)]]
  /\ UNCHANGED <<problem, input, entry, heard, faults>>
-----------------------------------------------------------------------------
(* The state file, then the notifiers *)

WriteState ==
  /\ watching.at = "write"
  /\ entry' = watching.kept
  /\ watching' = [watching EXCEPT !.at = "notify"]
  /\ UNCHANGED <<problem, input, heard, faults>>

Tells == {k \in Alarms : watching.delta[k] \in {"raised", "renotified"}}

Notify ==
  /\ watching.at = "notify"
  /\ heard' = heard \cup (Tells \cap problem)
  /\ watching' = WatchRests
  /\ UNCHANGED <<problem, input, entry, faults>>

\* run_notify() timed out or could not start: the error is in the output, and that is all.
NotifyFails ==
  /\ watching.at = "notify" /\ faults < WatchFaults
  /\ watching' = WatchRests
  /\ faults' = faults + 1
  /\ UNCHANGED <<problem, input, entry, heard>>

WatchDies ==
  /\ watching.at \in {"write", "notify"} /\ faults < WatchFaults
  /\ watching' = WatchRests
  /\ faults' = faults + 1
  /\ UNCHANGED <<problem, input, entry, heard>>
-----------------------------------------------------------------------------
(* The world it watches *)

Arises(k) ==
  /\ k \notin problem
  /\ problem' = problem \cup {k}
  /\ UNCHANGED <<input, entry, watching, heard, faults>>

Ends(k) ==
  /\ k \in problem
  /\ problem' = problem \ {k} /\ heard' = heard \ {k}
  /\ UNCHANGED <<input, entry, watching, faults>>

InputChanges(k) ==
  /\ input' \in {[input EXCEPT ![k] = s] : s \in {"there", "gone", "unreadable"} \ {input[k]}}
  /\ UNCHANGED <<problem, entry, watching, heard, faults>>

Aged(file) == [k \in Alarms |-> IF file[k] \in 0..(Renotify - 1) THEN file[k] + 1 ELSE file[k]]

EntriesAge ==
  /\ entry' = Aged(entry)
  /\ watching' = [watching EXCEPT !.kept = Aged(@)]
  /\ UNCHANGED <<problem, input, heard, faults>>

WatchNext ==
  \/ Evaluate \/ WriteState \/ Notify \/ NotifyFails \/ WatchDies \/ EntriesAge
  \/ \E k \in Alarms : Arises(k) \/ Ends(k) \/ InputChanges(k)

\* The command is run again and again, goes on while it lives, and time passes; problems
\* and inputs do as they like.
WatchFairness == /\ WF_watchVars(Evaluate) /\ WF_watchVars(WriteState)
                 /\ WF_watchVars(Notify) /\ WF_watchVars(EntriesAge)
WatchSpec == WatchInit /\ [][WatchNext]_watchVars /\ WatchFairness
-----------------------------------------------------------------------------
(* Properties *)

\* "raised when an alarm first appears, re-raised after renotify_s while it persists": the
\* state file is replaced before the notifiers run, so a death or a failed notifier loses a
\* telling; a problem that stays and can be read is told in the end all the same.
ProblemTold ==
  \A k \in Alarms : (k \in problem /\ k \notin heard) ~>
                     (k \in heard \/ k \notin problem \/ input[k] # "there")
=============================================================================
