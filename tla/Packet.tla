------------------------------- MODULE Packet -------------------------------
(***************************************************************************)
(* Packet attempts: run_packet() (src/inference_grid/board/packet_task.py)  *)
(* from an admitted attempt to its settlement, and the build loop it runs   *)
(* (build_loop() of src/inference_grid/lanes/packet.py): an agent works in  *)
(* a clone, code runs the gates, a red round re-enters the same session.    *)
(*                                                                         *)
(* Attempts run as threads and processes of their own against one volume.   *)
(* Each claims the size of its clone in a directory of reservations, then   *)
(* measures the free space, lists the reservations and reads them one by    *)
(* one; others create, write and remove theirs in between.  Clones are the  *)
(* only writers of the volume, and each writes one unit at a time.          *)
(*                                                                         *)
(* Agents choose how a round ends, whether it moved the tree and what the   *)
(* gates say of it.  Once its process is gone or its group was killed, an   *)
(* agent writes nothing more: it leaves no process behind in the clone.     *)
(***************************************************************************)
EXTENDS Integers, FiniteSets, FiniteSetsExt

CONSTANTS
  Attempts,
  Size,           \* attempt -> checkout_bytes of its base, in units
  Space,          \* free units before any clone
  MinFree,        \* min_free_bytes: the floor the guards keep
  MaxRounds,
  GateMarks,      \* outcomes of a round's gates that are not all green
  None

ASSUME SizeAssumption == IsFiniteSet(Attempts) /\ Size \in [Attempts -> Nat \ {0}]
ASSUME SpaceAssumption == Space \in Nat /\ MinFree \in Nat /\ MaxRounds \in Nat \ {0}
ASSUME NoneAssumption == None # 0 /\ \A a \in Attempts : Size[a] # None
ASSUME MarkAssumption == "green" \notin GateMarks /\ "unset" \notin GateMarks

VARIABLES
  free,           \* what the volume reports
  reservation,    \* .reservations/<aid>: None, 0 while it is being written, or its size
  expired,        \* attempts whose reservation is older than RESERVATION_TTL_SECONDS
  guard,          \* the disk guard of each attempt: [measured, unread, counted]
  written,        \* units of each clone on the volume
  tree,           \* what each clone holds: "ungated" changes, or a tree the gates judged
  loop,           \* build_loop of each attempt
  state,          \* its ledger state
  branch,         \* packet/<task-id> in the project: the tree fetched, or None
  pc

diskVars == <<free, reservation, expired, written>>
packetVars == <<diskVars, guard, tree, loop, state, branch, pc>>

NoGuard == [measured |-> 0, unread |-> {}, counted |-> {}]
NoRounds == [round |-> 0, session |-> FALSE, idle |-> 0, ended |-> "unset",
             moved |-> TRUE, gates |-> "unset", reason |-> "unset"]

PacketInit ==
  /\ free = Space
  /\ reservation = [a \in Attempts |-> None]
  /\ expired = {}
  /\ guard = [a \in Attempts |-> NoGuard]
  /\ written = [a \in Attempts |-> 0]
  /\ tree = [a \in Attempts |-> "ungated"]
  /\ loop = [a \in Attempts |-> NoRounds]
  /\ state = [a \in Attempts |-> "dispatching"]
  /\ branch = [a \in Attempts |-> None]
  /\ pc = [a \in Attempts |-> "admitted"]

AtStep(a, label) == pc[a] = label
ToStep(a, label) == pc' = [pc EXCEPT ![a] = label]
\* The loop's own variables end with it; what its last round showed does not.
Ended(l) == [NoRounds EXCEPT !.round = l.round, !.gates = l.gates]
-----------------------------------------------------------------------------
(* The disk guard: claim first, then read *)

\* write_text() creates the file before it writes the number.
CreateClaim(a) ==
  /\ AtStep(a, "admitted")
  /\ reservation' = [reservation EXCEPT ![a] = 0]
  /\ ToStep(a, "claiming")
  /\ UNCHANGED <<free, expired, written, guard, tree, loop, state, branch>>

\* As if the number were still in a buffer when the guard reads.
WriteBuffered(a) ==
  /\ AtStep(a, "claiming")
  /\ ToStep(a, "claimed")
  /\ UNCHANGED <<diskVars, guard, tree, loop, state, branch>>
WriteClaim(a) ==
  /\ AtStep(a, "claiming")
  /\ reservation' = [reservation EXCEPT ![a] = Size[a]]
  /\ expired' = expired \ {a}
  /\ ToStep(a, "claimed")
  /\ UNCHANGED <<free, written, guard, tree, loop, state, branch>>

Measure(a) ==
  /\ AtStep(a, "claimed")
  /\ guard' = [guard EXCEPT ![a].measured = free]
  /\ ToStep(a, "measured")
  /\ UNCHANGED <<diskVars, tree, loop, state, branch>>

ListClaims(a) ==
  /\ AtStep(a, "measured")
  /\ guard' = [guard EXCEPT ![a].unread = {b \in Attempts : reservation[b] # None}]
  /\ ToStep(a, "reading")
  /\ UNCHANGED <<diskVars, tree, loop, state, branch>>

\* A file that is gone, empty or expired counts for nothing.
Counts(b) == reservation[b] \notin {None, 0} /\ b \notin expired
ReadClaim(a, b) ==
  /\ AtStep(a, "reading") /\ b \in guard[a].unread
  /\ guard' = [guard EXCEPT ![a].unread = @ \ {b},
                            ![a].counted = IF Counts(b) THEN @ \cup {b} ELSE @]
  /\ UNCHANGED <<diskVars, tree, loop, state, branch, pc>>

Reserved(a) == MapThenSumSet(LAMBDA b : Size[b], guard[a].counted) - Size[a]
Fits(a) == guard[a].measured - Reserved(a) >= MinFree + Size[a]

\* The claim is removed, and what the guard read is of no more use.
RemoveClaim(a) ==
  /\ reservation' = [reservation EXCEPT ![a] = None]
  /\ guard' = [guard EXCEPT ![a] = NoGuard]
  /\ expired' = expired \ {a}

StartClone(a) ==
  /\ AtStep(a, "reading") /\ guard[a].unread = {} /\ Fits(a)
  /\ guard' = [guard EXCEPT ![a].measured = 0]
  /\ ToStep(a, "cloning")
  /\ UNCHANGED <<diskVars, tree, loop, state, branch>>

RefuseClone(a) ==
  /\ AtStep(a, "reading") /\ guard[a].unread = {} /\ ~Fits(a)
  /\ RemoveClaim(a)
  /\ ToStep(a, "holding")
  /\ UNCHANGED <<free, written, tree, loop, state, branch>>

\* git clone, also when the process that started it has died.
CloneWrites(a) ==
  /\ pc[a] \in {"cloning", "orphaned"} /\ written[a] < Size[a] /\ free > 0
  /\ written' = [written EXCEPT ![a] = @ + 1]
  /\ free' = free - 1
  /\ UNCHANGED <<reservation, expired, guard, tree, loop, state, branch, pc>>

CloneDone(a) ==
  /\ AtStep(a, "cloning") /\ written[a] = Size[a]
  /\ RemoveClaim(a)
  /\ ToStep(a, "cloned")
  /\ UNCHANGED <<free, written, tree, loop, state, branch>>

\* A failing git clone removes what it wrote; the except clause removes the claim, also
\* when the volume could not be measured.
CloneFails(a) ==
  /\ pc[a] \in {"claimed", "cloning"}
  /\ free' = free + written[a]
  /\ written' = [written EXCEPT ![a] = 0]
  /\ RemoveClaim(a)
  /\ ToStep(a, "holding")
  /\ UNCHANGED <<tree, loop, state, branch>>

\* Where an error finds no claim to remove: sizing the tree, writing the claim (a full disk
\* leaves it empty), the checkout, the sandbox, the loop's own files.
Fallible == {"admitted", "claiming", "cloned", "between", "working", "gating", "judging"}
\* As if the except clause ended the attempt without holding it.
FailsUnheld(a) ==
  /\ pc[a] \in Fallible
  /\ ToStep(a, "done")
  /\ loop' = [loop EXCEPT ![a] = Ended(@)]
  /\ UNCHANGED <<diskVars, guard, tree, state, branch>>
\* The except clause ends in a hold.
Fails(a) ==
  /\ pc[a] \in Fallible
  /\ ToStep(a, "holding")
  /\ loop' = [loop EXCEPT ![a] = Ended(@)]
  /\ UNCHANGED <<diskVars, guard, tree, state, branch>>
-----------------------------------------------------------------------------
(* build_loop *)

BeginLoop(a) ==
  /\ AtStep(a, "cloned")
  /\ ToStep(a, "between")
  /\ UNCHANGED <<diskVars, guard, tree, loop, state, branch>>

Stop(a, reason) ==
  /\ loop' = [loop EXCEPT ![a].reason = reason]
  /\ ToStep(a, "judging")

\* The volume is short, or too little of the wall is left for a fix round.
NoRound(a) ==
  /\ AtStep(a, "between")
  /\ \/ free < MinFree /\ Stop(a, "disk_low")
     \/ free >= MinFree /\ loop[a].round > 0 /\ Stop(a, "wall_deadline_before_round")
  /\ UNCHANGED <<diskVars, guard, tree, state, branch>>

StartRound(a) ==
  /\ AtStep(a, "between") /\ free >= MinFree
  /\ loop' = [loop EXCEPT ![a].round = @ + 1]
  /\ ToStep(a, "working")
  /\ UNCHANGED <<diskVars, guard, tree, state, branch>>

\* The agent exits, fails, is cut by its provider, or is killed as idle or at the wall;
\* the session it made may or may not be found in its transcript.
AgentEnds(a) ==
  /\ AtStep(a, "working")
  /\ \E how \in {"exited", "failed", "limited", "idle", "wall"},
        moved \in BOOLEAN, session \in BOOLEAN :
       /\ tree' = [tree EXCEPT ![a] = IF moved THEN "ungated" ELSE @]
       /\ loop' = [loop EXCEPT ![a].ended = how, ![a].moved = moved,
                               ![a].session = @ \/ session,
                               ![a].idle = IF how = "idle" THEN @ + 1 ELSE @]
  /\ ToStep(a, "gating")
  /\ UNCHANGED <<diskVars, guard, state, branch>>

\* What becomes of a round whose gates left mark g: "next", or the reason to stop.
StoppedEarly(l, g) ==
  l.ended = "exited" /\ ~l.moved /\ (l.round = 1 \/ g = l.gates)
\* As if one idle round were no more than a red one.
VerdictPatient(l, g) ==
  IF l.ended = "wall" THEN "wall_deadline"
  ELSE IF g = "green" THEN "gates_passed"
  ELSE IF l.ended = "limited" THEN "transport_error"
  ELSE IF ~l.session THEN "no_session_to_resume"
  ELSE IF l.round < MaxRounds THEN "next"
  ELSE IF StoppedEarly(l, g) THEN "agent_stopped_early" ELSE "rounds_exhausted"
Verdict(l, g) ==
  IF l.ended = "wall" THEN "wall_deadline"
  ELSE IF g = "green" THEN "gates_passed"
  ELSE IF l.ended = "limited" THEN "transport_error"
  ELSE IF l.ended = "idle" /\ (l.idle >= 2 \/ l.round = MaxRounds \/ ~l.session)
    THEN "agent_idle"
  ELSE IF ~l.session THEN "no_session_to_resume"
  ELSE IF l.round < MaxRounds THEN "next"
  ELSE IF StoppedEarly(l, g) THEN "agent_stopped_early" ELSE "rounds_exhausted"

RunGates(a) ==
  /\ AtStep(a, "gating")
  /\ \E g \in GateMarks \cup {"green"} :
       LET verdict == Verdict(loop[a], g) IN
       /\ loop' = [loop EXCEPT ![a].gates = g, ![a].reason = verdict]
       /\ tree' = [tree EXCEPT ![a] = "gated"]
       /\ ToStep(a, IF verdict = "next" THEN "between" ELSE "judging")
  /\ UNCHANGED <<diskVars, guard, state, branch>>
-----------------------------------------------------------------------------
(* Settlement *)

\* As if a loop that ran to the end of its rounds had proved the branch.
JudgeByReason(a) ==
  /\ AtStep(a, "judging")
  /\ ToStep(a, IF loop[a].reason \in {"gates_passed", "agent_stopped_early"}
             THEN "fetching" ELSE "holding")
  /\ loop' = [loop EXCEPT ![a] = Ended(@)]
  /\ UNCHANGED <<diskVars, guard, tree, state, branch>>
\* As if the clone were reclaimed before its branch was fetched.
ReclaimFirst(a) ==
  /\ AtStep(a, "judging")
  /\ ToStep(a, IF loop[a].gates = "green" THEN "fetching" ELSE "holding")
  /\ loop' = [loop EXCEPT ![a] = Ended(@)]
  /\ free' = free + written[a]
  /\ written' = [written EXCEPT ![a] = 0]
  /\ UNCHANGED <<reservation, expired, guard, tree, state, branch>>
\* gates_passed of the verdict: the last round's gates, whatever ended the loop.
Judge(a) ==
  /\ AtStep(a, "judging")
  /\ ToStep(a, IF loop[a].gates = "green" THEN "fetching" ELSE "holding")
  /\ loop' = [loop EXCEPT ![a] = Ended(@)]
  /\ UNCHANGED <<diskVars, guard, tree, state, branch>>

Fetch(a) ==
  /\ AtStep(a, "fetching")
  /\ branch' = [branch EXCEPT ![a] = tree[a]]
  /\ ToStep(a, "fetched")
  /\ UNCHANGED <<diskVars, guard, tree, loop, state>>

\* Outside the try block: git's refusal is the thread's error, and nothing is held.
FetchFails(a) ==
  /\ AtStep(a, "fetching")
  /\ ToStep(a, "error")
  /\ UNCHANGED <<diskVars, guard, tree, loop, state, branch>>

Reclaim(a) ==
  /\ AtStep(a, "fetched")
  /\ free' = free + written[a]
  /\ written' = [written EXCEPT ![a] = 0]
  /\ ToStep(a, "finishing")
  /\ UNCHANGED <<reservation, expired, guard, tree, loop, state, branch>>

\* finish() refuses an attempt that a sweep has held, and the refusal is the thread's.
\* (The outcome, recorded next, is Ledger's.)
FinishPacket(a) ==
  /\ AtStep(a, "finishing")
  /\ IF state[a] = "dispatching"
     THEN state' = [state EXCEPT ![a] = "completed"] /\ ToStep(a, "done")
     ELSE UNCHANGED state /\ ToStep(a, "error")
  /\ UNCHANGED <<diskVars, guard, tree, loop, branch>>

HoldState(a) ==
  state' = [state EXCEPT ![a] = IF @ = "dispatching" THEN "held" ELSE @]
HoldPacket(a) ==
  /\ AtStep(a, "holding")
  /\ HoldState(a)
  /\ ToStep(a, "done")
  /\ UNCHANGED <<diskVars, guard, tree, loop, branch>>
-----------------------------------------------------------------------------
AttemptStep(a) ==
  \/ CreateClaim(a) \/ WriteClaim(a) \/ Measure(a) \/ ListClaims(a)
  \/ (\E b \in Attempts : ReadClaim(a, b)) \/ StartClone(a) \/ RefuseClone(a)
  \/ CloneWrites(a) \/ CloneDone(a) \/ CloneFails(a) \/ Fails(a)
  \/ BeginLoop(a) \/ NoRound(a) \/ StartRound(a) \/ AgentEnds(a) \/ RunGates(a)
  \/ Judge(a) \/ Fetch(a) \/ FetchFails(a) \/ Reclaim(a) \/ FinishPacket(a) \/ HoldPacket(a)

\* The process of the attempt dies, and its memory with it; its files stay.
Dies(a) ==
  /\ pc[a] \notin {"done", "error", "dead", "orphaned"}
  /\ ToStep(a, IF AtStep(a, "cloning") THEN "orphaned" ELSE "dead")
  /\ guard' = [guard EXCEPT ![a] = NoGuard]
  /\ loop' = [loop EXCEPT ![a] = Ended(@)]
  /\ UNCHANGED <<diskVars, tree, state, branch>>

\* An hour after it was written a claim is ignored, also while its clone is still running:
\* nothing bounds a clone or the time between the claim and its start.
Expires(a) ==
  /\ reservation[a] # None /\ a \notin expired
  /\ expired' = expired \cup {a}
  /\ UNCHANGED <<free, reservation, written, guard, tree, loop, state, branch, pc>>

HoldAbandoned(a) ==
  /\ state[a] = "dispatching"
  /\ HoldState(a)
  /\ UNCHANGED <<diskVars, guard, tree, loop, branch, pc>>

PacketNext == \E a \in Attempts :
          AttemptStep(a) \/ Dies(a) \/ Expires(a) \/ HoldAbandoned(a)

\* A live attempt keeps running: the wall bounds the agent, timeouts bound the gates.
PacketSpec == PacketInit /\ [][PacketNext]_packetVars /\ \A a \in Attempts : WF_packetVars(AttemptStep(a))
-----------------------------------------------------------------------------
(* Properties *)

Labels == {"admitted", "claiming", "claimed", "measured", "reading", "cloning", "cloned",
           "between", "working", "gating", "judging", "fetching", "fetched", "finishing",
           "holding", "done", "error", "dead", "orphaned"}
Reasons == {"unset", "next", "disk_low", "wall_deadline_before_round", "wall_deadline",
            "gates_passed", "transport_error", "agent_idle", "no_session_to_resume",
            "agent_stopped_early", "rounds_exhausted"}

\* Type correctness of the volume, the claims, the loops and the settlements.
PacketTypeOK ==
  /\ free \in 0..Space
  /\ \A a \in Attempts : /\ reservation[a] \in {None, 0, Size[a]}
                         /\ written[a] \in 0..Size[a]
                         /\ guard[a].measured \in 0..Space
                         /\ guard[a].unread \subseteq Attempts
                         /\ guard[a].counted \subseteq Attempts
                         /\ loop[a].round \in 0..MaxRounds
                         /\ loop[a].reason \in Reasons
  /\ expired \subseteq Attempts
  /\ tree \in [Attempts -> {"ungated", "gated"}]
  /\ state \in [Attempts -> {"dispatching", "held", "completed"}]
  /\ pc \in [Attempts -> Labels]

\* "Claim first, then read": of two attempts that clone at the same time, one has counted the
\* other, although files are created empty and listed before they are read.  Only a clone that
\* takes more than the hour of its claim is counted by nobody.
ClaimsSeen ==
  \A a, b \in Attempts :
    (a # b /\ AtStep(a, "cloning") /\ AtStep(b, "cloning") /\ {a, b} \cap expired = {}) =>
      a \in guard[b].counted \/ b \in guard[a].counted

\* An attempt that ended, however it ended, weighs on no later guard.
ClaimsReleased == \A a \in Attempts : pc[a] \in {"done", "error"} => ~Counts(a)

\* What an attempt built is never lost: it is in its clone or in the project's branch,
\* through deaths, sweeps, refused finishes and failed fetches.
WorkKept ==
  \A a \in Attempts : loop[a].round > 0 => written[a] = Size[a] \/ branch[a] = tree[a]

\* A completed packet's branch holds the tree on which all gates were green in its last
\* round, also when the wall or a full disk ended the loop.
CompletedIsGated ==
  \A a \in Attempts : state[a] = "completed" =>
    loop[a].gates = "green" /\ branch[a] = "gated"

\* A round is only entered after a red one whose session is known and that its provider
\* did not cut, and never after two idle ones: those are the operator's to see.
RoundJustified ==
  [][\A a \in Attempts : loop'[a].round > loop[a].round =>
       /\ loop[a].gates # "green" /\ loop[a].idle < 2
       /\ loop[a].round > 0 => loop[a].session /\ loop[a].ended \notin {"wall", "limited"}]_packetVars

\* Every attempt of a living process is settled in the ledger, however its disk guard,
\* clone, rounds or gates end; only git's refusal of the finished branch is left to the pass.
Settles ==
  \A a \in Attempts :
    state[a] = "dispatching" ~> (state[a] # "dispatching" \/ pc[a] \in {"dead", "orphaned", "error"})

\* "The volume must hold min_free_bytes plus the checkout itself, or the attempt is held":
\* clones that pass the guard never take the volume below its floor.
FloorKept == free >= MinFree
=============================================================================
