------------------------------- MODULE Drafts -------------------------------
(* The plan node: a plan task's attempt drafts a packet, and settle_plan     *)
(* writes the packet's task file, its brief and its entry in drafts.json,    *)
(* where it waits for the operator (board/plan_task.py). A packet that       *)
(* settles blocked for a reason the operator owes nothing for is owed a fix  *)
(* plan, authored by the settlement or by a later pass (board/fix_packet.py, *)
(* runner.tick), and may then be superseded by its failover, whose successor *)
(* is module Board's. Attempt threads of one pass settle at the same time;   *)
(* the pass may die at any step. Routing, reviews and landings are other     *)
(* modules.                                                                  *)
EXTENDS Naturals, FiniteSets

CONSTANTS
  Builds,        \* packet tasks on the board at the start
  FixPlan,       \* [Builds -> id]: fix_plan_id of the packet and its reason
  Tickets,       \* plan tasks authored from tickets (board-new)
  Sections,      \* packet ids a plan lane may head its packet.md with
  AutoDispatch,  \* the board's auto_dispatch
  DraftFalls,    \* bound: deaths of a pass
  DraftPasses    \* bound: passes

Fixes == {FixPlan[b] : b \in Builds}
PlanIds == Fixes \cup Tickets
PacketIds == Builds \cup Sections
Ids == PlanIds \cup PacketIds

ASSUME DraftsAssumption ==
  /\ FixPlan \in [Builds -> Fixes] /\ AutoDispatch \in BOOLEAN
  /\ {DraftFalls, DraftPasses} \subseteq Nat
  /\ PlanIds \cap PacketIds = {} /\ Builds \cap Sections = {} /\ Fixes \cap Tickets = {}

VARIABLES
  taskFile,   \* id -> the state in its task file ("superseded": blocked, with that reason), or "absent"
  owed,       \* packet -> what names the reason it was held for, see Reasons
  prompts,    \* ids whose brief exists
  drafts,     \* the ids in drafts.json
  released,   \* history: ids the operator has taken off the list
  planner,    \* a lane is marked tier: plan
  drafting,   \* id -> its attempt's thread: where it is, the section drafted, the list read
  round,      \* the pass: where it is, its drafts list, board snapshot and tasks to visit
  falls, passes

\* Of a held packet: its verdict or its board text names a reason that owes a fix plan, only
\* the ledger's reason does, or what it names is the operator's.
Reasons == {"verdict", "ledger", "operator"}

draftVars == <<taskFile, owed, prompts, drafts, released, planner, drafting, round, falls, passes>>

NoDraft == [at |-> "none", section |-> "none", list |-> {}]
Asleep == [at |-> "idle", id |-> "none", drafted |-> {}, board |-> [i \in Ids |-> "absent"],
           left |-> {}, planned |-> FALSE]

DraftsInit ==
  /\ taskFile = [i \in Ids |-> IF i \in Builds \cup Tickets THEN "ready" ELSE "absent"]
  /\ owed = [i \in PacketIds |-> "none"]
  /\ prompts = Builds \cup Tickets
  /\ drafts = {} /\ released = {}
  /\ planner \in BOOLEAN
  /\ drafting = [i \in Ids |-> NoDraft]
  /\ round = Asleep
  /\ falls = 0 /\ passes = 0

DraftStep(i, where) == drafting' = [drafting EXCEPT ![i].at = where]
Thread(i, where) == drafting[i].at = where
Done(i) == drafting' = [drafting EXCEPT ![i] = NoDraft]

(* ---- The pass loop ------------------------------------------------------ *)
(* The drafts list and the board are read once, at the start. *)
BeginRound ==
  /\ round.at = "idle" /\ passes < DraftPasses
  /\ passes' = passes + 1
  /\ round' = [at |-> "loop", id |-> "none", drafted |-> drafts, board |-> taskFile,
               left |-> {i \in Ids : taskFile[i] # "absent"}, planned |-> planner]
  /\ UNCHANGED <<taskFile, owed, prompts, drafts, released, planner, drafting, falls>>

Passed(i) == round' = [round EXCEPT !.at = "loop", !.id = "none", !.left = @ \ {i}]

Visiting(i) == round.at = "loop" /\ i \in round.left

(* fix_reason as recover_fix calls it, over the verdict and the board text;   *)
(* a superseded packet is skipped. The plan's task file is the record that   *)
(* it was authored.                                                          *)
FixDue(b) ==
  /\ b \in Builds /\ round.board[b] = "blocked" /\ owed[b] = "verdict"
  /\ taskFile[FixPlan[b]] = "absent" /\ planner

RecoverFix(b) ==
  /\ Visiting(b) /\ FixDue(b)
  /\ round' = [round EXCEPT !.at = "author", !.id = b]
  /\ UNCHANGED <<taskFile, owed, prompts, drafts, released, planner, drafting, falls, passes>>

(* A drafted packet the operator has not released is reported, not built. *)
HeldBack(i) == i \in PacketIds /\ i \in round.drafted /\ ~AutoDispatch

(* Dispatch: the brief is staged into the attempt, a plan needs its lane. *)
DispatchTask(i) ==
  /\ Visiting(i) /\ round.board[i] = "ready" /\ ~HeldBack(i)
  /\ i \in prompts /\ (i \in PlanIds => planner)
  /\ taskFile' = [taskFile EXCEPT ![i] = "dispatched"]
  /\ DraftStep(i, "running")
  /\ Passed(i)
  /\ UNCHANGED <<owed, prompts, drafts, released, planner, falls, passes>>

(* requeue_dead: the attempt of a dead pass was resolved. *)
RequeueTask(i) ==
  /\ Visiting(i) /\ round.board[i] = "dispatched"
  /\ taskFile' = [taskFile EXCEPT ![i] = "ready"]
  /\ Passed(i)
  /\ UNCHANGED <<owed, prompts, drafts, released, planner, drafting, falls, passes>>

(* author_failover on a packet that is owed no plan, or has it: its verdict   *)
(* names an exhaustion or a transport error, and a lane of another family is *)
(* there. It writes the successor and supersedes the packet.                 *)
Supersede(b) ==
  /\ owed[b] = "verdict"
  /\ taskFile' = [taskFile EXCEPT ![b] = "superseded"]

LoopFailsOver(b) ==
  /\ Visiting(b) /\ b \in Builds /\ round.board[b] = "blocked" /\ ~FixDue(b)
  /\ Supersede(b)
  /\ Passed(b)
  /\ UNCHANGED <<owed, prompts, drafts, released, planner, drafting, falls, passes>>

(* A draft held back, a task no lane takes, or one already settled. *)
PassOver(i) ==
  /\ Visiting(i) /\ ~FixDue(i)
  /\ round.board[i] # "dispatched"
  /\ Passed(i)
  /\ UNCHANGED <<taskFile, owed, prompts, drafts, released, planner, drafting, falls, passes>>

EndRound ==
  /\ round.at = "loop" /\ round.left = {}
  /\ \A i \in Ids : Thread(i, "none")
  /\ round' = [round EXCEPT !.at = "ended"]
  /\ UNCHANGED <<taskFile, owed, prompts, drafts, released, planner, drafting, falls, passes>>

Sleep ==
  /\ round.at = "ended"
  /\ round' = Asleep
  /\ UNCHANGED <<taskFile, owed, prompts, drafts, released, planner, drafting, falls, passes>>

(* ---- plan_task for a fix: the task file, then the brief ------------------ *)
BriefAuthored(plan) ==   \* As if the brief were written before the task file.
  /\ prompts' = prompts \cup {plan}
  /\ UNCHANGED taskFile

Author(plan) ==
  /\ taskFile' = [taskFile EXCEPT ![plan] = "ready"]
  /\ UNCHANGED prompts

Brief(plan) ==
  /\ prompts' = prompts \cup {plan}
  /\ UNCHANGED taskFile

(* Neither file exists; otherwise author_fix_plan answers why it wrote none. *)
Authorable(plan) == taskFile[plan] = "absent" /\ plan \notin prompts

LoopAuthors ==
  /\ round.at = "author"
  /\ IF Authorable(FixPlan[round.id])
     THEN Author(FixPlan[round.id]) /\ round' = [round EXCEPT !.at = "brief"]
     ELSE Passed(round.id) /\ UNCHANGED <<taskFile, prompts>>
  /\ UNCHANGED <<owed, drafts, released, planner, drafting, falls, passes>>

LoopBriefs ==
  /\ round.at = "brief"
  /\ Brief(FixPlan[round.id])
  /\ Passed(round.id)
  /\ UNCHANGED <<owed, drafts, released, planner, drafting, falls, passes>>

(* ---- A packet attempt's thread ------------------------------------------ *)
BuildCompletes(i) ==
  /\ i \in PacketIds /\ Thread(i, "running")
  /\ taskFile' = [taskFile EXCEPT ![i] = "passed"]
  /\ Done(i)
  /\ UNCHANGED <<owed, prompts, drafts, released, planner, round, falls, passes>>

(* Held: the task is saved blocked, then the fix plan it is owed is authored *)
(* for the reason that the verdict, the board text or the ledger names, and  *)
(* then the failover (a section drafted here is owed both too; the model     *)
(* follows Builds alone).                                                    *)
BuildHeld(i) ==
  /\ i \in PacketIds /\ Thread(i, "running")
  /\ taskFile' = [taskFile EXCEPT ![i] = "blocked"]
  /\ \E w \in Reasons :
       /\ owed' = [owed EXCEPT ![i] = w]
       /\ IF i \notin Builds THEN Done(i)
          ELSE DraftStep(i, IF w # "operator" /\ planner THEN "author" ELSE "failover")
  /\ UNCHANGED <<prompts, drafts, released, planner, round, falls, passes>>

ThreadAuthors(i) ==
  /\ Thread(i, "author")
  /\ IF Authorable(FixPlan[i])
     THEN Author(FixPlan[i]) /\ DraftStep(i, "brief")
     ELSE DraftStep(i, "failover") /\ UNCHANGED <<taskFile, prompts>>
  /\ UNCHANGED <<owed, drafts, released, planner, round, falls, passes>>

ThreadBriefs(i) ==
  /\ Thread(i, "brief")
  /\ Brief(FixPlan[i])
  /\ DraftStep(i, "failover")
  /\ UNCHANGED <<owed, drafts, released, planner, round, falls, passes>>

(* The reasons that earn a failover are some of those that owe a fix plan. *)
ThreadFailsOver(i) ==
  /\ Thread(i, "failover")
  /\ Supersede(i) \/ UNCHANGED taskFile
  /\ Done(i)
  /\ UNCHANGED <<owed, prompts, drafts, released, planner, round, falls, passes>>

(* ---- A plan attempt's thread -------------------------------------------- *)
(* packet.md is parsed and its packet checked against the files there are. *)
PlanDrafts(i) ==
  /\ i \in PlanIds /\ Thread(i, "running")
  /\ \E s \in Sections :
       /\ taskFile[s] = "absent" /\ s \notin prompts
       /\ drafting' = [drafting EXCEPT ![i].at = "packet", ![i].section = s]
  /\ UNCHANGED <<taskFile, owed, prompts, drafts, released, planner, round, falls, passes>>

(* A malformed packet.md, a packet that exists already, or a hold. *)
PlanBlocked(i) ==
  /\ i \in PlanIds /\ Thread(i, "running")
  /\ taskFile' = [taskFile EXCEPT ![i] = "blocked"]
  /\ Done(i)
  /\ UNCHANGED <<owed, prompts, drafts, released, planner, round, falls, passes>>

WritePacket(i) ==
  /\ Thread(i, "packet")
  /\ taskFile' = [taskFile EXCEPT ![drafting[i].section] = "ready"]
  /\ DraftStep(i, "prompt")
  /\ UNCHANGED <<owed, prompts, drafts, released, planner, round, falls, passes>>

WritePrompt(i) ==
  /\ Thread(i, "prompt")
  /\ prompts' = prompts \cup {drafting[i].section}
  /\ DraftStep(i, "list")
  /\ UNCHANGED <<taskFile, owed, drafts, released, planner, round, falls, passes>>

(* add_draft: the list is read, the file truncated, the longer list written. *)
ReadDrafts(i) ==
  /\ Thread(i, "list")
  /\ drafting' = [drafting EXCEPT ![i].at = "truncate", ![i].list = drafts]
  /\ UNCHANGED <<taskFile, owed, prompts, drafts, released, planner, round, falls, passes>>

Truncate(i) ==
  /\ Thread(i, "truncate")
  /\ drafts' = {}
  /\ DraftStep(i, "rewrite")
  /\ UNCHANGED <<taskFile, owed, prompts, released, planner, round, falls, passes>>

WriteDrafts(i) ==
  /\ Thread(i, "rewrite")
  /\ drafts' = drafting[i].list \cup {drafting[i].section}
  /\ DraftStep(i, "settle")
  /\ UNCHANGED <<taskFile, owed, prompts, released, planner, round, falls, passes>>

SettlePlan(i) ==
  /\ Thread(i, "settle")
  /\ taskFile' = [taskFile EXCEPT ![i] = "passed"]
  /\ Done(i)
  /\ UNCHANGED <<owed, prompts, drafts, released, planner, round, falls, passes>>

(* ---- Around ------------------------------------------------------------- *)
(* The pass process dies with every attempt thread. *)
PassDies ==
  /\ round.at # "idle" /\ falls < DraftFalls
  /\ falls' = falls + 1
  /\ round' = Asleep
  /\ drafting' = [i \in Ids |-> NoDraft]
  /\ UNCHANGED <<taskFile, owed, prompts, drafts, released, planner, passes>>

(* The operator releases a draft by removing its id, or marks a plan lane. *)
ReleaseDraft ==
  /\ round.at = "idle"
  /\ \E d \in drafts : drafts' = drafts \ {d} /\ released' = released \cup {d}
  /\ UNCHANGED <<taskFile, owed, prompts, planner, drafting, round, falls, passes>>

MarkPlanner ==
  /\ ~planner /\ planner' = TRUE /\ round.at = "idle"
  /\ UNCHANGED <<taskFile, owed, prompts, drafts, released, drafting, round, falls, passes>>

LoopMoves == \/ BeginRound \/ EndRound \/ Sleep \/ LoopAuthors \/ LoopBriefs
             \/ \E i \in Ids : RecoverFix(i) \/ LoopFailsOver(i) \/ DispatchTask(i) \/ RequeueTask(i) \/ PassOver(i)
ThreadMoves(i) == \/ BuildCompletes(i) \/ BuildHeld(i) \/ ThreadAuthors(i) \/ ThreadBriefs(i)
                  \/ ThreadFailsOver(i)
                  \/ PlanDrafts(i) \/ PlanBlocked(i) \/ WritePacket(i) \/ WritePrompt(i)
                  \/ ReadDrafts(i) \/ Truncate(i) \/ WriteDrafts(i)
                  \/ SettlePlan(i)

DraftsNext == \/ LoopMoves \/ PassDies \/ ReleaseDraft \/ MarkPlanner
              \/ \E i \in Ids : ThreadMoves(i)

DraftsSpec == DraftsInit /\ [][DraftsNext]_draftVars

----------------------------------------------------------------------------
DraftsTypeOK ==
  /\ taskFile \in [Ids -> {"absent", "ready", "dispatched", "passed", "blocked", "superseded"}]
  /\ prompts \subseteq Ids /\ drafts \subseteq Sections /\ released \subseteq Sections
  /\ \A i \in Ids : ~Thread(i, "none") => taskFile[i] \in {"dispatched", "blocked"}

(* A pass that ran to its end leaves no packet that it found blocked without *)
(* the fix plan that its verdict or its board text owes, whichever pass died *)
(* before or while it was authored, and whenever the operator marked the     *)
(* plan lane: "the pass loop recovers a draft a crashed tick never wrote"    *)
(* (docs/BOARD.md, fix_packet.recover_fix), of these packets.                *)
FixRecovered ==
  round.at = "ended" =>
    \A b \in Builds : round.board[b] = "blocked" /\ owed[b] = "verdict" /\ round.planned
                        => taskFile[FixPlan[b]] # "absent"

(* The same of every packet that its settlement owed a plan: the docs make   *)
(* no exception for a reason that only the ledger names, nor for a packet    *)
(* superseded by its failover before a plan lane was marked.                 *)
FixNeverLost ==
  round.at = "ended" =>
    \A b \in Builds : /\ round.board[b] \in {"blocked", "superseded"}
                       /\ owed[b] \in {"verdict", "ledger"} /\ round.planned
                       => taskFile[FixPlan[b]] # "absent"

=============================================================================
