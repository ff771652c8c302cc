-------------------------------- MODULE Board --------------------------------
(***************************************************************************)
(* The board runner (src/inference_grid/board/runner.py): passes that read  *)
(* the task files once, admit ready tasks through the ledger, run each      *)
(* attempt in a thread and settle its task file; failover.py's one retry on *)
(* another family; the operator's retry (new.py) and resolve.               *)
(*                                                                         *)
(* A task file is read and rewritten whole and is shared by the pass loop,  *)
(* its threads, later passes and the operator; nothing locks it.  A pass    *)
(* decides from the board it read when it began.  It may die between any    *)
(* two writes, and its threads die with it.                                 *)
(*                                                                         *)
(* The ledger is reduced to what the board can see of it: attempt states    *)
(* moving along AttemptLifecycle, and one account with a capacity.  Routing *)
(* over lanes, plan and calibration nodes, drafts and dependencies only     *)
(* decide whether a ready task is tried, and are a choice here.             *)
(***************************************************************************)
EXTENDS Integers, Sequences, FiniteSets, Functions

CONSTANTS
  BoardTasks,       \* every task id a board may come to hold
  Kind,             \* task -> "work" | "review" | "packet"
  Order,            \* the task ids in file-name order
  ReviewOf,         \* work task -> the id "review-" + task
  RetryIds,         \* task -> the ids its retries and its failover may take, in their order
  InitialTasks,     \* tasks on the board at the start
  AttemptIds,
  Passes,           \* board-tick processes that may be alive at once
  Capacity,         \* attempt slots of the account
  MaxCrashes,       \* bound on pass deaths (model checking only)
  RetryDuringPass,  \* may the operator retry a task while a pass is alive?
  SweepDuringPass,  \* may hold-abandoned hit an attempt some pass is running?
  NoTask, NoAttempt

ASSUME OrderAssumption ==
  Order \in Seq(BoardTasks) /\ Range(Order) = BoardTasks /\ IsInjective(Order)

\* A work task's review has an id of its own.
ASSUME ReviewAssumption ==
  /\ \A t \in BoardTasks : Kind[t] \in {"work", "review", "packet"}
  /\ ReviewOf \in [{t \in BoardTasks : Kind[t] = "work"} -> BoardTasks]
  /\ IsInjective(ReviewOf)

ASSUME SentinelAssumption ==
  /\ NoTask \notin BoardTasks /\ NoTask \notin AttemptIds
  /\ NoAttempt \notin AttemptIds /\ "none" \notin Passes

VARIABLES
  file,        \* board directory: task -> [state, reason, from]
  link,        \* review/<task>/source.json: the attempt to judge, and its review task
  row,         \* ledger attempts: [state, of]
  earlier,     \* attempt -> the attempts whose last ledger transition was before its own
  pass,        \* each board-tick process
  thread,      \* each attempt's thread: [pc, pass]
  crashes,
  failovers    \* how many failover successors the runner wrote for a task (history)

vars == <<file, link, row, earlier, pass, thread, crashes, failovers>>
boardVars == <<file, link, failovers>>
ledgerVars == <<row, earlier>>
runnerVars == <<pass, thread, crashes>>

ACTIVE == {"queued", "dispatching", "held"}
Absent == [state |-> "absent", reason |-> "none", from |-> NoTask]
Fresh == [Absent EXCEPT !.state = "ready"]
NoRow == [state |-> "absent", of |-> NoTask]
NoLink == [attempt |-> NoAttempt, review |-> NoTask]
IdlePass == [pc |-> "idle", board |-> [t \in BoardTasks |-> Absent], next |-> 1,
             attempt |-> NoAttempt]
NoThread == [pc |-> "none", pass |-> "none"]

Init ==
  /\ file = [t \in BoardTasks |-> IF t \in InitialTasks THEN Fresh ELSE Absent]
  /\ link = [t \in BoardTasks |-> NoLink]
  /\ row = [a \in AttemptIds |-> NoRow]
  /\ earlier = [a \in AttemptIds |-> {}]
  /\ pass = [q \in Passes |-> IdlePass]
  /\ thread = [a \in AttemptIds |-> NoThread]
  /\ crashes = 0
  /\ failovers = [t \in BoardTasks |-> 0]

\* save_task: the file is replaced by the task as read, with a new state and reason.
Save(t, state, reason) ==
  file' = [file EXCEPT ![t].state = state, ![t].reason = reason]

Superseded(f) == f.state = "blocked" /\ f.reason = "superseded"

Rows(t) == {a \in AttemptIds : row[a].of = t}
ActiveRows == {a \in AttemptIds : row[a].state \in ACTIVE}
\* The last ledger transition is one of attempt a.
Latest(a) ==
  earlier' = [b \in AttemptIds |->
                IF b = a THEN {c \in AttemptIds \ {a} : row[c].state # "absent"}
                         ELSE earlier[b] \ {a}]
Move(a, state) == row' = [row EXCEPT ![a].state = state] /\ Latest(a)
Newest(t) == CHOOSE a \in Rows(t) : Rows(t) \ {a} \subseteq earlier[a]
-----------------------------------------------------------------------------
(* The pass loop *)

Task(q) == Order[pass[q].next]
Seen(q) == pass[q].board[Task(q)]
InLoop(q) == pass[q].pc = "loop" /\ pass[q].next <= Len(Order)
Onward(q) == pass' = [pass EXCEPT ![q].pc = "loop", ![q].next = @ + 1,
                                  ![q].attempt = NoAttempt]
Live(a) == thread[a].pc \notin {"none", "done", "error"}
Mine(q) == {a \in AttemptIds : thread[a].pass = q}

BeginPass(q) ==
  /\ pass[q].pc = "idle"
  /\ pass' = [pass EXCEPT ![q] = [IdlePass EXCEPT !.pc = "loop", !.board = file]]
  /\ UNCHANGED <<boardVars, ledgerVars, thread, crashes>>

\* failover_candidate, on the board as this pass read it.
\* As if the supersession alone told that a failover was authored.
FailoverNotMarked(q, t, f) ==
  /\ Kind[t] = "packet" /\ f.state = "blocked" /\ f.reason = "exhausted"
  /\ f.from = NoTask
FailoverDue(q, t, f) ==
  /\ Kind[t] = "packet" /\ f.state = "blocked" /\ f.reason = "exhausted"
  /\ f.from = NoTask
  /\ \A other \in BoardTasks : pass[q].board[other].from # t

\* next_retry_id: the first id of the chain that no file has.
NextRetryId(t, s) ==
  \E i \in DOMAIN RetryIds[t] :
    /\ RetryIds[t][i] = s /\ file[s].state = "absent"
    /\ \A j \in DOMAIN RetryIds[t] : j < i => file[RetryIds[t][j]].state # "absent"

SkipTask(q) ==
  /\ InLoop(q)
  /\ Seen(q).state \notin {"ready", "dispatched"}
  /\ ~FailoverDue(q, Task(q), Seen(q))
  /\ Onward(q)
  /\ UNCHANGED <<boardVars, ledgerVars, thread, crashes>>

\* author_failover writes the successor first ...
WriteSuccessor(t, s) ==
  /\ Kind[s] = "packet" /\ file[s].state = "absent" /\ NextRetryId(t, s)
  /\ file' = [file EXCEPT ![s] = [Fresh EXCEPT !.from = t]]
  /\ failovers' = [failovers EXCEPT ![t] = @ + 1]
  /\ UNCHANGED link

FailoverFromLoop(q) ==
  /\ InLoop(q)
  /\ FailoverDue(q, Task(q), Seen(q))
  /\ \/ /\ \E s \in BoardTasks : WriteSuccessor(Task(q), s)
        /\ pass' = [pass EXCEPT ![q].pc = "superseding"]
     \/ Onward(q) /\ UNCHANGED boardVars     \* no lane of another family
  /\ UNCHANGED <<ledgerVars, thread, crashes>>

\* ... and supersedes the predecessor second.
SupersedeFromLoop(q) ==
  /\ pass[q].pc = "superseding"
  /\ Save(Task(q), "blocked", "superseded")
  /\ Onward(q)
  /\ UNCHANGED <<link, failovers, ledgerVars, thread, crashes>>

\* As if every attempt that brought no result were dead.
Unfinished(t) == Rows(t) # {} /\ row[Newest(t)].state \notin {"completed", "accepted"}
\* requeue_dead: nothing active, and the newest attempt ended unsuccessfully.
Dead(t) ==
  /\ Rows(t) # {} /\ Rows(t) \cap ActiveRows = {}
  /\ row[Newest(t)].state \in {"failed", "abandoned"}

\* As if a released attempt were left to the operator.
RequeueFailed(q) ==
  /\ InLoop(q) /\ Seen(q).state = "dispatched"
  /\ IF Dead(Task(q)) /\ row[Newest(Task(q))].state = "failed"
     THEN Save(Task(q), "ready", "none") ELSE UNCHANGED file
  /\ Onward(q)
  /\ UNCHANGED <<link, failovers, ledgerVars, thread, crashes>>
RequeueDead(q) ==
  /\ InLoop(q) /\ Seen(q).state = "dispatched"
  /\ IF Dead(Task(q)) THEN Save(Task(q), "ready", "none") ELSE UNCHANGED file
  /\ Onward(q)
  /\ UNCHANGED <<link, failovers, ledgerVars, thread, crashes>>

Slots == Capacity - Cardinality(ActiveRows)

\* No lane, a draft, an unlanded dependency, or a full account nobody here will free.
NotRouted(q) ==
  /\ InLoop(q) /\ Seen(q).state = "ready"
  /\ Onward(q)
  /\ UNCHANGED <<boardVars, ledgerVars, thread, crashes>>

\* shadowing_names: files of the task would hide one another in its scratch directory.
Collides(q) ==
  /\ InLoop(q) /\ Seen(q).state = "ready"
  /\ Save(Task(q), "blocked", "failed")
  /\ Onward(q)
  /\ UNCHANGED <<link, failovers, ledgerVars, thread, crashes>>

\* The account is full because of this pass: join one of its attempts, then look again.
AwaitVictim(q) ==
  /\ InLoop(q) /\ Seen(q).state = "ready" /\ Slots <= 0
  /\ \E a \in Mine(q) :
       /\ Live(a)
       /\ pass' = [pass EXCEPT ![q].pc = "waiting", ![q].attempt = a]
  /\ UNCHANGED <<boardVars, ledgerVars, thread, crashes>>

VictimJoined(q) ==
  /\ pass[q].pc = "waiting" /\ thread[pass[q].attempt].pc = "done"
  /\ pass' = [pass EXCEPT ![q].pc = "loop", ![q].attempt = NoAttempt]
  /\ UNCHANGED <<boardVars, ledgerVars, thread, crashes>>

\* As if a blocked task were tried again.
MarkBlocked(q) ==
  /\ InLoop(q) /\ Seen(q).state \in {"ready", "blocked"}
  /\ Save(Task(q), "dispatched", "none")
  /\ pass' = [pass EXCEPT ![q].pc = "marked"]
  /\ UNCHANGED <<link, failovers, ledgerVars, thread, crashes>>
MarkDispatched(q) ==
  /\ InLoop(q) /\ Seen(q).state = "ready"
  /\ Save(Task(q), "dispatched", "none")
  /\ pass' = [pass EXCEPT ![q].pc = "marked"]
  /\ UNCHANGED <<link, failovers, ledgerVars, thread, crashes>>

\* submit() and claim() queue the attempt; work is handed to its thread at once.
Admit(q) ==
  /\ pass[q].pc = "marked" /\ Slots > 0
  /\ \E a \in AttemptIds :
       /\ row[a].state = "absent"
       /\ row' = [row EXCEPT ![a] = [state |-> "queued", of |-> Task(q)]]
       /\ Latest(a)
       /\ IF Kind[Task(q)] = "packet"
          THEN /\ pass' = [pass EXCEPT ![q].pc = "starting", ![q].attempt = a]
               /\ UNCHANGED thread
          ELSE /\ thread' = [thread EXCEPT ![a] = [pc |-> "admitted", pass |-> q]]
               /\ Onward(q)
  /\ UNCHANGED <<boardVars, crashes>>

\* admit_packet starts the attempt itself, on the pass loop.
StartPacket(q) ==
  /\ pass[q].pc = "starting"
  /\ \/ /\ Move(pass[q].attempt, "dispatching")
        /\ thread' = [thread EXCEPT ![pass[q].attempt] = [pc |-> "running", pass |-> q]]
     \/ /\ row' = [row EXCEPT ![pass[q].attempt].state = "held"]
        /\ thread' = [thread EXCEPT ![pass[q].attempt] = [pc |-> "unfinished", pass |-> q]]
        /\ UNCHANGED earlier
  /\ Onward(q)
  /\ UNCHANGED <<boardVars, crashes>>

AdmitRefused(q) ==
  /\ pass[q].pc = "marked"
  /\ Save(Task(q), "ready", "none")
  /\ Onward(q)
  /\ UNCHANGED <<link, failovers, ledgerVars, thread, crashes>>

\* Every thread is joined; with auto_land the passed packets of the re-read board land.
EndLoop(q) ==
  /\ pass[q].pc = "loop" /\ pass[q].next > Len(Order)
  /\ \A a \in Mine(q) : thread[a].pc = "done"
  /\ pass' = [pass EXCEPT ![q].pc = "landing"]
  /\ thread' = [a \in AttemptIds |-> IF a \in Mine(q) THEN NoThread ELSE thread[a]]
  /\ UNCHANGED <<boardVars, ledgerVars, crashes>>

LandPacket(q, t) ==
  /\ pass[q].pc = "landing"
  /\ Kind[t] = "packet" /\ file[t].state = "passed"
  /\ \E s \in {"landed", "blocked"} : Save(t, s, IF s = "blocked" THEN "failed" ELSE "none")
  /\ UNCHANGED <<link, failovers, ledgerVars, runnerVars>>

EndPass(q) ==
  /\ pass[q].pc = "landing"
  /\ pass' = [pass EXCEPT ![q] = IdlePass]
  /\ UNCHANGED <<boardVars, ledgerVars, thread, crashes>>

PassGone(q) ==
  /\ pass' = [pass EXCEPT ![q] = IdlePass]
  /\ thread' = [a \in AttemptIds |-> IF a \in Mine(q) THEN NoThread ELSE thread[a]]
  /\ UNCHANGED <<boardVars, ledgerVars>>

\* A joined thread's error is raised on the loop and ends the process.
RaiseError(q) ==
  /\ \/ pass[q].pc = "waiting" /\ thread[pass[q].attempt].pc = "error"
     \/ /\ pass[q].pc = "loop" /\ pass[q].next > Len(Order)
        /\ \A a \in Mine(q) : ~Live(a)
        /\ \E a \in Mine(q) : thread[a].pc = "error"
  /\ PassGone(q)
  /\ UNCHANGED crashes

Crash(q) ==
  /\ pass[q].pc # "idle" /\ crashes < MaxCrashes
  /\ crashes' = crashes + 1
  /\ PassGone(q)

PassStep(q) == \/ BeginPass(q) \/ SkipTask(q) \/ FailoverFromLoop(q)
               \/ SupersedeFromLoop(q) \/ RequeueDead(q) \/ NotRouted(q)
               \/ AwaitVictim(q) \/ VictimJoined(q) \/ MarkDispatched(q) \/ Admit(q)
               \/ StartPacket(q) \/ AdmitRefused(q) \/ Collides(q) \/ EndLoop(q) \/ RaiseError(q)
               \/ (\E t \in BoardTasks : LandPacket(q, t)) \/ EndPass(q)
-----------------------------------------------------------------------------
(* An attempt's thread: settle_attempt *)

Of(a) == row[a].of
At(a, pc) == thread[a].pc = pc
Goto(a, pc) == thread' = [thread EXCEPT ![a].pc = pc]
OwnWrite == UNCHANGED <<link, failovers, ledgerVars, pass, crashes>>
OwnStep == UNCHANGED <<boardVars, pass, crashes>>

\* execute(): start() dispatches the queued attempt or holds it.
StartAttempt(a) ==
  /\ At(a, "admitted")
  /\ \/ /\ row[a].state = "queued" /\ Move(a, "dispatching") /\ Goto(a, "running")
     \/ /\ row[a].state = "queued" /\ row' = [row EXCEPT ![a].state = "held"]
        /\ Goto(a, "unfinished") /\ UNCHANGED earlier
  /\ OwnStep

Completes(a) ==
  /\ At(a, "running") /\ row[a].state = "dispatching"
  /\ Move(a, "completed") /\ Goto(a, "completed")
  /\ OwnStep

\* Timeouts, refusals, red gates; an attempt held from outside stays as it is.
Fails(a) ==
  /\ At(a, "running")
  /\ IF row[a].state = "dispatching" THEN Move(a, "held") ELSE UNCHANGED ledgerVars
  /\ Goto(a, "unfinished")
  /\ OwnStep

\* A finished packet loop whose finish() the ledger refuses raises out of dispatch().
FinishRefused(a) ==
  /\ At(a, "running") /\ Kind[Of(a)] = "packet" /\ row[a].state # "dispatching"
  /\ Goto(a, "refused")
  /\ UNCHANGED ledgerVars /\ OwnStep

\* Git fails after a packet loop, or staging a review's artifacts fails.
ThreadFails(a) ==
  /\ \/ At(a, "running") /\ Kind[Of(a)] = "packet"
     \/ At(a, "staging")
  /\ Goto(a, "error")
  /\ UNCHANGED ledgerVars /\ OwnStep

\* "Staging or admission refused before any attempt existed; the task stays ready."
SettleRefused(a) ==
  /\ At(a, "refused")
  /\ Save(Of(a), "ready", "none")
  /\ Goto(a, "done") /\ OwnWrite

\* Only a packet's reason can name an exhausted loop or a transport error.
SettleHeld(a) ==
  /\ At(a, "unfinished")
  /\ \/ Save(Of(a), "blocked", "held") /\ Goto(a, "done")
     \/ /\ Kind[Of(a)] = "packet"
        /\ Save(Of(a), "blocked", "exhausted") /\ Goto(a, "failover")
  /\ OwnWrite

FailoverFromThread(a) ==
  /\ At(a, "failover")
  /\ LET settled == [file[Of(a)] EXCEPT !.state = "blocked", !.reason = "exhausted"] IN
     \/ /\ FailoverDue(thread[a].pass, Of(a), settled)
        /\ \E s \in BoardTasks : WriteSuccessor(Of(a), s)
        /\ Goto(a, "superseding")
     \/ Goto(a, "done") /\ UNCHANGED boardVars
  /\ UNCHANGED <<ledgerVars, pass, crashes>>

SupersedeFromThread(a) ==
  /\ At(a, "superseding")
  /\ Save(Of(a), "blocked", "superseded")
  /\ Goto(a, "done") /\ OwnWrite

SettlePacket(a) ==
  /\ At(a, "completed") /\ Kind[Of(a)] = "packet"
  /\ Save(Of(a), "passed", "none")
  /\ Goto(a, "done") /\ OwnWrite

\* run_tests, and for a review its verdict.
Judge(a) ==
  /\ At(a, "completed") /\ Kind[Of(a)] # "packet"
  /\ \E pc \in IF Kind[Of(a)] = "work" THEN {"staging", "failing"}
                                        ELSE {"approved", "rejected", "failing"} :
       Goto(a, pc)
  /\ UNCHANGED ledgerVars /\ OwnStep

SettleFailed(a) ==
  /\ At(a, "failing")
  /\ Save(Of(a), "blocked", "failed")
  /\ Goto(a, "done") /\ OwnWrite

\* create_review_task never overwrites a review; it may refuse to create one.
CreateReview(a) ==
  /\ At(a, "staging")
  /\ LET r == ReviewOf[Of(a)] IN
     file' \in {file} \cup (IF file[r].state = "absent"
                            THEN {[file EXCEPT ![r] = Fresh]} ELSE {})
  /\ Goto(a, "linking") /\ OwnWrite

WriteLink(a) ==
  /\ At(a, "linking")
  /\ link' = [link EXCEPT ![Of(a)] = [attempt |-> a, review |-> ReviewOf[Of(a)]]]
  /\ Goto(a, "settling")
  /\ UNCHANGED <<file, failovers, ledgerVars, pass, crashes>>

SettleReviewPending(a) ==
  /\ At(a, "settling")
  /\ Save(Of(a), "review_pending", "none")
  /\ Goto(a, "done") /\ OwnWrite

\* find_source_link: the link naming this review, else the one under its own suffix.
Sources(r) ==
  LET named == {t \in BoardTasks : link[t].review = r}
  IN IF named # {} THEN named
     ELSE {t \in BoardTasks : Kind[t] = "work" /\ ReviewOf[t] = r /\ link[t] # NoLink}

\* accept_reviewed reads the source again and accepts its attempt in the ledger.
Acceptable(w) == /\ file[w].state # "absent" /\ ~Superseded(file[w])
                 /\ row[link[w].attempt].state = "completed"

\* As if the board were settled before the ledger.
AcceptOnBoard(a) ==
  /\ At(a, "approved")
  /\ Goto(a, IF \E w \in Sources(Of(a)) : Acceptable(w) THEN "accepting" ELSE "passing")
  /\ UNCHANGED <<ledgerVars, boardVars, pass, crashes>>
\* The ledger refuses a reviewer of the author's family and a receipt that is another one.
AcceptSource(a) ==
  /\ At(a, "approved")
  /\ \/ /\ \E w \in Sources(Of(a)) :
               /\ Acceptable(w)
               /\ row' = [row EXCEPT ![link[w].attempt].state = "accepted"]
        /\ Goto(a, "accepting")
     \/ UNCHANGED row /\ Goto(a, "passing")
  /\ UNCHANGED <<earlier, boardVars, pass, crashes>>

SettleAccepted(a) ==
  /\ At(a, "accepting")
  /\ \E w \in Sources(Of(a)) : Save(w, "accepted", "none")
  /\ Goto(a, "passing") /\ OwnWrite

SettleReview(a) ==
  /\ At(a, "passing")
  /\ Save(Of(a), "passed", "none")
  /\ Goto(a, "done") /\ OwnWrite

\* propagate_rejection decides by the source as the pass first read it.
PropagateRejection(a) ==
  /\ At(a, "rejected")
  /\ LET w == {t \in Sources(Of(a)) : pass[thread[a].pass].board[t].state = "review_pending"}
     IN IF w # {} THEN \E t \in w : Save(t, "blocked", "rejected") ELSE UNCHANGED file
  /\ Goto(a, "failing") /\ OwnWrite

ThreadStep(a) ==
  \/ StartAttempt(a) \/ Completes(a) \/ Fails(a) \/ FinishRefused(a) \/ ThreadFails(a)
  \/ SettleRefused(a) \/ SettleHeld(a) \/ FailoverFromThread(a) \/ SupersedeFromThread(a)
  \/ SettlePacket(a) \/ Judge(a) \/ SettleFailed(a) \/ CreateReview(a) \/ WriteLink(a)
  \/ SettleReviewPending(a) \/ AcceptSource(a) \/ SettleAccepted(a) \/ SettleReview(a)
  \/ PropagateRejection(a)
-----------------------------------------------------------------------------
(* The operator *)

ResolveHeld(a) ==
  /\ row[a].state = "held"
  /\ \E s \in {"failed", "abandoned"} : Move(a, s)
  /\ UNCHANGED <<boardVars, runnerVars>>

\* As if the sweep did not compare the state again.
SweepCompleted(a) ==
  /\ row[a].state \in {"dispatching", "completed"}
  /\ SweepDuringPass \/ At(a, "none")
  /\ Move(a, "held")
  /\ UNCHANGED <<boardVars, runnerVars>>
HoldAbandoned(a) ==
  /\ row[a].state = "dispatching"
  /\ SweepDuringPass \/ At(a, "none")
  /\ Move(a, "held")
  /\ UNCHANGED <<boardVars, runnerVars>>

\* board-new retry: a successor task, and the predecessor superseded; a review's link
\* moves to its successor, and a review whose artifacts are staged without one is refused.
Retry(t, s) ==
  /\ RetryDuringPass \/ \A q \in Passes : pass[q].pc = "idle"
  /\ file[t].state \notin {"absent", "accepted", "passed", "review_pending"}
  /\ Kind[s] = Kind[t] /\ s \notin Range(ReviewOf) /\ NextRetryId(t, s)
  /\ ~(t \in Range(ReviewOf) /\ Sources(t) = {})
  /\ file' = [file EXCEPT ![s] = [Fresh EXCEPT !.from = file[t].from],
                          ![t].state = "blocked", ![t].reason = "superseded"]
  /\ link' = [w \in BoardTasks |-> IF Kind[t] = "review" /\ w \in Sources(t)
                                   THEN [link[w] EXCEPT !.review = s] ELSE link[w]]
  /\ UNCHANGED <<failovers, ledgerVars, runnerVars>>

OperatorStep == \/ \E a \in AttemptIds : ResolveHeld(a) \/ HoldAbandoned(a)
                \/ \E t, s \in BoardTasks : Retry(t, s)

Next == \/ \E q \in Passes : PassStep(q) \/ Crash(q)
        \/ \E a \in AttemptIds : ThreadStep(a)
        \/ OperatorStep

\* launchd starts pass after pass and a live process keeps running; operators promise
\* nothing.
Spec == /\ Init /\ [][Next]_vars
        /\ \A q \in Passes : WF_vars(PassStep(q))
        /\ \A a \in AttemptIds : WF_vars(ThreadStep(a))
-----------------------------------------------------------------------------
(* Properties *)

\* A task is never worked on twice at a time: of its attempts at most one is queued,
\* dispatching or run by a live thread, through deaths, resolutions, requeues and sweeps in
\* any order, also when a sweep under a running thread makes the runner offer its task anew.
Worked(a) == row[a].state \in {"queued", "dispatching"} \/ Live(a)
WorkedOnce == \A a, b \in AttemptIds : Worked(a) /\ Worked(b) /\ Of(a) = Of(b) => a = b

\* "Mark the task dispatched before any dispatch so an overlapping or later tick can never
\* submit a second attempt for it": no task has two attempts in flight, passes that overlap
\* included.
SingleFlight == \A t \in BoardTasks : Cardinality(Rows(t) \cap ActiveRows) <= 1

\* A source is accepted on the board only after the ledger accepted the very attempt its
\* link names, whatever retries of the review came before.
AcceptedInLedger ==
  \A t \in BoardTasks : file[t].state = "accepted" =>
    link[t].attempt # NoAttempt /\ row[link[t].attempt].state = "accepted"

\* "The runner never accepts or re-blocks a superseded source": once closed by a retry or
\* a failover, a task file stays as it is, although passes write from old snapshots.
SupersededStays ==
  [][\A t \in BoardTasks : Superseded(file[t]) => Superseded(file'[t])]_vars

\* The runner authors at most one failover for a task, from its loop or its threads, also
\* when it dies between the successor and the supersession; a failover never fails over.
FailoverOnce ==
  \A t \in BoardTasks : failovers[t] <= 1 /\ (file[t].from # NoTask => failovers[t] = 0)

\* The runner moves ledger attempts only along the lifecycle the ledger promises; each
\* admission is a ledger task of its own.
Lifecycle == INSTANCE AttemptLifecycle
  WITH TaskIds <- AttemptIds,
       state <- [a \in AttemptIds |-> row[a].state],
       owner <- [a \in AttemptIds |-> IF row[a].state = "absent" THEN NoTask ELSE a]
FollowsLifecycle == Lifecycle!LifecycleSpec

\* A task whose newest attempt ended badly is taken up by a later pass (or another attempt
\* replaced the dead one), however many passes died over it.
DeadRequeued ==
  \A t \in BoardTasks :
    (file[t].state = "dispatched" /\ Dead(t)) ~> ~(file[t].state = "dispatched" /\ Dead(t))

\* A dispatched task that nobody works on and no attempt holds is taken up again, also
\* when the runner died before it admitted the attempt.
Stranded(t) == /\ file[t].state = "dispatched"
               /\ Rows(t) = {}
               /\ \A q \in Passes : pass[q].pc = "idle"
StrandedRequeued == \A t \in BoardTasks : Stranded(t) ~> (file[t].state # "dispatched")
=============================================================================
