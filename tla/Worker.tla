------------------------------- MODULE Worker -------------------------------
(***************************************************************************)
(* Worker processes around the ledger: execute() of                         *)
(* src/inference_grid/worker.py, the deterministic scheduler                *)
(* (scheduler.py) that admits pending tasks, and hold_abandoned()           *)
(* (ledger.py) that sweeps attempts whose worker is gone.                   *)
(*                                                                         *)
(* Each step below lies between two points where another process can run:   *)
(* a ledger transaction, a look at the adapter, a signal to its group.      *)
(* Deliveries are (attempt, generation) pairs that may be repeated or       *)
(* stale; a worker may die between any two steps, and the adapter it        *)
(* started (a process group of its own) survives it.                        *)
(***************************************************************************)
EXTENDS Ledger, Sequences

CONSTANTS
  Workers,
  Rank,        \* task -> place in the order by (priority, id)
  Candidates   \* task -> sequence of [account, estimate], the operator's route policy

\* A candidate's account may be a name that nothing configured: claim() refuses it.
ASSUME CandidateAssumption ==
  Candidates \in [TaskIds -> Seq([account : Accounts, estimate : Estimates])]

VARIABLES
  job,         \* what each worker process is doing
  adapter,     \* the adapter process group of each attempt
  launches,    \* how often an adapter was started for an attempt (history)
  pass,        \* scheduler tick: tasks still to be placed, next candidate of the first
  sweep        \* hold_abandoned: attempts read as dispatching, still to be held

workerVars == <<job, adapter, launches>>
callerVars == <<pass, sweep>>
gridVars == <<vars, workerVars, callerVars>>

Idle == [pc |-> "idle", attempt |-> NoTask, generation |-> 0, receipt |-> NoReceipt]

GridInit ==
  /\ Init
  /\ job = [p \in Workers |-> Idle]
  /\ adapter = [a \in AttemptIds |-> "none"]
  /\ launches = [a \in AttemptIds |-> 0]
  /\ pass = [queue |-> {}, candidate |-> 1]
  /\ sweep = {}
-----------------------------------------------------------------------------
(* execute(aid, generation) *)

At(p, pc) == job[p].pc = pc
Goto(p, pc) == job' = [job EXCEPT ![p].pc = pc]
Executing(a) == \E p \in Workers : job[p].attempt = a
LedgerUntouched == UNCHANGED <<vars, callerVars>>

\* start() refuses every delivery but one; an attempt it holds is not executed either.
Execute(p, a, g) ==
  /\ At(p, "idle")
  /\ Start(a, g)
  /\ job' = IF attempts'[a].state = "dispatching"
            THEN [job EXCEPT ![p] = [pc |-> "staging", attempt |-> a, generation |-> g,
                                     receipt |-> NoReceipt]]
            ELSE job
  /\ UNCHANGED <<adapter, launches, callerVars>>

\* Inputs verified and copied, the adapter started in a session of its own.
Launch(p) ==
  /\ At(p, "staging")
  /\ adapter' = [adapter EXCEPT ![job[p].attempt] = "alive"]
  /\ launches' = [launches EXCEPT ![job[p].attempt] = @ + 1]
  /\ Goto(p, "running")
  /\ LedgerUntouched

\* An input changed, a path was unsafe, the directory existed, Popen failed.
StagingFails(p) ==
  /\ At(p, "staging")
  /\ Goto(p, "failing")
  /\ UNCHANGED <<adapter, launches>> /\ LedgerUntouched

\* The poll loop sees the leader gone, without reaping it, ...
SeeExit(p) ==
  /\ At(p, "running") /\ adapter[job[p].attempt] = "exited"
  /\ Goto(p, "stopping")
  /\ UNCHANGED <<adapter, launches>> /\ LedgerUntouched

\* ... or the deadline or the output cap passes first.
\* As if the poll loop had no deadline.
WaitOn(p) == At(p, "running") /\ FALSE /\ UNCHANGED gridVars
GiveUp(p) ==
  /\ At(p, "running") /\ adapter[job[p].attempt] = "alive"
  /\ Goto(p, "failing")
  /\ UNCHANGED <<adapter, launches>> /\ LedgerUntouched

\* As if the exit of the leader were enough.
TrustExit(p) ==
  /\ At(p, "stopping")
  /\ Goto(p, "checking")
  /\ UNCHANGED <<adapter, launches>> /\ LedgerUntouched
\* The kill ends every process of the group, or a live member cannot be signalled and the
\* attempt is held.
StopGroup(p) ==
  /\ At(p, "stopping")
  /\ \/ /\ adapter' = [adapter EXCEPT ![job[p].attempt] = "stopped"]
        /\ Goto(p, "checking")
     \/ UNCHANGED adapter /\ Goto(p, "failing")
  /\ UNCHANGED launches /\ LedgerUntouched

\* Exit code, output size, receipt and artifact hashes.
CheckReceipt(p) ==
  /\ At(p, "checking")
  /\ \/ \E r \in Receipts :
          /\ ValidReceipt(r, tasks[attempts[job[p].attempt].task])
          /\ job' = [job EXCEPT ![p].pc = "finishing", ![p].receipt = r]
     \/ Goto(p, "failing")
  /\ UNCHANGED <<adapter, launches>> /\ LedgerUntouched

\* A finish that lost a race with a sweep is refused and ends like any other error.
FinishJob(p) ==
  /\ At(p, "finishing")
  /\ LET a == job[p].attempt
         current == attempts[a].state = "dispatching"
     IN /\ IF current THEN Finish(a, job[p].generation, job[p].receipt) ELSE UNCHANGED vars
        /\ job' = IF current THEN [job EXCEPT ![p] = Idle]
                             ELSE [job EXCEPT ![p].pc = "failing"]
  /\ UNCHANGED <<adapter, launches, callerVars>>

\* hold() changes nothing unless the attempt is still dispatching.
HoldIfDispatching(a) == IF attempts[a].state = "dispatching" THEN Hold(a) ELSE UNCHANGED vars

\* The except clause holds before the finally clause stops the adapter.
HoldJob(p) ==
  /\ At(p, "failing")
  /\ HoldIfDispatching(job[p].attempt)
  /\ Goto(p, "killing")
  /\ UNCHANGED <<adapter, launches, callerVars>>

\* As if only a clean exit stopped the group.
LeaveAdapter(p) ==
  /\ At(p, "killing")
  /\ job' = [job EXCEPT ![p] = Idle]
  /\ UNCHANGED <<adapter, launches>> /\ LedgerUntouched
KillAdapter(p) ==
  /\ At(p, "killing")
  /\ adapter' = [adapter EXCEPT ![job[p].attempt] =
                   IF @ \in {"alive", "exited"} THEN "stopped" ELSE @]
  /\ job' = [job EXCEPT ![p] = Idle]
  /\ UNCHANGED launches /\ LedgerUntouched

WorkerStep(p) == \/ Launch(p) \/ StagingFails(p) \/ SeeExit(p) \/ GiveUp(p)
                 \/ StopGroup(p) \/ CheckReceipt(p) \/ FinishJob(p) \/ HoldJob(p)
                 \/ KillAdapter(p)

\* The worker process dies, or ends in the error of a last kill that could not be delivered;
\* its adapter does not.
Crash(p) ==
  /\ ~At(p, "idle")
  /\ job' = [job EXCEPT ![p] = Idle]
  /\ UNCHANGED <<adapter, launches>> /\ LedgerUntouched

AdapterExits(a) ==
  /\ adapter[a] = "alive"
  /\ adapter' = [adapter EXCEPT ![a] = "exited"]
  /\ UNCHANGED <<job, launches>> /\ LedgerUntouched
-----------------------------------------------------------------------------
(* Scheduler tick *)

Pending == {t \in TaskIds : tasks[t] # NoSpec /\ ~Attempted(t)}

\* Tasks without an attempt, read outside any transaction.
TickBegins ==
  /\ pass.queue = {} /\ Pending # {}
  /\ pass' = [queue |-> Pending, candidate |-> 1]
  /\ UNCHANGED <<vars, workerVars, sweep>>

Refused(t, c) ==
  (/\ DOMAIN c.estimate # {} /\ \A w \in DOMAIN c.estimate : c.estimate[w] > 0
   /\ aliases[c.account] # NoAccount)
  => ~Admissible(t, aliases[c.account], c.estimate)

\* The next candidate of the first task is claimed, or its refusal moves on to the
\* following one; a task whose candidates are all refused, or that has none, is blocked.
TryCandidate ==
  /\ \E t \in pass.queue :
       LET onward == [queue |-> pass.queue \ {t}, candidate |-> 1] IN
       /\ \A s \in pass.queue : Rank[t] <= Rank[s]
       /\ \/ /\ pass.candidate > Len(Candidates[t])
             /\ pass' = onward /\ UNCHANGED vars
          \/ /\ pass.candidate <= Len(Candidates[t])
             /\ LET c == Candidates[t][pass.candidate] IN
                \/ /\ \E a \in AttemptIds : Claim(a, t, c.account, c.estimate)
                   /\ pass' = onward
                \/ /\ Refused(t, c)
                   /\ pass' = [pass EXCEPT !.candidate = @ + 1]
                   /\ UNCHANGED vars
  /\ UNCHANGED <<workerVars, sweep>>
-----------------------------------------------------------------------------
(* hold_abandoned(before): one read, then one transaction per attempt *)

SweepReads(before) ==
  /\ sweep = {}
  /\ sweep' = {a \in AttemptIds : /\ attempts[a].state = "dispatching"
                                  /\ attempts[a].updated < before}
  /\ UNCHANGED <<vars, workerVars, pass>>

SweepHolds(a) ==
  /\ a \in sweep
  /\ HoldIfDispatching(a)
  /\ sweep' = sweep \ {a}
  /\ UNCHANGED <<workerVars, pass>>

\* The operator resolves a hold from native evidence: worker and adapter have ended.
ResolveEnded == \E a \in AttemptIds, o \in {"released", "consumed"} :
                  adapter[a] # "alive" /\ ~Executing(a) /\ Resolve(a, o)
-----------------------------------------------------------------------------
Caller == Observe \/ Cooldown \/ SubmitTask \/ ResolveEnded \/ AcceptReviewed

GridNext ==
  \/ (Tick \/ Caller) /\ UNCHANGED <<workerVars, callerVars>>
  \/ TickBegins
  \/ TryCandidate
  \/ \E before \in 0..(now + 1) : SweepReads(before)
  \/ \E a \in sweep : SweepHolds(a)
  \/ \E p \in Workers, a \in AttemptIds, g \in Generations : Execute(p, a, g)
  \/ \E p \in Workers : WorkerStep(p)
  \/ \E p \in Workers : Crash(p)
  \/ \E a \in AttemptIds : AdapterExits(a)

\* A live worker keeps taking steps; its deadline bounds the wait for the adapter.
\* Nothing else (operators, deliveries, adapters, sweeps) is assumed to happen.
GridSpec == GridInit /\ [][GridNext]_gridVars
                     /\ \A p \in Workers : WF_gridVars(WorkerStep(p))
-----------------------------------------------------------------------------
(* Properties *)

\* Repeated and stale deliveries, crashes and sweeps never start a second adapter for
\* an attempt: start() is the one gate and nothing takes an attempt back to queued.
LaunchOnce == \A a \in AttemptIds : launches[a] <= 1

\* Work counts as completed only once its whole process group has been stopped, also
\* when a sweep, a crash or a second worker interfered.
CompletedIsStopped ==
  \A a \in AttemptIds :
    attempts[a].state \in {"completed", "accepted"} => adapter[a] = "stopped"

\* A worker that survives settles its attempt: it never stays dispatching for ever.
SettledByWorker ==
  \A a \in AttemptIds :
    (attempts[a].state = "dispatching" /\ Executing(a)) ~>
      (attempts[a].state # "dispatching" \/ ~Executing(a))

\* A worker that is done with an attempt, other than by dying, has settled it in the ledger
\* and left no process of its group, whichever error or lost race ended it.
SettlesAndReaps ==
  [][\A p \in Workers : WorkerStep(p) /\ job'[p] = Idle =>
       /\ attempts'[job[p].attempt].state # "dispatching"
       /\ adapter'[job[p].attempt] \notin {"alive", "exited"}]_gridVars
=============================================================================
