# A verification development for inference-grid

inference-grid runs coding agents of several providers on the operator's own
subscriptions.  Work is admitted through one ledger that keeps quota, slots and
workspaces apart; boards are directories of task files that a runner turns into
attempts; code nodes prove and land the results.  This directory holds TLA+ models of
that program, the TLC configurations that check them and TLAPS proofs about them.
Every definition is translated from the source; `PROJECT.json` ("map") names the lines.

## Inventory

| part | state it keeps | operations | what is hard |
|---|---|---|---|
| admission ledger (`ledger.py`) | SQL tables: accounts with remaining quota and a generation counter, observations, aliases, cooldowns, tasks, attempts, events | configure_account, defer, submit, claim, start, hold, finish, resolve, accept, record_outcome, record_external | readings that arrive late or twice; quota that changes between claim and start; repeated deliveries; two-transaction operations |
| worker (`worker.py`), scheduler (`scheduler.py`) | one process per attempt, the adapter's process group | execute, stop_group; tick | crashes at every step, deadlines, sweeps that race a finish, adapters that outlive their worker |
| board runner (`board/runner.py`, `failover.py`, `new.py`) | task files, review links; in memory the board as read, one thread per attempt | tick (pass loop), settle_attempt, requeue_dead, author_failover, accept_reviewed, retry_task | whole files rewritten from old snapshots without a lock, passes that die between two writes, operators at work meanwhile |
| landing (`board/land.py`) | base ref, lock directory with a pid, task file | land, _acquire_lock, _merge_and_commit | two landings, stale heads, dead lock owners, git errors |
| packet attempts (`board/packet_task.py`, `lanes/packet.py`) | clone, branch, disk reservations, round log | admit_packet, run_packet, build_loop | concurrent clones and the disk floor, agents that hang or stop early |
| routing and readiness (`lanes/route.py`, `lane_readiness.py`, parts of `runner.py`) | lane records in the ledger, the pass's readiness view and its frozen `now` | readiness_view, refresh_stale_lanes, route, account_slots, note_model_refusal, board_prepare | records read, merged and written by passes, threads and refreshes; slots other boards take; views that age during a pass |
| collectors (`collector.py`, `deployments/local/collect_*.py`, `refresh_claude.py`, `overlay_build.py`) | claims and cooldowns of the usage endpoint; observation files, the overlay | collect, poll, build, snapshot, project | calls whose wait cannot be stored, chains that stop half-way, windows carried over failures |
| capacity page and refresh (`deployments/capacity/`, `upload.py`) | one snapshot, refresh requests | request, claim, complete, expire; the agent's loop; the minute uploader | expiry racing completion, lost replies, uploads that overtake one another |
| tick loop (`tick_boards.py`, dead-man) | board threads, one prepare lock, drain flag, heartbeat | run, Drain.on_signal, write_heartbeat, check | draining in every phase, a forced exit that leaves a child, a wedged loop that still beats |
| alarm watcher (`watch.py`) | the state file of alarms told | watch, evaluate, run_notify | dying between the state file and the notifiers, unreadable inputs |
| plan node, drafts and fix plans (`plan_task.py`, `fix_packet.py`) | task files, briefs, `drafts.json` | plan_task, settle_plan, add_draft, author_fix_plan, recover_fix | deaths between two files, two plans that settle together |
| branch review (`branch_review.py`) and merge proof (`verify_merge.py`) | review packets on a board | review_branch, _plan_directory_split, settle_verify_merge | splitting under a budget without losing a change |
| calibration (`board/calibration/`) | case tasks, repositories, eval outcomes | step_calibration_run, step_eval_case, score_calibration | several passes per run, look-alike ids, holds resolved around the scoring |
| lane adapters (`lanes/runner.py`, `zai`, `zcode`, `goat`, `codex`, `opencode`, `go`, `sandbox`) | the attempt's workspace and verdict; the provider's command, its record and the user's login files | main, run of each lane, classifiers, expected_artifacts | commands that end on the deadline, login files that change, records that look complete |
| receipts, reports, dashboards, command line | none | pure functions and views | boundary cases |

How they interact: the runner and the workers call the ledger, each call one
transaction; passes, threads, landings and operators share the task files and nothing
locks them; the adapter is a process group of its own that a crash does not stop; the
tick loop starts one pass at a time per board; collectors feed configure_account, defer and
the lane records that routing reads; the plan node and the branch review author tasks for
the same boards; the phone's requests reach the collectors through the refresh agent;
landings run at the end of each pass and from the command line.

What must hold, per part: the ledger never promises the same quota, workspace or task
twice, never forgets a debit, and never starts what it would no longer admit; a worker
starts at most one adapter per attempt and leaves none behind; a task file agrees with
the ledger about what may still run, one failover is authored at most, and what died is
taken up again; landings lose nothing and only gated trees become the base; a provider that
asked to be left alone is, a refused model is not tried again for a day, and a number on
the page is as old as its stamp says; every owed fix plan, every change to review and every
eval outcome arrives once and truly; boards never wait on one another, a drain ends, and
an alarm that stays is told.

## Modules

| module | models | notes |
|---|---|---|
| `Ledger` | every transaction of class Ledger over accounts, quota, tasks and attempts | one action per transaction; a refusal is an action that is not enabled; record_external is two actions |
| `AttemptLifecycle` | the abstract promise: one attempt per task for ever, and the states an attempt may go through | the ledger implements it (`Ledger!ImplementsLifecycle`), and the board moves attempts only along it (`Board!FollowsLifecycle`) |
| `Worker` | execute(), scheduler tick and hold_abandoned() composed with `Ledger` | each step lies between two points where another process can run |
| `Board` | the pass loop, attempt threads, settlement, review links, failover, requeue, operator retry, resolve and sweep | the ledger reduced to attempt states and one account's slots |
| `Land` | land() with its lock, probe, merge, ref move, checkout sync and settlement | a commit is the set of packets merged into it and the board files it holds |
| `Packet` | run_packet from the disk guard to the settlement, build_loop round by round, several attempts against one volume | `Board` sees an attempt's thread only as its end; this module is what runs in between |
| `TickLoop` | run() with a thread per board, the prepare lock, Drain, forced exits, heartbeat and dead-man | time in units; a board-tick is one state with a timeout |
| `Watch` | watch(): alarms in, events out, state file, notifiers | per kind of alarm the age of what was told |
| `Routing` | one pass's routing of its ready tasks, readiness records and views, own and other boards' slots, refused models, and the prepares of the loop and of the pass that write the records anew | the quota tiebreak is any lane that may be selected |
| `Collector` | one account's collections: admission, claim, response, cooldown | accounts do not interact |
| `Readings` | one provider's reading from the poll to the page: observation file, quota file, rollouts of several homes and their merge, overlay, feed, projection | a reading is its stamp, its status and its windows, of each when its percentage and its reset were read, or that they are missing |
| `Refresh` | the server's request rows and snapshot, the agent, the minute uploader | a snapshot is the version of the feed it was read from |
| `Drafts` | plan attempts, drafts list, releases, fix plans authored by settlement and by later passes, the failovers that supersede a packet after either | `Board` sees none of it but the failovers |
| `ReviewPlan` | the packets of a range, commit, directory or branch review, what is left out of them, and the writing of their files | sizes are small numbers; a range is its commits and the paths its diff names |
| `Calibration` | corpus runs and single cases from authoring to the recorded outcome | a reply is right or wrong |
| `LaneRun` | one attempt on any of the six lanes, from the dispatch to the receipt or the refusal | a record is what was served, how many ends it reports and of what form; `Worker` sees the adapter only as its exit |
| `LedgerProofs`, `BoardProofs`, `PacketProofs` | theorems about `Ledger`, its refinement and `Worker`; `Board`; `Packet` and `MCAttempts` | see Proofs |
| `NodeProofs`, `LaneProofs`, `CapacityProofs`, `LoopProofs` | theorems about `Land`, `Drafts`, `Calibration` and `ReviewPlan`; `LaneRun` and `Routing`; `Collector`, `Refresh` and `Readings`; `TickLoop` and `Watch` | see Proofs |
| `ServicesProofs` | theorems about `MCServices`, eight services side by side, and about `MCLoop` | see Proofs |
| `MCBoard`, `MCLand`, `MCPacket`, `MCReview`, `MCRouting`, `MCDrafts` | small instances | constants only |
| `MCLedger` | a small instance in two parts | a variable `part`, chosen at the start, says whether quota or names and tasks move |
| `MCAttempts`, `MCLoop`, `MCServices` | small instances of several modules that share no variable | `part` (in `MCLoop` `moving`), chosen at the start, says which of them moves; the states of the run are the sum of theirs |

State and actions keep the source's names where TLA+ allows.  Definitions introduced by
a comment "As if ..." are variants of the definition that follows them, each a bug that
code could have; a property is only kept if such a variant breaks it.

What is abstracted: time is a natural number; a digest is the value it digests; a task
specification is its model, family, workspace and manifest; a receipt is whether it is
terminal, well formed and for this model and input; a merge conflicts, or gates fail, by
choice; routing over lanes, drafts and dependencies decide only whether a ready task is
tried, which is a choice of `Board` (and the subject of `Routing` and `Drafts`).  In `Packet` sizes are small units, a tree is whether gates have
judged it, the outcome of a round's gates is a mark, and an agent ends as it likes; once
its process is gone it writes no more into its clone (supervision kills the group of an
agent that was cut, not what a clean exit left behind: that is an assumption).  Files of
reservations are created empty, written, listed and read one at a time; a claim may expire at
any time after it was written, under a live clone too, as nothing bounds a clone.  In
`Worker` the kill of a group may fail (a live member that cannot be signalled), which holds
the attempt; the error of a last kill that fails is a crash.  In `Readings` two events of the
Codex homes have different stamps (with equal ones the code's sort compares records and
raises).  In `ReviewPlan` the ids of different commits and directories differ: that names
which differ only in punctuation, or beyond the sixtieth character, share one is not
modelled.  In `Board` plan,
fix, canary, verify_merge and calibration nodes are left out: each writes its own file, and
none ends or starts an attempt in a way the three kinds modelled (work, review, packet) do
not.  In `Land` the command line
and the pass differ only when git fails: the pass blocks the task (modelled), the command
leaves it passed, as if the landing had not begun.

## Runs

| run | instance | shows |
|---|---|---|
| `ledger` | part quota: 2 attempts, 2 tasks in workspaces of their own, 1 account, readings for two slots, one slot and a second window, clock to 2, readings up to 1 ahead. Part admission: 2 attempts, 2 tasks, 2 names either of which may become the other's alias, outcomes, external work; clock stopped | type correctness, exclusive workspaces, no debit lost to a late reading, dispatch within the last reading, cooldowns honoured; one attempt per task, aliases canonical, credit sound, lifecycle implemented |
| `ledger_debit` | the part quota, one reading | violated: a hold resolved as consumed loses its debit to an older reading |
| `attempts` | part packets: 2 attempts of sizes 1 and 2, 3 units of which 1 is the floor, up to 3 rounds for the first and 1 for the second, deaths, errors, sweeps and expired claims at any step. Part workers: 2 workers, 2 tasks in one workspace, 1 account with two slots, a route that begins with an unknown alias | claims are seen, work is kept, completion follows green gates, rounds are justified, living attempts settle; one launch per attempt, completed work is stopped, surviving workers settle and reap |
| `board` | a work task, its review, a packet, two ids for successors, 3 attempts for two slots, 1 pass death; sweeps and retries between passes | acceptance agrees with the ledger, superseded files stay, lifecycle followed |
| `board_swept` | 3 packet ids, 2 attempts, two slots, 1 death, sweeps under a running pass | a task is worked on once at a time, one failover per task, dead tasks are taken up again |
| `board_superseded` | as swept, operator retries while a pass is alive, no death | violated: the pass rewrites a superseded task |
| `board_stranded` | as swept without sweeps | violated: a death between marking and admission strands the task |
| `board_overlap` | as swept, two passes at a time, no sweep and no death | violated: both passes admit an attempt of the same ready task |
| `loop` | part landings: 2 landings of a board kept in git, 1 packet passed and 1 that may pass meanwhile, 1 death. Part boards: 2 boards, idle 1, busy 1, a tick of up to 2 units, a prepare of up to 1, a margin of 1, drains and forced exits. Part alarms: a reading and an upload alarm, told again after 2 units, 2 deaths or failing notifiers | lock exclusive without deaths and base gated, passed packets settled; boards never wait on one another, a drain ends with what is in flight, the dead-man neither alarms for a board that passes within the margin nor stays silent for a loop that stopped; a problem that stays is told |
| `services` | eight parts: requests (2 requests, clock to 3, lost replies); collection (2 callers, 3 calls); readings (each provider, one window, 2 Codex homes, clock to 2); calibration (2 cases, one's id beginning the other's, 1 death); review (6 ranges over 6 paths, 17 requests, 1 death, 2 requests asked); routing (2 lanes on an account of one slot, 3 tasks, a window that closes, 1 publication, prepares at any time); drafts (1 build with its fix plan and its failover, 1 ticket, 2 packet ids, 1 death, 3 passes); lane (a free task on every lane, tasks with a listed or an unusable listing, each reason to decline, 1 change of the login files, the worker's kill at any step) | receipts earned; one answer per request, and what was collected is shown; the provider's wait respected; readings honest; evals true; nothing left unreviewed but what a taken id hides; refused models left alone until a prepare forgets them; owed fix plans authored |
| `land_lost` | 2 landings of 2 packets, no death | violated: the later landing's base forgets the earlier one |
| `packet_floor` | the two packet attempts of `attempts` | violated: free space measured before, and claims summed after, another clone |

The six violated properties are divergences between a comment or document and the code;
PROJECT.json ("findings") quotes both.  Three more of the kind have a configuration and no run
among these: see "Met while modelling".

`MCAttempts`, `MCLoop` and `MCServices` put modules that share no variable side by side:
the run's behaviours are those of each module, with the others still at their first state.
Nothing is lost by it, as no action of one reads a variable of another, and a liveness
property is stated for the part that moves.

Why the bounds are enough: each hazard is a race between two actors over one record, and
each instance has two of the actors and of the record (attempts of an account, names,
workers, landings, successors) plus the deaths, readings and clock steps the race needs.
Two attempts are the least for which slots, quota and workspaces conflict; a third one on
the board lets a retried task run again after a death.  In `attempts` the two clones fit
one at a time and not together, so each guard's answer depends on what it saw of the
other; three rounds are the least in which an idle round is followed by one that is not
and by an idle one.  Symmetry is used only for model
values that no order or choice tells apart, and only in runs without liveness.  Where one instance
would carry too many states its parts run apart (quota and names in `ledger`, packets and
reviews on the board).  One round is enough for the second packet of `attempts`: its rounds
touch nothing of the first but the space its clone holds.  In `Readings` one window is enough,
as nothing compares windows, and in `review` six ranges: a path too large, a directory too
large, documents, generated files, a file deleted again and one made and deleted within the
range.  In `services` each
part has two of what competes (requests, callers, homes, cases, lanes, packet ids) and a
clock on which every wait expires; a death may come at every step.  The bounds are the clocks (`MaxTime`, `MaxClock`, `CollectClock`, `ReadClock`,
`RouteClock`), deaths and faults (`MaxCrashes`, `Falls`, `AuthorFalls`, `DraftFalls`,
`WatchFaults`), repetitions (`MaxRounds`, `Calls`, `Asks`, `Publications`, `DraftPasses`, `Logins`) and
the finite id sets; ages in `TickLoop` and `Watch` stop counting at the oldest one that
matters.  Deadlock checking is off where the system may
stop: ids run out and the clock ends.

Assumptions the runs make explicit: operators resolve a hold only after its worker and
adapter ended (`Worker!ResolveEnded`, the docstring of resolve asks for native evidence);
one pass at a time per board (the tick loop starts the next when the last has ended; a forced
exit breaks it, and `board_overlap` shows what then happens); in `board` sweeps and retries
happen between passes (`board_superseded` shows a retry under a pass, and `board_swept` runs
with sweeps under it).  Nothing is assumed of prepares: board_prepare runs before every tick
of the loop, and of other boards' ticks while a pass runs, and writes the lane records anew.

Fairness: a worker, a pass, an attempt's thread and a landing that is alive keeps running
(weak fairness of its steps: each is one process or thread that nothing else blocks, with
a deadline for every wait: the wall for agents, timeouts for gates), and the tick loop starts passes again and again.  Operators,
deliveries, sweeps, deaths and clocks promise nothing.

## Proofs

The theorems hold for every value of the constants that satisfies the assumptions named in
the modules; TLC evaluates those on every instance.  Each safety property of a passing run,
invariant or action property, is stated by one of them.  Each theorem has the same shape: an
inductive invariant that TLC had checked on the instance, one lemma per action or group of
actions, the property read off it.  The sections name the invariant and why the property
alone is not inductive.  Some properties are stated by theorems only, with no run of their own
(`HeldIsOver`, `TaskIsOwned`, `WorkFlightIsSingle`, `VolumeKept`, `DispatchSuited`,
`TellingRecorded`, `NoticesSpaced`).

The assumptions say what the code's data are and no more: rows of the ledger, attempts of a
volume and requests are finitely many, amounts and times are naturals, a clock that counts
has begun, the order of tasks is a sequence that lists each once, and a sentinel (no account,
no lane, no pid) is none of what it stands beside.

### The ledger (`LedgerProofs`)

- `LedgerInvariant`: `TypeCorrect` and the invariant from which `TaskAttemptedOnce`,
  `WorkspaceIsExclusive`, `GenerationIsFence`, `AliasesAreCanonical` and `OutcomesAreSound`
  follow.  The fence needs every generation to be at most its account's counter; aliases
  need observations and configured capacity to agree; outcomes need the recorded attempts of
  record_external to be completed and never to return to an active state.  The transitions
  of an existing row share one lemma (`AdvanceKeepsInv`).
- `CooldownIsHonoured`, an action property, and `LedgerImplementsLifecycle`, the refinement
  of `AttemptLifecycle`.
- `HeldStaysOver` and `TaskStaysOwned`, what that refinement is for, as statements about all
  of the future: an attempt that was held never runs or completes afterwards, and a task stays
  its attempt's.  They follow from the lifecycle's steps alone (`LifecycleStep`).
- `QuotaInvariant`, `DebitsAreKept`, `DispatchesFit`: no debit is lost to a late reading, and
  what starts fits the last reading.  Both relate sums over sets of attempts.  The
  invariant (`QuotaInv`) says of each observed account that its tables mirror the reading,
  that whatever is reserved costs something, and that what is left is at most what the
  reading gave less what completed since.  The sums are those of SumFunctionOnSet; what the
  fold computes on a set with one element more or with one changed value is proved first.
  An induction over the size of a set is written as an argument by least counterexample
  (`LeastNatural`), because the library's induction theorems take an operator that no
  installed prover can instantiate.  `AttemptIds` is finite and quota amounts are naturals
  (`AttemptsAssumption`, `SnapshotAssumption`, `EstimateAssumption`).

### Workers around the ledger (also `LedgerProofs`)

- `GridImplementsLedger`: every step of execute(), tick() and hold_abandoned() is a step of
  the ledger or leaves it alone, so all of the above holds with workers that die and sweeps
  that race them (`LedgerHoldsUnderWorkers` says it property by property).
- `GridInvariant` then says who holds an attempt: a busy worker holds one that start() let
  run, and no other worker holds it; an attempt that was never started has no adapter.  `AdapterLaunchesOnce` and `CompletedHasStopped` follow, and the action property
  `EndsSettled`.  A candidate list is a sequence of accounts and estimates
  (`CandidateAssumption`).

### The board runner (`BoardProofs`)

A pass decides from the board it read when it began, so an invariant that relates files to
files is never inductive: a stale write can undo it.  The argument goes through the snapshot.

- `BoardInvariant` (`StructInv`): types; how far each pass has come through its snapshot
  (`Visited`); a thread's task was ready in the snapshot and has been visited, and no other
  thread runs for it.
- `FailoverIsOnce`: a failover the snapshot does not show was authored by this pass, from the
  loop for a task it read as blocked, or by the one thread of a task it read as ready
  (`FailoverInv`), so neither will be authored again.  Whatever the operator does.
- `ClosedForGood`: the same of a supersession (`ClosureInv`), with what each review link says
  (`LinkInv`: a review has one source, and that is a linked work task), as accepting a review
  writes another task's file.  Needs `~RetryDuringPass`; with it TLC refutes it
  (`board_superseded`).
- `WorkFlightIsSingle`: at most one attempt of a work or review task is queued, dispatching,
  held, completed or accepted, the one that is completed or accepted is its newest, and a task
  that is ready, or was in the snapshot and has not been visited, has none (`FlightInvariant`).
  Retries and sweeps may come at any time: a thread whose attempt was swept blocks the task.
  Not so of packets: a packet's thread puts the task back to ready when finish() is refused,
  although the attempt is held, so the invariant says nothing of packets that may be swept
  under their thread (`Exposed`).
- `WorkIsSingle`: of any task, packets included and swept as you like, at most one attempt is
  worked on at a time: queued, dispatching or run by a live thread (`OnceInv`).  What a held
  attempt can no longer do is write, as its thread has left it; so the second attempt that the
  offer of the task brings about runs alone.
- `AcceptedIsInLedger`: a link names the one finished attempt of its task, and a thread that
  accepts has accepted it in the ledger first (`ResultInv`).  That a completed attempt's task
  has no link yet (`Unlinked`) is where `FlightInv` is needed: a second result would
  overwrite the link of an accepted one.  Only work tasks are linked, so sweeps may come at
  any time.
- `RunnerFollowsLifecycle`: with any number of passes, sweeps and retries; a loop that starts
  a packet holds a queued attempt of its own (`StartingInv`).

All but the last assume that passes over a board do not overlap (`OnePass`), which the tick
loop provides but for a forced exit; `board_overlap` shows what happens without.
The only facts about the constants are that the order lists every task once and that a work
task's review has an id of its own.

### Packet attempts (`PacketProofs`)

- `PacketInvariant`: for any number of attempts of any sizes.  A step of one attempt changes
  nothing of another but the free space (`StepTyped`), so what is said of one attempt (`Local`: its
  claim, its work, its gates, its last round) takes one case per action (`StepLocal`).
  The guard relates two attempts: of two, at most one has missed the other's claim
  (`NoMutualMiss`).  An attempt misses a claim only by listing before the file is there
  or reading it before it is full, and its owner lists only after it is full
  (`StepMisses`), the argument of a mutual exclusion by flags raised before they are read.
  A claim that expired is no flag any more, whether its clone lives or not: of such a clone
  nothing is claimed.
- `ClaimsAreSeen`, `ClaimsAreReleased`, `WorkIsKept`, `CompletedAreGated` and the action
  property `RoundsAreJustified` follow from it.  The floor itself does not: `packet_floor`
  shows that seeing each other's claims does not imply it.
- `VolumeIsKept`: what is free and what the clones hold add up to the volume, for any number of
  attempts, whatever clones fail, processes die and reclaims remove (`BoundInv`).  That a
  write fits is known only of the sum, so the types of `free` and `written` need it; what a sum
  loses or gains with one attempt is taken from `LedgerProofs`.
- `AttemptsImplementParts`: a behaviour of packets beside workers (`MCAttempts`) is one of
  `Packet`, one of `Worker` and one of `Ledger`; `AttemptsSound` and `AttemptsSteps` carry the
  theorems about them over to the module the run checks, for every instance of it.

### Nodes of the board (`NodeProofs`)

- `LandingIsSound` from `LandInv`: while none has died, whoever holds the lock is named by it
  or is about to be, alone; and what a landing is about to make the base has been gated.  A
  pid is neither "none" nor "nopid" (`LandersAssumption`).
- `FixIsRecovered` from `DraftsInv`: a packet that the pass read as blocked, and whose verdict or
  board text owes a plan, is still to be visited, or its plan is on the board, also when its
  failover supersedes it meanwhile; a plan file comes before its brief.  `DraftsTyping`: the types.
- `EvalsAreTrue` from `CalibrationInv`: an attempt that has not ended has no outcome, and an
  accepted one was completed with the right reply; a corpus run that scores has waited for
  every case and scored those behind it.  The node of a corpus is no case (`CalibrationAssumption`).
  `CalibrationTyping` adds that the order in which the ledger's rows were updated, which decides
  the attempt that a look-alike id finds, lists every case once at most (`UpdatedOnce`).
- `NothingIsUnreviewed` from `ReviewInv`: what is planned, written or passed over covers the
  change at every point of the writing, through deaths.  An id that was passed over counts only
  when its packet covers the change, or is one of the two exceptions that the property names: a
  packet of a request that filtered the change out, or of an author that died before the brief.
  `ReviewTyping`: every packet that is written has an id and a scope that a request of the board
  can give it.

### Lanes and routing (`LaneProofs`)

- `ReceiptIsEarned` from `LaneInv`: what the adapter has made sure of when it publishes
  (`Gathered`) is what the receipt needs; a change of the user's files while the command runs
  moves them past the digest taken before it.
- `RefusalIsHonoured` from `RouteInv`: every record holds the last refusal that was noted and not
  written over by a prepare since, and what a pass knows of it is in each view it takes.
- `DispatchIsSuited`, an action property: a task is dispatched only on a lane that was selectable
  for it at the pass's last look (its candidates, its category, another family than its
  author's, readiness, an open window).  Between that look and the admission the pass may wait
  for a slot, join threads and run the prepare command, so what it holds on to is an
  invariant of its own (`Decided`).  Prepares may come at any time.
- `RouteTyping`: types, and that this board's and other boards' admissions together never
  exceed an account's slots.  `LaneTyping`: the types of an attempt on a lane.

### Collection and the page (`CapacityProofs`)

- `ProviderIsRespected` from `CollectorInv`: while nobody holds the claim, the stored time
  covers the time the provider asked for; who holds it has stored that time or is about to.
- `RefreshAnsweredOnce` from `RequestRowsInvariant`; `CollectedIsShown` from
  `DashboardInvariant`: once a phone is told "collected", the dashboard shows a feed at least
  as new, and an upload that read an older one has no later stamp and will be refused (`Kept`);
  the agent's own upload carries this on the way (`Carried`).
- `ReadingsAreHonest`: a percentage that is shown was read at its stamp and a reset at its stamp or
  its label, in every file on the way; the merge of the homes is the one place where numbers of
  different readings meet, and labels the resets it takes from elsewhere (`MergedReading`).
- `RefreshTyping` and `ReadingsTyping` bound what the page can show: a request collects once at
  most, so the feed has no more versions than there are requests; nobody has read a version that
  is not there yet (`BoundsInv`); no stamp of any file lies ahead of the clock.

### The tick loop and the alarms (`LoopProofs`)

- `DrainIsPrompt` from `LoopInv`: an argument by budget.  Every board that waits for the prepare
  lock or holds it may take its timeout once, and nobody joins them after the signal; a tick
  that runs began before it.
- `DeadmanIsTrue`: the heartbeat file is a copy of what is in memory, or older.  A board that goes
  on passing, each pass within the margin, has passed at most a sleep and a margin ago, which a
  beat later is in the file (`calm` counts for how long it has done so, `spent` the pass under
  way).  A first pass is given longer than a sleep, as configured (`AllowanceAssumption`).
- `NoticesAreSpaced`: no alarm is told again before it is due.  A pass decides from the entries
  it read and writes later, when time has passed; `WatchInvariant` says that what it decided
  still agrees with the file when it writes (`PassDecided`), and that whatever is being told has
  its entry on disk (`TellingRecorded`), so a pass that dies while telling is not repeated.

### The services together (`ServicesProofs`)

- `ServicesImplementParts`: a behaviour of the eight services implements the specification of
  each of them: a step is a step of one and a stutter of the others.
- `ServicesTyping`, `ServicesSound` and `ServicesSteps`: the type invariant, the safety
  invariants and the action properties that the run `services` checks, for every instance.
- `LoopImplementsParts` and `LoopSound`: the same of landings, the boards' loop and the watcher
  (`MCLoop`), of which the run `loop` also checks what must happen in the end.

### Only model-checked

- Liveness (`PacketsSettle`, `SettledByWorker`, `DeadRequeued`, `BoardsIndependent`,
  `ProblemTold`, `LandingsSettle`): fairness and ENABLED are out of the prover's reach.
- Divergences: that the free space stays above the floor, and the other properties of the runs that
  expect a violation, are false of the code, so there is nothing to prove.

`Ledger!GenerationFence` and `Packet!ClaimsReleased` are proved and no longer checked by a
run of their own.

## Met while modelling, without a run

Four of these contradict what a comment or a document says; three are stated as properties that
TLC refutes with the configuration named (`tlc -config X.cfg M`):

- `Drafts`, `FixNeverLost` (`FixUnrecovered.cfg`, `MCDrafts`): recover_fix reads the verdict and the
  board text and skips superseded packets (fix_packet.py:310-313), the settlement also reads the
  ledger's reason (runner.py:1745).  A pass that dies after such a settlement, or a plan lane that is
  marked after the failover, leaves the packet without its plan, although docs/BOARD.md:141 and the
  docstring of recover_fix say the pass loop recovers it.
- `Routing`, `RefusalLasts` (`RefusalForgotten.cfg`, `MCRouting`): board_prepare runs before every tick
  (tick_boards.py:123-133) and its whole-row write takes away the exclusion of a refused model that
  docs/CONTRIBUTIONS.md:144 promises for 24 h.
- `ReviewPlan`, `RerunResumes` (`ReviewResumes.cfg`, `MCReview`): the packets of a split carry no
  label, so a second filtered review of the range skips what the first one authored under the same
  id, although the comment at branch_review.py:595 says labels keep them apart; and a death between
  a task file and its brief leaves a task that no pass can stage and a re-run skips, although the
  comment at branch_review.py:732 says a re-run resumes.
- `TickLoop`: a tick within its timeout but longer than the dead-man's threshold raises the alarm,
  although the comment at tick_boards.py:47 says the watch detects a silently dead loop, not a busy one.

The others are reachable in the module named, and no document promises the opposite:

- `Drafts`: two plan attempts that settle together may lose an id from `drafts.json`
  (`add_draft` reads the list, truncates the file and writes it back), and the lost draft is
  built unreleased, although docs/BOARD.md says a draft waits.
- `Routing`: of two refusals noted at the same time one is kept.
- `Routing`: the wait for the pass's own slot looks at routed candidates only, so a lane
  that is not ready for another reason as well is refused without waiting.
- `Calibration`: case attempts are found by `LIKE '<task id>-%'`; a look-alike id takes the
  rejection of another case.  A death after record_outcome and before the node is saved
  records twice.
- `TickLoop`: calibrate() before the threads start is not guarded, and an error there ends the
  loop; a forced exit leaves the board-tick child.
- `Watch`: a re-raised event carries the current alarm's `since` and not the first one's, and
  an input that cannot be read looks as if its alarm had cleared.
- `LaneRun`: the worker's kill at its deadline ends the adapter's process group, not the
  command's, which the adapter started in a session of its own: the command goes on, in the
  workspace, with nobody to read it.
- `LaneRun`: the opencode lane qualifies a run without asking for its exit code, unlike the
  other four with a command, so `ReceiptEarned` says less of it; and where killpg is refused for a group whose
  leader has exited (Darwin, lanes/process.py:49) the signal of these five lanes at the deadline ends
  the adapter without a verdict, as they do not use signal_group.
- `Packet`: the claim of a live clone that takes longer than an hour is ignored
  (packet_task.py:464-466), and the next clone does not count it; a sweep under a live packet
  leaves its task ready while the attempt is held (runner.py:1701-1706).
- `Land`: a death after the ref move leaves a landed packet that a later landing blocks.

## Not modelled, and the plan

Left out for good: provider command lines, prompts and transports, lanes/supervision.py (only
tests call it), dashboards and digests
(read-only), installation, file migration and pruning.  record_lane of the ledger replaces a
validated row; `Routing` models its readers and writers.  docs/SPEC.md speaks of an outbox
row per admission; the code creates that table and never writes it, so there is nothing to
model.  Pages, sessions and device pairing of the capacity server, the text of tickets,
briefs and reports, and integrate.py (patches a person applies) are input and output.

Planned:

1. `TickLoop` composed with a reduced `Board`, so that overlapping passes have their cause
   in the model, and dependencies between packets (`depends_on`) in `Board`.
2. A prepare that carries over, and a recovery that reads what the settlement read, once the code
   has them: `RefusalLasts` and `FixNeverLost` are the properties to check then.
