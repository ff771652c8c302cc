------------------------------ MODULE TickLoop ------------------------------
(***************************************************************************)
(* The process that ticks the boards (deployments/local/tick_boards.py) and *)
(* the dead-man that watches it (tick_boards_deadman.py).                   *)
(*                                                                         *)
(* Each board has a thread: prepare under a lock shared by all boards, tick *)
(* (a child process), sleep.  The main thread authors calibrations, handles *)
(* signals and waits for the threads; a daemon thread writes the heartbeat. *)
(* launchd starts the process again after any exit.                        *)
(*                                                                         *)
(* Time passes in units.  Only durations matter: a timer counts a thread's  *)
(* nap down or its work up, and ages of stamps stop growing at Old.        *)
(***************************************************************************)
EXTENDS Naturals, FiniteSetsExt

CONSTANTS
  Boards,
  Idle, Busy,        \* IDLE_SECONDS, BUSY_SECONDS
  PrepareTimeout,    \* of the board_prepare child
  TickTimeout,       \* of the board-tick child
  Grace,             \* DRAIN_GRACE_SECONDS
  Beat,              \* HEARTBEAT_INTERVAL
  Margin             \* TICK_TIME_MARGIN_SECONDS

ASSUME DurationAssumption ==
  /\ Idle \in Nat \ {0} /\ Busy \in Nat \ {0} /\ Beat \in Nat \ {0}
  /\ PrepareTimeout \in Nat \ {0} /\ TickTimeout \in Nat \ {0}
  /\ Grace \in Nat /\ Margin \in Nat /\ IsFiniteSet(Boards)
  /\ Busy <= Idle
\* As configured: a first pass is given longer than a sleep.
ASSUME AllowanceAssumption == Idle <= TickTimeout + Beat

Threshold == Idle + Beat + Margin
FirstPassAllowance == TickTimeout + Beat + Margin
DrainBound == Max({TickTimeout, Cardinality(Boards) * PrepareTimeout})
Old == Max({FirstPassAllowance + Beat, Threshold, DrainBound, Grace}) + 1

VARIABLES
  process,      \* "down", "starting" (nothing but the main thread) or "up"
  thread,       \* board -> where its loop is
  timer,        \* board -> units left of its nap, or spent in its prepare or tick
  holder,       \* who holds prepare_lock, {} or one board
  draining,     \* the flag, and units since it was raised
  marker,       \* the state file beside the log
  over,         \* the deadline has passed
  progress,     \* in memory: what the next beat says, [kind, age]
  heartbeat,    \* the file: the same, as last written
  sinceBeat,
  spent,         \* history: board -> units since it left its nap, up to Margin + 1
  calm          \* history: board -> units of a run of short passes, NotCalm without one

tickVars == <<process, thread, timer, holder, draining, marker, over,
              progress, heartbeat, sinceBeat, spent, calm>>
paceVars == <<spent, calm>>
NotCalm == Beat + 2

NotDraining == [on |-> FALSE, since |-> 0]
Older(n) == IF n < Old THEN n + 1 ELSE n
Grown(stamp) == [stamp EXCEPT !.age = Older(@)]
NoThreads == [b \in Boards |-> "none"]
NoTimers == [b \in Boards |-> 0]

TickInit ==
  /\ process = "down"
  /\ thread = NoThreads /\ timer = NoTimers /\ holder = {}
  /\ draining = NotDraining /\ marker = FALSE /\ over = FALSE
  /\ progress = [kind |-> "started_at", age |-> 0]
  /\ heartbeat = [kind |-> "missing", age |-> 0]
  /\ sinceBeat = 0
  /\ spent = NoTimers /\ calm = [b \in Boards |-> NotCalm]

-----------------------------------------------------------------------------
(* The process *)

\* main(): the marker a forced exit left is dropped, and a first beat is written.
StartLoop ==
  /\ process = "down"
  /\ process' = "starting"
  /\ draining' = NotDraining /\ marker' = FALSE /\ over' = FALSE
  /\ progress' = [kind |-> "started_at", age |-> 0]
  /\ heartbeat' = progress' /\ sinceBeat' = 0
  /\ UNCHANGED <<thread, timer, holder, paceVars>>

\* The first calibration is authored before any board starts; boards of a drain are skipped.
SpawnThreads ==
  /\ process = "starting"
  /\ process' = "up"
  /\ thread' = IF draining.on THEN thread ELSE [b \in Boards |-> "top"]
  /\ UNCHANGED <<timer, holder, draining, marker, over, progress, heartbeat, sinceBeat,
                 paceVars>>

Ticking(b) == thread[b] = "ticking"
\* The threads die with the process; a tick child lives on, which this model leaves out.
Gone ==
  /\ process' = "down"
  /\ thread' = NoThreads /\ timer' = NoTimers /\ holder' = {} /\ over' = FALSE
  /\ spent' = NoTimers /\ calm' = [b \in Boards |-> NotCalm]

\* run() returns when no thread is alive; daemon threads die with the process.
LoopEnds ==
  /\ process = "up" /\ \A b \in Boards : thread[b] \in {"none", "ended"}
  /\ Gone
  /\ marker' = FALSE
  /\ UNCHANGED <<draining, progress, heartbeat, sinceBeat>>

\* calibrate() is called without a guard on the main thread: its error ends the process.
CalibrateFails ==
  /\ process \in {"starting", "up"} /\ (process = "up" => ~draining.on)
  /\ Gone
  /\ marker' = FALSE
  /\ UNCHANGED <<draining, progress, heartbeat, sinceBeat>>

FirstSignal ==
  /\ process # "down" /\ ~draining.on
  /\ draining' = [on |-> TRUE, since |-> 0]
  /\ marker' = TRUE
  /\ UNCHANGED <<process, thread, timer, holder, over, progress, heartbeat, sinceBeat,
                 paceVars>>

\* A second signal within the grace exits at once and clears nothing; a later one is ignored.
SecondSignal ==
  /\ process # "down" /\ draining.on /\ draining.since <= Grace
  /\ Gone
  /\ UNCHANGED <<draining, marker, progress, heartbeat, sinceBeat>>

DeadlinePasses ==
  /\ process = "up" /\ ~over
  /\ over' = TRUE
  /\ UNCHANGED <<process, thread, timer, holder, draining, marker, progress, heartbeat,
                 sinceBeat, paceVars>>
-----------------------------------------------------------------------------
(* One board's loop *)

processVars == <<process, draining, marker, over, heartbeat, sinceBeat>>
Step(b, label, t) ==
  /\ thread' = [thread EXCEPT ![b] = label]
  /\ timer' = [timer EXCEPT ![b] = t]
\* A run of short passes starts at a pass; a failed half or the loop's end breaks it.
Pace(b, since) ==
  /\ spent' = [spent EXCEPT ![b] = 0]
  /\ calm' = [calm EXCEPT ![b] = since]

TopOfLoop(b) ==
  /\ thread[b] = "top"
  /\ IF over \/ draining.on THEN Step(b, "ended", 0) /\ Pace(b, NotCalm)
                            ELSE Step(b, "waiting", 0) /\ UNCHANGED paceVars
  /\ UNCHANGED <<holder, progress, processVars>>

BeginPrepare(b) ==
  /\ thread[b] = "waiting" /\ holder = {}
  /\ holder' = {b}
  /\ Step(b, "preparing", 0)
  /\ UNCHANGED <<progress, processVars, paceVars>>

Prepared(b) ==
  /\ thread[b] = "preparing"
  /\ holder' = {}
  /\ Step(b, "prepared", 0)
  /\ UNCHANGED <<progress, processVars, paceVars>>

\* After a failed half the loop looks for a drain, then sleeps the idle interval.
Blocked(b) ==
  /\ IF draining.on THEN Step(b, "ended", 0) ELSE Step(b, "sleeping", Idle)
  /\ Pace(b, NotCalm)
\* As if the lock were released only after a prepare that succeeds.
PrepareKeepsLock(b) ==
  /\ thread[b] = "preparing"
  /\ Blocked(b)
  /\ UNCHANGED <<holder, progress, processVars>>
PrepareFails(b) ==
  /\ thread[b] = "preparing"
  /\ holder' = {}
  /\ Blocked(b)
  /\ UNCHANGED <<progress, processVars>>

\* As if the drain were only looked at before the prepare.
PassOn(b) ==
  /\ thread[b] = "prepared"
  /\ Step(b, "launching", 0)
  /\ UNCHANGED <<holder, progress, processVars, paceVars>>
\* The look at the drain; the child starts after it, and a signal may come between.
LookAgain(b) ==
  /\ thread[b] = "prepared"
  /\ IF draining.on THEN Step(b, "ended", 0) /\ Pace(b, NotCalm)
                    ELSE Step(b, "launching", 0) /\ UNCHANGED paceVars
  /\ UNCHANGED <<holder, progress, processVars>>

StartTick(b) ==
  /\ thread[b] = "launching"
  /\ Step(b, "ticking", 0)
  /\ UNCHANGED <<holder, progress, processVars, paceVars>>

\* A reply, or a child stopped at its timeout: both return a count and are a pass.
TickReturns(b) ==
  /\ Ticking(b)
  /\ progress' = [kind |-> "last_pass_at", age |-> 0]
  /\ \/ draining.on /\ Step(b, "ended", 0) /\ Pace(b, NotCalm)
     \/ /\ ~draining.on
        /\ \E nap \in {Idle, Busy} : Step(b, "sleeping", nap)
        /\ Pace(b, IF calm[b] = NotCalm THEN 0 ELSE calm[b])
  /\ UNCHANGED <<holder, processVars>>

\* The count cannot be read: no pass.
TickFails(b) ==
  /\ Ticking(b)
  /\ Blocked(b)
  /\ UNCHANGED <<holder, progress, processVars>>

\* drain.nap: the signal wakes every sleeper.
WakeUp(b) ==
  /\ thread[b] = "sleeping" /\ (timer[b] = 0 \/ draining.on)
  /\ Step(b, "top", 0)
  /\ UNCHANGED <<holder, progress, processVars, paceVars>>

BoardStep(b) ==
  \/ TopOfLoop(b) \/ BeginPrepare(b) \/ Prepared(b) \/ PrepareFails(b) \/ LookAgain(b)
  \/ StartTick(b) \/ TickReturns(b) \/ TickFails(b) \/ WakeUp(b)
-----------------------------------------------------------------------------
(* Time and the heartbeat *)

WriteHeartbeat ==
  /\ process # "down" /\ sinceBeat = Beat
  /\ heartbeat' = progress
  /\ sinceBeat' = 0
  /\ UNCHANGED <<process, thread, timer, holder, draining, marker, over, progress, paceVars>>

\* What takes no time is done before time passes; work may last until its timeout.
Immediate(b) ==
  \/ thread[b] \in {"top", "prepared", "launching"}
  \/ thread[b] = "waiting" /\ holder = {}
  \/ thread[b] = "sleeping" /\ (timer[b] = 0 \/ draining.on)
  \/ thread[b] = "preparing" /\ timer[b] >= PrepareTimeout
  \/ thread[b] = "ticking" /\ timer[b] >= TickTimeout

Working(b) == thread[b] \in {"waiting", "preparing", "ticking"}

Elapse ==
  /\ \A b \in Boards : ~Immediate(b)
  /\ process # "starting"
  /\ process = "up" => /\ sinceBeat < Beat
                       /\ \E b \in Boards : thread[b] \notin {"none", "ended"}
  /\ timer' = [b \in Boards |->
                 IF thread[b] = "sleeping" THEN timer[b] - 1
                 ELSE IF thread[b] \in {"preparing", "ticking"} THEN timer[b] + 1 ELSE timer[b]]
  /\ progress' = Grown(progress) /\ heartbeat' = Grown(heartbeat)
  /\ sinceBeat' = IF process = "up" THEN sinceBeat + 1 ELSE sinceBeat
  /\ draining' = [draining EXCEPT !.since = IF draining.on THEN Older(@) ELSE @]
  /\ spent' = [b \in Boards |-> IF Working(b) THEN Min({spent[b] + 1, Margin + 1}) ELSE spent[b]]
  /\ calm' = [b \in Boards |-> IF calm[b] = NotCalm \/ spent'[b] > Margin THEN NotCalm
                                ELSE Min({calm[b] + 1, Beat + 1})]
  /\ UNCHANGED <<process, thread, holder, marker, over>>

TickNext ==
  \/ StartLoop \/ SpawnThreads \/ LoopEnds \/ CalibrateFails \/ FirstSignal \/ SecondSignal
  \/ DeadlinePasses \/ WriteHeartbeat \/ Elapse
  \/ \E b \in Boards : BoardStep(b)

\* Threads run, and time passes; signals, deadlines, crashes and launchd promise nothing.
TickFairness ==
  /\ WF_tickVars(SpawnThreads) /\ WF_tickVars(LoopEnds)
  /\ WF_tickVars(WriteHeartbeat) /\ WF_tickVars(Elapse)
  /\ \A b \in Boards : WF_tickVars(BoardStep(b)) /\ SF_tickVars(BeginPrepare(b))

TickSpec == TickInit /\ [][TickNext]_tickVars /\ TickFairness
-----------------------------------------------------------------------------
(* The dead-man *)

\* As if the threshold were the sleep and the margin, without the beat's lag.
AlarmOnSleep(file) ==
  \/ file.kind = "missing"
  \/ file.kind = "last_pass_at" /\ file.age > Idle + Margin
  \/ file.kind = "started_at" /\ file.age > FirstPassAllowance
\* evaluate(): a pass that completed counts against the threshold, a first pass still
\* running against the larger allowance; a missing file is an alarm.
Alarm(file) ==
  \/ file.kind = "missing"
  \/ file.kind = "last_pass_at" /\ file.age > Threshold
  \/ file.kind = "started_at" /\ file.age > FirstPassAllowance
-----------------------------------------------------------------------------
(* Properties *)

\* A drain ends within the ticks and prepares in flight: no sleep, lock or fresh tick
\* prolongs it, whenever the signal comes.
DrainPrompt == process # "down" /\ draining.on => draining.since <= DrainBound

\* The dead-man tells the truth: while some board goes on passing, each pass within the
\* margin, no alarm is raised, whatever its naps, the other boards and the phase of the beat,
\* once a beat has told of it; and no wedged or dead loop stays silent past the larger
\* allowance, though the process of a wedged loop goes on beating.
DeadmanTrue ==
  /\ \A b \in Boards : calm[b] = Beat + 1 => ~Alarm(heartbeat)
  /\ progress.age > FirstPassAllowance + Beat => Alarm(heartbeat)

\* Boards never wait on one another: each comes back to the top of its loop again and
\* again, whatever becomes of the ticks and prepares of the others.
BoardsIndependent ==
  \A b \in Boards : thread[b] # "none" ~> (thread[b] \in {"top", "ended"} \/ process = "down")

=============================================================================
