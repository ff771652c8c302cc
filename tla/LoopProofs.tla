------------------------------ MODULE LoopProofs ------------------------------
(***************************************************************************)
(* What the tick loop and its dead-man promise, proved for every number of   *)
(* boards and every duration: a drain ends within the work in flight, and    *)
(* the alarm tells the truth.                                                *)
(* And what the watcher promises: it tells of an alarm when it is due.       *)
(*                                                                         *)
(* The first is an argument by budget: every board that waits for the        *)
(* prepare lock or holds it may still take PrepareTimeout of it, and once    *)
(* the drain is on nobody joins them (PrepareBudget); a tick that runs began *)
(* before the drain, so it has run for longer than the drain (TickBudget).   *)
(* The second compares the heartbeat file with what is in memory: the file   *)
(* is a copy of it, or older (BeatBehind); and while a board passes without  *)
(* a long tick, the last pass is never older than a nap and the board's work *)
(* since, and the file not older than that and a beat (CalmRuns).            *)
(***************************************************************************)
EXTENDS TickLoop, Watch, FiniteSetTheorems, TLAPS

Labels == {"none", "top", "waiting", "preparing", "prepared", "launching", "ticking", "sleeping",
           "ended"}

LoopTyped ==
  /\ process \in {"down", "starting", "up"}
  /\ thread \in [Boards -> Labels] /\ timer \in [Boards -> Nat]
  /\ holder \in SUBSET Boards
  /\ draining \in [on : BOOLEAN, since : Nat]
  /\ marker \in BOOLEAN /\ over \in BOOLEAN
  /\ progress \in [kind : {"started_at", "last_pass_at"}, age : Nat]
  /\ heartbeat \in [kind : {"missing", "started_at", "last_pass_at"}, age : Nat]
  /\ sinceBeat \in Nat
  /\ spent \in [Boards -> Nat] /\ calm \in [Boards -> 0..NotCalm]

\* The threads are the process's, and the lock is the board's that prepares.
ThreadsLive ==
  /\ process # "up" => \A b \in Boards : thread[b] = "none"
  /\ \A b \in Boards : b \in holder <=> thread[b] = "preparing"
  /\ \A a, b \in holder : a = b
  /\ \A b \in Boards : /\ thread[b] = "preparing" => timer[b] <= PrepareTimeout
                       /\ thread[b] = "ticking" => timer[b] <= TickTimeout

\* The boards that may still prepare.
Preparing == {b \in Boards : thread[b] \in {"waiting", "preparing"}}
QueuedWork == Cardinality(Preparing) * PrepareTimeout
AllPrepares == Cardinality(Boards) * PrepareTimeout

PrepareBudget ==
  draining.on =>
    /\ \A b \in Boards : thread[b] = "preparing" => draining.since + QueuedWork <= AllPrepares + timer[b]
    /\ holder = {} /\ Preparing # {} => draining.since + QueuedWork <= AllPrepares

TickBudget ==
  draining.on =>
    /\ process = "starting" => draining.since = 0
    /\ \A b \in Boards : /\ thread[b] = "launching" => draining.since = 0
                         /\ thread[b] = "ticking" => draining.since <= timer[b]

BeatBehind ==
  /\ process # "down" => heartbeat.kind # "missing"
  /\ heartbeat.kind # "missing" =>
       /\ progress.age <= heartbeat.age
       /\ progress.kind = "started_at" => heartbeat = progress

\* What a board in a run of short passes has done to the heartbeat.
CalmBoard(b) ==
  /\ progress.kind = "last_pass_at" /\ thread[b] \notin {"none", "ended"}
  /\ thread[b] = "sleeping" => spent[b] = 0 /\ progress.age + timer[b] <= Idle
  /\ spent[b] <= Margin /\ progress.age <= Idle + spent[b]
  /\ calm[b] > sinceBeat =>
       heartbeat.kind = "last_pass_at" /\ heartbeat.age <= Idle + Margin + sinceBeat

CalmRuns ==
  /\ process # "up" => \A b \in Boards : calm[b] = NotCalm
  /\ process # "down" => sinceBeat <= Beat
  /\ \A b \in Boards : calm[b] # NotCalm => CalmBoard(b)

LoopInv ==
  LoopTyped /\ ThreadsLive /\ PrepareBudget /\ TickBudget /\ DrainPrompt /\ BeatBehind /\ CalmRuns

(* ---- Durations and counts ----------------------------------------------- *)

LEMMA MaxOfTwo ==
  ASSUME NEW a \in Nat, NEW b \in Nat
  PROVE  Max({a, b}) \in Nat /\ a <= Max({a, b}) /\ b <= Max({a, b})
<1>1. \E x \in {a, b} : \A y \in {a, b} : x >= y
  <2>1. CASE a >= b
      BY <2>1
  <2>2. CASE ~(a >= b)
      BY <2>2
  <2> QED BY <2>1, <2>2
<1>2. Max({a, b}) \in {a, b} /\ \A y \in {a, b} : Max({a, b}) >= y
    BY <1>1 DEF Max
<1> QED BY <1>2

LEMMA MinOfTwo ==
  ASSUME NEW a \in Nat, NEW b \in Nat
  PROVE  Min({a, b}) \in {a, b} /\ Min({a, b}) <= a /\ Min({a, b}) <= b
<1>1. \E x \in {a, b} : \A y \in {a, b} : x <= y
  <2>1. CASE a <= b
      BY <2>1
  <2>2. CASE ~(a <= b)
      BY <2>2
  <2> QED BY <2>1, <2>2
<1>2. Min({a, b}) \in {a, b} /\ \A y \in {a, b} : Min({a, b}) <= y
    BY <1>1 DEF Min
<1> QED BY <1>2

LEMMA CalmFacts == NotCalm \in Nat /\ NotCalm \in 0..NotCalm /\ 0 \in 0..NotCalm /\ Beat + 1 < NotCalm
BY DurationAssumption DEF NotCalm

LEMMA DurationFacts ==
  /\ Threshold \in Nat /\ FirstPassAllowance \in Nat /\ DrainBound \in Nat /\ Old \in Nat
  /\ AllPrepares \in Nat /\ TickTimeout <= DrainBound /\ AllPrepares <= DrainBound
  /\ Threshold <= FirstPassAllowance + Beat
<1>1. Cardinality(Boards) \in Nat
    BY DurationAssumption, FS_CardinalityType
<1>2. AllPrepares \in Nat
    BY <1>1, DurationAssumption DEF AllPrepares
<1>3. Threshold \in Nat /\ FirstPassAllowance \in Nat /\ Threshold <= FirstPassAllowance + Beat
    BY DurationAssumption, AllowanceAssumption DEF Threshold, FirstPassAllowance
<1>4. DrainBound \in Nat /\ TickTimeout <= DrainBound /\ AllPrepares <= DrainBound
    BY <1>2, MaxOfTwo, DurationAssumption DEF DrainBound, AllPrepares
<1>5. Old \in Nat
  <2> DEFINE a == FirstPassAllowance + Beat
             S == {a, Threshold, DrainBound, Grace}
  <2>1. a \in Nat /\ Threshold \in Nat /\ DrainBound \in Nat /\ Grace \in Nat
      BY <1>3, <1>4, DurationAssumption
  <2>2. \E x \in S : \A y \in S : x >= y
    <3> HIDE DEF a
    <3>1. PICK m \in {a, Threshold} : m >= a /\ m >= Threshold
        BY <2>1
    <3>2. PICK n \in {DrainBound, Grace} : n >= DrainBound /\ n >= Grace
        BY <2>1
    <3>3. CASE m >= n
        BY <2>1, <3>1, <3>2, <3>3
    <3>4. CASE ~(m >= n)
        BY <2>1, <3>1, <3>2, <3>4
    <3> QED BY <3>3, <3>4
  <2>3. Max(S) \in S
      BY <2>2 DEF Max
  <2> QED BY <2>1, <2>3 DEF Old
<1> QED BY <1>2, <1>3, <1>4, <1>5

\* The budget of the boards that may still prepare.
LEMMA QueueFacts ==
  /\ IsFiniteSet(Preparing) /\ Cardinality(Preparing) \in Nat
  /\ QueuedWork \in Nat /\ QueuedWork <= AllPrepares
  /\ \A b \in Preparing : PrepareTimeout <= QueuedWork
<1>1. IsFiniteSet(Preparing) /\ Cardinality(Preparing) <= Cardinality(Boards)
    BY DurationAssumption, FS_Subset DEF Preparing
<1>2. Cardinality(Preparing) \in Nat /\ Cardinality(Boards) \in Nat
    BY <1>1, DurationAssumption, FS_CardinalityType
<1>3. \A b \in Preparing : Cardinality(Preparing) >= 1
    BY <1>1, <1>2, FS_EmptySet
<1> DEFINE m == Cardinality(Preparing)
           n == Cardinality(Boards)
<1>4. \A i, j \in Nat : i <= j => i * PrepareTimeout <= j * PrepareTimeout
    BY DurationAssumption
<1>5. 1 * PrepareTimeout = PrepareTimeout
    BY DurationAssumption
<1>6. m * PrepareTimeout \in Nat
    BY <1>2, DurationAssumption
<1> QED BY <1>1, <1>2, <1>3, <1>4, <1>5, <1>6 DEF QueuedWork, AllPrepares

\* The budget as boards leave the queue.
LEMMA QueueShrinks ==
  ASSUME NEW b \in Preparing, Preparing' = Preparing \ {b}
  PROVE  QueuedWork' = QueuedWork - PrepareTimeout
<1>1. Cardinality(Preparing') = Cardinality(Preparing) - 1
    BY QueueFacts, FS_RemoveElement
<1>2. \A n \in Nat : (n - 1) * PrepareTimeout = n * PrepareTimeout - PrepareTimeout
    BY DurationAssumption
<1> QED BY <1>1, <1>2, QueueFacts DEF QueuedWork

LEMMA QueueStays ==
  ASSUME Preparing' = Preparing
  PROVE  QueuedWork' = QueuedWork
BY DEF QueuedWork

\* At the start the process is down.
LEMMA LoopBegins == TickInit => LoopInv
<1> SUFFICES ASSUME TickInit PROVE LoopInv
    OBVIOUS
<1>1. LoopTyped
  <2>1. calm \in [Boards -> 0..NotCalm] /\ spent \in [Boards -> Nat]
      BY CalmFacts DEF TickInit, NoTimers
  <2> QED BY <2>1 DEF TickInit, LoopTyped, NoThreads, NoTimers, Labels, NotDraining
<1>2. ThreadsLive
    BY DEF TickInit, ThreadsLive, NoThreads
<1> QED BY <1>1, <1>2 DEF TickInit, LoopInv, PrepareBudget, TickBudget, DrainPrompt, BeatBehind, CalmRuns,
           NotDraining

(* ---- The process -------------------------------------------------------- *)

ProcessStep ==
  \/ StartLoop \/ SpawnThreads \/ LoopEnds \/ CalibrateFails \/ FirstSignal \/ SecondSignal
  \/ DeadlinePasses \/ WriteHeartbeat

LEMMA ProcessTyped ==
  ASSUME LoopInv, ProcessStep
  PROVE  LoopTyped' /\ ThreadsLive'
<1> USE DEF LoopInv
<1>1. LoopTyped'
  <2> USE DEF LoopTyped, Labels, paceVars
  <2>1. CASE StartLoop
      BY <2>1 DEF StartLoop, NotDraining
  <2>2. CASE SpawnThreads
      BY <2>2 DEF SpawnThreads
  <2>3. CASE LoopEnds \/ CalibrateFails \/ SecondSignal
    <3>1. Gone /\ marker' \in BOOLEAN /\ UNCHANGED <<draining, progress, heartbeat, sinceBeat>>
        BY <2>3 DEF LoopEnds, CalibrateFails, SecondSignal
    <3>2. spent' \in [Boards -> Nat] /\ calm' \in [Boards -> 0..NotCalm]
        BY <3>1, CalmFacts DEF Gone, NoTimers
    <3> QED BY <3>1, <3>2 DEF Gone, NoThreads, NoTimers
  <2>4. CASE FirstSignal
      BY <2>4 DEF FirstSignal
  <2>5. CASE DeadlinePasses
      BY <2>5 DEF DeadlinePasses
  <2>6. CASE WriteHeartbeat
      BY <2>6 DEF WriteHeartbeat
  <2> QED BY <2>1, <2>2, <2>3, <2>4, <2>5, <2>6 DEF ProcessStep
<1>2. ThreadsLive'
  <2> USE DEF ThreadsLive
  <2>1. CASE StartLoop
      BY <2>1 DEF StartLoop
  <2>2. CASE SpawnThreads
      BY <2>2 DEF SpawnThreads, LoopTyped
  <2>3. CASE LoopEnds \/ CalibrateFails \/ SecondSignal
      BY <2>3 DEF LoopEnds, CalibrateFails, SecondSignal, Gone, NoThreads
  <2>4. CASE FirstSignal
      BY <2>4 DEF FirstSignal
  <2>5. CASE DeadlinePasses
      BY <2>5 DEF DeadlinePasses
  <2>6. CASE WriteHeartbeat
      BY <2>6 DEF WriteHeartbeat
  <2> QED BY <2>1, <2>2, <2>3, <2>4, <2>5, <2>6 DEF ProcessStep
<1> QED BY <1>1, <1>2

\* Nothing the process does takes time: a drain starts with its whole budget.
LEMMA ProcessBudget ==
  ASSUME LoopInv, ProcessStep
  PROVE  PrepareBudget' /\ TickBudget' /\ DrainPrompt'
<1>1. CASE StartLoop
    BY <1>1 DEF StartLoop, NotDraining, PrepareBudget, TickBudget, DrainPrompt
<1>2. CASE SpawnThreads /\ draining.on
  <2>1. Preparing' = Preparing /\ UNCHANGED <<thread, timer, holder, draining>> /\ process' = "up"
      BY <1>2 DEF SpawnThreads, Preparing
  <2>2. process # "down"
      BY <1>2 DEF SpawnThreads
  <2> QED BY <2>1, <2>2, QueueStays DEF LoopInv, PrepareBudget, TickBudget, DrainPrompt
<1>3. CASE SpawnThreads /\ ~draining.on
    BY <1>3 DEF SpawnThreads, PrepareBudget, TickBudget, DrainPrompt
<1>4. CASE LoopEnds \/ CalibrateFails \/ SecondSignal
  <2>1. \A b \in Boards : thread'[b] = "none"
      BY <1>4 DEF LoopEnds, CalibrateFails, SecondSignal, Gone, NoThreads
  <2>2. Preparing' = {} /\ process' = "down"
      BY <1>4, <2>1 DEF LoopEnds, CalibrateFails, SecondSignal, Gone, Preparing
  <2> QED BY <2>1, <2>2 DEF PrepareBudget, TickBudget, DrainPrompt
<1>5. CASE FirstSignal
  <2>1. Preparing' = Preparing /\ UNCHANGED <<thread, timer, holder>> /\ draining'.since = 0
      BY <1>5 DEF FirstSignal, Preparing
  <2>2. \A b \in Boards : timer[b] \in Nat
      BY DEF LoopInv, LoopTyped
  <2> QED BY <2>1, <2>2, QueueStays, QueueFacts, DurationFacts DEF PrepareBudget, TickBudget, DrainPrompt
<1>6. CASE DeadlinePasses \/ WriteHeartbeat
  <2>1. Preparing' = Preparing /\ UNCHANGED <<process, thread, timer, holder, draining>>
      BY <1>6 DEF DeadlinePasses, WriteHeartbeat, Preparing
  <2> QED BY <2>1, QueueStays DEF LoopInv, PrepareBudget, TickBudget, DrainPrompt
<1> QED BY <1>1, <1>2, <1>3, <1>4, <1>5, <1>6 DEF ProcessStep

LEMMA ProcessBeats ==
  ASSUME LoopInv, ProcessStep
  PROVE  BeatBehind'
<1> USE DEF LoopInv, BeatBehind
<1>1. CASE StartLoop
    BY <1>1 DEF StartLoop
<1>2. CASE SpawnThreads
    BY <1>2 DEF SpawnThreads
<1>3. CASE LoopEnds \/ CalibrateFails \/ SecondSignal
    BY <1>3 DEF LoopEnds, CalibrateFails, SecondSignal, Gone
<1>4. CASE FirstSignal
    BY <1>4 DEF FirstSignal
<1>5. CASE DeadlinePasses
    BY <1>5 DEF DeadlinePasses
<1>6. CASE WriteHeartbeat
    BY <1>6 DEF WriteHeartbeat, LoopTyped
<1> QED BY <1>1, <1>2, <1>3, <1>4, <1>5, <1>6 DEF ProcessStep

\* A start, a stop and a beat leave a run of short passes or end it.
LEMMA ProcessCalm ==
  ASSUME LoopInv, ProcessStep
  PROVE  CalmRuns'
<1> USE DEF LoopInv, CalmRuns
<1>1. CASE StartLoop
    BY <1>1, DurationAssumption DEF StartLoop, paceVars
<1>2. CASE SpawnThreads
    BY <1>2 DEF SpawnThreads, paceVars
<1>3. CASE LoopEnds \/ CalibrateFails \/ SecondSignal
    BY <1>3 DEF LoopEnds, CalibrateFails, SecondSignal, Gone
<1>4. CASE FirstSignal \/ DeadlinePasses
  <2>1. UNCHANGED <<process, thread, timer, progress, heartbeat, sinceBeat, spent, calm>>
      BY <1>4 DEF FirstSignal, DeadlinePasses, paceVars
  <2> QED BY <2>1 DEF CalmBoard
<1>5. CASE WriteHeartbeat
  <2>1. /\ UNCHANGED <<process, thread, timer, progress, spent, calm>>
        /\ heartbeat' = progress /\ sinceBeat' = 0
      BY <1>5 DEF WriteHeartbeat, paceVars
  <2>2. \A b \in Boards : spent[b] \in Nat
      BY DEF LoopTyped
  <2>3. progress.age \in Nat
      BY DEF LoopTyped
  <2>4. ASSUME NEW b \in Boards, calm[b] # NotCalm
        PROVE  CalmBoard(b)'
      BY <2>1, <2>2, <2>3, <2>4, DurationAssumption DEF CalmBoard
  <2> QED BY <2>1, <2>4, DurationAssumption
<1> QED BY <1>1, <1>2, <1>3, <1>4, <1>5 DEF ProcessStep

(* ---- A board's loop ----------------------------------------------------- *)

\* A step of one board leaves the rest of the loop where it was.
LEMMA StepTyped ==
  ASSUME LoopTyped, NEW b \in Boards, NEW l \in Labels, NEW t \in Nat, Step(b, l, t)
  PROVE  /\ thread' \in [Boards -> Labels] /\ timer' \in [Boards -> Nat]
         /\ thread'[b] = l /\ timer'[b] = t
         /\ \A a \in Boards \ {b} : thread'[a] = thread[a] /\ timer'[a] = timer[a]
BY DEF LoopTyped, Step

\* What every step of a board does: it goes to a label with a timer.
LEMMA BoardMoves ==
  ASSUME LoopInv, NEW b \in Boards, BoardStep(b)
  PROVE  /\ \E l \in Labels \ {"none"}, t \in Nat :
              /\ Step(b, l, t)
              /\ l \in {"preparing", "ticking"} => t = 0
         /\ thread[b] # "none" /\ process = "up"
         /\ UNCHANGED processVars
         /\ progress' = progress \/ progress' = [kind |-> "last_pass_at", age |-> 0]
<1> USE DEF Labels
<1>1. Idle \in Nat /\ Busy \in Nat
    BY DurationAssumption
<1>2. thread[b] # "none" /\ process = "up"
    BY DEF LoopInv, ThreadsLive, BoardStep, TopOfLoop, BeginPrepare, Prepared, PrepareFails, LookAgain,
       StartTick, TickReturns, TickFails, Ticking, WakeUp
<1>3. CASE TopOfLoop(b)
    BY <1>2, <1>3 DEF TopOfLoop
<1>4. CASE BeginPrepare(b)
    BY <1>2, <1>4 DEF BeginPrepare
<1>5. CASE Prepared(b)
    BY <1>2, <1>5 DEF Prepared
<1>6. CASE PrepareFails(b)
    BY <1>1, <1>2, <1>6 DEF PrepareFails, Blocked
<1>7. CASE LookAgain(b)
    BY <1>2, <1>7 DEF LookAgain
<1>8. CASE StartTick(b)
    BY <1>2, <1>8 DEF StartTick
<1>9. CASE TickReturns(b)
  <2>1. \E l \in {"ended", "sleeping"}, t \in Nat : Step(b, l, t)
      BY <1>1, <1>9 DEF TickReturns
  <2> QED BY <1>2, <1>9, <2>1 DEF TickReturns
<1>10. CASE TickFails(b)
    BY <1>1, <1>2, <1>10 DEF TickFails, Blocked
<1>11. CASE WakeUp(b)
    BY <1>2, <1>11 DEF WakeUp
<1> QED BY <1>3, <1>4, <1>5, <1>6, <1>7, <1>8, <1>9, <1>10, <1>11 DEF BoardStep

\* What a step of a board does to the runs of short passes.
LEMMA BoardPaces ==
  ASSUME LoopInv, NEW b \in Boards, BoardStep(b)
  PROVE  /\ spent' \in [Boards -> Nat] /\ calm' \in [Boards -> 0..NotCalm]
         /\ \A a \in Boards \ {b} : spent'[a] = spent[a] /\ calm'[a] = calm[a]
         /\ \/ UNCHANGED <<paceVars, progress>> /\ thread'[b] \notin {"sleeping", "none", "ended"}
            \/ calm'[b] = NotCalm /\ progress' = progress
            \/ calm'[b] = NotCalm /\ progress' = [kind |-> "last_pass_at", age |-> 0]
            \/ /\ progress' = [kind |-> "last_pass_at", age |-> 0]
               /\ thread'[b] = "sleeping" /\ timer'[b] \in {Idle, Busy} /\ spent'[b] = 0
               /\ calm'[b] = IF calm[b] = NotCalm THEN 0 ELSE calm[b]
<1>1. /\ spent \in [Boards -> Nat] /\ calm \in [Boards -> 0..NotCalm] /\ NotCalm \in 0..NotCalm
      /\ 0 \in 0..NotCalm /\ thread \in [Boards -> Labels] /\ timer \in [Boards -> Nat]
    BY CalmFacts DEF LoopInv, LoopTyped
<1>2. CASE \/ BeginPrepare(b) \/ Prepared(b) \/ StartTick(b) \/ WakeUp(b)
           \/ (TopOfLoop(b) /\ ~(over \/ draining.on)) \/ (LookAgain(b) /\ ~draining.on)
    BY <1>1, <1>2 DEF BeginPrepare, Prepared, StartTick, WakeUp, TopOfLoop, LookAgain, Step, paceVars
<1>3. CASE \/ (TopOfLoop(b) /\ (over \/ draining.on)) \/ (LookAgain(b) /\ draining.on)
           \/ PrepareFails(b) \/ TickFails(b)
    BY <1>1, <1>3 DEF TopOfLoop, LookAgain, PrepareFails, TickFails, Blocked, Pace
<1>4. CASE TickReturns(b) /\ draining.on
    BY <1>1, <1>4 DEF TickReturns, Pace
<1>5. CASE TickReturns(b) /\ ~draining.on
  <2>1. PICK nap \in {Idle, Busy} : Step(b, "sleeping", nap)
      BY <1>5 DEF TickReturns
  <2>2. Pace(b, IF calm[b] = NotCalm THEN 0 ELSE calm[b])
      BY <1>5 DEF TickReturns
  <2>3. thread'[b] = "sleeping" /\ timer'[b] = nap
      BY <1>1, <2>1 DEF Step
  <2>4. progress' = [kind |-> "last_pass_at", age |-> 0]
      BY <1>5 DEF TickReturns
  <2>5. /\ spent' \in [Boards -> Nat] /\ calm' \in [Boards -> 0..NotCalm]
        /\ \A a \in Boards \ {b} : spent'[a] = spent[a] /\ calm'[a] = calm[a]
        /\ spent'[b] = 0 /\ calm'[b] = IF calm[b] = NotCalm THEN 0 ELSE calm[b]
      BY <1>1, <2>2 DEF Pace
  <2> QED BY <2>1, <2>3, <2>4, <2>5
<1>6. \/ BeginPrepare(b) \/ Prepared(b) \/ StartTick(b) \/ WakeUp(b) \/ TopOfLoop(b) \/ LookAgain(b)
      \/ PrepareFails(b) \/ TickFails(b) \/ TickReturns(b)
    BY DEF BoardStep
<1>7. CASE TickReturns(b)
    BY <1>4, <1>5, <1>7
<1>8. CASE ~TickReturns(b)
  <2>1. CASE BeginPrepare(b) \/ Prepared(b) \/ StartTick(b) \/ WakeUp(b)
      BY <1>2, <2>1
  <2>2. CASE PrepareFails(b) \/ TickFails(b)
      BY <1>3, <2>2
  <2>3. CASE TopOfLoop(b)
      BY <1>2, <1>3, <2>3
  <2>4. CASE LookAgain(b)
      BY <1>2, <1>3, <2>4
  <2> QED BY <1>6, <1>8, <2>1, <2>2, <2>3, <2>4
<1> QED BY <1>7, <1>8

\* A pass starts a run of short passes or goes on with it, and the file is not touched.
LEMMA BoardCalm ==
  ASSUME LoopInv, NEW b \in Boards, BoardStep(b)
  PROVE  CalmRuns'
<1>1. UNCHANGED <<process, heartbeat, sinceBeat>> /\ process = "up"
    BY BoardMoves DEF processVars
<1>2. \A a \in Boards \ {b} : /\ thread'[a] = thread[a] /\ timer'[a] = timer[a]
                               /\ spent'[a] = spent[a] /\ calm'[a] = calm[a]
    BY BoardMoves, BoardPaces, StepTyped DEF LoopInv
<1>3. /\ progress' = progress \/ progress' = [kind |-> "last_pass_at", age |-> 0]
      /\ progress.age \in Nat /\ sinceBeat \in Nat
      /\ \A a \in Boards : spent[a] \in Nat /\ timer[a] \in Nat /\ calm[a] \in Nat
    BY BoardMoves DEF LoopInv, LoopTyped
<1>4. Idle \in Nat /\ Busy \in Nat /\ Margin \in Nat /\ Beat \in Nat /\ Busy <= Idle
    BY DurationAssumption
<1>5. ASSUME NEW a \in Boards \ {b}, calm'[a] # NotCalm
      PROVE  CalmBoard(a)'
  <2>1. CalmBoard(a)
      BY <1>2, <1>5 DEF LoopInv, CalmRuns
  <2> QED BY <1>1, <1>2, <1>3, <1>4, <2>1 DEF CalmBoard
<1>6. ASSUME calm'[b] # NotCalm
      PROVE  CalmBoard(b)'
  <2>1. CASE UNCHANGED <<paceVars, progress>> /\ thread'[b] \notin {"sleeping", "none", "ended"}
    <3>1. CalmBoard(b)
        BY <1>6, <2>1 DEF LoopInv, CalmRuns, paceVars
    <3> QED BY <1>1, <2>1, <3>1 DEF CalmBoard, paceVars
  <2>2. CASE /\ progress' = [kind |-> "last_pass_at", age |-> 0]
             /\ thread'[b] = "sleeping" /\ timer'[b] \in {Idle, Busy} /\ spent'[b] = 0
             /\ calm'[b] = IF calm[b] = NotCalm THEN 0 ELSE calm[b]
    <3>1. calm'[b] > sinceBeat => calm[b] # NotCalm /\ calm[b] > sinceBeat
        BY <1>3, <2>2
    <3>2. calm'[b] > sinceBeat => heartbeat.kind = "last_pass_at" /\ heartbeat.age <= Idle + Margin + sinceBeat
        BY <3>1 DEF LoopInv, CalmRuns, CalmBoard
    <3> QED BY <1>1, <1>4, <2>2, <3>2 DEF CalmBoard
  <2> QED BY <1>6, <2>1, <2>2, BoardPaces
<1> QED BY <1>1, <1>5, <1>6 DEF LoopInv, CalmRuns

LEMMA BoardTyped ==
  ASSUME LoopInv, NEW b \in Boards, BoardStep(b)
  PROVE  LoopTyped' /\ ThreadsLive'
<1>1. PICK l \in Labels \ {"none"}, t \in Nat : Step(b, l, t) /\ (l \in {"preparing", "ticking"} => t = 0)
    BY BoardMoves
<1>2. /\ thread' \in [Boards -> Labels] /\ timer' \in [Boards -> Nat]
      /\ thread'[b] = l /\ timer'[b] = t
      /\ \A a \in Boards \ {b} : thread'[a] = thread[a] /\ timer'[a] = timer[a]
    BY <1>1, StepTyped DEF LoopInv
<1>3. holder' \in SUBSET Boards /\ (\A a \in Boards : a \in holder' <=> thread'[a] = "preparing")
      /\ \A a, c \in holder' : a = c
  <2> USE <1>2 DEF LoopInv, LoopTyped, ThreadsLive
  <2>1. CASE BeginPrepare(b)
    <3>1. l = "preparing"
        BY <1>1, <2>1 DEF BeginPrepare, Step
    <3> QED BY <2>1, <3>1 DEF BeginPrepare
  <2>2. CASE Prepared(b) \/ PrepareFails(b)
    <3>1. l # "preparing"
        BY <1>1, <2>2 DEF Prepared, PrepareFails, Blocked, Step
    <3>2. holder' = {} /\ b \in holder
        BY <2>2 DEF Prepared, PrepareFails
    <3> QED BY <3>1, <3>2
  <2>3. CASE TopOfLoop(b) \/ LookAgain(b) \/ StartTick(b) \/ TickReturns(b) \/ TickFails(b) \/ WakeUp(b)
    <3>1. l # "preparing"
        BY <1>1, <2>3 DEF TopOfLoop, LookAgain, StartTick, TickReturns, TickFails, Blocked, WakeUp, Step
    <3>2. UNCHANGED holder /\ thread[b] # "preparing"
        BY <2>3 DEF TopOfLoop, LookAgain, StartTick, TickReturns, TickFails, Ticking, WakeUp
    <3> QED BY <3>1, <3>2
  <2> QED BY <2>1, <2>2, <2>3 DEF BoardStep
<1>7. spent' \in [Boards -> Nat] /\ calm' \in [Boards -> 0..NotCalm]
    BY BoardPaces DEF LoopInv, LoopTyped
<1>4. LoopTyped'
    BY <1>2, <1>3, <1>7, BoardMoves DEF LoopInv, LoopTyped, processVars
<1>5. \A a \in Boards : /\ thread'[a] = "preparing" => timer'[a] <= PrepareTimeout
                        /\ thread'[a] = "ticking" => timer'[a] <= TickTimeout
    BY <1>1, <1>2, DurationAssumption DEF LoopInv, ThreadsLive
<1>6. process' = "up"
    BY BoardMoves DEF processVars
<1> QED BY <1>3, <1>4, <1>5, <1>6 DEF ThreadsLive

LEMMA BoardBeats ==
  ASSUME LoopInv, NEW b \in Boards, BoardStep(b)
  PROVE  BeatBehind' /\ DrainPrompt'
<1>1. UNCHANGED <<process, draining, heartbeat>>
    BY BoardMoves DEF processVars
<1>2. progress' = progress \/ progress' = [kind |-> "last_pass_at", age |-> 0]
    BY BoardMoves
<1> QED BY <1>1, <1>2 DEF LoopInv, LoopTyped, BeatBehind, DrainPrompt

\* The budget of the prepare lock: nobody joins the queue of a drain, and who leaves it
\* gives its share back.
LEMMA BoardBudget ==
  ASSUME LoopInv, NEW b \in Boards, BoardStep(b)
  PROVE  PrepareBudget'
<1> SUFFICES ASSUME draining'.on
             PROVE  /\ \A a \in Boards : thread'[a] = "preparing" =>
                         draining'.since + QueuedWork' <= AllPrepares + timer'[a]
                    /\ holder' = {} /\ Preparing' # {} => draining'.since + QueuedWork' <= AllPrepares
    BY DEF PrepareBudget
<1>1. UNCHANGED draining /\ draining.on
    BY BoardMoves DEF processVars
<1>2. LoopTyped' /\ ThreadsLive'
    BY BoardTyped
<1>3. PICK l \in Labels \ {"none"}, t \in Nat : Step(b, l, t)
    BY BoardMoves
<1>4. /\ thread'[b] = l /\ timer'[b] = t
      /\ \A a \in Boards \ {b} : thread'[a] = thread[a] /\ timer'[a] = timer[a]
    BY <1>3, StepTyped DEF LoopInv
<1>5. draining.since \in Nat /\ \A a \in Boards : timer[a] \in Nat
    BY DEF LoopInv, LoopTyped
<1>6. CASE BeginPrepare(b)
  <2>1. l = "preparing" /\ t = 0 /\ holder = {} /\ holder' = {b} /\ b \in Preparing
      BY <1>3, <1>4, <1>6 DEF BeginPrepare, Step, LoopInv, LoopTyped, Preparing
  <2>2. Preparing' = Preparing
      BY <1>4, <2>1 DEF Preparing
  <2>3. draining.since + QueuedWork <= AllPrepares
      BY <1>1, <2>1 DEF LoopInv, PrepareBudget
  <2>4. \A a \in Boards : thread'[a] = "preparing" => a = b
      BY <1>2, <2>1 DEF ThreadsLive
  <2> QED BY <1>1, <1>4, <2>1, <2>2, <2>3, <2>4, QueueStays, QueueFacts, DurationFacts
<1>7. CASE Prepared(b) \/ PrepareFails(b)
  <2>1. thread[b] = "preparing" /\ holder' = {} /\ b \in Preparing
      BY <1>7 DEF Prepared, PrepareFails, Preparing
  <2>2. l \notin {"waiting", "preparing"}
      BY <1>3, <1>4, <1>7 DEF Prepared, PrepareFails, Blocked, Step, LoopInv, LoopTyped
  <2>3. Preparing' = Preparing \ {b}
      BY <1>4, <2>1, <2>2 DEF Preparing
  <2>4. QueuedWork' = QueuedWork - PrepareTimeout
      BY <2>1, <2>3, QueueShrinks
  <2>5. draining.since + QueuedWork <= AllPrepares + timer[b] /\ timer[b] <= PrepareTimeout
      BY <1>1, <2>1 DEF LoopInv, PrepareBudget, ThreadsLive
  <2>6. draining.since + QueuedWork' <= AllPrepares
      BY <1>5, <2>4, <2>5, QueueFacts, DurationFacts, DurationAssumption
  <2>7. \A a \in Boards : thread'[a] # "preparing"
      BY <1>2, <2>1 DEF ThreadsLive
  <2> QED BY <1>1, <2>6, <2>7
<1>8. CASE TopOfLoop(b) \/ LookAgain(b) \/ StartTick(b) \/ TickReturns(b) \/ TickFails(b) \/ WakeUp(b)
  <2>1. l \notin {"waiting", "preparing"}
      BY <1>1, <1>3, <1>4, <1>8 DEF TopOfLoop, LookAgain, StartTick, TickReturns, TickFails, Blocked,
         WakeUp, Step, LoopInv, LoopTyped
  <2>2. UNCHANGED holder /\ thread[b] \notin {"waiting", "preparing"}
      BY <1>8 DEF TopOfLoop, LookAgain, StartTick, TickReturns, TickFails, Ticking, WakeUp
  <2>3. Preparing' = Preparing
      BY <1>4, <2>1, <2>2 DEF Preparing
  <2> QED BY <1>1, <1>4, <2>1, <2>2, <2>3, QueueStays DEF LoopInv, PrepareBudget
<1> QED BY <1>6, <1>7, <1>8 DEF BoardStep

\* A tick that runs was launched before the drain.
LEMMA BoardTicks ==
  ASSUME LoopInv, NEW b \in Boards, BoardStep(b)
  PROVE  TickBudget'
<1> SUFFICES ASSUME draining'.on
             PROVE  \A a \in Boards : /\ thread'[a] = "launching" => draining'.since = 0
                                      /\ thread'[a] = "ticking" => draining'.since <= timer'[a]
    BY BoardMoves DEF TickBudget, processVars
<1>1. UNCHANGED draining /\ draining.on
    BY BoardMoves DEF processVars
<1>2. PICK l \in Labels \ {"none"}, t \in Nat : Step(b, l, t)
    BY BoardMoves
<1>3. /\ thread'[b] = l /\ timer'[b] = t
      /\ \A a \in Boards \ {b} : thread'[a] = thread[a] /\ timer'[a] = timer[a]
    BY <1>2, StepTyped DEF LoopInv
<1>4. l # "launching"
    BY <1>1, <1>2, <1>3 DEF BoardStep, TopOfLoop, BeginPrepare, Prepared, PrepareFails, LookAgain, StartTick,
       TickReturns, TickFails, Blocked, WakeUp, Step, LoopInv, LoopTyped
<1>5. CASE l = "ticking"
  <2>1. StartTick(b)
      BY <1>1, <1>2, <1>3, <1>5 DEF BoardStep, TopOfLoop, BeginPrepare, Prepared, PrepareFails, LookAgain,
         StartTick, TickReturns, TickFails, Blocked, WakeUp, Step, LoopInv, LoopTyped
  <2>2. draining.since = 0
      BY <1>1, <2>1 DEF StartTick, LoopInv, TickBudget
  <2> QED BY <1>1, <1>3, <1>5, <2>2 DEF LoopInv, TickBudget
<1>6. CASE l # "ticking"
    BY <1>1, <1>3, <1>4, <1>6 DEF LoopInv, TickBudget
<1> QED BY <1>5, <1>6

(* ---- Time --------------------------------------------------------------- *)

LEMMA OlderFacts ==
  /\ \A n \in Nat : Older(n) \in Nat /\ n <= Older(n) /\ Older(n) <= n + 1
  /\ \A m, n \in Nat : m <= n => Older(m) <= Older(n)
BY DurationFacts DEF Older

\* How the runs of short passes age.
LEMMA ElapsePaces ==
  ASSUME LoopTyped, Elapse
  PROVE  /\ spent' \in [Boards -> Nat] /\ calm' \in [Boards -> 0..NotCalm]
         /\ \A b \in Boards :
              /\ ~Working(b) => spent'[b] = spent[b]
              /\ Working(b) => spent'[b] \in {spent[b] + 1, Margin + 1}
              /\ calm'[b] # NotCalm =>
                   calm[b] # NotCalm /\ spent'[b] <= Margin /\ calm'[b] <= calm[b] + 1
<1>1. /\ \A b \in Boards : spent[b] \in Nat /\ calm[b] \in 0..NotCalm
      /\ Margin \in Nat /\ Beat \in Nat
    BY DurationAssumption DEF LoopTyped
<1>4. ASSUME NEW b \in Boards
      PROVE  /\ spent'[b] \in Nat /\ calm'[b] \in 0..NotCalm
             /\ ~Working(b) => spent'[b] = spent[b]
             /\ Working(b) => spent'[b] \in {spent[b] + 1, Margin + 1}
             /\ calm'[b] # NotCalm =>
                  calm[b] # NotCalm /\ spent'[b] <= Margin /\ calm'[b] <= calm[b] + 1
  <2> DEFINE s == Min({spent[b] + 1, Margin + 1})
             c == Min({calm[b] + 1, Beat + 1})
  <2>1. /\ s \in {spent[b] + 1, Margin + 1}
        /\ c \in {calm[b] + 1, Beat + 1} /\ c <= calm[b] + 1 /\ c <= Beat + 1
      BY <1>1, MinOfTwo
  <2>2. /\ spent'[b] = IF Working(b) THEN s ELSE spent[b]
        /\ calm'[b] = IF calm[b] = NotCalm \/ spent'[b] > Margin THEN NotCalm ELSE c
      BY DEF Elapse
  <2> HIDE DEF s, c
  <2>3. spent'[b] \in Nat
      BY <1>1, <2>1, <2>2
  <2>4. calm'[b] \in 0..NotCalm
      BY <1>1, <2>1, <2>2, CalmFacts
  <2> QED BY <1>1, <2>1, <2>2, <2>3, <2>4
<1>5. spent' \in [Boards -> Nat] /\ calm' \in [Boards -> 0..NotCalm]
    BY <1>4 DEF Elapse
<1> QED BY <1>4, <1>5

LEMMA ElapseTyped ==
  ASSUME LoopInv, Elapse
  PROVE  LoopTyped' /\ ThreadsLive'
<1> USE DEF LoopInv
<1>1. timer' \in [Boards -> Nat]
  <2>1. \A b \in Boards : thread[b] = "sleeping" => timer[b] \in Nat /\ timer[b] # 0
      BY DEF Elapse, Immediate, LoopTyped
  <2>2. \A b \in Boards : timer[b] \in Nat
      BY DEF LoopTyped
  <2> QED BY <2>1, <2>2 DEF Elapse
<1>7. spent' \in [Boards -> Nat] /\ calm' \in [Boards -> 0..NotCalm]
    BY ElapsePaces DEF NotCalm
<1>2. draining' \in [on : BOOLEAN, since : Nat] /\ sinceBeat' \in Nat
    BY OlderFacts DEF Elapse, LoopTyped
<1>3. progress' \in [kind : {"started_at", "last_pass_at"}, age : Nat]
    BY OlderFacts DEF Elapse, LoopTyped, Grown
<1>4. heartbeat' \in [kind : {"missing", "started_at", "last_pass_at"}, age : Nat]
    BY OlderFacts DEF Elapse, LoopTyped, Grown
<1>5. LoopTyped'
    BY <1>1, <1>2, <1>3, <1>4, <1>7 DEF Elapse, LoopTyped
<1>6. \A b \in Boards : /\ thread[b] = "preparing" => timer'[b] <= PrepareTimeout
                        /\ thread[b] = "ticking" => timer'[b] <= TickTimeout
  <2>1. \A b \in Boards : /\ thread[b] = "preparing" => ~(timer[b] >= PrepareTimeout)
                          /\ thread[b] = "ticking" => ~(timer[b] >= TickTimeout)
      BY DEF Elapse, Immediate
  <2>2. \A b \in Boards : thread[b] \in {"preparing", "ticking"} => timer'[b] = timer[b] + 1
      BY DEF Elapse
  <2>3. \A b \in Boards : timer[b] \in Nat
      BY DEF LoopTyped
  <2> QED BY <2>1, <2>2, <2>3, DurationAssumption
<1> QED BY <1>5, <1>6 DEF ThreadsLive, Elapse

\* Whoever waits for the lock waits for a board that prepares, so time runs against work.
LEMMA ElapseWorks ==
  ASSUME LoopInv, Elapse, draining.on, process # "down"
  PROVE  \E b \in Boards : \/ thread[b] = "preparing" /\ timer[b] < PrepareTimeout
                           \/ thread[b] = "ticking" /\ timer[b] < TickTimeout
<1> USE DEF LoopInv
<1>1. PICK b \in Boards : thread[b] \notin {"none", "ended"}
    BY DEF Elapse, LoopTyped
<1>2. \A a \in Boards : timer[a] \in Nat /\ thread[a] \in Labels
    BY DEF LoopTyped
<1>3. thread[b] \in {"waiting", "preparing", "ticking"}
    BY <1>1, <1>2 DEF Elapse, Immediate, Labels
<1>4. \A a \in Boards : /\ thread[a] = "preparing" => timer[a] < PrepareTimeout
                        /\ thread[a] = "ticking" => timer[a] < TickTimeout
    BY <1>2, DurationAssumption DEF Elapse, Immediate
<1>5. CASE thread[b] = "waiting"
  <2>1. holder # {} /\ holder \in SUBSET Boards
      BY <1>5 DEF Elapse, Immediate, LoopTyped
  <2>2. \E a \in Boards : thread[a] = "preparing"
      BY <2>1 DEF ThreadsLive
  <2> QED BY <1>4, <2>2
<1> QED BY <1>3, <1>4, <1>5

LEMMA ElapseDrains ==
  ASSUME LoopInv, Elapse
  PROVE  PrepareBudget' /\ TickBudget' /\ DrainPrompt'
<1> USE DEF LoopInv
<1>1. UNCHANGED <<process, thread, holder>> /\ Preparing' = Preparing
    BY DEF Elapse, Preparing
<1>2. draining.since \in Nat /\ \A b \in Boards : timer[b] \in Nat
    BY DEF LoopTyped
<1>3. /\ draining'.on = draining.on
      /\ draining.on => draining'.since \in Nat /\ draining'.since <= draining.since + 1
    BY <1>2, OlderFacts DEF Elapse, LoopTyped
<1>4. \A b \in Boards : thread[b] \in {"preparing", "ticking"} => timer'[b] = timer[b] + 1
    BY DEF Elapse
<1>5. QueuedWork' = QueuedWork
    BY <1>1, QueueStays
<1>6. AllPrepares \in Nat /\ QueuedWork \in Nat
    BY QueueFacts, DurationFacts
<1>7. PrepareBudget'
  <2> SUFFICES ASSUME draining'.on
               PROVE  /\ \A b \in Boards : thread'[b] = "preparing" =>
                           draining'.since + QueuedWork' <= AllPrepares + timer'[b]
                      /\ holder' = {} /\ Preparing' # {} => draining'.since + QueuedWork' <= AllPrepares
      BY DEF PrepareBudget
  <2>1. ASSUME NEW b \in Boards, thread'[b] = "preparing"
        PROVE  draining'.since + QueuedWork' <= AllPrepares + timer'[b]
    <3>1. draining.since + QueuedWork <= AllPrepares + timer[b]
        BY <1>1, <1>3, <2>1 DEF PrepareBudget
    <3> QED BY <1>1, <1>2, <1>3, <1>4, <1>5, <1>6, <2>1, <3>1
  <2>2. ~(holder' = {} /\ Preparing' # {})
    <3>1. SUFFICES ASSUME holder = {} PROVE Preparing = {}
        BY <1>1
    <3>2. \A b \in Boards : thread[b] \notin {"waiting", "preparing"}
        BY <3>1 DEF Elapse, Immediate, ThreadsLive
    <3> QED BY <3>2 DEF Preparing
  <2> QED BY <2>1, <2>2
<1>8. TickBudget'
  <2> SUFFICES ASSUME draining'.on
               PROVE  /\ process' = "starting" => draining'.since = 0
                      /\ \A b \in Boards : /\ thread'[b] = "launching" => draining'.since = 0
                                           /\ thread'[b] = "ticking" => draining'.since <= timer'[b]
      BY DEF TickBudget
  <2>1. process' # "starting" /\ \A b \in Boards : thread'[b] # "launching"
      BY <1>1 DEF Elapse, Immediate
  <2>2. \A b \in Boards : thread[b] = "ticking" => draining.since <= timer[b]
      BY <1>3 DEF TickBudget
  <2> QED BY <1>1, <1>2, <1>3, <1>4, <2>1, <2>2
<1>9. DrainPrompt'
  <2> SUFFICES ASSUME process # "down", draining.on
               PROVE  draining'.since <= DrainBound
      BY <1>1, <1>3 DEF DrainPrompt
  <2>1. PICK b \in Boards : \/ thread[b] = "preparing" /\ timer[b] < PrepareTimeout
                            \/ thread[b] = "ticking" /\ timer[b] < TickTimeout
      BY ElapseWorks
  <2>2. CASE thread[b] = "preparing" /\ timer[b] < PrepareTimeout
    <3>1. PrepareTimeout <= QueuedWork
        BY <2>2, QueueFacts DEF Preparing
    <3>2. draining.since + QueuedWork <= AllPrepares + timer[b]
        BY <2>2 DEF PrepareBudget
    <3>3. draining.since < AllPrepares
        BY <1>2, <1>6, <2>2, <3>1, <3>2, DurationAssumption
    <3> QED BY <1>2, <1>3, <1>6, <3>3, DurationFacts
  <2>3. CASE thread[b] = "ticking" /\ timer[b] < TickTimeout
    <3>1. draining.since < TickTimeout
        BY <1>2, <2>3, DurationAssumption DEF TickBudget
    <3> QED BY <1>2, <1>3, <3>1, DurationFacts, DurationAssumption
  <2> QED BY <2>1, <2>2, <2>3
<1> QED BY <1>7, <1>8, <1>9

\* What the file says ages with what is in memory.
LEMMA ElapseBeats ==
  ASSUME LoopInv, Elapse
  PROVE  BeatBehind'
<1> USE DEF LoopInv
<1>1. /\ progress'.kind = progress.kind /\ heartbeat'.kind = heartbeat.kind
      /\ progress'.age = Older(progress.age) /\ heartbeat'.age = Older(heartbeat.age)
      /\ heartbeat = progress => heartbeat' = progress'
    BY DEF Elapse, Grown, LoopTyped
<1>2. progress.age \in Nat /\ heartbeat.age \in Nat /\ process' = process
    BY DEF LoopTyped, Elapse
<1> QED BY <1>1, <1>2, OlderFacts DEF BeatBehind

\* A nap ends within Idle, and work within the margin: the last pass is never older.
LEMMA ElapseCalm ==
  ASSUME LoopInv, Elapse
  PROVE  CalmRuns'
<1> USE DEF LoopInv
<1>1. process' = process /\ process # "starting" /\ thread' = thread
    BY DEF Elapse
<1>2. /\ process = "up" => sinceBeat < Beat /\ sinceBeat' = sinceBeat + 1
      /\ process # "up" => sinceBeat' = sinceBeat
    BY DEF Elapse
<1>3. /\ progress.age \in Nat /\ heartbeat.age \in Nat /\ sinceBeat \in Nat
      /\ \A b \in Boards : spent[b] \in Nat /\ calm[b] \in 0..NotCalm /\ timer[b] \in Nat /\ thread[b] \in Labels
      /\ Idle \in Nat /\ Margin \in Nat /\ Beat \in Nat
    BY DurationAssumption DEF LoopTyped
<1>4. /\ progress'.kind = progress.kind /\ heartbeat'.kind = heartbeat.kind
      /\ progress'.age \in Nat /\ progress'.age <= progress.age + 1
      /\ heartbeat'.age \in Nat /\ heartbeat'.age <= heartbeat.age + 1
    BY <1>3, OlderFacts DEF Elapse, Grown, LoopTyped
<1>5. ASSUME NEW b \in Boards, calm'[b] # NotCalm
      PROVE  process = "up" /\ CalmBoard(b)'
  <2>1. calm[b] # NotCalm /\ spent'[b] <= Margin /\ calm'[b] <= calm[b] + 1
      BY <1>5, ElapsePaces
  <2>2. process = "up" /\ CalmBoard(b)
      BY <2>1 DEF CalmRuns
  <2>3. spent'[b] \in Nat /\ calm'[b] \in Nat
      BY ElapsePaces
  <2>4. /\ calm'[b] > sinceBeat' => heartbeat'.kind = "last_pass_at" /\ heartbeat'.age <= Idle + Margin + sinceBeat'
    <3>1. calm'[b] > sinceBeat' => calm[b] > sinceBeat
        BY <1>2, <1>3, <2>1, <2>2, <2>3
    <3> QED BY <1>2, <1>3, <1>4, <2>2, <3>1 DEF CalmBoard
  <2>5. CASE thread[b] = "sleeping"
    <3>1. timer'[b] = timer[b] - 1 /\ ~Working(b)
        BY <2>5 DEF Elapse, Working
    <3>2. spent'[b] = 0 /\ spent[b] = 0
        BY <2>2, <2>5, <3>1, ElapsePaces DEF CalmBoard
    <3>3. progress'.age + timer'[b] <= Idle /\ timer[b] # 0
        BY <1>3, <1>4, <2>2, <2>5, <3>1 DEF CalmBoard, Elapse, Immediate
    <3>4. progress'.age <= Idle
        BY <1>3, <1>4, <3>1, <3>3
    <3> QED BY <1>1, <1>3, <1>4, <2>2, <2>4, <2>5, <3>2, <3>3, <3>4 DEF CalmBoard
  <2>6. CASE thread[b] # "sleeping"
    <3>1. Working(b)
        BY <1>3, <2>2, <2>6 DEF CalmBoard, Elapse, Immediate, Working, Labels
    <3>2. spent'[b] = spent[b] + 1
        BY <1>3, <2>1, <3>1, ElapsePaces
    <3>3. progress'.age <= Idle + spent'[b]
        BY <1>3, <1>4, <2>2, <3>2 DEF CalmBoard
    <3> QED BY <1>1, <1>4, <2>1, <2>2, <2>4, <2>6, <3>3 DEF CalmBoard
  <2> QED BY <2>2, <2>5, <2>6
<1>6. process' # "up" => \A b \in Boards : calm'[b] = NotCalm
    BY <1>1, <1>5
<1>7. process' # "down" => sinceBeat' <= Beat
    BY <1>1, <1>2, <1>3 DEF CalmRuns
<1> QED BY <1>5, <1>6, <1>7 DEF CalmRuns

(* ---- The invariant ------------------------------------------------------ *)

\* Every step of tick_boards.py keeps it.
LEMMA LoopKeeps == LoopInv /\ [TickNext]_tickVars => LoopInv'
<1> SUFFICES ASSUME LoopInv, [TickNext]_tickVars PROVE LoopInv'
    OBVIOUS
<1>1. CASE ProcessStep
    BY <1>1, ProcessTyped, ProcessBudget, ProcessBeats, ProcessCalm DEF LoopInv
<1>2. CASE Elapse
    BY <1>2, ElapseTyped, ElapseDrains, ElapseBeats, ElapseCalm DEF LoopInv
<1>3. ASSUME NEW b \in Boards, BoardStep(b) PROVE LoopInv'
    BY <1>3, BoardTyped, BoardBudget, BoardTicks, BoardBeats, BoardCalm DEF LoopInv
<1>4. CASE UNCHANGED tickVars
    BY <1>4 DEF tickVars, LoopInv, LoopTyped, ThreadsLive, PrepareBudget, TickBudget, DrainPrompt, BeatBehind,
       CalmRuns, CalmBoard, QueuedWork, Preparing
<1> QED BY <1>1, <1>2, <1>3, <1>4 DEF TickNext, ProcessStep

\* What a dead-man reads from a file that follows the memory.
LEMMA BeatTells == LoopInv => DeadmanTrue
<1> SUFFICES ASSUME LoopInv PROVE DeadmanTrue
    OBVIOUS
<1> USE DEF LoopInv
<1>1. /\ progress.kind \in {"started_at", "last_pass_at"} /\ progress.age \in Nat
      /\ heartbeat.kind \in {"missing", "started_at", "last_pass_at"} /\ heartbeat.age \in Nat
    BY DEF LoopTyped
<1>2. /\ Threshold \in Nat /\ FirstPassAllowance \in Nat /\ Beat \in Nat
      /\ Threshold <= FirstPassAllowance + Beat
    BY DurationFacts, DurationAssumption
<1>3. ASSUME NEW b \in Boards, calm[b] = Beat + 1
      PROVE  ~Alarm(heartbeat)
  <2>1. calm[b] # NotCalm /\ sinceBeat \in Nat /\ Idle \in Nat /\ Margin \in Nat
      BY <1>2, <1>3, DurationAssumption DEF NotCalm, LoopTyped
  <2>2. CalmBoard(b) /\ sinceBeat <= Beat
      BY <2>1 DEF CalmRuns
  <2>3. heartbeat.kind = "last_pass_at" /\ heartbeat.age <= Idle + Margin + sinceBeat
      BY <1>2, <1>3, <2>1, <2>2 DEF CalmBoard
  <2> QED BY <1>1, <1>2, <2>1, <2>2, <2>3 DEF Alarm, Threshold
<1>4. ASSUME progress.age > FirstPassAllowance + Beat
      PROVE  Alarm(heartbeat)
    BY <1>1, <1>2, <1>4 DEF Alarm, BeatBehind
<1> QED BY <1>3, <1>4 DEF DeadmanTrue

\* Between them the boards' budgets bound a drain, and the file follows the memory, for every
\* step of tick_boards.py.
THEOREM LoopInvariant == TickSpec => []LoopInv
BY LoopBegins, LoopKeeps, PTL DEF TickSpec

\* A drain is over when the work in flight has had its timeouts: no sleep, no lock and no
\* tick begun later prolongs it (Drain, run and run_board in tick_boards.py).
THEOREM DrainIsPrompt == TickSpec => []DrainPrompt
<1>1. LoopInv => DrainPrompt
    BY DEF LoopInv
<1> QED BY <1>1, LoopInvariant, PTL

\* No alarm while a board goes on passing within the margin, and always one when nothing has
\* passed for the larger allowance and a beat (evaluate in tick_boards_deadman.py).
THEOREM DeadmanIsTrue == TickSpec => []DeadmanTrue
BY BeatTells, LoopInvariant, PTL
-----------------------------------------------------------------------------
(* The alarm watcher.  What a pass decided in Evaluate it writes later, when  *)
(* time has passed and the world has moved on; only a pass writes the state   *)
(* file, so what it decided on is still there (PassDecided).                  *)

InputStates == {"there", "gone", "unreadable"}
Events == {"none", "raised", "renotified", "cleared"}

WatchTyped ==
  /\ problem \subseteq Alarms /\ heard \subseteq problem /\ faults \in 0..WatchFaults
  /\ input \in [Alarms -> InputStates]
  /\ entry \in [Alarms -> Ages \cup {NoEntry}]
  /\ watching \in [at : {"rest", "write", "notify"}, delta : [Alarms -> Events],
                   kept : [Alarms -> Ages \cup {NoEntry}]]

PassDecided ==
  watching.at = "write" =>
    \A k \in Alarms :
      /\ watching.delta[k] = "none" => watching.kept[k] = entry[k]
      /\ watching.delta[k] = "raised" => entry[k] = NoEntry
      /\ watching.delta[k] = "renotified" => entry[k] = Renotify
      /\ watching.delta[k] = "cleared" => watching.kept[k] = NoEntry
      /\ watching.delta[k] \in {"raised", "renotified"} => watching.kept[k] # NoEntry

\* watch() replaces the state file before it runs the notifiers: whatever the operator is told
\* has its entry, so a pass that dies while it tells does not make the next tell it again.
TellingRecorded == watching.at = "notify" => \A k \in Tells : entry[k] # NoEntry

WatchInv == WatchTyped /\ PassDecided /\ TellingRecorded

\* "Re-raised after renotify_s while it persists", and not before: an entry that is not due ages,
\* stays or goes, and no pass, however late it writes, sets its clock back.
NoticesSpaced ==
  [][\A k \in Alarms : entry[k] \in 0..(Renotify - 1) =>
       entry'[k] \in {NoEntry, entry[k], entry[k] + 1}]_watchVars

\* What a pass decides of one alarm, by what it finds.
LEMMA EventFacts ==
  ASSUME WatchTyped, NEW k \in Alarms
  PROVE  /\ Event(k) \in Events /\ Kept(k) \in Ages \cup {NoEntry}
         /\ Event(k) = "none" => Kept(k) = entry[k]
         /\ Event(k) = "raised" => entry[k] = NoEntry
         /\ Event(k) = "renotified" => entry[k] = Renotify
         /\ Event(k) = "cleared" => Kept(k) = NoEntry
         /\ Event(k) \in {"raised", "renotified"} => Kept(k) # NoEntry
<1>1. entry[k] \in Ages \cup {NoEntry} /\ Renotify \in Nat \ {0}
  BY WatchAssumption DEF WatchTyped
<1>2. CASE entry[k] = NoEntry
  <2>1. Event(k) = IF Alarmed(k) THEN "raised" ELSE "none"
    BY <1>2 DEF Event
  <2> QED BY <1>1, <1>2, <2>1 DEF Kept, Events, Ages, NoEntry
<1>3. CASE entry[k] # NoEntry
  <2>1. Event(k) = IF ~Alarmed(k) THEN "cleared"
                   ELSE IF entry[k] >= Renotify THEN "renotified" ELSE "none"
    BY <1>3 DEF Event
  <2>2. Kept(k) = IF Event(k) \in {"raised", "renotified"} THEN 0
                  ELSE IF Event(k) = "cleared" THEN NoEntry ELSE entry[k]
    BY DEF Kept
  <2>3. entry[k] \in 0..Renotify
    BY <1>1, <1>3 DEF Ages
  <2> QED BY <1>1, <1>3, <2>1, <2>2, <2>3 DEF Events, Ages, NoEntry
<1> QED BY <1>2, <1>3

\* The file ages entry by entry, and none appears or goes by it.
LEMMA AgedFacts ==
  \A f \in [Alarms -> Ages \cup {NoEntry}] :
    /\ Aged(f) \in [Alarms -> Ages \cup {NoEntry}]
    /\ \A k \in Alarms : /\ f[k] = NoEntry <=> Aged(f)[k] = NoEntry
                        /\ f[k] = Renotify => Aged(f)[k] = Renotify
                        /\ Aged(f)[k] \in {f[k], f[k] + 1}
BY WatchAssumption DEF Aged, Ages, NoEntry

LEMMA WatchBegins == WatchInit => WatchInv
BY WatchAssumption DEF WatchInit, WatchInv, WatchTyped, PassDecided, TellingRecorded, WatchRests, InputStates, Events

\* A pass: what it decides, writes and tells.
LEMMA WatchPassKeeps ==
  ASSUME WatchInv, Evaluate \/ WriteState \/ Notify \/ NotifyFails \/ WatchDies
  PROVE  WatchInv'
<1> USE DEF WatchInv
<1>0. /\ WatchRests.at = "rest"
      /\ WatchRests \in [at : {"rest", "write", "notify"}, delta : [Alarms -> Events],
                         kept : [Alarms -> Ages \cup {NoEntry}]]
  BY DEF WatchRests, Events
<1>1. CASE Evaluate
  <2>1. CASE watching' = WatchRests
    BY <1>0, <1>1, <2>1 DEF Evaluate, WatchTyped, PassDecided, TellingRecorded
  <2>2. CASE watching' = [at |-> "write", delta |-> [k \in Alarms |-> Event(k)],
                          kept |-> [k \in Alarms |-> Kept(k)]]
    <3>1. watching' \in [at : {"rest", "write", "notify"}, delta : [Alarms -> Events],
                         kept : [Alarms -> Ages \cup {NoEntry}]]
      BY <2>2, EventFacts
    <3>2. UNCHANGED <<problem, input, entry, heard, faults>>
      BY <1>1 DEF Evaluate
    <3>3. \A k \in Alarms : watching'.delta[k] = Event(k) /\ watching'.kept[k] = Kept(k)
      BY <2>2
    <3>4. PassDecided'
      BY <3>2, <3>3, EventFacts DEF PassDecided
    <3>5. TellingRecorded'
      BY <2>2 DEF TellingRecorded
    <3> QED BY <3>1, <3>2, <3>4, <3>5 DEF WatchTyped
  <2> QED BY <1>1, <2>1, <2>2 DEF Evaluate
<1>2. CASE WriteState
  <2>1. /\ entry' = watching.kept /\ watching'.at = "notify"
        /\ watching'.kept = watching.kept /\ watching'.delta = watching.delta
        /\ watching' \in [at : {"rest", "write", "notify"}, delta : [Alarms -> Events],
                          kept : [Alarms -> Ages \cup {NoEntry}]]
        /\ UNCHANGED <<problem, input, heard, faults>>
    BY <1>2 DEF WriteState, WatchTyped
  <2>2. entry' \in [Alarms -> Ages \cup {NoEntry}]
    BY <2>1 DEF WatchTyped
  <2>3. TellingRecorded'
    BY <1>2, <2>1 DEF WriteState, PassDecided, TellingRecorded, Tells
  <2> QED BY <2>1, <2>2, <2>3 DEF WatchTyped, PassDecided
<1>3. CASE Notify
  BY <1>0, <1>3 DEF Notify, WatchTyped, PassDecided, TellingRecorded
<1>4. CASE NotifyFails \/ WatchDies
  <2>1. /\ watching' = WatchRests /\ faults' = faults + 1 /\ faults < WatchFaults
        /\ UNCHANGED <<problem, input, entry, heard>>
    BY <1>4 DEF NotifyFails, WatchDies
  <2>2. faults' \in 0..WatchFaults
    BY <2>1, WatchAssumption DEF WatchTyped
  <2> QED BY <1>0, <2>1, <2>2 DEF WatchTyped, PassDecided, TellingRecorded
<1> QED BY <1>1, <1>2, <1>3, <1>4

\* The world it watches, and time.
LEMMA WorldKeeps ==
  ASSUME WatchInv, EntriesAge \/ \E k \in Alarms : Arises(k) \/ Ends(k) \/ InputChanges(k)
  PROVE  WatchInv'
<1> USE DEF WatchInv
<1>1. CASE EntriesAge
  <2>1. /\ entry \in [Alarms -> Ages \cup {NoEntry}] /\ watching.kept \in [Alarms -> Ages \cup {NoEntry}]
    BY DEF WatchTyped
  <2>2. /\ entry' = Aged(entry) /\ watching'.kept = Aged(watching.kept)
        /\ watching'.at = watching.at /\ watching'.delta = watching.delta
    BY <1>1 DEF EntriesAge, WatchTyped
  <2>3. WatchTyped'
    BY <1>1, <2>1, <2>2, AgedFacts DEF EntriesAge, WatchTyped
  <2>4. \A k \in Alarms : watching.kept[k] = entry[k] => watching'.kept[k] = entry'[k]
    BY <2>1, <2>2 DEF Aged
  <2>7. \A k \in Alarms : /\ entry[k] = NoEntry <=> entry'[k] = NoEntry
                          /\ entry[k] = Renotify => entry'[k] = Renotify
    BY <2>1, <2>2, WatchAssumption DEF Aged, Ages, NoEntry
  <2>8. \A k \in Alarms : watching.kept[k] = NoEntry <=> watching'.kept[k] = NoEntry
    BY <2>1, <2>2, WatchAssumption DEF Aged, Ages, NoEntry
  <2>5. PassDecided'
    BY <2>2, <2>4, <2>7, <2>8 DEF PassDecided
  <2>6. TellingRecorded'
    BY <2>2, <2>7 DEF TellingRecorded, Tells
  <2> QED BY <2>3, <2>5, <2>6
<1>2. ASSUME NEW k \in Alarms, Arises(k) \/ Ends(k) \/ InputChanges(k)
      PROVE  WatchInv'
  <2>1. UNCHANGED <<entry, watching, faults>>
    BY <1>2 DEF Arises, Ends, InputChanges
  <2>2. WatchTyped'
    <3>1. problem' \subseteq Alarms /\ heard' \subseteq problem'
      BY <1>2 DEF Arises, Ends, InputChanges, WatchTyped
    <3>2. input' \in [Alarms -> InputStates]
      BY <1>2 DEF Arises, Ends, InputChanges, WatchTyped, InputStates
    <3> QED BY <2>1, <3>1, <3>2 DEF WatchTyped
  <2> QED BY <2>1, <2>2 DEF PassDecided, TellingRecorded, Tells
<1> QED BY <1>1, <1>2

LEMMA WatchKeeps == WatchInv /\ [WatchNext]_watchVars => WatchInv'
<1>1. WatchInv /\ UNCHANGED watchVars => WatchInv'
  BY DEF watchVars, WatchInv, WatchTyped, PassDecided, TellingRecorded, Tells
<1> QED BY <1>1, WatchPassKeeps, WorldKeeps DEF WatchNext

LEMMA NoticeStep ==
  ASSUME WatchInv, WatchNext, NEW k \in Alarms, entry[k] \in 0..(Renotify - 1)
  PROVE  entry'[k] \in {NoEntry, entry[k], entry[k] + 1}
<1>1. CASE WriteState
  <2>1. watching.delta[k] \in Events /\ entry'[k] = watching.kept[k] /\ watching.at = "write"
    BY <1>1 DEF WriteState, WatchInv, WatchTyped
  <2> QED BY <2>1, WatchAssumption DEF WatchInv, PassDecided, Events, NoEntry
<1>2. CASE EntriesAge
  <2>1. entry \in [Alarms -> Ages \cup {NoEntry}] /\ entry' = Aged(entry)
    BY <1>2 DEF EntriesAge, WatchInv, WatchTyped
  <2> QED BY <2>1, WatchAssumption DEF Aged, Ages, NoEntry
<1>3. CASE \/ Evaluate \/ Notify \/ NotifyFails \/ WatchDies
           \/ \E j \in Alarms : Arises(j) \/ Ends(j) \/ InputChanges(j)
  BY <1>3 DEF Evaluate, Notify, NotifyFails, WatchDies, Arises, Ends, InputChanges
<1> QED BY <1>1, <1>2, <1>3 DEF WatchNext

LEMMA NoticeSteps ==
  WatchInv /\ [WatchNext]_watchVars =>
    [\A k \in Alarms : entry[k] \in 0..(Renotify - 1) =>
       entry'[k] \in {NoEntry, entry[k], entry[k] + 1}]_watchVars
BY NoticeStep

\* A pass acts on what it decided, however late: the types of the watcher, what a decision keeps of
\* the state file, and the entry behind everything told (watch of watch.py).
THEOREM WatchInvariant == WatchSpec => []WatchInv
BY WatchBegins, WatchKeeps, PTL DEF WatchSpec

\* No alarm is told again before it is due, by passes that die, notifiers that fail and problems
\* that come and go (evaluate and watch of watch.py).
THEOREM NoticesAreSpaced == WatchSpec => NoticesSpaced
BY NoticeSteps, WatchInvariant, PTL DEF WatchSpec, NoticesSpaced
=============================================================================
