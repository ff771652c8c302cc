------------------------------ MODULE Routing ------------------------------
(* One board's pass as it routes its ready tasks to lanes: the readiness of *)
(* every lane is read at the start and again after an admission or a join   *)
(* (runner.readiness_view), stale records are re-read from the collectors'  *)
(* observation files (refresh_stale_lanes), route() and select_lane() choose *)
(* a lane, the wait loop waits for the pass's own attempts, and the attempt *)
(* threads record a model the endpoint refused (note_model_refusal).         *)
(* board_prepare rewrites the lane records before every tick of any board's  *)
(* loop (tick_boards.default_prepare), and again before a dispatch when the  *)
(* tick is configured with prepare_argv. Attempts of other boards take slots *)
(* of the same accounts. What an attempt does otherwise is module Worker's   *)
(* and Packet's.                                                             *)
EXTENDS Naturals, FiniteSets, Sequences

CONSTANTS
  Lanes,          \* lane ids
  LaneConf,       \* [Lanes -> lane configuration], see LaneConfs
  Accounts, Capacity,   \* accounts, and the slots of each
  TaskOrder,      \* the board's ready tasks, in board order
  TaskConf,       \* [tasks -> task], see TaskConfs
  Valid,          \* quota_freshness_seconds
  RefusalTTL,     \* MODEL_REFUSAL_TTL
  Closes,         \* the instant the campaign window closes
  RouteClock,     \* bound: the last instant
  Publications    \* bound: readings the collectors publish

Work == {TaskOrder[i] : i \in DOMAIN TaskOrder}

LaneConfs == [family : STRING, account : Accounts, concurrency : Nat, tier : STRING,
              categories : SUBSET STRING, firstParty : BOOLEAN, meets : BOOLEAN,
              cap : Nat, windowed : BOOLEAN, canaried : BOOLEAN, proven : SUBSET STRING]
TaskConfs == [category : STRING, lanes : SUBSET Lanes, author : STRING, need : Nat]

ASSUME RoutingAssumption ==
  /\ TaskOrder \in Seq(Work)
  /\ LaneConf \in [Lanes -> LaneConfs] /\ TaskConf \in [Work -> TaskConfs]
  /\ Capacity \in [Accounts -> Nat]
  /\ {Valid, RefusalTTL, Closes, RouteClock, Publications} \subseteq Nat

VARIABLES
  time,       \* the clock
  lanerec,    \* lane -> its record in the ledger: when the quota was seen, spent or not, refused until
  reading,    \* lane -> its provider's observation file
  published,  \* readings published so far
  others,     \* account -> slots other boards' attempts occupy
  job,        \* task -> its attempt: lane, thread and ledger state
  noted,      \* history: lane -> until when the refusal noted since the last prepare lasts
  promised,   \* history: lane -> until when the last refusal noted was to last
  pass        \* the pass: where it is, its frozen now, its readiness view and its queue

routeVars == <<time, lanerec, reading, published, others, job, noted, promised, pass>>

NoLane == "none"
Unread == [seen |-> 0, spent |-> FALSE, refused |-> 0]
NoJob == [lane |-> NoLane, thread |-> "none", state |-> "none", read |-> Unread]

(* lane_readiness.lane_readiness over the fields a reading can change.       *)
Classified(r, now) ==
  IF now > r.seen + Valid THEN "stale"
  ELSE IF r.spent THEN "exhausted" ELSE "ready"

(* runner.model_unsupported_until *)
Unsupported(r, now) == r.refused > now

(* Slots of an account taken by this board's attempts; a hold still counts.  *)
Taken(jobs, a) == Cardinality({t \in Work : /\ jobs[t].state \in {"dispatching", "held"}
                                             /\ LaneConf[jobs[t].lane].account = a}) + others[a]
(* runner.account_slots *)
Free(a) == IF Taken(job, a) < Capacity[a] THEN Capacity[a] - Taken(job, a) ELSE 0

(* runner.readiness_view, one lane: the first condition that holds decides.  *)
LaneState(recs, jobs, l, now) ==
  LET c == Classified(recs[l], now) IN
  IF c # "ready" THEN c
  ELSE IF Unsupported(recs[l], now) THEN "refused"
  ELSE IF ~LaneConf[l].canaried THEN "unqualified"
  ELSE IF Taken(jobs, LaneConf[l].account) >= LaneConf[l].concurrency THEN "busy"
  ELSE "ready"

ReadinessView(recs, jobs, now) == [l \in Lanes |-> LaneState(recs, jobs, l, now)]

RereadForgets(recs, now) ==   \* As if the re-read record dropped the refusal.
  [l \in Lanes |->
     IF Classified(recs[l], now) = "stale" /\ reading[l].seen + Valid > now
     THEN reading[l] ELSE recs[l]]

(* runner.refresh_stale_lanes: a stale record is replaced by the reading of  *)
(* its provider's file when that one is fresh; the refusal is carried over.  *)
Reread(recs, now) ==
  [l \in Lanes |->
     IF Classified(recs[l], now) = "stale" /\ reading[l].seen + Valid > now
     THEN [reading[l] EXCEPT !.refused = recs[l].refused] ELSE recs[l]]

(* ---- route() and select_lane() ---------------------------------------- *)
SelfQualifying == {"canary", "packet", "plan"}

(* route_now: the view as this task may use it. *)
Usable(t, l, state) ==
  \/ state = "ready" /\ (\/ TaskConf[t].category \in SelfQualifying
                         \/ TaskConf[t].category \in LaneConf[l].proven)
  \/ state = "unqualified" /\ TaskConf[t].category \in SelfQualifying

Declares(t, l) == \/ TaskConf[t].category \in LaneConf[l].categories
                  \/ TaskConf[t].category \in {"canary", "plan"}

(* route.default_lanes, or the task's own list; a plan task is refused when  *)
(* its list names a lane that is not marked for planning.                    *)
Candidates(t) ==
  LET own == TaskConf[t].lanes
      planners == {l \in Lanes : TaskConf[t].category = "plan" => LaneConf[l].tier = "plan"}
  IN IF own \subseteq planners /\ own # {} THEN own
     ELSE {l \in planners : own = {} /\ Declares(t, l) /\ ~LaneConf[l].firstParty}

Permitted(t) == {l \in Candidates(t) : LaneConf[l].meets}
Fitting(t) == {l \in Permitted(t) : TaskConf[t].need <= LaneConf[l].cap}

WantedTier(t) == CASE TaskConf[t].category = "plan" -> "plan"
                   [] TaskConf[t].category = "independent_review" -> "review"
                   [] OTHER -> "build"

(* The lanes of the wanted tier, or all that fit when there is none. *)
Offered(t) ==
  LET matching == {l \in Fitting(t) : LaneConf[l].tier = WantedTier(t)}
  IN IF matching = {} THEN Fitting(t) ELSE matching

WindowOpen(l, now) == LaneConf[l].windowed => now < Closes

(* select_lane: what is left is ready, declares the category, is of another  *)
(* family than the author, and its window is open; route re-ranks by quota.  *)
Selectable(t, view, now) ==
  {l \in Offered(t) : /\ Usable(t, l, view[l]) /\ Declares(t, l)
                      /\ LaneConf[l].family # TaskConf[t].author
                      /\ WindowOpen(l, now)}

(* ---- The pass ----------------------------------------------------------- *)
IdlePass == [at |-> "idle", now |-> 0, view |-> [l \in Lanes |-> "stale"], queue |-> <<>>,
             lane |-> NoLane, victim |-> NoLane, knew |-> [l \in Lanes |-> 0]]

RouteInit ==
  /\ time = 0
  /\ lanerec = [l \in Lanes |-> Unread]
  /\ reading = lanerec
  /\ published = 0
  /\ others = [a \in Accounts |-> 0]
  /\ job = [t \in Work |-> NoJob]
  /\ noted = [l \in Lanes |-> 0]
  /\ promised = noted
  /\ pass = IdlePass

Current == Head(pass.queue)
Account == LaneConf[pass.lane].account
Looking(where) == pass.at = where /\ pass.queue # <<>>

(* The view read again from records recs, with the pass's own now. *)
Looked(p, recs, jobs) == [p EXCEPT !.view = ReadinessView(recs, jobs, p.now), !.knew = noted]

(* The tick begins: now is frozen, the readiness read, stale records re-read *)
(* and, when one was, the readiness read again.                              *)
StartPass ==
  /\ pass.at = "idle"
  /\ \E t \in Work : job[t].state = "none"
  /\ lanerec' = Reread(lanerec, time)
  /\ pass' = Looked([IdlePass EXCEPT !.at = "route", !.now = time,
                       !.queue = SelectSeq(TaskOrder, LAMBDA t : job[t].state = "none")],
                    lanerec', job)
  /\ UNCHANGED <<time, reading, published, others, job, noted, promised>>

Choose(p) ==
  LET s == Selectable(Current, p.view, p.now)
  IN {[p EXCEPT !.at = "check", !.lane = l] : l \in IF s = {} THEN {NoLane} ELSE s}

(* route_now(readiness): the quota tiebreak is any of the selectable lanes.  *)
RouteTask ==
  /\ Looking("route")
  /\ pass' \in Choose(pass)
  /\ UNCHANGED <<time, lanerec, reading, published, others, job, noted, promised>>

OwnLive(t) == job[t].thread \in {"running", "noting"}

(* The accounts the loop waits on: those of the candidates offered when no   *)
(* lane was chosen; a chosen lane's own account is subtracted from its set.  *)
Wanted == IF pass.lane = NoLane THEN {LaneConf[l].account : l \in Offered(Current)} ELSE {}
Victims == {t \in Work : OwnLive(t) /\ LaneConf[job[t].lane].account \in Wanted}

LaneFree ==
  /\ Looking("check") /\ pass.lane # NoLane
  /\ Free(Account) > 0
  /\ pass' = [pass EXCEPT !.at = "prepare"]
  /\ UNCHANGED <<time, lanerec, reading, published, others, job, noted, promised>>

AwaitOwn ==
  /\ Looking("check")
  /\ \E t \in Victims : pass' = [pass EXCEPT !.at = "join", !.victim = t]
  /\ UNCHANGED <<time, lanerec, reading, published, others, job, noted, promised>>

Joined ==
  /\ pass.at = "join" /\ ~OwnLive(pass.victim)
  /\ pass' = Looked([pass EXCEPT !.at = "route", !.victim = NoLane], lanerec, job)
  /\ UNCHANGED <<time, lanerec, reading, published, others, job, noted, promised>>

(* A chosen lane whose account is full, and nobody to wait for: the loop is  *)
(* left with the lane and the admission is tried.                            *)
LaneFull ==
  /\ Looking("check") /\ pass.lane # NoLane
  /\ Free(Account) = 0
  /\ pass' = [pass EXCEPT !.at = "prepare"]
  /\ UNCHANGED <<time, lanerec, reading, published, others, job, noted, promised>>

NextTask(p) == [p EXCEPT !.at = "route", !.lane = NoLane, !.queue = Tail(@)]

(* No lane: the row names the reason and the task stays ready. *)
RefuseTask ==
  /\ Looking("check") /\ pass.lane = NoLane /\ Victims = {}
  /\ pass' = NextTask(pass)
  /\ UNCHANGED <<time, lanerec, reading, published, others, job, noted, promised>>

(* board_prepare.main: every lane's record is written anew from its          *)
(* observation file, and nothing of the old record is carried over.          *)
WriteRecords ==
  /\ lanerec' = reading
  /\ noted' = [l \in Lanes |-> 0]

(* The pass's own prepare_argv, when its tick is configured with one. *)
Prepare ==
  /\ pass.at = "prepare"
  /\ pass' = [pass EXCEPT !.at = "admit"]
  /\ WriteRecords \/ UNCHANGED <<lanerec, noted>>
  /\ UNCHANGED <<time, reading, published, others, job, promised>>

(* As if claim() trusted the slots that the pass saw. *)
AdmitUnchecked ==
  /\ Looking("admit")
  /\ job' = [job EXCEPT ![Current] =
               [lane |-> pass.lane, thread |-> "running", state |-> "dispatching", read |-> Unread]]
  /\ pass' = Looked(NextTask(pass), lanerec, job')
  /\ UNCHANGED <<time, lanerec, reading, published, others, noted, promised>>

(* admit() and the thread's start; the readiness is read again. *)
AdmitTask ==
  /\ Looking("admit") /\ Free(Account) > 0
  /\ job' = [job EXCEPT ![Current] =
               [lane |-> pass.lane, thread |-> "running", state |-> "dispatching", read |-> Unread]]
  /\ pass' = Looked(NextTask(pass), lanerec, job')
  /\ UNCHANGED <<time, lanerec, reading, published, others, noted, promised>>

(* claim() refuses: the account is full, or staging fails. *)
AdmissionRefused ==
  /\ Looking("admit")
  /\ pass' = Looked(NextTask(pass), lanerec, job)
  /\ UNCHANGED <<time, lanerec, reading, published, others, job, noted, promised>>

PassEnds ==
  /\ pass.at = "route" /\ pass.queue = <<>>
  /\ \A t \in Work : ~OwnLive(t)
  /\ pass' = IdlePass
  /\ UNCHANGED <<time, lanerec, reading, published, others, job, noted, promised>>

(* ---- The attempt threads ------------------------------------------------ *)
JobCompletes(t) ==
  /\ job[t].thread = "running"
  /\ job' = [job EXCEPT ![t].thread = "ended", ![t].state = "settled"]
  /\ UNCHANGED <<time, lanerec, reading, published, others, noted, promised, pass>>

JobHeld(t) ==
  /\ job[t].thread = "running"
  /\ job' = [job EXCEPT ![t].thread = "ended", ![t].state = "held"]
  /\ UNCHANGED <<time, lanerec, reading, published, others, noted, promised, pass>>

(* The endpoint answers 401 or 403: the attempt is held and                  *)
(* note_model_refusal reads the lane's record ... (a packet's hold does not). *)
ModelRefused(t) ==
  /\ job[t].thread = "running" /\ TaskConf[t].category # "packet"
  /\ job' = [job EXCEPT ![t].thread = "noting", ![t].state = "held",
               ![t].read = lanerec[job[t].lane]]
  /\ UNCHANGED <<time, lanerec, reading, published, others, noted, promised, pass>>

(* ... and writes it back with the instant the exclusion ends. *)
NoteRefusal(t) ==
  /\ job[t].thread = "noting"
  /\ LET l == job[t].lane IN
       /\ lanerec' = [lanerec EXCEPT ![l] = [job[t].read EXCEPT !.refused = time + RefusalTTL]]
       /\ noted' = [noted EXCEPT ![l] = time + RefusalTTL]
       /\ promised' = [promised EXCEPT ![l] = time + RefusalTTL]
  /\ job' = [job EXCEPT ![t].thread = "ended", ![t].read = Unread]
  /\ UNCHANGED <<time, reading, published, others, pass>>

(* ---- Around the pass ---------------------------------------------------- *)
(* A board's loop prepares before its tick: this board's between two passes, *)
(* another's while this one's pass runs.                                     *)
LoopPrepares ==
  /\ WriteRecords
  /\ UNCHANGED <<time, reading, published, others, job, promised, pass>>

(* The operator resolves a hold and the task is taken up again. *)
OperatorFrees(t) ==
  /\ job[t].state = "held" /\ job[t].thread = "ended"
  /\ job' = [job EXCEPT ![t] = NoJob]
  /\ pass.at = "idle"
  /\ UNCHANGED <<time, lanerec, reading, published, others, noted, promised, pass>>

OtherBoards ==
  /\ \E a \in Accounts :
       \/ Free(a) > 0 /\ others' = [others EXCEPT ![a] = @ + 1]
       \/ others[a] > 0 /\ others' = [others EXCEPT ![a] = @ - 1]
  /\ UNCHANGED <<time, lanerec, reading, published, job, noted, promised, pass>>

(* A collector writes an observation file. *)
Publish ==
  /\ published < Publications
  /\ published' = published + 1
  /\ \E l \in Lanes, s \in BOOLEAN :
       reading' = [reading EXCEPT ![l] = [seen |-> time, spent |-> s, refused |-> 0]]
  /\ UNCHANGED <<time, lanerec, others, job, noted, promised, pass>>

RouteTick ==
  /\ time < RouteClock
  /\ time' = time + 1
  /\ UNCHANGED <<lanerec, reading, published, others, job, noted, promised, pass>>

PassMoves == \/ StartPass \/ RouteTask \/ LaneFree \/ AwaitOwn \/ Joined \/ LaneFull
             \/ RefuseTask \/ Prepare \/ AdmitTask \/ AdmissionRefused \/ PassEnds
JobMoves(t) == JobCompletes(t) \/ JobHeld(t) \/ ModelRefused(t) \/ NoteRefusal(t)

RouteNext == \/ PassMoves \/ LoopPrepares \/ OtherBoards \/ Publish \/ RouteTick
             \/ \E t \in Work : JobMoves(t) \/ OperatorFrees(t)

RouteSpec == RouteInit /\ [][RouteNext]_routeVars

----------------------------------------------------------------------------
(* Types *)
LaneRecs == [seen : 0..RouteClock, spent : BOOLEAN, refused : 0..(RouteClock + RefusalTTL)]

RouteTypeOK ==
  /\ time \in 0..RouteClock
  /\ {lanerec, reading} \subseteq [Lanes -> LaneRecs]
  /\ \A a \in Accounts : Taken(job, a) <= Capacity[a]
  /\ \A t \in Work : /\ (job[t].state = "dispatching") = (job[t].thread = "running")
                     /\ job[t].thread = "noting" => job[t].state = "held"

(* A model the endpoint refused (401/403) is not dispatched on that lane     *)
(* again before the exclusion ends, by a pass that read the readiness after  *)
(* the refusal was recorded and before a prepare wrote the record anew:      *)
(* through stale records that are re-read, and threads that write back a     *)
(* record they read earlier (runner.py readiness_view, note_model_refusal).  *)
RefusalHonoured ==
  [][\A t \in Work :
       job[t].thread = "none" /\ job'[t].thread = "running"
         => pass.knew[job'[t].lane] <= pass.now]_routeVars

(* What is promised of it: "`readiness_view` marks the lane `unqualified`    *)
(* for that model for 24 h" (docs/CONTRIBUTIONS.md:144), so that no pass     *)
(* that begins within that time of the refusal dispatches it there.          *)
RefusalLasts ==
  [][\A t \in Work :
       LET until == promised[job'[t].lane] IN
       job[t].thread = "none" /\ job'[t].thread = "running"
         => ~(pass.now < until /\ until < pass.now + RefusalTTL)]_routeVars

=============================================================================
