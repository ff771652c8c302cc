----------------------------- MODULE LaneProofs -----------------------------
(***************************************************************************)
(* Proofs about one attempt on a lane adapter and about the routing that    *)
(* gave it its lane, for any setups, files, lanes, tasks and clocks: a      *)
(* receipt is earned (LaneRun), a task is dispatched on a lane that suits it *)
(* and a refused model not again by a pass that knows of the refusal         *)
(* (Routing); and the types of both, with the slots of every account.        *)
(***************************************************************************)
EXTENDS LaneRun, Routing, FiniteSetTheorems, TLAPS

-----------------------------------------------------------------------------
(* LaneRun *)

Before == {"start", "stage", "probe", "spawn", "send", "read"}
Waiting == {"wait", "term", "poll", "kill"}
After == {"digest", "judge", "publish", "report"}

\* What the adapter has made sure of when it publishes.
Gathered ==
  /\ setup.kind \in Commands => ended = "process_exited" /\ command.state = "exited"
  /\ setup.kind \in Digested => ~disturbed
  /\ setup.kind \in Commands \ {"opencode_cli"} => command.code = 0 /\ tape.served = {"asked"}
  /\ setup.kind = "opencode_cli" => tape.echo = "asked"

\* ... and when it prints the receipt.
Earned ==
  /\ Gathered
  /\ output # {} /\ (setup.names # {} => output = setup.names)
  /\ setup.kind \in Commands => output \subseteq work
  /\ setup.kind = "go_http" => said.model # "other" /\ said.finish = "stop"

\* What is known at each point of the adapter: the command has not begun, may run, is over;
\* a change of the user's files while it ran shows against the digest taken before.
LaneInv ==
  /\ setup \in Setups /\ home \in Nat /\ before \in Nat
  /\ command \in [state : {"none", "running", "exited", "signalled"}, code : {0, 1}]
  /\ point \in Before \cup Waiting \cup After \cup {"done"}
  /\ point = "done" <=> answer # "none"
  /\ point \in Before => command.state = "none" /\ ~disturbed
  /\ point \in {"probe", "spawn", "digest", "judge", "publish"} \cup Waiting => setup.kind \in Commands
  /\ point \in {"send", "read"} => setup.kind = "go_http"
  /\ point \in After => command.state # "running"
  /\ point \in {"spawn", "digest"} \cup Waiting => before <= home
  /\ point \in Waiting \cup {"digest"} /\ disturbed => before < home
  /\ point \in Before \cup Waiting => ended # "process_exited"
  /\ point \in After /\ ended = "process_exited" => command.state = "exited"
  /\ point \in {"judge", "publish"} /\ setup.kind \in Digested => ~disturbed
  /\ point = "publish" => Gathered
  /\ point = "report" \/ answer = "receipt" => Earned

\* Nothing the user, the command or the worker does moves the adapter, but for the kill.
AroundIt == Works \/ Exits \/ Login \/ WorkerKills

\* A lane's run is its kind's part of these steps.
LEMMA LaneSteps ==
  ASSUME LaneNext
  PROVE  \/ Dispatch \/ Stage \/ PrintReceipt \/ AroundIt
         \/ setup.kind \in Commands /\ RunCommand
         \/ setup.kind = "go_http" /\ (Send \/ ReadDocument)
BY DEF LaneNext, AroundIt, Commands, Digested, RunCommand, ClaudeRun, ZcodeRun, GoatRun, CodexRun, OpencodeRun, GoRun

\* A record that qualifies, of a command that is over, is what a receipt needs.
LEMMA QualifiedIsGathered ==
  ASSUME setup.kind \in Commands, Qualifies,
         ended = "process_exited" => command.state = "exited",
         setup.kind \in Digested => ~disturbed
  PROVE  Gathered
<1>1. CASE setup.kind = "claude_headless"
  BY <1>1 DEF Qualifies, ClaudeQualifies, Clean, OnlyAsked, Gathered
<1>2. CASE setup.kind = "zcode_cli"
  BY <1>2 DEF Qualifies, ZcodeQualifies, Clean, OnlyAsked, Gathered
<1>3. CASE setup.kind = "goat_cli"
  BY <1>3 DEF Qualifies, GoatQualifies, Clean, OnlyAsked, Gathered
<1>4. CASE setup.kind = "codex_cli"
  BY <1>4 DEF Qualifies, CodexQualifies, Clean, OnlyAsked, Gathered
<1>5. CASE setup.kind = "opencode_cli"
  BY <1>5 DEF Qualifies, OpencodeQualifies, Gathered
<1> QED BY <1>1, <1>2, <1>3, <1>4, <1>5 DEF Commands, Digested

\* What is published: at least one file, present, and the listed ones when some are listed.
LEMMA PublishedFiles ==
  ASSUME setup \in Setups, setup.listing # "bad", Published \subseteq Present
  PROVE  /\ Published # {} /\ (setup.names # {} => Published = setup.names)
         /\ Published \subseteq Present
<1>1. setup.listing # "names" => setup.names = {}
  BY LaneAssumption
<1> QED BY <1>1 DEF Published, Expected

\* A single listed name is a name.
LEMMA OneName == Cardinality(setup.names) = 1 => setup.names # {}
BY FS_EmptySet

\* Whoever moves around the adapter keeps what it knows.
LEMMA AroundKeeps == LaneInv /\ AroundIt => LaneInv'
<1> SUFFICES ASSUME LaneInv, AroundIt PROVE LaneInv'
  OBVIOUS
<1> USE DEF Before, Waiting, After
<1>1. CASE Works
  <2>1. point \in Waiting /\ command.state = "running" /\ answer = "none"
    BY <1>1 DEF Works, Running, LaneInv
  <2>2. UNCHANGED <<setup, point, command, home, before, ended, said, output, answer, disturbed>>
    BY <1>1 DEF Works
  <2> QED BY <2>1, <2>2 DEF LaneInv
<1>2. CASE Exits
  <2>1. point \in Waiting /\ answer = "none"
    BY <1>2 DEF Exits, Running, LaneInv
  <2>2. /\ command' \in [state : {"exited"}, code : {0, 1}]
        /\ UNCHANGED <<setup, tape, work, home, before, said, output, disturbed, point, ended, answer>>
    BY <1>2 DEF Exits, fixed
  <2> QED BY <2>1, <2>2 DEF LaneInv
<1>3. CASE Login
  <2>1. home' = home + 1 /\ disturbed' = (disturbed \/ command.state = "running") /\ answer = "none"
        /\ UNCHANGED <<setup, point, command, tape, work, before, ended, said, output, answer>>
    BY <1>3 DEF Login, Running
  <2>2. point \notin Waiting => (disturbed' <=> disturbed)
    BY <2>1 DEF LaneInv
  <2>3. Gathered => point \in Waiting \/ Gathered'
    BY <2>1, <2>2 DEF Gathered
  <2>4. Earned => point \in Waiting \/ Earned'
    BY <2>1, <2>3 DEF Earned
  <2>5. home' \in Nat /\ (before <= home => before < home')
    BY <2>1 DEF LaneInv
  <2>6. /\ point \in Before => command'.state = "none" /\ ~disturbed'
        /\ point \in {"judge", "publish"} /\ setup.kind \in Digested => ~disturbed'
        /\ point \in Waiting \cup {"digest"} /\ disturbed' => before < home'
    BY <2>1, <2>2, <2>5 DEF LaneInv
  <2> QED BY <2>1, <2>3, <2>4, <2>5, <2>6 DEF LaneInv
<1>4. CASE WorkerKills
  BY <1>4 DEF WorkerKills, fixed, LaneInv
<1> QED BY <1>1, <1>2, <1>3, <1>4 DEF AroundIt

\* Starting, ending and killing the command.
LEMMA CommandKeeps ==
  ASSUME LaneInv, setup.kind \in Commands,
         Stage \/ ProbeSandbox \/ Spawn \/ CommandExited \/ WallDeadline \/ Terminate \/ Poll \/ Kill
  PROVE  LaneInv'
<1> USE DEF Before, Waiting, After, At, Proceed, Decline, Crash, fixed
<1>1. CASE Stage
  BY <1>1 DEF Stage, LaneInv, Commands, Digested
<1>2. CASE ProbeSandbox
  BY <1>2 DEF ProbeSandbox, LaneInv
<1>3. CASE Spawn
  <2>1. command'.state = "running"
    BY <1>3 DEF Spawn, LaneInv
  <2> QED BY <1>3, <2>1 DEF Spawn, LaneInv
<1>4. CASE CommandExited
  BY <1>4 DEF CommandExited, LaneInv
<1>5. CASE WallDeadline
  BY <1>5 DEF WallDeadline, LaneInv
<1>6. CASE Terminate
  BY <1>6 DEF Terminate, Unkillable, LaneInv
<1>7. CASE Poll
  BY <1>7 DEF Poll, Running, LaneInv
<1>8. CASE Kill
  <2>1. [command EXCEPT !.state = "signalled"] \in [state : {"signalled"}, code : {0, 1}]
    BY DEF LaneInv
  <2>2. \/ point' = "done" /\ answer' = "crashed" /\ command' = command
        \/ /\ point' = "digest" /\ answer' = answer
           /\ \/ command' = command /\ command.state # "running"
              \/ command'.state = "signalled" /\ command' \in [state : {"signalled"}, code : {0, 1}]
    BY <1>8, <2>1 DEF Kill, Running, Unkillable
  <2>3. point = "kill" /\ UNCHANGED <<setup, tape, work, home, before, said, output, disturbed, ended>>
    BY <1>8 DEF Kill
  <2> QED BY <2>2, <2>3 DEF LaneInv
<1> QED BY <1>1, <1>2, <1>3, <1>4, <1>5, <1>6, <1>7, <1>8

\* Comparing the digests, judging the record and publishing.
LEMMA JudgingKeeps ==
  ASSUME LaneInv, setup.kind \in Commands, CompareDigests \/ Judge \/ PublishFiles
  PROVE  LaneInv'
<1> USE DEF Before, Waiting, After, At, Proceed, Decline, fixed
<1>1. CASE CompareDigests
  <2>1. point' = "judge" /\ setup.kind \in Digested => ~disturbed
    BY <1>1 DEF CompareDigests, LaneInv
  <2> QED BY <1>1, <2>1 DEF CompareDigests, LaneInv
<1>2. CASE Judge
  <2>1. Qualifies => Gathered
    BY <1>2, QualifiedIsGathered DEF Judge, LaneInv
  <2>2. Gathered => Gathered'
    BY <1>2 DEF Judge, Gathered
  <2> QED BY <1>2, <2>1, <2>2 DEF Judge, LaneInv
<1>3. CASE PublishFiles
  <2>1. point' = "report" => Earned'
    <3> SUFFICES ASSUME point' = "report" PROVE Earned'
      OBVIOUS
    <3>1. /\ setup.listing # "bad" /\ Published \subseteq Present /\ output' = Published /\ work' = Present
          /\ UNCHANGED <<setup, tape, disturbed, command, ended>> /\ point = "publish"
      BY <1>3 DEF PublishFiles
    <3>2. Gathered'
      BY <3>1 DEF LaneInv, Gathered
    <3>3. output' # {} /\ (setup'.names # {} => output' = setup'.names) /\ output' \subseteq work'
      BY <3>1, PublishedFiles DEF LaneInv
    <3>4. setup'.kind # "go_http"
      BY <3>1 DEF Commands, Digested
    <3> QED BY <3>2, <3>3, <3>4 DEF Earned
  <2>2. point' \in {"report", "done"} /\ answer' \in {"none", "refused"} /\ (point' = "done" <=> answer' # "none")
        /\ UNCHANGED <<setup, home, before, command, ended>> /\ point = "publish"
    BY <1>3 DEF PublishFiles
  <2> QED BY <2>1, <2>2 DEF LaneInv
<1> QED BY <1>1, <1>2, <1>3

\* One request instead of a command.
LEMMA GoKeeps ==
  ASSUME LaneInv, setup.kind = "go_http", Stage \/ Send \/ ReadDocument
  PROVE  LaneInv'
<1> USE DEF Before, Waiting, After, At, Proceed, Decline, fixed
<1>1. CASE Stage
  BY <1>1 DEF Stage, LaneInv
<1>2. CASE Send
  BY <1>2 DEF Send, LaneInv
<1>3. CASE ReadDocument
  <2>1. point' = "report" => Earned'
    BY <1>3, OneName DEF ReadDocument, GoQualifies, GoPublishes, Earned, Gathered, Commands, Digested
  <2> QED BY <1>3, <2>1 DEF ReadDocument, LaneInv
<1> QED BY <1>1, <1>2, <1>3

\* Every step of the adapter, its command, the user and the worker keeps the invariant.
LEMMA LaneInvNext == LaneInv /\ [LaneNext]_runVars => LaneInv'
<1> SUFFICES ASSUME LaneInv, [LaneNext]_runVars PROVE LaneInv'
  OBVIOUS
<1>1. CASE Dispatch
  BY <1>1 DEF Dispatch, LaneInv, Before, Waiting, After, At, Proceed, Decline, fixed
<1>2. CASE PrintReceipt
  <2>1. Earned => Earned'
    BY <1>2 DEF PrintReceipt, Earned, Gathered, fixed
  <2> QED BY <1>2, <2>1 DEF PrintReceipt, LaneInv, Before, Waiting, After, At, fixed
<1>3. CASE UNCHANGED runVars
  <2>1. (Gathered => Gathered') /\ (Earned => Earned')
    BY <1>3 DEF runVars, Gathered, Earned
  <2> QED BY <1>3, <2>1 DEF runVars, LaneInv
<1>4. CASE Stage
  <2>1. setup.kind \in Kinds
    BY LaneAssumption DEF LaneInv, LaneSetups
  <2> QED BY <1>4, <2>1, CommandKeeps, GoKeeps DEF Kinds
<1> QED BY <1>1, <1>2, <1>3, <1>4, LaneSteps, AroundKeeps, CommandKeeps, JudgingKeeps, GoKeeps DEF RunCommand

\* The inductive invariant of a lane's attempt.
THEOREM LaneInvariant == LaneSpec => []LaneInv
<1>1. LaneInit => LaneInv
  BY DEF LaneInit, LaneInv, Before, Waiting, After
<1> QED BY <1>1, LaneInvNext, PTL DEF LaneSpec

\* Whatever the command writes and when it ends, whenever the user's files change and the
\* worker kills, a receipt is printed only of an attempt that earned it.
THEOREM ReceiptIsEarned == LaneSpec => []ReceiptEarned
<1>1. LaneInv => ReceiptEarned
  BY DEF LaneInv, Earned, Gathered, ReceiptEarned
<1> QED BY <1>1, LaneInvariant, PTL
-----------------------------------------------------------------------------
(* Routing: what a pass knows of the models the endpoint refused *)

LaneRec == [seen : Nat, spent : BOOLEAN, refused : Nat]
JobRow == [lane : Lanes \cup {NoLane}, thread : {"none", "running", "noting", "ended"},
           state : {"none", "dispatching", "held", "settled"}, read : LaneRec]
IsPass(p) == p \in [at : {p.at}, now : {p.now}, view : {p.view}, queue : {p.queue},
                    lane : {p.lane}, victim : {p.victim}, knew : {p.knew}]

\* A lane that the view of pass q would let some task use.
Allowed(q, l) == l \in Lanes /\ q.view[l] \in {"ready", "unqualified"}

\* A lane that the view allows has no refusal that the pass knows of and that has not ended;
\* the lane it has chosen is allowed.
PassKnows(q) ==
  /\ IsPass(q) /\ q.now \in Nat
  /\ \A l \in Lanes : Allowed(q, l) => q.knew[l] <= q.now
  /\ q.at = "check" => q.lane = NoLane \/ Allowed(q, q.lane)
  /\ q.at \in {"prepare", "admit"} => Allowed(q, q.lane)

\* The records say until when each refusal noted since the last prepare lasts: the threads that
\* note them, the re-read, which carries them over, and a prepare, whose files name none, are all
\* that writes the records.
RouteInv ==
  /\ time \in Nat
  /\ lanerec \in [Lanes -> LaneRec] /\ reading \in [Lanes -> LaneRec]
  /\ noted \in [Lanes -> Nat]
  /\ job \in [Work -> JobRow]
  /\ \A t \in Work : job[t].thread = "running" => job[t].lane \in Lanes
  /\ \A l \in Lanes : lanerec[l].refused = noted[l] /\ reading[l].refused = 0
  /\ PassKnows(pass)

\* A lane is in a view as ready, or as good for a canary, only when its record's refusal has ended.
LEMMA ViewSaysRefused ==
  ASSUME NEW recs \in [Lanes -> LaneRec], NEW jobs, NEW now \in Nat, NEW l \in Lanes,
         ReadinessView(recs, jobs, now)[l] \in {"ready", "unqualified"}
  PROVE  recs[l].refused <= now
<1>1. LaneState(recs, jobs, l, now) \in {"ready", "unqualified"}
  BY DEF ReadinessView
<1>2. Classified(recs[l], now) \in {"stale", "exhausted", "ready"}
  BY DEF Classified
<1>3. ~Unsupported(recs[l], now)
  BY <1>1, <1>2 DEF LaneState
<1>4. recs[l].refused \in Nat
  BY DEF LaneRec
<1> QED BY <1>3, <1>4 DEF Unsupported

\* Reading stale records again keeps their refusals.
LEMMA RereadKeepsRefusals ==
  ASSUME NEW recs \in [Lanes -> LaneRec], NEW now, reading \in [Lanes -> LaneRec]
  PROVE  /\ Reread(recs, now) \in [Lanes -> LaneRec]
         /\ \A l \in Lanes : Reread(recs, now)[l].refused = recs[l].refused
BY DEF Reread, LaneRec

\* What a pass that looks again knows: the refusals noted so far, and a view of them.
LEMMA LookedAgain ==
  ASSUME NEW p, p.now \in Nat, NEW recs \in [Lanes -> LaneRec], NEW jobs,
         noted \in [Lanes -> Nat], \A l \in Lanes : recs[l].refused = noted[l],
         IsPass(p), p.at = "route"
  PROVE  PassKnows(Looked(p, recs, jobs))
<1> DEFINE q == Looked(p, recs, jobs)
<1>1. /\ q.at = p.at /\ q.lane = p.lane /\ q.now = p.now /\ q.queue = p.queue
      /\ q.view = ReadinessView(recs, jobs, p.now) /\ q.knew = noted
      /\ IsPass(q)
  BY DEF Looked, IsPass
<1>2. ASSUME NEW l \in Lanes, Allowed(q, l) PROVE q.knew[l] <= q.now
  <2>1. recs[l].refused <= p.now
    BY <1>1, <1>2, ViewSaysRefused DEF Allowed
  <2> QED BY <1>1, <2>1
<1> HIDE DEF q
<1>3. PassKnows(q)
  BY <1>1, <1>2 DEF PassKnows
<1> QED BY <1>3 DEF q

\* The lanes a task may be given are lanes that the view allows.
LEMMA SelectableAllowed ==
  ASSUME NEW t, NEW view, NEW now, NEW l \in Selectable(t, view, now)
  PROVE  l \in Lanes /\ view[l] \in {"ready", "unqualified"}
<1>1. Offered(t) \subseteq Lanes
  BY DEF Offered, Fitting, Permitted, Candidates
<1> QED BY <1>1 DEF Selectable, Usable

\* A pass that goes to another point or task still knows what it knew.
LEMMA PassGoesOn ==
  ASSUME NEW p, PassKnows(p)
  PROVE  /\ \A l : l = NoLane \/ Allowed(p, l) => PassKnows([p EXCEPT !.at = "check", !.lane = l])
         /\ p.at = "check" /\ p.lane # NoLane => PassKnows([p EXCEPT !.at = "prepare"])
         /\ p.at = "prepare" => PassKnows([p EXCEPT !.at = "admit"])
         /\ \A v : PassKnows([p EXCEPT !.at = "join", !.victim = v])
         /\ \A v : LET q == [p EXCEPT !.at = "route", !.victim = v]
                   IN IsPass(q) /\ q.now = p.now /\ q.at = "route"
         /\ PassKnows(NextTask(p)) /\ IsPass(NextTask(p))
         /\ NextTask(p).now = p.now /\ NextTask(p).at = "route"
<1>0. IsPass(p)
  BY DEF PassKnows
<1>1. ASSUME NEW q, IsPass(q), q.now = p.now, q.view = p.view, q.knew = p.knew
      PROVE  /\ q.at \in {"route", "join"} => PassKnows(q)
             /\ q.at = "check" /\ (q.lane = NoLane \/ Allowed(p, q.lane)) => PassKnows(q)
             /\ q.at \in {"prepare", "admit"} /\ Allowed(p, q.lane) => PassKnows(q)
  BY <1>1 DEF PassKnows, Allowed
<1>2. ASSUME NEW l, l = NoLane \/ Allowed(p, l) PROVE PassKnows([p EXCEPT !.at = "check", !.lane = l])
  <2> DEFINE q == [p EXCEPT !.at = "check", !.lane = l]
  <2>1. IsPass(q) /\ q.at = "check" /\ q.now = p.now /\ q.view = p.view /\ q.knew = p.knew /\ q.lane = l
    BY <1>0 DEF IsPass
  <2> HIDE DEF q
  <2>2. PassKnows(q)
    BY <1>1, <1>2, <2>1
  <2> QED BY <2>2 DEF q
<1>3. ASSUME NEW at \in {"prepare", "admit"}, Allowed(p, p.lane) PROVE PassKnows([p EXCEPT !.at = at])
  <2> DEFINE q == [p EXCEPT !.at = at]
  <2>1. IsPass(q) /\ q.at = at /\ q.now = p.now /\ q.view = p.view /\ q.knew = p.knew /\ q.lane = p.lane
    BY <1>0 DEF IsPass
  <2> HIDE DEF q
  <2>2. PassKnows(q)
    BY <1>1, <1>3, <2>1
  <2> QED BY <2>2 DEF q
<1>4. ASSUME NEW at \in {"route", "join"}, NEW v
      PROVE  LET q == [p EXCEPT !.at = at, !.victim = v]
             IN IsPass(q) /\ q.now = p.now /\ q.at = at /\ PassKnows(q)
  <2> DEFINE q == [p EXCEPT !.at = at, !.victim = v]
  <2>1. IsPass(q) /\ q.at = at /\ q.now = p.now /\ q.view = p.view /\ q.knew = p.knew
    BY <1>0 DEF IsPass
  <2> HIDE DEF q
  <2>2. PassKnows(q)
    BY <1>1, <2>1
  <2> QED BY <2>1, <2>2 DEF q
<1>5. PassKnows(NextTask(p)) /\ IsPass(NextTask(p)) /\ NextTask(p).now = p.now /\ NextTask(p).at = "route"
  <2>1. LET q == NextTask(p)
        IN IsPass(q) /\ q.at = "route" /\ q.now = p.now /\ q.view = p.view /\ q.knew = p.knew
    BY <1>0 DEF NextTask, IsPass
  <2> QED BY <1>1, <2>1
<1>6. /\ p.at = "check" /\ p.lane # NoLane => Allowed(p, p.lane)
      /\ p.at = "prepare" => Allowed(p, p.lane)
  BY DEF PassKnows
<1> QED BY <1>2, <1>3, <1>4, <1>5, <1>6

\* A pass that has not begun knows nothing and allows nothing.
LEMMA IdleKnows ==
  /\ PassKnows(IdlePass)
  /\ \A queue : \A t \in Nat :
       LET p == [IdlePass EXCEPT !.at = "route", !.now = t, !.queue = queue]
       IN IsPass(p) /\ p.at = "route" /\ p.now = t
<1>1. \A l \in Lanes : IdlePass.view[l] = "stale"
  BY DEF IdlePass
<1>2. IsPass(IdlePass) /\ IdlePass.now = 0 /\ IdlePass.at = "idle"
  BY DEF IdlePass, IsPass
<1>3. PassKnows(IdlePass)
  BY <1>1, <1>2 DEF PassKnows, Allowed
<1>4. ASSUME NEW t \in Nat, NEW queue
      PROVE  LET p == [IdlePass EXCEPT !.at = "route", !.now = t, !.queue = queue]
             IN IsPass(p) /\ p.at = "route" /\ p.now = t
  BY <1>2 DEF IsPass
<1> QED BY <1>3, <1>4

\* Records that a prepare has written hold no refusal, as none is noted since.
LEMMA RecordsWritten ==
  ASSUME RouteInv, WriteRecords
  PROVE  /\ lanerec' \in [Lanes -> LaneRec] /\ noted' \in [Lanes -> Nat]
         /\ \A l \in Lanes : lanerec'[l].refused = noted'[l]
BY DEF WriteRecords, RouteInv

\* The pass's own steps.
LEMMA PassKeeps == RouteInv /\ PassMoves => RouteInv'
<1> SUFFICES ASSUME RouteInv, PassMoves PROVE RouteInv'
  OBVIOUS
<1>0. PassKnows(pass) /\ pass.now \in Nat
  BY DEF RouteInv, PassKnows
<1>1. CASE StartPass
  <2> DEFINE p == [IdlePass EXCEPT !.at = "route", !.now = time,
                     !.queue = SelectSeq(TaskOrder, LAMBDA t : job[t].state = "none")]
  <2>1. IsPass(p) /\ p.at = "route" /\ p.now = time
    BY IdleKnows DEF RouteInv
  <2>2. lanerec' = Reread(lanerec, time) /\ pass' = Looked(p, lanerec', job)
        /\ UNCHANGED <<time, reading, published, others, job, noted>>
    BY <1>1 DEF StartPass
  <2>3. lanerec' \in [Lanes -> LaneRec] /\ \A l \in Lanes : lanerec'[l].refused = noted[l]
    BY <2>2, RereadKeepsRefusals DEF RouteInv
  <2> HIDE DEF p
  <2>4. PassKnows(pass')
    BY <2>1, <2>2, <2>3, LookedAgain DEF RouteInv
  <2> QED BY <2>2, <2>3, <2>4 DEF RouteInv
<1>2. CASE RouteTask
  <2>1. PICK l : /\ pass' = [pass EXCEPT !.at = "check", !.lane = l]
                 /\ l = NoLane \/ l \in Selectable(Current, pass.view, pass.now)
    BY <1>2 DEF RouteTask, Choose
  <2>2. l = NoLane \/ Allowed(pass, l)
    BY <2>1, SelectableAllowed DEF Allowed
  <2>3. PassKnows(pass')
    BY <1>0, <2>1, <2>2, PassGoesOn
  <2> QED BY <1>2, <2>3 DEF RouteTask, RouteInv
<1>3. CASE LaneFree \/ LaneFull
  <2>1. pass.at = "check" /\ pass.lane # NoLane /\ pass' = [pass EXCEPT !.at = "prepare"]
    BY <1>3 DEF LaneFree, LaneFull, Looking
  <2>2. PassKnows(pass')
    BY <1>0, <2>1, PassGoesOn
  <2> QED BY <1>3, <2>2 DEF LaneFree, LaneFull, RouteInv
<1>4. CASE AwaitOwn
  <2>0. PICK t : pass' = [pass EXCEPT !.at = "join", !.victim = t]
    BY <1>4 DEF AwaitOwn
  <2>1. PassKnows(pass')
    BY <1>0, <2>0, PassGoesOn
  <2> QED BY <1>4, <2>1 DEF AwaitOwn, RouteInv
<1>5. CASE Joined
  <2> DEFINE p == [pass EXCEPT !.at = "route", !.victim = NoLane]
  <2>1. IsPass(p) /\ p.now = pass.now /\ p.at = "route"
    BY <1>0, PassGoesOn
  <2>2. pass' = Looked(p, lanerec, job)
    BY <1>5 DEF Joined
  <2> HIDE DEF p
  <2>3. PassKnows(pass')
    BY <1>0, <2>1, <2>2, LookedAgain DEF RouteInv
  <2> QED BY <1>5, <2>3 DEF Joined, RouteInv
<1>6. CASE RefuseTask
  <2>1. PassKnows(pass')
    BY <1>0, <1>6, PassGoesOn DEF RefuseTask
  <2> QED BY <1>6, <2>1 DEF RefuseTask, RouteInv
<1>7. CASE Prepare
  <2>1. PassKnows(pass')
    BY <1>0, <1>7, PassGoesOn DEF Prepare
  <2>2. UNCHANGED <<time, reading, published, others, job, promised>>
    BY <1>7 DEF Prepare
  <2>3. CASE WriteRecords
    BY <2>1, <2>2, <2>3, RecordsWritten DEF RouteInv
  <2>4. CASE UNCHANGED <<lanerec, noted>>
    BY <1>7, <2>1, <2>2, <2>4 DEF Prepare, RouteInv
  <2> QED BY <1>7, <2>3, <2>4 DEF Prepare
<1>8. CASE AdmitTask
  <2>1. /\ job' \in [Work -> JobRow]
        /\ \A t \in Work : job'[t].thread = "running" => job'[t].lane \in Lanes
    <3> DEFINE row == [lane |-> pass.lane, thread |-> "running", state |-> "dispatching", read |-> Unread]
    <3>1. pass.lane \in Lanes
      BY <1>8 DEF AdmitTask, Looking, RouteInv, PassKnows, Allowed
    <3>2. row \in JobRow /\ row.lane \in Lanes
      BY <3>1 DEF JobRow, LaneRec, Unread
    <3>3. job' = [job EXCEPT ![Current] = row]
      BY <1>8 DEF AdmitTask
    <3> HIDE DEF row
    <3> QED BY <3>2, <3>3 DEF RouteInv
  <2>2. IsPass(NextTask(pass)) /\ NextTask(pass).now \in Nat /\ NextTask(pass).at = "route"
    BY <1>0, PassGoesOn
  <2>3. PassKnows(pass')
    BY <1>8, <2>2, LookedAgain DEF AdmitTask, RouteInv
  <2> QED BY <1>8, <2>1, <2>3 DEF AdmitTask, RouteInv
<1>9. CASE AdmissionRefused
  <2>1. IsPass(NextTask(pass)) /\ NextTask(pass).now \in Nat /\ NextTask(pass).at = "route"
    BY <1>0, PassGoesOn
  <2>2. PassKnows(pass')
    BY <1>9, <2>1, LookedAgain DEF AdmissionRefused, RouteInv
  <2> QED BY <1>9, <2>2 DEF AdmissionRefused, RouteInv
<1>10. CASE PassEnds
  BY <1>10, IdleKnows DEF PassEnds, RouteInv
<1> QED BY <1>1, <1>2, <1>3, <1>4, <1>5, <1>6, <1>7, <1>8, <1>9, <1>10 DEF PassMoves

\* An attempt that moves on is another row of its table.
LEMMA JobMoved ==
  ASSUME job \in [Work -> JobRow], NEW t \in Work, NEW row \in JobRow, job' = [job EXCEPT ![t] = row],
         row.thread # "running", \A u \in Work : job[u].thread = "running" => job[u].lane \in Lanes
  PROVE  /\ job' \in [Work -> JobRow]
         /\ \A u \in Work : job'[u].thread = "running" => job'[u].lane \in Lanes
OBVIOUS

\* The attempt threads, the operator, the other boards, the collectors and the clock keep what the records and the pass say.
LEMMA AroundPassKeeps ==
  ASSUME RouteInv,
         LoopPrepares \/ OtherBoards \/ Publish \/ RouteTick \/ \E t \in Work : JobMoves(t) \/ OperatorFrees(t)
  PROVE  RouteInv'
<1>0. /\ time \in Nat /\ RefusalTTL \in Nat /\ lanerec \in [Lanes -> LaneRec] /\ noted \in [Lanes -> Nat]
      /\ job \in [Work -> JobRow]
  BY RoutingAssumption DEF RouteInv
<1>p. CASE LoopPrepares
  BY <1>p, RecordsWritten DEF LoopPrepares, RouteInv
<1>1. CASE OtherBoards
  BY <1>1 DEF OtherBoards, RouteInv
<1>2. CASE Publish
  <2>1. reading' \in [Lanes -> LaneRec] /\ \A l \in Lanes : reading'[l].refused = 0
    BY <1>0, <1>2 DEF Publish, RouteInv, LaneRec
  <2> QED BY <1>2, <2>1 DEF Publish, RouteInv
<1>3. CASE RouteTick
  BY <1>3 DEF RouteTick, RouteInv
<1> DEFINE running == \A u \in Work : job[u].thread = "running" => job[u].lane \in Lanes
           lanes == \A k \in Lanes : lanerec[k].refused = noted[k]
<1>r. running /\ lanes
  BY DEF RouteInv
<1>4. ASSUME NEW t \in Work, JobCompletes(t) \/ JobHeld(t) PROVE RouteInv'
  <2>1. PICK s \in {"settled", "held"} : job' = [job EXCEPT ![t] = [job[t] EXCEPT !.thread = "ended", !.state = s]]
    BY <1>4 DEF JobCompletes, JobHeld
  <2>2. [job[t] EXCEPT !.thread = "ended", !.state = s] \in JobRow
        /\ [job[t] EXCEPT !.thread = "ended", !.state = s].thread = "ended"
    BY <1>0 DEF JobRow
  <2>3. job' \in [Work -> JobRow] /\ running'
    BY <1>0, <1>r, <2>1, <2>2, JobMoved
  <2> QED BY <1>4, <2>3 DEF JobCompletes, JobHeld, RouteInv
<1>5. ASSUME NEW t \in Work, ModelRefused(t) PROVE RouteInv'
  <2> DEFINE row == [job[t] EXCEPT !.thread = "noting", !.state = "held", !.read = lanerec[job[t].lane]]
  <2>1. lanerec[job[t].lane] \in LaneRec
    BY <1>0, <1>r, <1>5 DEF ModelRefused
  <2>2. row \in JobRow /\ row.thread = "noting"
    BY <1>0, <2>1 DEF JobRow
  <2>3. job' = [job EXCEPT ![t] = row]
    BY <1>5 DEF ModelRefused
  <2> HIDE DEF row
  <2>4. job' \in [Work -> JobRow] /\ running'
    BY <1>0, <1>r, <2>2, <2>3, JobMoved
  <2> QED BY <1>5, <2>4 DEF ModelRefused, RouteInv
<1>6. ASSUME NEW t \in Work, NoteRefusal(t) PROVE RouteInv'
  <2> DEFINE l == job[t].lane
             until == time + RefusalTTL
             rec == [job[t].read EXCEPT !.refused = until]
             row == [job[t] EXCEPT !.thread = "ended", !.read = Unread]
  <2>1. job[t] \in JobRow /\ until \in Nat /\ Unread \in LaneRec
    BY <1>0 DEF LaneRec, Unread
  <2>2. rec \in LaneRec /\ rec.refused = until /\ row \in JobRow /\ row.thread = "ended"
    BY <2>1 DEF JobRow, LaneRec
  <2>3. /\ lanerec' = [lanerec EXCEPT ![l] = rec] /\ noted' = [noted EXCEPT ![l] = until]
        /\ job' = [job EXCEPT ![t] = row] /\ UNCHANGED <<time, reading, published, others, pass>>
    BY <1>6 DEF NoteRefusal
  <2> HIDE DEF l, until, rec, row
  <2>4. job' \in [Work -> JobRow] /\ running'
    BY <1>0, <1>r, <2>2, <2>3, JobMoved
  <2>5. lanerec' \in [Lanes -> LaneRec] /\ noted' \in [Lanes -> Nat] /\ lanes'
    BY <1>0, <1>r, <2>1, <2>2, <2>3
  <2> QED BY <2>3, <2>4, <2>5 DEF RouteInv
<1>7. ASSUME NEW t \in Work, OperatorFrees(t) PROVE RouteInv'
  <2>1. NoJob \in JobRow /\ NoJob.thread = "none"
    BY DEF NoJob, JobRow, LaneRec, Unread
  <2>2. job' \in [Work -> JobRow] /\ running'
    BY <1>0, <1>r, <1>7, <2>1, JobMoved DEF OperatorFrees
  <2> QED BY <1>7, <2>2 DEF OperatorFrees, RouteInv
<1> QED BY <1>p, <1>1, <1>2, <1>3, <1>4, <1>5, <1>6, <1>7 DEF JobMoves

\* A pass that has not begun, and rows that no attempt has.
LEMMA RouteBegins == RouteInit => RouteInv
<1> SUFFICES ASSUME RouteInit PROVE RouteInv
  OBVIOUS
<1>1. Unread \in LaneRec /\ Unread.refused = 0 /\ NoJob \in JobRow /\ NoJob.thread = "none"
  BY DEF Unread, LaneRec, NoJob, JobRow
<1> QED BY <1>1, IdleKnows DEF RouteInit, RouteInv

\* Every step of routing keeps what the records and the pass say.
LEMMA RouteInvNext == RouteInv /\ [RouteNext]_routeVars => RouteInv'
<1>1. RouteInv /\ UNCHANGED routeVars => RouteInv'
  BY DEF routeVars, RouteInv
<1> QED BY <1>1, PassKeeps, AroundPassKeeps DEF RouteNext

\* The inductive invariant of routing.
THEOREM RouteInvariant == RouteSpec => []RouteInv
<1> QED BY RouteBegins, RouteInvNext, PTL DEF RouteSpec

\* A dispatch is an admission of the pass: the task at hand, on the lane that was chosen.
LEMMA DispatchAdmits ==
  ASSUME job \in [Work -> JobRow], RouteNext, NEW t \in Work,
         job[t].thread = "none", job'[t].thread = "running"
  PROVE  AdmitTask /\ t = Current /\ job'[t].lane = pass.lane
<1>1. AdmitTask
  <2>1. ASSUME NEW u \in Work, JobMoves(u) \/ OperatorFrees(u) PROVE FALSE
    <3>1. CASE u = t
      BY <2>1, <3>1 DEF JobMoves, JobCompletes, JobHeld, ModelRefused, NoteRefusal, OperatorFrees, NoJob, JobRow
    <3>2. CASE u # t
      BY <2>1, <3>2 DEF JobMoves, JobCompletes, JobHeld, ModelRefused, NoteRefusal, OperatorFrees
    <3> QED BY <3>1, <3>2
  <2>2. job' # job
    OBVIOUS
  <2>3. ~(LoopPrepares \/ OtherBoards \/ Publish \/ RouteTick)
    BY <2>2 DEF LoopPrepares, OtherBoards, Publish, RouteTick
  <2> QED BY <2>1, <2>2, <2>3 DEF RouteNext, PassMoves, StartPass, RouteTask, LaneFree, AwaitOwn, Joined,
          LaneFull, RefuseTask, Prepare, AdmissionRefused, PassEnds
<1> QED BY <1>1 DEF AdmitTask

\* The pass that admits has looked since the refusals it knows were noted.
LEMMA HonouredStep ==
  RouteInv /\ [RouteNext]_routeVars
    => [\A t \in Work :
          job[t].thread = "none" /\ job'[t].thread = "running"
            => pass.knew[job'[t].lane] <= pass.now]_routeVars
<1> SUFFICES ASSUME RouteInv, RouteNext, NEW t \in Work,
                    job[t].thread = "none", job'[t].thread = "running"
             PROVE  pass.knew[job'[t].lane] <= pass.now
  BY DEF routeVars
<1>1. AdmitTask /\ t = Current /\ job'[t].lane = pass.lane
  BY DispatchAdmits DEF RouteInv
<1>2. pass.lane \in Lanes /\ pass.knew[pass.lane] <= pass.now
  BY <1>1 DEF AdmitTask, Looking, RouteInv, PassKnows, Allowed
<1> QED BY <1>1, <1>2

\* A model that the endpoint refused is not dispatched on its lane by a pass that has looked
\* since the refusal was noted and no prepare has written the records anew in between, until it
\* ends: through stale records that are read again, tasks of other boards and admissions between
\* two looks, with a prepare command or without.
THEOREM RefusalIsHonoured == RouteSpec => RefusalHonoured
<1> QED BY RouteInvariant, HonouredStep, PTL DEF RouteSpec, RefusalHonoured
-----------------------------------------------------------------------------
(* LaneRun: the values of its variables *)

\* What the command, the user and the adapter may have put where.
LaneTyped ==
  /\ tape.served \subseteq Models /\ work \subseteq Names /\ output \subseteq Names
  /\ tape \in [served : {tape.served}, ends : {tape.ends}, form : {tape.form}, echo : {tape.echo},
               garbled : {tape.garbled}, trailing : {tape.trailing}]
  /\ home \in 0..Logins /\ before \in 0..home
  /\ answer \in {"none", "receipt", "refused", "crashed", "killed"}

\* The names a task lists are names of files.
LEMMA ListedNames == setup \in Setups => setup.names \subseteq Names
BY LaneAssumption DEF LaneSetups

\* What the command writes: the models its lane can be served, and files of the workspace.
LEMMA WorksTyped == LaneTyped /\ Works => LaneTyped'
<1> SUFFICES ASSUME LaneTyped, Works PROVE LaneTyped'
  OBVIOUS
<1>1. /\ UNCHANGED <<setup, point, command, home, before, ended, said, output, answer, disturbed>>
      /\ Models' = Models
  BY DEF Works, Models
<1>2. tape'.served \subseteq Models /\ work' \subseteq Names
  BY DEF Works, LaneTyped, Names
<1>3. tape' \in [served : {tape'.served}, ends : {tape'.ends}, form : {tape'.form}, echo : {tape'.echo},
                 garbled : {tape'.garbled}, trailing : {tape'.trailing}]
  BY DEF Works, LaneTyped
<1> QED BY <1>1, <1>2, <1>3 DEF LaneTyped

\* Every step keeps the values within their bounds.
LEMMA LaneTypedNext == LaneInv /\ LaneTyped /\ [LaneNext]_runVars => LaneTyped'
<1> SUFFICES ASSUME LaneInv, LaneTyped, [LaneNext]_runVars PROVE LaneTyped'
  OBVIOUS
<1> USE DEF At, Proceed, Decline, Crash, fixed, LaneTyped, Models
<1>1. CASE Dispatch
  BY <1>1 DEF Dispatch
<1>2. CASE Stage
  BY <1>2 DEF Stage
<1>3. CASE PrintReceipt
  BY <1>3 DEF PrintReceipt
<1>4. CASE AroundIt
  <2>1. CASE Exits
    BY <2>1 DEF Exits
  <2>2. CASE Login
    BY <2>2, LaneAssumption DEF Login
  <2>3. CASE WorkerKills
    BY <2>3 DEF WorkerKills
  <2> QED BY <1>4, <2>1, <2>2, <2>3, WorksTyped DEF AroundIt
<1>5. CASE ProbeSandbox
  BY <1>5 DEF ProbeSandbox
<1>6. CASE Spawn
  BY <1>6 DEF Spawn
<1>7. CASE CommandExited \/ WallDeadline \/ CompareDigests \/ Judge \/ Poll
  BY <1>7 DEF CommandExited, WallDeadline, CompareDigests, Judge, Poll
<1>8. CASE Terminate \/ Kill
  BY <1>8 DEF Terminate, Kill, Unkillable
<1>9. CASE PublishFiles
  <2>1. setup.names \subseteq Names
    BY ListedNames DEF LaneInv
  <2>2. Published \subseteq Names /\ Present \subseteq Names
    BY <2>1 DEF Published, Present, Expected, Names
  <2> QED BY <1>9, <2>2 DEF PublishFiles
<1>10. CASE Send
  BY <1>10 DEF Send
<1>11. CASE ReadDocument
  BY <1>11, ListedNames DEF ReadDocument, LaneInv
<1>12. CASE UNCHANGED runVars
  BY <1>12 DEF runVars
<1> QED BY <1>1, <1>2, <1>3, <1>4, <1>5, <1>6, <1>7, <1>8, <1>9, <1>10, <1>11, <1>12, LaneSteps DEF RunCommand

\* An attempt begins with both invariants.
LEMMA LaneBegins == LaneInit => LaneInv /\ LaneTyped
BY LaneAssumption DEF LaneInit, LaneInv, LaneTyped, Blank, Before, Waiting, After

\* They are the types.
LEMMA LaneTypes == LaneInv /\ LaneTyped => LaneTypeOK
BY DEF LaneInv, LaneTyped, LaneTypeOK

\* Type correctness of a lane's attempt: no step leaves a value outside its bounds.
THEOREM LaneTyping == LaneSpec => []LaneTypeOK
BY LaneBegins, LaneInvNext, LaneTypedNext, LaneTypes, PTL DEF LaneSpec
-----------------------------------------------------------------------------
(* Routing: its values, and the slots of an account, prepare command or not *)

RowOf == [lane : Lanes \cup {NoLane}, thread : {"none", "running", "noting", "ended"},
          state : {"none", "dispatching", "held", "settled"}, read : LaneRecs]

\* The lane a pass has chosen for its task is a lane, when it has chosen one.
Chosen(q) ==
  /\ IsPass(q)
  /\ q.at = "check" => q.lane \in Lanes \cup {NoLane}
  /\ q.at \in {"prepare", "admit"} => q.lane \in Lanes

\* A thread that runs or notes has the row that says so.
InStep(row) ==
  /\ (row.state = "dispatching") = (row.thread = "running")
  /\ row.thread = "noting" => row.state = "held"
  /\ row.thread = "running" => row.lane \in Lanes

RouteTyped ==
  /\ time \in 0..RouteClock
  /\ lanerec \in [Lanes -> LaneRecs] /\ reading \in [Lanes -> LaneRecs]
  /\ others \in [Accounts -> Nat]
  /\ job \in [Work -> RowOf]
  /\ \A t \in Work : InStep(job[t])
  /\ \A a \in Accounts : Taken(job, a) <= Capacity[a]
  /\ Chosen(pass)

\* A board has finitely many tasks.
LEMMA WorkIsFinite == IsFiniteSet(Work)
<1> DEFINE f == [i \in 1..Len(TaskOrder) |-> TaskOrder[i]]
<1>1. DOMAIN TaskOrder = 1..Len(TaskOrder) /\ Len(TaskOrder) \in Nat
  BY RoutingAssumption
<1>2. IsFiniteSet(1..Len(TaskOrder))
  BY <1>1, FS_Interval
<1>3. Work = {f[i] : i \in 1..Len(TaskOrder)}
  BY <1>1 DEF Work
<1>4. f \in [1..Len(TaskOrder) -> Work]
  BY <1>3
<1>5. f \in Surjection(1..Len(TaskOrder), Work)
  BY <1>3, <1>4 DEF Surjection
<1> QED BY <1>2, <1>5, FS_Surjection

\* The tasks of this board that take a slot of an account.
Taking(jobs, a) == {t \in Work : /\ jobs[t].state \in {"dispatching", "held"}
                                  /\ LaneConf[jobs[t].lane].account = a}

LEMMA TakenIsCounted ==
  ASSUME NEW jobs, NEW a \in Accounts, others \in [Accounts -> Nat]
  PROVE  /\ IsFiniteSet(Taking(jobs, a)) /\ Cardinality(Taking(jobs, a)) \in Nat
         /\ Taken(jobs, a) = Cardinality(Taking(jobs, a)) + others[a] /\ Taken(jobs, a) \in Nat
<1>1. Taking(jobs, a) \subseteq Work
  BY DEF Taking
<1>2. IsFiniteSet(Taking(jobs, a)) /\ Cardinality(Taking(jobs, a)) \in Nat
  BY <1>1, WorkIsFinite, FS_Subset, FS_CardinalityType
<1>3. Taken(jobs, a) = Cardinality(Taking(jobs, a)) + others[a]
  BY DEF Taken, Taking
<1> QED BY <1>2, <1>3

\* Nobody but an admission takes a slot: where no further task takes one, the account is not over.
LEMMA NoneTaken ==
  ASSUME RouteTyped, others' = others, NEW a \in Accounts, Taking(job', a) \subseteq Taking(job, a)
  PROVE  Taken(job, a)' <= Capacity[a]
<1>1. /\ Taken(job, a)' = Cardinality(Taking(job', a)) + others[a]
      /\ Taken(job, a) = Cardinality(Taking(job, a)) + others[a]
  BY DEF Taken, Taking
<1>2. /\ Cardinality(Taking(job', a)) \in Nat /\ Cardinality(Taking(job, a)) \in Nat
      /\ IsFiniteSet(Taking(job, a))
  BY TakenIsCounted DEF RouteTyped
<1>3. Cardinality(Taking(job', a)) <= Cardinality(Taking(job, a))
  BY <1>2, FS_Subset
<1>4. Capacity[a] \in Nat /\ others[a] \in Nat /\ Taken(job, a) <= Capacity[a]
  BY RoutingAssumption DEF RouteTyped
<1> QED BY <1>1, <1>2, <1>3, <1>4

\* An account with a free slot has room for one more.
LEMMA FreeIsRoom ==
  ASSUME RouteTyped, NEW a \in Accounts, Free(a) > 0
  PROVE  Taken(job, a) + 1 <= Capacity[a]
<1>1. Taken(job, a) \in Nat /\ Capacity[a] \in Nat
  BY TakenIsCounted, RoutingAssumption DEF RouteTyped
<1> QED BY <1>1 DEF Free

\* An admission takes one slot of the account that had one free.
LEMMA OneTaken ==
  ASSUME RouteTyped, AdmitTask, NEW a \in Accounts
  PROVE  Taken(job, a)' <= Capacity[a]
<1> DEFINE row == [lane |-> pass.lane, thread |-> "running", state |-> "dispatching", read |-> Unread]
<1>1. job' = [job EXCEPT ![Current] = row] /\ others' = others /\ Free(Account) > 0
  BY DEF AdmitTask
<1>2. job \in [Work -> RowOf] /\ row.lane = pass.lane
  BY DEF RouteTyped
<1> HIDE DEF row
<1>3. CASE a # Account
  <2>1. \A t \in Work : job'[t] = job[t] \/ job'[t].lane = pass.lane
    BY <1>1, <1>2
  <2>2. Taking(job', a) \subseteq Taking(job, a)
    BY <1>3, <2>1 DEF Taking, Account
  <2> QED BY <1>1, <2>2, NoneTaken
<1>4. CASE a = Account
  <2>1. \A t \in Work : t # Current => job'[t] = job[t]
    BY <1>1, <1>2
  <2>2. Taking(job', a) \subseteq Taking(job, a) \cup {Current}
    BY <2>1 DEF Taking
  <2>3. /\ IsFiniteSet(Taking(job, a)) /\ Cardinality(Taking(job, a)) \in Nat
        /\ Cardinality(Taking(job', a)) \in Nat
    BY TakenIsCounted DEF RouteTyped
  <2>4. /\ IsFiniteSet(Taking(job, a) \cup {Current})
        /\ Cardinality(Taking(job, a) \cup {Current}) <= Cardinality(Taking(job, a)) + 1
    BY <2>3, FS_AddElement
  <2>5. Cardinality(Taking(job', a)) <= Cardinality(Taking(job, a)) + 1
    <3>1. Cardinality(Taking(job', a)) <= Cardinality(Taking(job, a) \cup {Current})
      BY <2>2, <2>4, FS_Subset
    <3>2. Cardinality(Taking(job, a) \cup {Current}) \in Nat
      BY <2>4, FS_CardinalityType
    <3> QED BY <2>3, <2>4, <3>1, <3>2
  <2>6. /\ Taken(job, a)' = Cardinality(Taking(job', a)) + others[a]
        /\ Taken(job, a) = Cardinality(Taking(job, a)) + others[a]
    BY <1>1 DEF Taken, Taking
  <2>7. Taken(job, a) + 1 <= Capacity[a]
    BY <1>1, <1>4, FreeIsRoom
  <2>8. Capacity[a] \in Nat /\ others[a] \in Nat
    BY RoutingAssumption DEF RouteTyped
  <2> QED BY <2>3, <2>5, <2>6, <2>7, <2>8
<1> QED BY <1>3, <1>4

\* What a pass has chosen, wherever it goes on.
LEMMA PassChoice ==
  ASSUME NEW p, Chosen(p)
  PROVE  /\ \A l \in Lanes \cup {NoLane} : Chosen([p EXCEPT !.at = "check", !.lane = l])
         /\ p.at = "check" /\ p.lane # NoLane => Chosen([p EXCEPT !.at = "prepare"])
         /\ p.at = "prepare" => Chosen([p EXCEPT !.at = "admit"])
         /\ \A v : Chosen([p EXCEPT !.at = "join", !.victim = v])
         /\ Chosen(NextTask(p))
         /\ \A v, recs, jobs : Chosen(Looked([p EXCEPT !.at = "route", !.victim = v], recs, jobs))
         /\ \A recs, jobs : Chosen(Looked(NextTask(p), recs, jobs))
<1>0. IsPass(p)
  BY DEF Chosen
<1>1. ASSUME NEW l \in Lanes \cup {NoLane} PROVE Chosen([p EXCEPT !.at = "check", !.lane = l])
  BY <1>0 DEF Chosen, IsPass
<1>2. ASSUME p.at = "check", p.lane # NoLane PROVE Chosen([p EXCEPT !.at = "prepare"])
  BY <1>0, <1>2 DEF Chosen, IsPass
<1>3. ASSUME p.at = "prepare" PROVE Chosen([p EXCEPT !.at = "admit"])
  BY <1>0, <1>3 DEF Chosen, IsPass
<1>4. ASSUME NEW v PROVE Chosen([p EXCEPT !.at = "join", !.victim = v])
  BY <1>0 DEF Chosen, IsPass
<1>5. Chosen(NextTask(p)) /\ NextTask(p).at = "route"
  BY <1>0 DEF Chosen, IsPass, NextTask
<1>6. ASSUME NEW q, IsPass(q), q.at = "route", NEW recs, NEW jobs PROVE Chosen(Looked(q, recs, jobs))
  BY <1>6 DEF Chosen, IsPass, Looked
<1>7. ASSUME NEW v PROVE LET q == [p EXCEPT !.at = "route", !.victim = v] IN IsPass(q) /\ q.at = "route"
  BY <1>0 DEF IsPass
<1>8. IsPass(NextTask(p))
  BY <1>5 DEF Chosen
<1>9. ASSUME NEW v, NEW recs, NEW jobs
      PROVE  Chosen(Looked([p EXCEPT !.at = "route", !.victim = v], recs, jobs))
  <2> DEFINE q == [p EXCEPT !.at = "route", !.victim = v]
  <2>1. IsPass(q) /\ q.at = "route"
    BY <1>7
  <2> HIDE DEF q
  <2>2. Chosen(Looked(q, recs, jobs))
    BY <1>6, <2>1
  <2> QED BY <2>2 DEF q
<1>10. ASSUME NEW recs, NEW jobs PROVE Chosen(Looked(NextTask(p), recs, jobs))
  BY <1>5, <1>6, <1>8
<1> QED BY <1>1, <1>2, <1>3, <1>4, <1>5, <1>9, <1>10

\* A pass that has not begun has chosen nothing, and so has one that begins.
LEMMA IdleChoice ==
  /\ Chosen(IdlePass)
  /\ \A queue, now, recs, jobs :
       Chosen(Looked([IdlePass EXCEPT !.at = "route", !.now = now, !.queue = queue], recs, jobs))
<1>1. Chosen(IdlePass)
  BY DEF IdlePass, Chosen, IsPass
<1>2. ASSUME NEW queue, NEW now, NEW recs, NEW jobs
      PROVE  Chosen(Looked([IdlePass EXCEPT !.at = "route", !.now = now, !.queue = queue], recs, jobs))
  BY DEF IdlePass, Chosen, IsPass, Looked
<1> QED BY <1>1, <1>2

\* The pass's own steps, but for the admission, take no slot and leave the rows alone.
LEMMA PassStepTyped == RouteTyped /\ PassMoves => RouteTyped'
<1> SUFFICES ASSUME RouteTyped, PassMoves PROVE RouteTyped'
  OBVIOUS
<1>0. Chosen(pass) /\ RouteClock \in Nat /\ RefusalTTL \in Nat
  BY RoutingAssumption DEF RouteTyped
<1>1. ASSUME job' = job, others' = others PROVE \A a \in Accounts : Taken(job, a)' <= Capacity[a]
  BY <1>1 DEF RouteTyped, Taken
<1>2. CASE StartPass
  <2>1. lanerec' \in [Lanes -> LaneRecs]
    BY <1>2 DEF StartPass, Reread, RouteTyped, LaneRecs
  <2>2. Chosen(pass')
    BY <1>2, IdleChoice DEF StartPass
  <2> QED BY <1>1, <1>2, <2>1, <2>2 DEF StartPass, RouteTyped
<1>3. CASE RouteTask
  <2>1. PICK l : /\ pass' = [pass EXCEPT !.at = "check", !.lane = l]
                 /\ l = NoLane \/ l \in Selectable(Current, pass.view, pass.now)
    BY <1>3 DEF RouteTask, Choose
  <2>2. l \in Lanes \cup {NoLane}
    BY <2>1, SelectableAllowed
  <2>3. Chosen(pass')
    BY <1>0, <2>1, <2>2, PassChoice
  <2> QED BY <1>1, <1>3, <2>3 DEF RouteTask, RouteTyped
<1>4. CASE LaneFree \/ LaneFull
  <2>1. pass.at = "check" /\ pass.lane # NoLane /\ pass' = [pass EXCEPT !.at = "prepare"]
    BY <1>4 DEF LaneFree, LaneFull, Looking
  <2>2. Chosen(pass')
    BY <1>0, <2>1, PassChoice
  <2> QED BY <1>1, <1>4, <2>2 DEF LaneFree, LaneFull, RouteTyped
<1>5. CASE AwaitOwn
  <2>0. PICK t : pass' = [pass EXCEPT !.at = "join", !.victim = t]
    BY <1>5 DEF AwaitOwn
  <2>1. Chosen(pass')
    BY <1>0, <2>0, PassChoice
  <2> QED BY <1>1, <1>5, <2>1 DEF AwaitOwn, RouteTyped
<1>6. CASE Joined
  <2>0. pass' = Looked([pass EXCEPT !.at = "route", !.victim = NoLane], lanerec, job)
    BY <1>6 DEF Joined
  <2>1. Chosen(Looked([pass EXCEPT !.at = "route", !.victim = NoLane], lanerec, job))
    BY <1>0, PassChoice
  <2> QED BY <1>1, <1>6, <2>0, <2>1 DEF Joined, RouteTyped
<1>7. CASE RefuseTask
  <2>1. Chosen(pass')
    BY <1>0, <1>7, PassChoice DEF RefuseTask
  <2> QED BY <1>1, <1>7, <2>1 DEF RefuseTask, RouteTyped
<1>8. CASE Prepare
  <2>1. Chosen(pass')
    BY <1>0, <1>8, PassChoice DEF Prepare
  <2>2. lanerec' \in [Lanes -> LaneRecs]
    BY <1>8 DEF Prepare, WriteRecords, RouteTyped
  <2> QED BY <1>1, <1>8, <2>1, <2>2 DEF Prepare, RouteTyped
<1>9. CASE AdmitTask
  <2> DEFINE row == [lane |-> pass.lane, thread |-> "running", state |-> "dispatching", read |-> Unread]
  <2>1. pass.lane \in Lanes
    BY <1>0, <1>9 DEF AdmitTask, Looking, Chosen
  <2>2. row \in RowOf /\ InStep(row)
    BY <1>0, <2>1 DEF RowOf, InStep, LaneRecs, Unread
  <2>3. job' = [job EXCEPT ![Current] = row]
    BY <1>9 DEF AdmitTask
  <2> HIDE DEF row
  <2>4. job' \in [Work -> RowOf] /\ \A t \in Work : InStep(job'[t])
    BY <2>2, <2>3 DEF RouteTyped
  <2>5. \A a \in Accounts : Taken(job, a)' <= Capacity[a]
    BY <1>9, OneTaken
  <2>6. Chosen(pass')
    BY <1>0, <1>9, PassChoice DEF AdmitTask
  <2> QED BY <1>9, <2>4, <2>5, <2>6 DEF AdmitTask, RouteTyped
<1>10. CASE AdmissionRefused
  <2>1. Chosen(pass')
    BY <1>0, <1>10, PassChoice DEF AdmissionRefused
  <2> QED BY <1>1, <1>10, <2>1 DEF AdmissionRefused, RouteTyped
<1>11. CASE PassEnds
  BY <1>1, <1>11, IdleChoice DEF PassEnds, RouteTyped
<1> QED BY <1>2, <1>3, <1>4, <1>5, <1>6, <1>7, <1>8, <1>9, <1>10, <1>11 DEF PassMoves

\* A thread that goes on has the row that says so, and takes no slot it did not take.
LEMMA RowMoved ==
  ASSUME RouteTyped, NEW t \in Work, NEW row \in RowOf, InStep(row), job' = [job EXCEPT ![t] = row],
         row.state \in {"none", "settled"} \/ (job[t].state \in {"dispatching", "held"} /\ row.lane = job[t].lane),
         UNCHANGED <<time, reading, others, pass>>, lanerec' \in [Lanes -> LaneRecs]
  PROVE  RouteTyped'
<1>1. job' \in [Work -> RowOf] /\ \A u \in Work : InStep(job'[u])
  BY DEF RouteTyped
<1>2. ASSUME NEW a \in Accounts PROVE Taken(job, a)' <= Capacity[a]
  <2>1. \A u \in Work : u # t => job'[u] = job[u]
    BY DEF RouteTyped
  <2>2. job'[t] = row
    BY DEF RouteTyped
  <2>3. Taking(job', a) \subseteq Taking(job, a)
    <3> SUFFICES ASSUME NEW u \in Taking(job', a) PROVE u \in Taking(job, a)
      OBVIOUS
    <3>1. u \in Work /\ job'[u].state \in {"dispatching", "held"} /\ LaneConf[job'[u].lane].account = a
      BY DEF Taking
    <3>2. CASE u # t
      BY <2>1, <3>1, <3>2 DEF Taking
    <3>3. CASE u = t
      BY <2>2, <3>1, <3>3 DEF Taking
    <3> QED BY <3>2, <3>3
  <2> QED BY <2>3, NoneTaken
<1> QED BY <1>1, <1>2 DEF RouteTyped

\* The threads, the operator, the other boards, the collectors and the clock.
LEMMA AroundPassTyped ==
  ASSUME RouteTyped,
         LoopPrepares \/ OtherBoards \/ Publish \/ RouteTick \/ \E t \in Work : JobMoves(t) \/ OperatorFrees(t)
  PROVE  RouteTyped'
<1>0. /\ RouteClock \in Nat /\ RefusalTTL \in Nat /\ time \in Nat /\ time <= RouteClock
      /\ job \in [Work -> RowOf] /\ lanerec \in [Lanes -> LaneRecs] /\ reading \in [Lanes -> LaneRecs]
      /\ others \in [Accounts -> Nat]
  BY RoutingAssumption DEF RouteTyped
<1>1. CASE OtherBoards
  <2>1. others' \in [Accounts -> Nat] /\ UNCHANGED <<time, lanerec, reading, published, job, noted, pass>>
    BY <1>0, <1>1 DEF OtherBoards
  <2>2. ASSUME NEW a \in Accounts PROVE Taken(job, a)' <= Capacity[a]
    <3>1. /\ Taken(job, a)' = Cardinality(Taking(job, a)) + others'[a]
          /\ Taken(job, a) = Cardinality(Taking(job, a)) + others[a]
          /\ Cardinality(Taking(job, a)) \in Nat
      BY <1>0, <2>1, TakenIsCounted DEF Taken, Taking
    <3>2. Capacity[a] \in Nat /\ Taken(job, a) <= Capacity[a]
      BY RoutingAssumption DEF RouteTyped
    <3>3. PICK b \in Accounts : \/ Free(b) > 0 /\ others' = [others EXCEPT ![b] = @ + 1]
                                \/ others[b] > 0 /\ others' = [others EXCEPT ![b] = @ - 1]
      BY <1>1 DEF OtherBoards
    <3>4. Free(b) > 0 => Taken(job, b) + 1 <= Capacity[b]
      BY FreeIsRoom
    <3> QED BY <1>0, <2>1, <3>1, <3>2, <3>3, <3>4
  <2> QED BY <2>1, <2>2 DEF RouteTyped
<1>n. ASSUME job' = job, others' = others PROVE \A a \in Accounts : Taken(job, a)' <= Capacity[a]
  BY <1>n DEF RouteTyped, Taken
<1>p. CASE LoopPrepares
  BY <1>0, <1>p, <1>n DEF LoopPrepares, WriteRecords, RouteTyped
<1>2. CASE Publish
  <2>1. reading' \in [Lanes -> LaneRecs]
    BY <1>0, <1>2 DEF Publish, LaneRecs
  <2> QED BY <1>2, <1>n, <2>1 DEF Publish, RouteTyped
<1>3. CASE RouteTick
  BY <1>0, <1>3, <1>n DEF RouteTick, RouteTyped
<1>4. ASSUME NEW t \in Work, JobCompletes(t) \/ JobHeld(t) PROVE RouteTyped'
  <2>1. PICK s \in {"settled", "held"} : job' = [job EXCEPT ![t] = [job[t] EXCEPT !.thread = "ended", !.state = s]]
    BY <1>4 DEF JobCompletes, JobHeld
  <2> DEFINE row == [job[t] EXCEPT !.thread = "ended", !.state = s]
  <2>2. row \in RowOf /\ row.thread = "ended" /\ row.state = s /\ row.lane = job[t].lane
    BY <1>0 DEF RowOf
  <2>3. job[t].state = "dispatching"
    BY <1>4 DEF JobCompletes, JobHeld, RouteTyped, InStep
  <2>4. UNCHANGED <<time, lanerec, reading, others, pass>>
    BY <1>4 DEF JobCompletes, JobHeld
  <2> HIDE DEF row
  <2>5. InStep(row)
    BY <2>2 DEF InStep
  <2> QED BY <1>0, <2>1, <2>2, <2>3, <2>4, <2>5, RowMoved DEF row
<1>5. ASSUME NEW t \in Work, ModelRefused(t) PROVE RouteTyped'
  <2> DEFINE row == [job[t] EXCEPT !.thread = "noting", !.state = "held", !.read = lanerec[job[t].lane]]
  <2>1. InStep(job[t]) /\ job[t].thread = "running"
    BY <1>5 DEF ModelRefused, RouteTyped
  <2>2. lanerec[job[t].lane] \in LaneRecs /\ job[t].state = "dispatching"
    BY <1>0, <2>1 DEF InStep
  <2>3. row \in RowOf /\ row.thread = "noting" /\ row.state = "held" /\ row.lane = job[t].lane
    BY <1>0, <2>2 DEF RowOf
  <2>4. job' = [job EXCEPT ![t] = row] /\ UNCHANGED <<time, lanerec, reading, others, pass>>
    BY <1>5 DEF ModelRefused
  <2> HIDE DEF row
  <2>5. InStep(row)
    BY <2>3 DEF InStep
  <2> QED BY <1>0, <2>2, <2>3, <2>4, <2>5, RowMoved
<1>6. ASSUME NEW t \in Work, NoteRefusal(t) PROVE RouteTyped'
  <2> DEFINE l == job[t].lane
             until == time + RefusalTTL
             rec == [job[t].read EXCEPT !.refused = until]
             row == [job[t] EXCEPT !.thread = "ended", !.read = Unread]
  <2>1. InStep(job[t]) /\ job[t].thread = "noting"
    BY <1>6 DEF NoteRefusal, RouteTyped
  <2>2. rec \in LaneRecs
    BY <1>0 DEF RowOf, LaneRecs
  <2>r. Unread \in LaneRecs /\ job[t] \in RowOf
    BY <1>0 DEF LaneRecs, Unread
  <2>3. row \in RowOf /\ row.thread = "ended" /\ row.state = job[t].state /\ row.lane = l
    BY <2>r DEF RowOf
  <2>4. /\ lanerec' = [lanerec EXCEPT ![l] = rec] /\ job' = [job EXCEPT ![t] = row]
        /\ UNCHANGED <<time, reading, others, pass>>
    BY <1>6 DEF NoteRefusal
  <2> HIDE DEF rec, row
  <2>5. lanerec' \in [Lanes -> LaneRecs]
    BY <1>0, <2>2, <2>4
  <2>6. InStep(row) /\ job[t].state = "held"
    BY <2>1, <2>3 DEF InStep
  <2> QED BY <2>3, <2>4, <2>5, <2>6, RowMoved
<1>7. ASSUME NEW t \in Work, OperatorFrees(t) PROVE RouteTyped'
  <2>1. NoJob \in RowOf /\ InStep(NoJob) /\ NoJob.state = "none"
    BY <1>0 DEF NoJob, RowOf, InStep, LaneRecs, Unread
  <2> QED BY <1>0, <1>7, <2>1, RowMoved DEF OperatorFrees
<1> QED BY <1>p, <1>1, <1>2, <1>3, <1>4, <1>5, <1>6, <1>7 DEF JobMoves

LEMMA RouteTypedNext == RouteTyped /\ [RouteNext]_routeVars => RouteTyped'
<1>1. RouteTyped /\ UNCHANGED routeVars => RouteTyped'
  <2> SUFFICES ASSUME RouteTyped, UNCHANGED routeVars PROVE RouteTyped'
    OBVIOUS
  <2>1. \A a \in Accounts : Taken(job, a)' <= Capacity[a]
    BY DEF RouteTyped, Taken, routeVars
  <2> QED BY <2>1 DEF RouteTyped, routeVars
<1> QED BY <1>1, PassStepTyped, AroundPassTyped DEF RouteNext

LEMMA RouteStarts == RouteInit => RouteTyped
<1> SUFFICES ASSUME RouteInit PROVE RouteTyped
  OBVIOUS
<1>1. RouteClock \in Nat /\ RefusalTTL \in Nat /\ Capacity \in [Accounts -> Nat]
  BY RoutingAssumption
<1>2. Unread \in LaneRecs /\ NoJob \in RowOf /\ InStep(NoJob) /\ NoJob.state = "none"
  BY <1>1 DEF Unread, LaneRecs, NoJob, RowOf, InStep
<1>3. job \in [Work -> RowOf] /\ \A t \in Work : job[t] = NoJob
  BY <1>2 DEF RouteInit
<1>4. ASSUME NEW a \in Accounts PROVE Taken(job, a) <= Capacity[a]
  <2>1. Taking(job, a) = {}
    BY <1>2, <1>3 DEF Taking
  <2>2. Taken(job, a) = 0 + 0
    <3>1. Taken(job, a) = Cardinality(Taking(job, a)) + others[a]
      BY DEF Taken, Taking
    <3> QED BY <2>1, <3>1, FS_EmptySet DEF RouteInit
  <2> QED BY <1>1, <2>2
<1>5. /\ time = 0 /\ lanerec \in [Lanes -> LaneRecs] /\ reading \in [Lanes -> LaneRecs]
      /\ others \in [Accounts -> Nat] /\ pass = IdlePass
  BY <1>2 DEF RouteInit
<1>6. time \in 0..RouteClock /\ \A t \in Work : InStep(job[t])
  BY <1>1, <1>2, <1>3, <1>5
<1> QED BY <1>3, <1>4, <1>5, <1>6, IdleChoice DEF RouteTyped

LEMMA RouteTypes == RouteTyped => RouteTypeOK
BY DEF RouteTyped, RouteTypeOK, InStep

\* Type correctness of routing, prepare command or not; with it, that the board's own
\* admissions and those of other boards never take more slots than an account has.
THEOREM RouteTyping == RouteSpec => []RouteTypeOK
BY RouteStarts, RouteTypedNext, RouteTypes, PTL DEF RouteSpec
-----------------------------------------------------------------------------
(* Routing: the lane a task is dispatched on *)

\* What a pass holds on to from route() to admit(): it does not look again in between.
Suits(p, l) == l \in Selectable(Head(p.queue), p.view, p.now)
Decided(p) ==
  /\ IsPass(p)
  /\ p.at = "check" => p.lane = NoLane \/ Suits(p, p.lane)
  /\ p.at \in {"prepare", "admit"} => Suits(p, p.lane)

\* A task is dispatched only on a lane of its candidates that declares its category, is not of the
\* family of its author, was read as ready (or, for what qualifies a lane, as unqualified) and
\* whose window was open, by the last look of the pass; waits, joins, other boards' admissions and
\* a prepare command that rewrites the records between the choice and the admission change
\* nothing of it (select_lane and the wait loop of runner.tick).
DispatchSuited ==
  [][\A t \in Work :
       job[t].thread = "none" /\ job'[t].thread = "running"
         => job'[t].lane \in Selectable(t, pass.view, pass.now)]_routeVars

\* A pass that goes on has the queue, the view and the instant that it chose by.
LEMMA DecisionStays ==
  ASSUME NEW p, Decided(p)
  PROVE  /\ \A l : l = NoLane \/ Suits(p, l) => Decided([p EXCEPT !.at = "check", !.lane = l])
         /\ p.at = "check" /\ p.lane # NoLane => Decided([p EXCEPT !.at = "prepare"])
         /\ p.at = "prepare" => Decided([p EXCEPT !.at = "admit"])
         /\ \A v : Decided([p EXCEPT !.at = "join", !.victim = v])
         /\ Decided(NextTask(p))
         /\ \A v, recs, jobs : Decided(Looked([p EXCEPT !.at = "route", !.victim = v], recs, jobs))
         /\ \A recs, jobs : Decided(Looked(NextTask(p), recs, jobs))
<1>0. IsPass(p)
  BY DEF Decided
<1>1. ASSUME NEW l, l = NoLane \/ Suits(p, l) PROVE Decided([p EXCEPT !.at = "check", !.lane = l])
  BY <1>0, <1>1 DEF Decided, IsPass, Suits
<1>2. ASSUME p.at = "check", p.lane # NoLane PROVE Decided([p EXCEPT !.at = "prepare"])
  BY <1>0, <1>2 DEF Decided, IsPass, Suits
<1>3. ASSUME p.at = "prepare" PROVE Decided([p EXCEPT !.at = "admit"])
  BY <1>0, <1>3 DEF Decided, IsPass, Suits
<1>4. ASSUME NEW v PROVE Decided([p EXCEPT !.at = "join", !.victim = v])
  BY <1>0 DEF Decided, IsPass
<1>5. IsPass(NextTask(p)) /\ NextTask(p).at = "route"
  BY <1>0 DEF IsPass, NextTask
<1>6. ASSUME NEW q, IsPass(q), q.at = "route", NEW recs, NEW jobs PROVE Decided(Looked(q, recs, jobs))
  BY <1>6 DEF Decided, IsPass, Looked
<1>7. ASSUME NEW v, NEW recs, NEW jobs
      PROVE  Decided(Looked([p EXCEPT !.at = "route", !.victim = v], recs, jobs))
  <2> DEFINE q == [p EXCEPT !.at = "route", !.victim = v]
  <2>1. IsPass(q) /\ q.at = "route"
    BY <1>0 DEF IsPass
  <2> HIDE DEF q
  <2>2. Decided(Looked(q, recs, jobs))
    BY <1>6, <2>1
  <2> QED BY <2>2 DEF q
<1>8. Decided(NextTask(p))
  BY <1>5 DEF Decided
<1>9. ASSUME NEW recs, NEW jobs PROVE Decided(Looked(NextTask(p), recs, jobs))
  BY <1>5, <1>6
<1> QED BY <1>1, <1>2, <1>3, <1>4, <1>7, <1>8, <1>9

\* A pass that begins has decided nothing.
LEMMA IdleDecides ==
  /\ Decided(IdlePass)
  /\ \A queue, now, recs, jobs :
       Decided(Looked([IdlePass EXCEPT !.at = "route", !.now = now, !.queue = queue], recs, jobs))
<1>1. Decided(IdlePass)
  BY DEF IdlePass, Decided, IsPass
<1>2. ASSUME NEW queue, NEW now, NEW recs, NEW jobs
      PROVE  Decided(Looked([IdlePass EXCEPT !.at = "route", !.now = now, !.queue = queue], recs, jobs))
  BY DEF IdlePass, Decided, IsPass, Looked
<1> QED BY <1>1, <1>2

LEMMA DecidedNext == Decided(pass) /\ [RouteNext]_routeVars => Decided(pass)'
<1> SUFFICES ASSUME Decided(pass), [RouteNext]_routeVars PROVE Decided(pass')
  BY DEF Decided, IsPass, Suits
<1>1. CASE StartPass
  BY <1>1, IdleDecides DEF StartPass
<1>2. CASE RouteTask
  <2>1. PICK l : pass' = [pass EXCEPT !.at = "check", !.lane = l] /\ (l = NoLane \/ Suits(pass, l))
    BY <1>2 DEF RouteTask, Choose, Suits, Current
  <2> QED BY <2>1, DecisionStays
<1>3. CASE LaneFree \/ LaneFull
  <2>1. pass.at = "check" /\ pass.lane # NoLane /\ pass' = [pass EXCEPT !.at = "prepare"]
    BY <1>3 DEF LaneFree, LaneFull, Looking
  <2> QED BY <2>1, DecisionStays
<1>4. CASE AwaitOwn
  <2>1. PICK t : pass' = [pass EXCEPT !.at = "join", !.victim = t]
    BY <1>4 DEF AwaitOwn
  <2> QED BY <2>1, DecisionStays
<1>5. CASE Joined
  <2>1. pass' = Looked([pass EXCEPT !.at = "route", !.victim = NoLane], lanerec, job)
    BY <1>5 DEF Joined
  <2>2. Decided(Looked([pass EXCEPT !.at = "route", !.victim = NoLane], lanerec, job))
    BY DecisionStays
  <2> QED BY <2>1, <2>2
<1>6. CASE RefuseTask
  BY <1>6, DecisionStays DEF RefuseTask
<1>7. CASE Prepare
  BY <1>7, DecisionStays DEF Prepare
<1>8. CASE AdmitTask
  BY <1>8, DecisionStays DEF AdmitTask
<1>9. CASE AdmissionRefused
  BY <1>9, DecisionStays DEF AdmissionRefused
<1>10. CASE PassEnds
  BY <1>10, IdleDecides DEF PassEnds
<1>11. CASE \/ LoopPrepares \/ OtherBoards \/ Publish \/ RouteTick \/ UNCHANGED routeVars
            \/ \E t \in Work : JobMoves(t) \/ OperatorFrees(t)
  BY <1>11 DEF LoopPrepares, OtherBoards, Publish, RouteTick, routeVars, JobMoves, JobCompletes, JobHeld, ModelRefused, NoteRefusal,
               OperatorFrees
<1> QED BY <1>1, <1>2, <1>3, <1>4, <1>5, <1>6, <1>7, <1>8, <1>9, <1>10, <1>11 DEF RouteNext, PassMoves

\* The lane of an admission is the one the pass decided on.
LEMMA SuitedStep ==
  RouteTyped /\ Decided(pass) /\ [RouteNext]_routeVars
    => [\A t \in Work :
          job[t].thread = "none" /\ job'[t].thread = "running"
            => job'[t].lane \in Selectable(t, pass.view, pass.now)]_routeVars
<1> SUFFICES ASSUME RouteTyped, Decided(pass), RouteNext, NEW t \in Work,
                    job[t].thread = "none", job'[t].thread = "running"
             PROVE  job'[t].lane \in Selectable(t, pass.view, pass.now)
  BY DEF routeVars
<1>1. job \in [Work -> JobRow]
  BY RoutingAssumption DEF RouteTyped, RowOf, JobRow, LaneRecs, LaneRec
<1>2. AdmitTask /\ t = Current /\ job'[t].lane = pass.lane
  BY <1>1, DispatchAdmits
<1> QED BY <1>2 DEF AdmitTask, Looking, Decided, Suits, Current

\* The routing promise holds for any lanes, tasks and clocks, with a prepare command or without.
THEOREM DispatchIsSuited == RouteSpec => DispatchSuited
<1>1. RouteInit => Decided(pass)
  BY IdleDecides DEF RouteInit
<1> QED BY <1>1, RouteStarts, RouteTypedNext, DecidedNext, SuitedStep, PTL DEF RouteSpec, DispatchSuited
=============================================================================
