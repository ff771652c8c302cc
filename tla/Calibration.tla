------------------------------ MODULE Calibration ------------------------------
(***************************************************************************)
(* Calibration runs: code nodes of the board that author review tasks with *)
(* known answers, wait for them to settle, score the replies and record an *)
(* eval outcome on each ledger attempt.  A run is a whole corpus, or a     *)
(* single case (a review task, or a packet the node builds itself).  Each  *)
(* write to the disk or to the ledger is a step and the tick may die       *)
(* between any two of them.                                                *)
(* Sources: board/runner.py, board/calibration/, board/evals.py.           *)
(***************************************************************************)
EXTENDS Naturals, Sequences, FiniteSets

CONSTANTS Cases,    \* the cases of the corpus
          Shadowed, \* pairs <<c, d>>: the task id of c and a dash begins that of d
          Falls     \* bound: how often the tick dies

CorpusRun == "corpus"

ASSUME CalibrationAssumption ==
    /\ Shadowed \subseteq Cases \X Cases
    /\ Falls \in Nat /\ CorpusRun \notin Cases

VARIABLES form,     \* what spec.case asks for: the corpus, a review or a packet
          node,     \* state of each run's code node on the board
          turn,     \* what the tick is doing for which run, and the cases left
          manifest, \* the corpus manifest is on disk
          caseTask, \* state of each case's own board task; "none": no task file
          briefed,  \* the cases whose brief is on disk
          repo,     \* the eval repository of each packet case
          attempt,  \* the ledger attempt of each case
          reply,    \* what its attempt directory holds: nothing, right or wrong
          updated,  \* cases with an attempt, oldest update first
          outcome,  \* eval outcomes recorded on each case's attempt, in order
          deaths

boardVars == <<manifest, caseTask, briefed, repo>>
laneVars  == <<attempt, reply, updated>>
calVars   == <<form, node, turn, manifest, caseTask, briefed, repo, attempt,
               reply, updated, outcome, deaths>>

Runs == IF form = CorpusRun THEN {CorpusRun} ELSE Cases
CasesOf(r) == IF form = CorpusRun THEN Cases ELSE {r}

CaseStates == {"none", "ready", "dispatched", "passed", "blocked"}
SettledStates == {"passed", "blocked"}
Active == {"running", "held"}

Resting == [at |-> "rest", run |-> CorpusRun, left |-> {}]

CalibrationTypeOK ==
    /\ form \in {CorpusRun, "review", "packet"}
    /\ node \in [Runs -> {"ready", "review_pending", "passed", "blocked"}]
    /\ turn \in [at: {"rest", "write", "brief", "wait", "init", "build",
                      "record", "settle"},
                 run: Runs \cup {CorpusRun}, left: SUBSET Cases]
    /\ manifest \in BOOLEAN
    /\ caseTask \in [Cases -> CaseStates]
    /\ briefed \subseteq Cases
    /\ repo \in [Cases -> {"none", "empty", "based"}]
    /\ attempt \in [Cases -> Active \cup {"none", "completed", "failed"}]
    /\ reply \in [Cases -> {"none", "right", "wrong"}]
    /\ updated \in Seq(Cases) /\ \A i, j \in DOMAIN updated : updated[i] = updated[j] => i = j
    /\ outcome \in [Cases -> Seq(BOOLEAN)]
    /\ deaths \in 0..Falls

CalibrationInit ==
    /\ form \in {CorpusRun, "review", "packet"}
    /\ node = [r \in Runs |-> "ready"]
    /\ turn = Resting
    /\ manifest = FALSE
    /\ caseTask = [c \in Cases |-> "none"]
    /\ briefed = {}
    /\ repo = [c \in Cases |-> "none"]
    /\ attempt = [c \in Cases |-> "none"]
    /\ reply = [c \in Cases |-> "none"]
    /\ updated = <<>>
    /\ outcome = [c \in Cases |-> <<>>]
    /\ deaths = 0

TurnIs(step) == turn.at = step
Go(step, r, left) == turn' = [at |-> step, run |-> r, left |-> left]
SettleRun(r, state) == /\ node' = [node EXCEPT ![r] = state]
                       /\ turn' = Resting

\* The cases with an attempt are told apart, so c has one place among them.
PlaceOf(c) == CHOOSE i \in DOMAIN updated : updated[i] = c
Touched(c) ==
    IF \E i \in DOMAIN updated : updated[i] = c
    THEN SubSeq(updated, 1, PlaceOf(c) - 1) \o SubSeq(updated, PlaceOf(c) + 1, Len(updated)) \o <<c>>
    ELSE Append(updated, c)

-----------------------------------------------------------------------------
\* Authoring: every refusal is met in planning, then the files are written one
\* by one, each case's task file before its brief.

AuthorCases(r) ==
    /\ form # "packet" /\ TurnIs("rest") /\ node[r] = "ready"
    /\ \A c \in CasesOf(r) : caseTask[c] = "none"
    /\ manifest' = (manifest \/ form = CorpusRun)
    /\ Go("write", r, CasesOf(r))
    /\ UNCHANGED <<form, node, caseTask, briefed, repo, laneVars, outcome, deaths>>

\* A task file is already there: the corpus run is blocked, the single case is
\* taken for authored.
AuthoredBefore(r) ==
    /\ form # "packet" /\ TurnIs("rest") /\ node[r] = "ready"
    /\ \E c \in CasesOf(r) : caseTask[c] # "none"
    /\ SettleRun(r, IF form = CorpusRun THEN "blocked" ELSE "review_pending")
    /\ UNCHANGED <<form, boardVars, laneVars, outcome, deaths>>

WriteTaskFile(c) ==
    /\ TurnIs("write") /\ c \in turn.left
    /\ caseTask' = [caseTask EXCEPT ![c] = "ready"]
    /\ Go("brief", turn.run, turn.left \ {c})
    /\ UNCHANGED <<form, node, manifest, briefed, repo, laneVars, outcome, deaths>>

WriteCaseBrief(c) ==
    /\ TurnIs("brief") /\ caseTask[c] # "none" /\ c \in CasesOf(turn.run)
    /\ c \notin briefed /\ c \notin turn.left
    /\ briefed' = briefed \cup {c}
    /\ Go(IF turn.left = {} THEN "wait" ELSE "write", turn.run, turn.left)
    /\ UNCHANGED <<form, node, manifest, caseTask, repo, laneVars, outcome, deaths>>

SaveWait ==
    /\ TurnIs("wait")
    /\ SettleRun(turn.run, "review_pending")
    /\ UNCHANGED <<form, boardVars, laneVars, outcome, deaths>>

-----------------------------------------------------------------------------
\* The ordinary board runs the review tasks; a task without its brief stays
\* ready, and one whose file names collide is blocked before any attempt.

DispatchCase(c) ==
    /\ caseTask[c] = "ready" /\ c \in briefed
    /\ caseTask' = [caseTask EXCEPT ![c] = "dispatched"]
    /\ attempt' = [attempt EXCEPT ![c] = "running"]
    /\ updated' = Touched(c)
    /\ UNCHANGED <<form, node, turn, manifest, briefed, repo, reply, outcome, deaths>>

CaseUnready(c) ==
    /\ caseTask[c] = "ready"
    /\ caseTask' = [caseTask EXCEPT ![c] = "blocked"]
    /\ UNCHANGED <<form, node, turn, manifest, briefed, repo, laneVars, outcome, deaths>>

\* A completed review has a reply and its verdict passes or blocks the task; a
\* held one blocks it, with or without a reply in its directory.
CaseEnds(c) ==
    /\ caseTask[c] = "dispatched"
    /\ \E end \in {"completed", "held"}, r \in {"none", "right", "wrong"},
          s \in SettledStates :
        /\ end = "completed" => r # "none"
        /\ end = "held" => s = "blocked"
        /\ attempt' = [attempt EXCEPT ![c] = end]
        /\ reply' = [reply EXCEPT ![c] = r]
        /\ caseTask' = [caseTask EXCEPT ![c] = s]
    /\ updated' = Touched(c)
    /\ UNCHANGED <<form, node, turn, manifest, briefed, repo, outcome, deaths>>

OperatorResolves(c) ==
    /\ attempt[c] = "held"
    /\ \E end \in {"completed", "failed"} : attempt' = [attempt EXCEPT ![c] = end]
    /\ updated' = Touched(c)
    /\ UNCHANGED <<form, node, turn, boardVars, reply, outcome, deaths>>

-----------------------------------------------------------------------------
\* A packet case: the node makes a repository of the case's base and builds in
\* it through the packet path, all in one pass that leaves the node ready.

MakeRepository(r) ==
    /\ form = "packet" /\ TurnIs("rest") /\ node[r] = "ready" /\ repo[r] = "none"
    /\ repo' = [repo EXCEPT ![r] = "empty"]
    /\ Go("init", r, {})
    /\ UNCHANGED <<form, node, manifest, caseTask, briefed, laneVars, outcome, deaths>>

CommitBase ==
    /\ TurnIs("init")
    /\ repo' = [repo EXCEPT ![turn.run] = "based"]
    /\ Go("build", turn.run, {})
    /\ UNCHANGED <<form, node, manifest, caseTask, briefed, laneVars, outcome, deaths>>

\* A repository already there is taken as it is.
ReuseRepository(r) ==
    /\ form = "packet" /\ TurnIs("rest") /\ node[r] = "ready" /\ repo[r] # "none"
    /\ Go("build", r, {})
    /\ UNCHANGED <<form, node, boardVars, laneVars, outcome, deaths>>

\* Admission refuses before an attempt exists: the node stays ready.
BuildRefused ==
    /\ TurnIs("build")
    /\ SettleRun(turn.run, "ready")
    /\ UNCHANGED <<form, boardVars, laneVars, outcome, deaths>>

\* A build completes only on a repository that has its base commit.
Build ==
    /\ TurnIs("build")
    /\ LET c == turn.run IN
       \E end \in {"completed", "held"}, r \in {"none", "right", "wrong"} :
        /\ end = "completed" => repo[c] = "based" /\ r # "none"
        /\ attempt' = [attempt EXCEPT ![c] = end]
        /\ reply' = [reply EXCEPT ![c] = r]
        /\ updated' = Touched(c)
        /\ outcome' = [outcome EXCEPT ![c] = <<>>] \* a new attempt
        /\ IF end = "completed"
           THEN Go("record", c, {c}) /\ UNCHANGED node
           ELSE SettleRun(c, "blocked")
    /\ UNCHANGED <<form, boardVars, deaths>>

-----------------------------------------------------------------------------
\* Scoring.

\* As if a task out for review counted as settled.
AllStarted(r) == \A c \in CasesOf(r) : caseTask[c] \notin {"none", "ready"}

AllSettled(r) == /\ form = CorpusRun => manifest
                 /\ \A c \in CasesOf(r) : caseTask[c] \in SettledStates

StartScoring(r) ==
    /\ TurnIs("rest") /\ node[r] = "review_pending" /\ AllSettled(r)
    /\ Go("record", r, CasesOf(r))
    /\ UNCHANGED <<form, node, boardVars, laneVars, outcome, deaths>>

\* Ledger.record_outcome: a terminal attempt, and completed work if accepted.
Recordable(c, accepted) ==
    /\ attempt[c] \in {"completed", "failed"}
    /\ accepted => attempt[c] = "completed"

Recorded(c, accepted) == outcome' = [outcome EXCEPT ![c] = Append(@, accepted)]

\* A corpus case is scored from the reply under its own task id; a case with no
\* reply is not recorded and a refused record is only noted in the report.
RecordCase(c) ==
    /\ TurnIs("record") /\ form = CorpusRun /\ c \in turn.left
    /\ IF reply[c] # "none" /\ Recordable(c, reply[c] = "right")
       THEN Recorded(c, reply[c] = "right")
       ELSE UNCHANGED outcome
    /\ Go(IF turn.left = {c} THEN "settle" ELSE "record", turn.run, turn.left \ {c})
    /\ UNCHANGED <<form, node, boardVars, laneVars, deaths>>

\* The attempts whose ledger task id matches LIKE '<task id>-%'; the newest
\* update wins.
Matching(c) == SelectSeq(updated, LAMBDA d : d = c \/ <<c, d>> \in Shadowed)
NewestAttempt(c) == LET m == Matching(c) IN m[Len(m)]
AttemptOf(c) == IF form = "packet" THEN c ELSE NewestAttempt(c)

\* The attempt's directory is looked for under the case's own task id only, so
\* another case's attempt has nothing to grade.
Accepted(c) == AttemptOf(c) = c /\ reply[c] = "right"

RecordSingle ==
    /\ TurnIs("record") /\ form # CorpusRun
    /\ LET c == turn.run IN
       IF form = "review" /\ Matching(c) = <<>>
       THEN SettleRun(c, "blocked") /\ UNCHANGED outcome
       ELSE IF Recordable(AttemptOf(c), Accepted(c))
       THEN Recorded(AttemptOf(c), Accepted(c)) /\ Go("settle", c, {}) /\ UNCHANGED node
       ELSE SettleRun(c, "blocked") /\ UNCHANGED outcome
    /\ UNCHANGED <<form, boardVars, laneVars, deaths>>

SavePassed ==
    /\ TurnIs("settle")
    /\ SettleRun(turn.run, "passed")
    /\ UNCHANGED <<form, boardVars, laneVars, outcome, deaths>>

TickDies ==
    /\ ~TurnIs("rest") /\ deaths < Falls
    /\ deaths' = deaths + 1
    /\ turn' = Resting
    /\ UNCHANGED <<form, node, boardVars, laneVars, outcome>>

CalibrationNext ==
    \/ \E r \in Runs : \/ AuthorCases(r) \/ AuthoredBefore(r) \/ MakeRepository(r)
                       \/ ReuseRepository(r) \/ StartScoring(r)
    \/ \E c \in Cases : \/ WriteTaskFile(c) \/ WriteCaseBrief(c) \/ DispatchCase(c)
                        \/ CaseUnready(c) \/ CaseEnds(c) \/ OperatorResolves(c)
                        \/ RecordCase(c)
    \/ SaveWait \/ CommitBase \/ BuildRefused \/ Build \/ RecordSingle
    \/ SavePassed \/ TickDies

CalibrationSpec == CalibrationInit /\ [][CalibrationNext]_calVars

-----------------------------------------------------------------------------
\* An attempt is recorded as accepted only if its own reply (or tree) was right
\* and its work completed, and a corpus run that passed waited for every case
\* and scored each one whose review passed: over ticks that die, half-written
\* corpora, attempts held and resolved around the scoring, and look-alike ids.
EvalsTrue ==
    /\ \A c \in Cases : \A i \in DOMAIN outcome[c] :
        outcome[c][i] => reply[c] = "right" /\ attempt[c] = "completed"
    /\ node = [r \in {CorpusRun} |-> "passed"] =>
        \A c \in Cases : /\ caseTask[c] \in SettledStates
                         /\ attempt[c] # "running"
                         /\ caseTask[c] = "passed" => outcome[c] # <<>>
=============================================================================
