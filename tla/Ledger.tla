------------------------------- MODULE Ledger -------------------------------
(***************************************************************************)
(* The admission ledger of inference-grid (src/inference_grid/ledger.py).   *)
(*                                                                         *)
(* The ledger is one SQL database.  Every operation runs in one BEGIN       *)
(* IMMEDIATE transaction that commits whole or rolls back, so each          *)
(* operation is one action here; a refusal (class Refused) is the action    *)
(* not being enabled.  record_external is the one operation made of two     *)
(* transactions and is two actions.                                        *)
(*                                                                         *)
(* Abstracted: times and quotas are naturals, a digest is the value it     *)
(* digests, a task specification is reduced to the fields the ledger reads, *)
(* and the event log is kept only where a later operation reads it back     *)
(* (the last outcome of an attempt, which is what scorecard() keeps).       *)
(***************************************************************************)
EXTENDS Integers, FiniteSets, Functions

CONSTANTS
  AttemptIds,   \* what uuid4() may return
  TaskIds,
  Accounts,     \* names: canonical accounts and aliases share one name space
  Windows,      \* quota windows a provider can report
  Specs,        \* valid task specifications
  Snapshots,    \* quota snapshots a collector may submit
  Estimates,    \* reservations a caller may ask for
  Receipts,     \* terminal receipts an adapter may print
  Reviewers,    \* model families that may review
  Categories,   \* outcome categories
  Deadlines,    \* cooldown deadlines a provider may announce
  MaxTime,      \* bound of the clock (model checking only)
  Skew,         \* seconds an observation may lie in the future
  NoTask, NoAccount, NoWorkspace, NoReceipt, NoSpec, NoSnapshot, NoOutcome

\* uuid4() has 122 random bits.
ASSUME AttemptsAssumption == IsFiniteSet(AttemptIds)

\* What the tasks table may hold: also the work an operator reports as run.
AllSpecs == Specs \cup {[s EXCEPT !.provenance = "operator"] : s \in Specs}

ASSUME ClockAssumption == MaxTime \in Nat /\ Skew \in Nat

ASSUME SentinelAssumption ==
  /\ NoTask \notin TaskIds
  /\ NoAccount \notin Accounts
  /\ NoSpec \notin AllSpecs
  /\ NoReceipt \notin Receipts
  /\ NoSnapshot \notin Snapshots

\* A specification names its model, its model family, its resolved workspace and the
\* digest of its input manifest; "provenance" tells operator-run work from the grid's.
ASSUME SpecAssumption ==
  \A s \in Specs :
    /\ s = [model |-> s.model, family |-> s.family, workspace |-> s.workspace,
            manifest |-> s.manifest, provenance |-> "grid"]
    /\ s.workspace # NoWorkspace

ASSUME SnapshotAssumption ==
  \A s \in Snapshots :
    /\ s.capacity \in Nat /\ s.expires \in Nat /\ DOMAIN s.windows \subseteq Windows
    /\ \A w \in DOMAIN s.windows : s.windows[w] \in Nat

ASSUME EstimateAssumption == \A e \in Estimates : \A w \in DOMAIN e : e[w] \in Nat

ASSUME DeadlineAssumption == Deadlines \subseteq Int

VARIABLES
  now,          \* time.time()
  accounts,     \* table accounts; capacity 0 stands for "no row"
  windows,      \* its column windows: the quota still to be spent
  observations, \* table observations; observed_at -1 stands for "no row"
  aliases,      \* table aliases
  cooldowns,    \* table cooldowns, endpoint "inference"; -1 stands for "no row"
  tasks,        \* table tasks
  attempts,     \* table attempts; state "absent" stands for "no row"
  outcomes,     \* last outcome_recorded event of each attempt
  unrecorded    \* record_external calls between their two transactions

quotaVars == <<accounts, windows, observations, aliases, cooldowns>>
outcomeVars == <<outcomes, unrecorded>>
vars == <<now, quotaVars, tasks, attempts, outcomeVars>>

ACTIVE == {"queued", "dispatching", "held"}
States == ACTIVE \cup {"completed", "accepted", "failed", "abandoned"}

NoRow == [task |-> NoTask, account |-> NoAccount, generation |-> 0,
          state |-> "absent", estimate |-> <<>>, workspace |-> NoWorkspace,
          receipt |-> NoReceipt, updated |-> 0]

Rows == {a \in AttemptIds : attempts[a].state # "absent"}
ActiveRows == {a \in AttemptIds : attempts[a].state \in ACTIVE}
ActiveOn(n) == {a \in ActiveRows : attempts[a].account = n}

\* estimate.get(window, 0)
Cost(a, w) == IF w \in DOMAIN attempts[a].estimate
              THEN attempts[a].estimate[w] ELSE 0
Total(S, w) == SumFunctionOnSet([a \in S |-> Cost(a, w)], S)

\* max(0, remaining - spent)
Debited(remaining, spent) == IF remaining > spent THEN remaining - spent ELSE 0

Init ==
  /\ now = 0
  /\ accounts = [n \in Accounts |->
                   [capacity |-> 0, generation |-> 0, expires |-> 0, models |-> {}]]
  /\ windows = [n \in Accounts |-> <<>>]
  /\ observations = [n \in Accounts |-> [observed_at |-> -1, snapshot |-> NoSnapshot]]
  /\ aliases = [n \in Accounts |-> NoAccount]
  /\ cooldowns = [n \in Accounts |-> -1]
  /\ tasks = [t \in TaskIds |-> NoSpec]
  /\ attempts = [a \in AttemptIds |-> NoRow]
  /\ outcomes = [a \in AttemptIds |-> NoOutcome]
  /\ unrecorded = {}

Tick ==
  /\ now < MaxTime
  /\ now' = now + 1
  /\ UNCHANGED <<quotaVars, tasks, attempts, outcomeVars>>
-----------------------------------------------------------------------------
(* Quota observations *)

\* Completions the observation cannot have seen: their debits survive it.
UnseenCompletions(n, observed) ==
  {a \in AttemptIds : /\ attempts[a].account = n
                      /\ attempts[a].state \in {"completed", "accepted"}
                      /\ attempts[a].updated > observed}

\* As if a new reading replaced the remaining quota outright.
ReadingAsIs(n, snapshot, observed) == snapshot.windows
Reconciled(n, snapshot, observed) ==
  [w \in DOMAIN snapshot.windows |->
     Debited(snapshot.windows[w], Total(UnseenCompletions(n, observed), w))]

\* As if only the account's own name had to be free.
OwnNameFree(n, names) == aliases[n] \in {n, NoAccount}
\* A name belongs to one account for ever.
NamesFree(n, names) == \A m \in names \cup {n} : aliases[m] \in {n, NoAccount}

ConfigureAccount(n, snapshot, observed, names) ==
  /\ snapshot.capacity >= 1 /\ snapshot.models # {} /\ DOMAIN snapshot.windows # {}
  /\ snapshot.expires > now
  /\ observed <= now + Skew /\ observed < snapshot.expires
  /\ observed >= observations[n].observed_at
  /\ observed = observations[n].observed_at => snapshot = observations[n].snapshot
  /\ NamesFree(n, names)
  /\ aliases' = [m \in Accounts |-> IF m \in names \cup {n} THEN n ELSE aliases[m]]
  /\ IF observed = observations[n].observed_at    \* a replay refreshes nothing
     THEN UNCHANGED <<accounts, windows, observations>>
     ELSE /\ accounts' = [accounts EXCEPT ![n] =
                            [capacity |-> snapshot.capacity, generation |-> @.generation,
                             expires |-> snapshot.expires, models |-> snapshot.models]]
          /\ windows' = [windows EXCEPT ![n] = Reconciled(n, snapshot, observed)]
          /\ observations' = [observations EXCEPT ![n] =
                                [observed_at |-> observed, snapshot |-> snapshot]]
  /\ UNCHANGED <<now, cooldowns, tasks, attempts, outcomeVars>>

\* As if the last announcement counted, not the longest.
DeferLast(alias, until) ==
  /\ aliases[alias] # NoAccount
  /\ cooldowns' = [cooldowns EXCEPT ![aliases[alias]] = until]
  /\ UNCHANGED <<now, accounts, windows, observations, aliases, tasks, attempts, outcomeVars>>
Defer(alias, until) ==
  /\ aliases[alias] # NoAccount
  /\ LET n == aliases[alias] IN
       cooldowns' = [cooldowns EXCEPT ![n] = IF until > @ THEN until ELSE @]
  /\ UNCHANGED <<now, accounts, windows, observations, aliases, tasks, attempts, outcomeVars>>

InferencePaused(n) == cooldowns[n] > now
-----------------------------------------------------------------------------
(* Tasks and admission *)

\* A task specification is immutable: a second submit is a no-op or a refusal.
Submit(t, spec) ==
  /\ tasks[t] = NoSpec
  /\ tasks' = [tasks EXCEPT ![t] = spec]
  /\ UNCHANGED <<now, quotaVars, attempts, outcomeVars>>

Fresh(n, t) == accounts[n].expires > now /\ tasks[t].model \in accounts[n].models

\* As if a finished attempt left its task free for a retry.
AttemptRunning(t) == \E a \in ActiveRows : attempts[a].task = t
Attempted(t) == \E a \in Rows : attempts[a].task = t
\* As if a hold gave the workspace back.
WorkspaceRunning(w) ==
  \E a \in ActiveRows : attempts[a].state # "held" /\ attempts[a].workspace = w
WorkspaceBusy(w) == \E a \in ActiveRows : attempts[a].workspace = w

\* The reservations of an account plus this one fit the remaining quota.
Affordable(n, estimate) ==
  /\ DOMAIN estimate = DOMAIN windows[n]
  /\ \A w \in DOMAIN estimate :
       Total(ActiveOn(n), w) + estimate[w] <= windows[n][w]

Admissible(t, n, estimate) ==
  /\ ~InferencePaused(n)
  /\ Fresh(n, t)
  /\ ~Attempted(t)
  /\ ~WorkspaceBusy(tasks[t].workspace)
  /\ Cardinality(ActiveOn(n)) < accounts[n].capacity
  /\ Affordable(n, estimate)

NextGeneration(n) == accounts[n].generation + 1

Claim(a, t, alias, estimate) ==
  /\ DOMAIN estimate # {} /\ \A w \in DOMAIN estimate : estimate[w] > 0
  /\ aliases[alias] # NoAccount /\ tasks[t] # NoSpec
  /\ attempts[a].state = "absent"
  /\ LET n == aliases[alias]
         gen == NextGeneration(n)
     IN /\ Admissible(t, n, estimate)
        /\ accounts' = [accounts EXCEPT ![n].generation = gen]
        /\ attempts' = [attempts EXCEPT ![a] =
                          [task |-> t, account |-> n, generation |-> gen,
                           state |-> "queued", estimate |-> estimate,
                           workspace |-> tasks[t].workspace,
                           receipt |-> NoReceipt, updated |-> now]]
  /\ UNCHANGED <<now, windows, observations, aliases, cooldowns, tasks, outcomeVars>>
-----------------------------------------------------------------------------
(* Dispatch *)

\* As if quota and slots were checked at the claim alone.
StillFresh(a) ==
  Fresh(attempts[a].account, attempts[a].task) /\ ~InferencePaused(attempts[a].account)

\* What start() checks again before it lets a queued attempt run.
StillAdmissible(a) ==
  LET n == attempts[a].account IN
  /\ Fresh(n, attempts[a].task)
  /\ \A w \in DOMAIN windows[n] : Total(ActiveOn(n), w) <= windows[n][w]
  /\ Cardinality(ActiveOn(n)) <= accounts[n].capacity
  /\ \A b \in ActiveOn(n) : DOMAIN attempts[b].estimate = DOMAIN windows[n]
  /\ ~InferencePaused(n)

\* As if a repeated delivery started the attempt again.
Restart(a, generation) ==
  /\ attempts[a].state \in {"queued", "dispatching"} /\ attempts[a].generation = generation
  /\ attempts' = [attempts EXCEPT ![a].state = "dispatching", ![a].updated = now]
  /\ UNCHANGED <<now, quotaVars, tasks, outcomeVars>>

\* A changed admission is held, never dispatched; its timestamp stays that of the claim.
Start(a, generation) ==
  /\ attempts[a].state = "queued" /\ attempts[a].generation = generation
  /\ attempts' = IF StillAdmissible(a)
                 THEN [attempts EXCEPT ![a].state = "dispatching", ![a].updated = now]
                 ELSE [attempts EXCEPT ![a].state = "held"]
  /\ UNCHANGED <<now, quotaVars, tasks, outcomeVars>>

\* As if the update did not compare the state.
HoldAny(a) ==
  /\ attempts[a].state \in States
  /\ attempts' = [attempts EXCEPT ![a].state = "held", ![a].updated = now]
  /\ UNCHANGED <<now, quotaVars, tasks, outcomeVars>>
Hold(a) ==
  /\ attempts[a].state = "dispatching"
  /\ attempts' = [attempts EXCEPT ![a].state = "held", ![a].updated = now]
  /\ UNCHANGED <<now, quotaVars, tasks, outcomeVars>>

\* validate_receipt: terminal, well formed, and for this task's model and inputs.
ValidReceipt(receipt, spec) ==
  /\ receipt.terminal /\ receipt.artifacts
  /\ receipt.model = spec.model /\ receipt.manifest = spec.manifest

\* The account's remaining quota once the attempt's reservation is spent.
Spend(a) ==
  windows' = [windows EXCEPT ![attempts[a].account] =
                [w \in DOMAIN @ |-> Debited(@[w], Cost(a, w))]]

Finish(a, generation, receipt) ==
  /\ attempts[a].state = "dispatching" /\ attempts[a].generation = generation
  /\ ValidReceipt(receipt, tasks[attempts[a].task])
  /\ attempts' = [attempts EXCEPT ![a].state = "completed", ![a].receipt = receipt,
                                  ![a].updated = now]
  /\ Spend(a)
  /\ UNCHANGED <<now, accounts, observations, aliases, cooldowns, tasks, outcomeVars>>
-----------------------------------------------------------------------------
(* The operator: holds, acceptance, outcomes, work run outside the grid *)

\* As if the operator's word were stored as the state.
ResolveAs(a, outcome) ==
  /\ attempts[a].state = "held"
  /\ attempts' = [attempts EXCEPT ![a].state = outcome, ![a].updated = now]
  /\ IF outcome = "consumed" THEN Spend(a) ELSE UNCHANGED windows
  /\ UNCHANGED <<now, accounts, observations, aliases, cooldowns, tasks, outcomeVars>>
Resolve(a, outcome) ==
  /\ attempts[a].state = "held"
  /\ attempts' = [attempts EXCEPT ![a].state =
                    IF outcome = "released" THEN "abandoned" ELSE "failed",
                                  ![a].updated = now]
  /\ IF outcome = "consumed" THEN Spend(a) ELSE UNCHANGED windows
  /\ UNCHANGED <<now, accounts, observations, aliases, cooldowns, tasks, outcomeVars>>

Accept(a, receipt, reviewer) ==
  /\ attempts[a].state = "completed" /\ attempts[a].receipt = receipt
  /\ reviewer # tasks[attempts[a].task].family
  /\ attempts' = [attempts EXCEPT ![a].state = "accepted"]
  /\ UNCHANGED <<now, quotaVars, tasks, outcomeVars>>

\* As if any finished attempt could be credited.
OutcomeOfEnded(a, accepted) == attempts[a].state \in States \ ACTIVE
OutcomeAdmitted(a, accepted) ==
  /\ attempts[a].state \in States \ ACTIVE
  /\ accepted => attempts[a].state \in {"completed", "accepted"}

RecordOutcome(a, category, accepted) ==
  /\ OutcomeAdmitted(a, accepted)
  /\ outcomes' = [outcomes EXCEPT ![a] = [category |-> category, accepted |-> accepted]]
  /\ UNCHANGED <<now, quotaVars, tasks, attempts, unrecorded>>

\* First transaction of record_external: the attempt is born completed.
RecordExternal(a, t, n, spec, receipt, category, accepted) ==
  /\ category # "canary"
  /\ attempts[a].state = "absent"
  /\ accounts[n].capacity # 0 /\ tasks[t] = NoSpec
  /\ tasks' = [tasks EXCEPT ![t] = [spec EXCEPT !.provenance = "operator"]]
  /\ attempts' = [attempts EXCEPT ![a] =
                    [task |-> t, account |-> n, generation |-> accounts[n].generation,
                     state |-> "completed", estimate |-> <<>>,
                     workspace |-> spec.workspace, receipt |-> receipt, updated |-> now]]
  /\ unrecorded' = unrecorded \cup
       {[attempt |-> a, category |-> category, accepted |-> accepted]}
  /\ UNCHANGED <<now, quotaVars, outcomes>>

\* Its second transaction is record_outcome's.
RecordExternalOutcome(call) ==
  /\ call \in unrecorded
  /\ OutcomeAdmitted(call.attempt, call.accepted)
  /\ outcomes' = [outcomes EXCEPT ![call.attempt] =
                    [category |-> call.category, accepted |-> call.accepted]]
  /\ unrecorded' = unrecorded \ {call}
  /\ UNCHANGED <<now, quotaVars, tasks, attempts>>

\* The caller dies, or record_outcome refuses its usage, repairs or note.
ExternalOutcomeLost(call) ==
  /\ call \in unrecorded
  /\ unrecorded' = unrecorded \ {call}
  /\ UNCHANGED <<now, quotaVars, tasks, attempts, outcomes>>
-----------------------------------------------------------------------------
Generations == {attempts[a].generation : a \in AttemptIds}

Observe == \E n \in Accounts, s \in Snapshots, o \in 0..(now + Skew),
             names \in SUBSET Accounts : ConfigureAccount(n, s, o, names)
Cooldown == \E n \in Accounts, until \in Deadlines : Defer(n, until)
SubmitTask == \E t \in TaskIds, s \in Specs : Submit(t, s)
Admit == \E a \in AttemptIds, t \in TaskIds, n \in Accounts, e \in Estimates :
           Claim(a, t, n, e)
\* Any delivery, also one that carries the generation of another attempt.
Dispatch == \E a \in AttemptIds, g \in Generations : Start(a, g)
HoldAttempt == \E a \in AttemptIds : Hold(a)
Complete == \E a \in AttemptIds, g \in Generations, r \in Receipts : Finish(a, g, r)
ResolveHold == \E a \in AttemptIds, o \in {"released", "consumed"} : Resolve(a, o)
AcceptReviewed == \E a \in AttemptIds, r \in Receipts, f \in Reviewers : Accept(a, r, f)
Evaluate == \E a \in AttemptIds, c \in Categories, ok \in BOOLEAN : RecordOutcome(a, c, ok)
External == \E a \in AttemptIds, t \in TaskIds, n \in Accounts, s \in Specs,
               r \in Receipts, c \in Categories, ok \in BOOLEAN :
              RecordExternal(a, t, n, s, r, c, ok)
ExternalOutcome == \E call \in unrecorded : RecordExternalOutcome(call)
ExternalLost == \E call \in unrecorded : ExternalOutcomeLost(call)

Next == \/ Tick \/ Observe \/ Cooldown \/ SubmitTask \/ Admit \/ Dispatch
        \/ HoldAttempt \/ Complete \/ ResolveHold \/ AcceptReviewed \/ Evaluate
        \/ External \/ ExternalOutcome \/ ExternalLost

Spec == Init /\ [][Next]_vars
-----------------------------------------------------------------------------
(* Properties *)

AccountRow == [capacity : Nat, generation : Nat, expires : Nat,
               models : {{}} \cup {s.models : s \in Snapshots}]
AttemptRow == [task : TaskIds \cup {NoTask}, account : Accounts \cup {NoAccount},
               generation : Nat, state : States \cup {"absent"},
               estimate : Estimates \cup {<<>>},
               workspace : {s.workspace : s \in Specs} \cup {NoWorkspace},
               receipt : Receipts \cup {NoReceipt}, updated : Nat]

\* Type correctness of every table.
TypeOK ==
  /\ now \in Nat
  /\ accounts \in [Accounts -> AccountRow]
  /\ DOMAIN windows = Accounts /\ \A n \in Accounts : DOMAIN windows[n] \subseteq Windows
  /\ observations \in [Accounts -> [observed_at : Int, snapshot : Snapshots \cup {NoSnapshot}]]
  /\ aliases \in [Accounts -> Accounts \cup {NoAccount}]
  /\ cooldowns \in [Accounts -> Int]
  /\ tasks \in [TaskIds -> AllSpecs \cup {NoSpec}]
  /\ attempts \in [AttemptIds -> AttemptRow]
  /\ outcomes \in [AttemptIds -> [category : Categories, accepted : BOOLEAN]
                                 \cup {NoOutcome}]
  /\ unrecorded \subseteq [attempt : AttemptIds, category : Categories,
                           accepted : BOOLEAN]

\* claim() and record_external() never give one task two attempts, whatever the
\* outcome of the first: a retry is a new task.
OneAttemptPerTask ==
  \A a, b \in Rows : attempts[a].task = attempts[b].task => a = b

\* Two attempts that may still run (queued, dispatching or held) never share a
\* workspace, also when their specs and accounts differ.
WorkspaceExclusive ==
  \A a, b \in ActiveRows : attempts[a].workspace = attempts[b].workspace => a = b

\* claim() fences every admitted attempt of an account with a generation of its own,
\* so a delivery that carries another attempt's generation starts nothing.
Admitted(a) == a \in Rows /\ tasks[attempts[a].task].provenance = "grid"
GenerationFence ==
  \A a, b \in AttemptIds :
    (/\ Admitted(a) /\ Admitted(b) /\ attempts[a].account = attempts[b].account
     /\ attempts[a].generation = attempts[b].generation) => a = b

\* An alias always resolves to a configured account that is its own canonical name, and
\* a configured account is never swallowed by another one's aliases (its attempts would
\* be counted where no claim looks), in whatever order accounts and aliases arrive.
AliasesCanonical ==
  \A n \in Accounts :
    /\ aliases[n] # NoAccount => /\ aliases[aliases[n]] = aliases[n]
                                /\ accounts[aliases[n]].capacity >= 1
    /\ accounts[n].capacity >= 1 => aliases[n] = n

\* The completed work that the account's last observation cannot have counted.
Unseen(n) == UnseenCompletions(n, observations[n].observed_at)

\* "A delayed observation predating local completion cannot erase that debit": the
\* remaining quota never exceeds the last reading less every later completion.
NoErasedDebit ==
  \A n \in Accounts : observations[n].snapshot # NoSnapshot =>
    \A w \in DOMAIN windows[n] :
      windows[n][w] <=
        Debited(observations[n].snapshot.windows[w], Total(Unseen(n), w))

\* The same for holds resolved as consumed: their reservation "is debited as a completion
\* would be".
ConsumedUnseen(n) ==
  {a \in AttemptIds : /\ attempts[a].account = n /\ attempts[a].state = "failed"
                      /\ attempts[a].updated > observations[n].observed_at}
NoErasedResolution ==
  \A n \in Accounts : observations[n].snapshot # NoSnapshot =>
    \A w \in DOMAIN windows[n] :
      windows[n][w] <= Debited(observations[n].snapshot.windows[w],
                               Total(Unseen(n) \cup ConsumedUnseen(n), w))

Dispatches(a) == attempts[a].state # "dispatching" /\ attempts'[a].state = "dispatching"

\* When an attempt starts, everything reserved on its account plus everything completed
\* since the reading fits the provider's own last reading, and the slots fit too, although
\* readings, debits and resolutions came in between claim() and start().
DispatchWithinObservation ==
  [][\A a \in AttemptIds : Dispatches(a) =>
       LET n == attempts[a].account IN
       /\ Cardinality(ActiveOn(n)) <= observations[n].snapshot.capacity
       /\ \A w \in DOMAIN observations[n].snapshot.windows :
            Total(ActiveOn(n) \cup Unseen(n), w) <= observations[n].snapshot.windows[w]]_vars

\* start() never launches into a cooldown announced after the claim, and no later,
\* shorter announcement cuts a cooldown short.
CooldownHonoured ==
  [][/\ \A n \in Accounts : cooldowns'[n] >= cooldowns[n]
     /\ \A a \in AttemptIds : Dispatches(a) => cooldowns[attempts[a].account] <= now]_vars

\* scorecard() credits accepted work only to attempts that completed, although the
\* outcome is recorded apart from the attempt and may be recorded again later.
OutcomeSound ==
  \A a \in AttemptIds : outcomes[a] # NoOutcome =>
    /\ attempts[a].state \notin ACTIVE
    /\ outcomes[a].accepted => attempts[a].state \in {"completed", "accepted"}

\* The ledger implements the attempt lifecycle, reading the state and the task of each
\* row: nothing held runs or completes later, and no task is given away twice.
Lifecycle == INSTANCE AttemptLifecycle
  WITH state <- [a \in AttemptIds |-> attempts[a].state],
       owner <- [a \in AttemptIds |-> attempts[a].task]
ImplementsLifecycle == Lifecycle!LifecycleSpec
=============================================================================
