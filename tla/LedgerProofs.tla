---------------------------- MODULE LedgerProofs ----------------------------
(***************************************************************************)
(* Proofs about the admission ledger and about the worker processes, the    *)
(* scheduler and the sweep around it, for any sets of attempts, tasks,      *)
(* accounts, specifications, readings and workers.                          *)
(*                                                                         *)
(* Every operation does one of four things to the attempts table: nothing,  *)
(* advance one row (Advances), insert a queued row (Claim) or insert a      *)
(* completed one (RecordExternal).  The invariants are proved along that    *)
(* split.                                                                  *)
(*                                                                         *)
(* The promises about quota are about sums over sets of attempts, so they   *)
(* rest on lemmas about what the fold of the community modules computes.    *)
(* The library's theorems of induction take an operator as a parameter,     *)
(* which no installed prover can instantiate; an induction here is an       *)
(* argument by least counterexample (LeastNatural), which takes a set.      *)
(*                                                                         *)
(* Every step of the grid is a step of the ledger or leaves it alone, so    *)
(* whatever the ledger promises it also promises under workers that die,    *)
(* deliveries that repeat and sweeps that race them.  The rest follows from *)
(* who holds an attempt: start() hands it to at most one worker, and before *)
(* it does so no adapter of it was ever launched.                           *)
(***************************************************************************)
EXTENDS Worker, FiniteSetTheorems, WellFoundedInduction, TLAPS

-----------------------------------------------------------------------------
(* Type correctness *)

\* Any specification the tasks table may hold is a record with the fields of a task.
LEMMA SpecFields ==
  ASSUME NEW s \in AllSpecs
  PROVE  /\ s.workspace \in {t.workspace : t \in Specs}
         /\ s.provenance \in {"grid", "operator"}
         /\ [s EXCEPT !.provenance = "operator"].provenance = "operator"
<1>1. CASE s \in Specs
  BY <1>1, SpecAssumption
<1>2. CASE \E t \in Specs : s = [t EXCEPT !.provenance = "operator"]
  BY <1>2, SpecAssumption
<1> QED BY <1>1, <1>2 DEF AllSpecs

\* What UNCHANGED means for each table.
LEMMA Unchanged ==
  /\ UNCHANGED quotaVars =>
       /\ accounts' = accounts /\ windows' = windows /\ observations' = observations
       /\ aliases' = aliases /\ cooldowns' = cooldowns
  /\ UNCHANGED outcomeVars => outcomes' = outcomes /\ unrecorded' = unrecorded
  /\ UNCHANGED vars =>
       /\ now' = now /\ accounts' = accounts /\ windows' = windows
       /\ observations' = observations /\ aliases' = aliases /\ cooldowns' = cooldowns
       /\ tasks' = tasks /\ attempts' = attempts
       /\ outcomes' = outcomes /\ unrecorded' = unrecorded
BY DEF quotaVars, outcomeVars, vars

\* A row stays well typed when an operation changes its state, its time or its receipt.
LEMMA RowUpdates ==
  ASSUME NEW row \in AttemptRow, NEW s \in States \cup {"absent"}, NEW u \in Nat,
         NEW r \in Receipts \cup {NoReceipt}
  PROVE  /\ [row EXCEPT !.state = s] \in AttemptRow
         /\ [row EXCEPT !.state = s, !.updated = u] \in AttemptRow
         /\ [row EXCEPT !.state = s, !.receipt = r, !.updated = u] \in AttemptRow
BY DEF AttemptRow

\* The tables start empty and well typed.
LEMMA InitTypeOK == Init => TypeOK
<1> SUFFICES ASSUME Init PROVE TypeOK
  OBVIOUS
<1>1. attempts \in [AttemptIds -> AttemptRow]
  BY DEF Init, NoRow, AttemptRow
<1>2. accounts \in [Accounts -> AccountRow]
  BY DEF Init, AccountRow
<1> QED BY <1>1, <1>2 DEF Init, TypeOK

\* Every step keeps every table well typed.
LEMMA NextTypeOK == TypeOK /\ [Next]_vars => TypeOK'
<1> SUFFICES ASSUME TypeOK, [Next]_vars PROVE TypeOK'
  OBVIOUS
<1> USE Unchanged
<1>0. attempts \in [AttemptIds -> AttemptRow] /\ now \in Nat
  BY DEF TypeOK
<1>1. CASE Tick
  BY <1>1 DEF Tick, TypeOK
<1>2. ASSUME NEW n \in Accounts, NEW s \in Snapshots, NEW o \in 0..(now + Skew),
             NEW names \in SUBSET Accounts, ConfigureAccount(n, s, o, names)
      PROVE  TypeOK'
  <2>1. s.capacity \in Nat /\ s.expires \in Nat /\ DOMAIN s.windows \subseteq Windows
    BY SnapshotAssumption
  <2>2. [capacity |-> s.capacity, generation |-> accounts[n].generation,
         expires |-> s.expires, models |-> s.models] \in AccountRow
    BY <2>1 DEF TypeOK, AccountRow
  <2>3. accounts' \in [Accounts -> AccountRow]
    BY <1>2, <2>2 DEF ConfigureAccount, TypeOK
  <2>4. DOMAIN Reconciled(n, s, o) \subseteq Windows
    BY <2>1 DEF Reconciled
  <2>5. DOMAIN windows' = Accounts /\ \A m \in Accounts : DOMAIN windows'[m] \subseteq Windows
    BY <1>2, <2>4 DEF ConfigureAccount, TypeOK
  <2>6. o \in Int
    BY ClockAssumption DEF TypeOK
  <2>7. observations' \in [Accounts -> [observed_at : Int,
                                        snapshot : Snapshots \cup {NoSnapshot}]]
    BY <1>2, <2>6 DEF ConfigureAccount, TypeOK
  <2>8. aliases' \in [Accounts -> Accounts \cup {NoAccount}]
    BY <1>2 DEF ConfigureAccount, TypeOK
  <2> QED BY <1>2, <2>3, <2>5, <2>7, <2>8 DEF ConfigureAccount, TypeOK
<1>3. ASSUME NEW n \in Accounts, NEW until \in Deadlines, Defer(n, until)
      PROVE  TypeOK'
  BY <1>3, DeadlineAssumption DEF Defer, TypeOK
<1>4. ASSUME NEW t \in TaskIds, NEW s \in Specs, Submit(t, s)
      PROVE  TypeOK'
  BY <1>4 DEF Submit, TypeOK, AllSpecs
<1>5. ASSUME NEW a \in AttemptIds, NEW t \in TaskIds, NEW alias \in Accounts,
             NEW e \in Estimates, Claim(a, t, alias, e)
      PROVE  TypeOK'
  <2> DEFINE n == aliases[alias]
             gen == accounts[n].generation + 1
  <2>1. n \in Accounts /\ accounts[n] \in AccountRow /\ tasks[t] \in AllSpecs
    BY <1>5 DEF Claim, TypeOK
  <2>2. gen \in Nat
    BY <2>1 DEF AccountRow
  <2>3. tasks[t].workspace \in {s.workspace : s \in Specs}
    BY <2>1, SpecFields
  <2>4. accounts' = [accounts EXCEPT ![n].generation = gen]
    BY <1>5 DEF Claim, NextGeneration
  <2>5. [accounts[n] EXCEPT !.generation = gen] \in AccountRow
    BY <2>1, <2>2 DEF AccountRow
  <2>6. accounts' \in [Accounts -> AccountRow]
    BY <2>4, <2>5 DEF TypeOK
  <2>7. [task |-> t, account |-> n, generation |-> gen, state |-> "queued",
         estimate |-> e, workspace |-> tasks[t].workspace,
         receipt |-> NoReceipt, updated |-> now] \in AttemptRow
    BY <1>0, <2>1, <2>2, <2>3 DEF AttemptRow, States, ACTIVE
  <2>8. attempts' \in [AttemptIds -> AttemptRow]
    BY <1>5, <1>0, <2>7 DEF Claim, NextGeneration
  <2> QED BY <1>5, <2>6, <2>8 DEF Claim, TypeOK
<1>6. ASSUME NEW a \in AttemptIds, NEW g \in Generations, Start(a, g)
      PROVE  TypeOK'
  <2>1. "dispatching" \in States \cup {"absent"} /\ "held" \in States \cup {"absent"}
    BY DEF States, ACTIVE
  <2>2. attempts' \in [AttemptIds -> AttemptRow]
    <3>1. CASE StillAdmissible(a)
      <4>1. attempts' = [attempts EXCEPT ![a] =
                           [attempts[a] EXCEPT !.state = "dispatching", !.updated = now]]
        BY <1>6, <1>0, <3>1 DEF Start
      <4> QED BY <4>1, <1>0, <2>1, RowUpdates
    <3>2. CASE ~StillAdmissible(a)
      <4>1. attempts' = [attempts EXCEPT ![a] = [attempts[a] EXCEPT !.state = "held"]]
        BY <1>6, <1>0, <3>2 DEF Start
      <4> QED BY <4>1, <1>0, <2>1, RowUpdates
    <3> QED BY <3>1, <3>2
  <2> QED BY <1>6, <2>2 DEF Start, TypeOK
<1>7. ASSUME NEW a \in AttemptIds, Hold(a)
      PROVE  TypeOK'
  <2>1. "held" \in States \cup {"absent"}
    BY DEF States, ACTIVE
  <2>2. attempts' = [attempts EXCEPT ![a] =
                       [attempts[a] EXCEPT !.state = "held", !.updated = now]]
    BY <1>7, <1>0 DEF Hold
  <2>3. attempts' \in [AttemptIds -> AttemptRow]
    BY <2>1, <2>2, <1>0, RowUpdates
  <2> QED BY <1>7, <2>3 DEF Hold, TypeOK
<1>8. ASSUME NEW a \in AttemptIds, Spend(a)
      PROVE  DOMAIN windows' = Accounts /\ \A m \in Accounts : DOMAIN windows'[m] \subseteq Windows
  BY <1>8 DEF Spend, TypeOK
<1>9. ASSUME NEW a \in AttemptIds, NEW g \in Generations, NEW r \in Receipts, Finish(a, g, r)
      PROVE  TypeOK'
  <2>1. "completed" \in States \cup {"absent"}
    BY DEF States
  <2>2. attempts' = [attempts EXCEPT ![a] =
          [attempts[a] EXCEPT !.state = "completed", !.receipt = r, !.updated = now]]
    BY <1>9, <1>0 DEF Finish
  <2>3. attempts' \in [AttemptIds -> AttemptRow]
    BY <2>1, <2>2, <1>0, RowUpdates
  <2>4. DOMAIN windows' = Accounts /\ \A m \in Accounts : DOMAIN windows'[m] \subseteq Windows
    BY <1>8, <1>9 DEF Finish
  <2> QED BY <1>9, <2>3, <2>4 DEF Finish, TypeOK
<1>10. ASSUME NEW a \in AttemptIds, NEW o \in {"released", "consumed"}, Resolve(a, o)
       PROVE  TypeOK'
  <2> DEFINE s == IF o = "released" THEN "abandoned" ELSE "failed"
  <2>1. s \in States \cup {"absent"}
    BY DEF States
  <2>2. attempts' = [attempts EXCEPT ![a] = [attempts[a] EXCEPT !.state = s, !.updated = now]]
    BY <1>10, <1>0 DEF Resolve
  <2>3. attempts' \in [AttemptIds -> AttemptRow]
    <3> HIDE DEF s
    <3> QED BY <2>1, <2>2, <1>0, RowUpdates
  <2>4. DOMAIN windows' = Accounts /\ \A m \in Accounts : DOMAIN windows'[m] \subseteq Windows
    BY <1>8, <1>10 DEF Resolve, TypeOK
  <2> QED BY <1>10, <2>3, <2>4 DEF Resolve, TypeOK
<1>11. ASSUME NEW a \in AttemptIds, NEW r \in Receipts, NEW f \in Reviewers, Accept(a, r, f)
       PROVE  TypeOK'
  <2>1. "accepted" \in States \cup {"absent"}
    BY DEF States
  <2>2. attempts' = [attempts EXCEPT ![a] = [attempts[a] EXCEPT !.state = "accepted"]]
    BY <1>11, <1>0 DEF Accept
  <2>3. attempts' \in [AttemptIds -> AttemptRow]
    BY <2>1, <2>2, <1>0, RowUpdates
  <2> QED BY <1>11, <2>3 DEF Accept, TypeOK
<1>12. ASSUME NEW a \in AttemptIds, NEW c \in Categories, NEW ok \in BOOLEAN,
              RecordOutcome(a, c, ok)
       PROVE  TypeOK'
  BY <1>12 DEF RecordOutcome, TypeOK
<1>13. ASSUME NEW a \in AttemptIds, NEW t \in TaskIds, NEW n \in Accounts, NEW s \in Specs,
              NEW r \in Receipts, NEW c \in Categories, NEW ok \in BOOLEAN,
              RecordExternal(a, t, n, s, r, c, ok)
       PROVE  TypeOK'
  <2>1. accounts[n].generation \in Nat
    BY DEF TypeOK, AccountRow
  <2>2. [task |-> t, account |-> n, generation |-> accounts[n].generation,
         state |-> "completed", estimate |-> <<>>, workspace |-> s.workspace,
         receipt |-> r, updated |-> now] \in AttemptRow
    BY <1>0, <2>1 DEF AttemptRow, States
  <2>3. attempts' \in [AttemptIds -> AttemptRow]
    BY <1>13, <1>0, <2>2 DEF RecordExternal
  <2>4. [s EXCEPT !.provenance = "operator"] \in AllSpecs
    BY DEF AllSpecs
  <2>5. tasks' \in [TaskIds -> AllSpecs \cup {NoSpec}]
    BY <1>13, <2>4 DEF RecordExternal, TypeOK
  <2>6. unrecorded' \subseteq [attempt : AttemptIds, category : Categories, accepted : BOOLEAN]
    BY <1>13 DEF RecordExternal, TypeOK
  <2> QED BY <1>13, <2>3, <2>5, <2>6 DEF RecordExternal, TypeOK
<1>14. ASSUME NEW call \in unrecorded, RecordExternalOutcome(call)
       PROVE  TypeOK'
  BY <1>14 DEF RecordExternalOutcome, TypeOK
<1>15. ASSUME NEW call \in unrecorded, ExternalOutcomeLost(call)
       PROVE  TypeOK'
  BY <1>15 DEF ExternalOutcomeLost, TypeOK
<1>16. CASE UNCHANGED vars
  BY <1>16 DEF TypeOK
<1> QED
  BY <1>1, <1>2, <1>3, <1>4, <1>5, <1>6, <1>7, <1>9, <1>10, <1>11, <1>12, <1>13, <1>14,
     <1>15, <1>16
  DEF Next, Observe, Cooldown, SubmitTask, Admit, Dispatch, HoldAttempt, Complete,
      ResolveHold, AcceptReviewed, Evaluate, External, ExternalOutcome, ExternalLost

\* Type correctness of every table, whatever operations run in whatever order.
THEOREM TypeCorrect == Spec => []TypeOK
BY InitTypeOK, NextTypeOK, PTL DEF Spec
-----------------------------------------------------------------------------
(* The inductive invariant *)

\* A row names a task that has a specification and an account; the table accounts counts
\* the generations it gave out.
RowsGrounded ==
  \A a \in Rows :
    /\ attempts[a].task \in TaskIds /\ tasks[attempts[a].task] # NoSpec
    /\ attempts[a].account \in Accounts
    /\ attempts[a].generation <= accounts[attempts[a].account].generation

\* An attempt that was never admitted names no task.
EmptyRows == \A a \in AttemptIds : attempts[a].state = "absent" => attempts[a].task = NoTask

\* Only attempts that are over have an outcome.
OutcomeRows ==
  \A a \in AttemptIds : outcomes[a] # NoOutcome =>
    /\ attempts[a].state \in States \ ACTIVE
    /\ outcomes[a].accepted => attempts[a].state \in {"completed", "accepted"}

\* An account that was ever observed is configured.
ObservedConfigured ==
  \A n \in Accounts : observations[n].observed_at >= 0 => accounts[n].capacity >= 1

RowsInv ==
  /\ RowsGrounded
  /\ EmptyRows
  /\ OneAttemptPerTask
  /\ WorkspaceExclusive
  /\ GenerationFence

LedgerInv ==
  /\ TypeOK
  /\ RowsInv
  /\ OutcomeRows
  /\ ObservedConfigured
  /\ AliasesCanonical

LEMMA InitLedgerInv == Init => LedgerInv
<1> SUFFICES ASSUME Init PROVE LedgerInv
  OBVIOUS
<1>1. Rows = {} /\ ActiveRows = {}
  BY DEF Init, NoRow, Rows, ActiveRows, ACTIVE
<1>2. RowsGrounded /\ OneAttemptPerTask /\ WorkspaceExclusive /\ GenerationFence
  BY <1>1 DEF RowsGrounded, OneAttemptPerTask, WorkspaceExclusive, GenerationFence, Admitted
<1>3. EmptyRows /\ OutcomeRows /\ ObservedConfigured /\ AliasesCanonical
  BY DEF Init, NoRow, EmptyRows, OutcomeRows, ObservedConfigured, AliasesCanonical
<1> QED BY <1>2, <1>3, InitTypeOK DEF LedgerInv, RowsInv
-----------------------------------------------------------------------------
(* What each operation does to the attempts table *)

\* One row moves on; what it was admitted as stays, and nothing comes back to life.
Advances(a) ==
  /\ a \in Rows
  /\ \A b \in AttemptIds :
       /\ attempts'[b].task = attempts[b].task
       /\ attempts'[b].account = attempts[b].account
       /\ attempts'[b].generation = attempts[b].generation
       /\ attempts'[b].workspace = attempts[b].workspace
       /\ b # a => attempts'[b].state = attempts[b].state
  /\ attempts'[a].state \in States
  /\ attempts'[a].state \in ACTIVE => attempts[a].state \in ACTIVE
  /\ attempts[a].state \in {"completed", "accepted"} => attempts'[a].state = "accepted"
  /\ attempts[a].state \in States \ ACTIVE => attempts[a].state = "completed"

\* Everything but the attempts table, the windows and the clock.
Others == UNCHANGED <<accounts, observations, aliases, cooldowns, tasks, outcomeVars>>

LEMMA StartAdvances ==
  ASSUME TypeOK, NEW a \in AttemptIds, NEW g, Start(a, g)
  PROVE  Advances(a) /\ Others
<1>1. attempts \in [AttemptIds -> AttemptRow]
  BY DEF TypeOK
<1>2. \/ attempts' = [attempts EXCEPT ![a].state = "dispatching", ![a].updated = now]
      \/ attempts' = [attempts EXCEPT ![a].state = "held"]
  BY DEF Start
<1>3. attempts[a].state = "queued"
  BY DEF Start
<1>4. Advances(a)
  BY <1>1, <1>2, <1>3 DEF Advances, Rows, States, ACTIVE, AttemptRow
<1> QED BY <1>4, Unchanged DEF Start, Others

LEMMA HoldAdvances ==
  ASSUME TypeOK, NEW a \in AttemptIds, Hold(a)
  PROVE  Advances(a) /\ Others
<1>1. attempts \in [AttemptIds -> AttemptRow]
  BY DEF TypeOK
<1>2. Advances(a)
  BY <1>1 DEF Hold, Advances, Rows, States, ACTIVE, AttemptRow
<1> QED BY <1>2, Unchanged DEF Hold, Others

LEMMA FinishAdvances ==
  ASSUME TypeOK, NEW a \in AttemptIds, NEW g, NEW r, Finish(a, g, r)
  PROVE  Advances(a) /\ Others
<1>1. attempts \in [AttemptIds -> AttemptRow]
  BY DEF TypeOK
<1>2. Advances(a)
  BY <1>1 DEF Finish, Advances, Rows, States, ACTIVE, AttemptRow
<1> QED BY <1>2 DEF Finish, Others

LEMMA ResolveAdvances ==
  ASSUME TypeOK, NEW a \in AttemptIds, NEW o, Resolve(a, o)
  PROVE  Advances(a) /\ Others
<1>1. attempts \in [AttemptIds -> AttemptRow]
  BY DEF TypeOK
<1>2. Advances(a)
  BY <1>1 DEF Resolve, Advances, Rows, States, ACTIVE, AttemptRow
<1> QED BY <1>2 DEF Resolve, Others

LEMMA AcceptAdvances ==
  ASSUME TypeOK, NEW a \in AttemptIds, NEW r, NEW f, Accept(a, r, f)
  PROVE  Advances(a) /\ Others
<1>1. attempts \in [AttemptIds -> AttemptRow]
  BY DEF TypeOK
<1>2. Advances(a)
  BY <1>1 DEF Accept, Advances, Rows, States, ACTIVE, AttemptRow
<1> QED BY <1>2, Unchanged DEF Accept, Others

\* Advancing a row keeps every conjunct of the invariant but type correctness.
LEMMA AdvanceKeepsInv ==
  ASSUME LedgerInv, NEW a \in AttemptIds, Advances(a), Others
  PROVE  /\ RowsInv' /\ OutcomeRows' /\ ObservedConfigured' /\ AliasesCanonical'
<1> USE Unchanged
<1>1. Rows' = Rows
  BY DEF Advances, Rows, States, ACTIVE
<1>2. ActiveRows' \subseteq ActiveRows
  BY DEF Advances, ActiveRows
<1>3. RowsGrounded'
  BY <1>1 DEF LedgerInv, RowsInv, RowsGrounded, Advances, Others, Rows
<1>4. OneAttemptPerTask'
  BY <1>1 DEF LedgerInv, RowsInv, OneAttemptPerTask, Advances, Rows
<1>5. WorkspaceExclusive'
  BY <1>2 DEF LedgerInv, RowsInv, WorkspaceExclusive, Advances, ActiveRows
<1>6. \A b \in AttemptIds : Admitted(b)' <=> Admitted(b)
  BY <1>1 DEF Admitted, Advances, Others, Rows
<1>7. GenerationFence'
  BY <1>6 DEF LedgerInv, RowsInv, GenerationFence, Advances
<1>8. OutcomeRows'
  BY DEF LedgerInv, OutcomeRows, Advances, Others
<1>9. ObservedConfigured' /\ AliasesCanonical'
  BY DEF LedgerInv, ObservedConfigured, AliasesCanonical, Others
<1>10. EmptyRows'
  BY DEF LedgerInv, RowsInv, EmptyRows, Advances, States, ACTIVE
<1> QED BY <1>3, <1>4, <1>5, <1>7, <1>8, <1>9, <1>10 DEF RowsInv
-----------------------------------------------------------------------------
(* Inserting a row *)

\* A row that names a task no other row has, in a workspace no running attempt has, with
\* a generation above those of its account, keeps the four invariants of the table.
LEMMA InsertKeepsRows ==
  ASSUME LedgerInv, NEW a \in AttemptIds, attempts[a].state = "absent",
         attempts' = [attempts EXCEPT ![a] = attempts'[a]],
         attempts'[a].state \in States,
         attempts'[a].task \in TaskIds, ~Attempted(attempts'[a].task),
         attempts'[a].account \in Accounts,
         tasks'[attempts'[a].task] # NoSpec,
         \A t \in TaskIds : t # attempts'[a].task => tasks'[t] = tasks[t],
         \A n \in Accounts : accounts'[n].generation >= accounts[n].generation,
         \A n \in Accounts : accounts'[n].generation \in Nat,
         attempts'[a].generation \in Nat,
         attempts'[a].generation <= accounts'[attempts'[a].account].generation,
         attempts'[a].state \in ACTIVE => ~WorkspaceBusy(attempts'[a].workspace),
         tasks'[attempts'[a].task].provenance = "grid" =>
           attempts'[a].generation > accounts[attempts'[a].account].generation
  PROVE  RowsInv'
<1>0. /\ attempts \in [AttemptIds -> AttemptRow]
      /\ \A n \in Accounts : accounts[n].generation \in Nat
      /\ \A b \in AttemptIds : attempts[b].generation \in Nat
  BY DEF LedgerInv, TypeOK, AccountRow, AttemptRow
<1>1. \A b \in AttemptIds : b # a => attempts'[b] = attempts[b]
  BY <1>0
<1>2. Rows' = Rows \cup {a} /\ a \notin Rows
  BY <1>1 DEF Rows, States, ACTIVE
<1>3. \A b \in Rows : attempts[b].task # attempts'[a].task
  BY DEF Attempted
<1>4. \A b \in Rows : tasks'[attempts[b].task] = tasks[attempts[b].task]
  BY <1>3 DEF LedgerInv, RowsInv, RowsGrounded
<1>5. RowsGrounded'
  <2> SUFFICES ASSUME NEW b \in Rows'
               PROVE  /\ attempts'[b].task \in TaskIds /\ tasks'[attempts'[b].task] # NoSpec
                      /\ attempts'[b].account \in Accounts
                      /\ attempts'[b].generation <= accounts'[attempts'[b].account].generation
    BY DEF RowsGrounded
  <2>1. CASE b = a
    BY <2>1
  <2>2. CASE b # a
    <3>1. b \in Rows /\ b \in AttemptIds /\ attempts'[b] = attempts[b]
      BY <1>1, <1>2, <2>2 DEF Rows
    <3>2. /\ attempts[b].task \in TaskIds /\ tasks[attempts[b].task] # NoSpec
          /\ attempts[b].account \in Accounts
          /\ attempts[b].generation <= accounts[attempts[b].account].generation
      BY <3>1 DEF LedgerInv, RowsInv, RowsGrounded
    <3> QED BY <3>1, <3>2, <1>0, <1>4
  <2> QED BY <2>1, <2>2
<1>6. OneAttemptPerTask'
  BY <1>1, <1>2, <1>3 DEF LedgerInv, RowsInv, OneAttemptPerTask, Rows
<1>7. WorkspaceExclusive'
  BY <1>1 DEF LedgerInv, RowsInv, WorkspaceExclusive, ActiveRows, WorkspaceBusy
<1>8. GenerationFence'
  <2>1. \A b \in AttemptIds : b # a => (Admitted(b)' <=> Admitted(b))
    BY <1>1, <1>2, <1>4 DEF Admitted, Rows
  <2>2. \A b \in AttemptIds : b # a /\ Admitted(b)' /\ Admitted(a)' =>
          attempts[b].account # attempts'[a].account
          \/ attempts[b].generation # attempts'[a].generation
    <3> SUFFICES ASSUME NEW b \in AttemptIds, b # a, Admitted(b)', Admitted(a)',
                        attempts[b].account = attempts'[a].account
                 PROVE  attempts[b].generation # attempts'[a].generation
      OBVIOUS
    <3>1. attempts[b].generation <= accounts[attempts'[a].account].generation
      BY <2>1 DEF LedgerInv, RowsInv, RowsGrounded, Admitted
    <3>2. attempts'[a].generation > accounts[attempts'[a].account].generation
      BY DEF Admitted
    <3> QED BY <3>1, <3>2, <1>0
  <2> QED BY <1>1, <2>1, <2>2 DEF LedgerInv, RowsInv, GenerationFence
<1>9. EmptyRows'
  BY <1>1 DEF LedgerInv, RowsInv, EmptyRows, States, ACTIVE
<1> QED BY <1>5, <1>6, <1>7, <1>8, <1>9 DEF RowsInv

LEMMA ClaimKeepsInv ==
  ASSUME LedgerInv, NEW a \in AttemptIds, NEW t \in TaskIds, NEW alias \in Accounts,
         NEW e \in Estimates, Claim(a, t, alias, e), TypeOK'
  PROVE  LedgerInv'
<1> USE Unchanged
<1> DEFINE n == aliases[alias]
           gen == accounts[n].generation + 1
           row == [task |-> t, account |-> n, generation |-> gen, state |-> "queued",
                   estimate |-> e, workspace |-> tasks[t].workspace,
                   receipt |-> NoReceipt, updated |-> now]
<1>1. /\ n \in Accounts
      /\ attempts \in [AttemptIds -> AttemptRow]
      /\ accounts \in [Accounts -> AccountRow]
      /\ \A m \in Accounts : accounts[m].generation \in Nat
  BY DEF Claim, LedgerInv, TypeOK, AccountRow
<1>2. attempts' = [attempts EXCEPT ![a] = row] /\ attempts'[a] = row
  BY <1>1 DEF Claim, NextGeneration
<1>3. /\ accounts' = [accounts EXCEPT ![n].generation = gen]
      /\ tasks' = tasks /\ tasks[t] # NoSpec /\ attempts[a].state = "absent"
      /\ Admissible(t, n, e)
  BY DEF Claim, NextGeneration
<1>4. \A m \in Accounts : /\ accounts'[m].generation =
                               IF m = n THEN gen ELSE accounts[m].generation
                          /\ accounts'[m].capacity = accounts[m].capacity
  BY <1>1, <1>3 DEF AccountRow
<1>5. ~Attempted(t) /\ ~WorkspaceBusy(tasks[t].workspace)
  BY <1>3 DEF Admissible
<1>6. RowsInv'
  <2>1. attempts' = [attempts EXCEPT ![a] = attempts'[a]]
    BY <1>2
  <2>2. /\ attempts'[a].state = "queued" /\ attempts'[a].task = t
        /\ attempts'[a].account = n /\ attempts'[a].generation = gen
        /\ attempts'[a].workspace = tasks[t].workspace
    BY <1>2
  <2>3. gen \in Nat /\ gen > accounts[n].generation
    BY <1>1
  <2>4. "queued" \in States
    BY DEF States, ACTIVE
  <2> QED BY <1>1, <1>3, <1>4, <1>5, <2>1, <2>2, <2>3, <2>4, InsertKeepsRows
<1>7. OutcomeRows'
  BY <1>1, <1>2, <1>3 DEF Claim, LedgerInv, OutcomeRows, States, ACTIVE
<1>8. ObservedConfigured' /\ AliasesCanonical'
  <2>1. observations' = observations /\ aliases' = aliases
    BY DEF Claim
  <2>2. ObservedConfigured'
    BY <1>4, <2>1 DEF LedgerInv, ObservedConfigured
  <2>3. \A m \in Accounts : aliases[m] # NoAccount => aliases[m] \in Accounts
    BY DEF LedgerInv, TypeOK
  <2>4. AliasesCanonical'
    BY <1>4, <2>1, <2>3 DEF LedgerInv, AliasesCanonical
  <2> QED BY <2>2, <2>4
<1> QED BY <1>6, <1>7, <1>8 DEF LedgerInv

LEMMA RecordExternalKeepsInv ==
  ASSUME LedgerInv, NEW a \in AttemptIds, NEW t \in TaskIds, NEW n \in Accounts,
         NEW s \in Specs, NEW r \in Receipts, NEW c \in Categories, NEW ok \in BOOLEAN,
         RecordExternal(a, t, n, s, r, c, ok), TypeOK'
  PROVE  LedgerInv'
<1> USE Unchanged
<1> DEFINE row == [task |-> t, account |-> n, generation |-> accounts[n].generation,
                   state |-> "completed", estimate |-> <<>>, workspace |-> s.workspace,
                   receipt |-> r, updated |-> now]
           spec == [s EXCEPT !.provenance = "operator"]
<1>1. /\ attempts \in [AttemptIds -> AttemptRow]
      /\ tasks \in [TaskIds -> AllSpecs \cup {NoSpec}]
      /\ \A m \in Accounts : accounts[m].generation \in Nat
  BY DEF LedgerInv, TypeOK, AccountRow
<1>2. attempts' = [attempts EXCEPT ![a] = row] /\ attempts'[a] = row
  BY <1>1 DEF RecordExternal
<1>3. /\ tasks' = [tasks EXCEPT ![t] = spec] /\ tasks[t] = NoSpec
      /\ attempts[a].state = "absent"
  BY DEF RecordExternal
<1>4. spec.provenance = "operator" /\ spec # NoSpec
  BY SpecFields, SentinelAssumption DEF AllSpecs
<1>5. ~Attempted(t)
  BY <1>3 DEF LedgerInv, RowsInv, RowsGrounded, Attempted
<1>6. /\ accounts' = accounts /\ observations' = observations /\ aliases' = aliases
      /\ outcomes' = outcomes
  BY DEF RecordExternal
<1>7. RowsInv'
  <2>1. attempts' = [attempts EXCEPT ![a] = attempts'[a]]
    BY <1>2
  <2>2. /\ attempts'[a].state = "completed" /\ attempts'[a].task = t
        /\ attempts'[a].account = n /\ attempts'[a].generation = accounts[n].generation
    BY <1>2
  <2>3. /\ tasks'[t] = spec
        /\ \A u \in TaskIds : u # t => tasks'[u] = tasks[u]
    BY <1>1, <1>3
  <2>4. "completed" \in States /\ "completed" \notin ACTIVE
    BY DEF States, ACTIVE
  <2> HIDE DEF spec
  <2>5. tasks'[t] # NoSpec /\ tasks'[t].provenance # "grid"
    BY <1>4, <2>3
  <2> QED BY <1>1, <1>3, <1>5, <1>6, <2>1, <2>2, <2>3, <2>4, <2>5, InsertKeepsRows
<1>8. OutcomeRows'
  BY <1>1, <1>2, <1>3, <1>6 DEF LedgerInv, OutcomeRows, States, ACTIVE
<1>9. ObservedConfigured' /\ AliasesCanonical'
  BY <1>6 DEF LedgerInv, ObservedConfigured, AliasesCanonical
<1> QED BY <1>7, <1>8, <1>9 DEF LedgerInv
-----------------------------------------------------------------------------
(* The other operations *)

\* What the attempts invariants say is about attempts, tasks and generations only.
LEMMA SameRowsKeepInv ==
  ASSUME LedgerInv, attempts' = attempts,
         \A a \in Rows : tasks'[attempts[a].task] = tasks[attempts[a].task],
         \A n \in Accounts : accounts'[n].generation = accounts[n].generation
  PROVE  RowsInv'
<1>1. Rows' = Rows /\ ActiveRows' = ActiveRows
  BY DEF Rows, ActiveRows
<1>2. \A a \in AttemptIds : Admitted(a)' <=> Admitted(a)
  BY <1>1 DEF Admitted
<1>3. RowsGrounded'
  BY <1>1 DEF LedgerInv, RowsInv, RowsGrounded, Rows
<1>4. OneAttemptPerTask' /\ WorkspaceExclusive'
  BY <1>1 DEF LedgerInv, RowsInv, OneAttemptPerTask, WorkspaceExclusive
<1>5. GenerationFence'
  BY <1>2 DEF LedgerInv, RowsInv, GenerationFence
<1>6. EmptyRows'
  BY DEF LedgerInv, RowsInv, EmptyRows
<1> QED BY <1>3, <1>4, <1>5, <1>6 DEF RowsInv

LEMMA ConfigureKeepsInv ==
  ASSUME LedgerInv, NEW n \in Accounts, NEW s \in Snapshots, NEW o \in 0..(now + Skew),
         NEW names \in SUBSET Accounts, ConfigureAccount(n, s, o, names), TypeOK'
  PROVE  LedgerInv'
<1> USE Unchanged
<1>1. /\ accounts \in [Accounts -> AccountRow]
      /\ observations \in [Accounts -> [observed_at : Int, snapshot : Snapshots \cup {NoSnapshot}]]
      /\ aliases \in [Accounts -> Accounts \cup {NoAccount}]
      /\ now \in Nat /\ Skew \in Nat /\ NoAccount \notin Accounts
  BY ClockAssumption, SentinelAssumption DEF LedgerInv, TypeOK
<1>2. o \in Nat
  BY <1>1
<1>3. attempts' = attempts /\ tasks' = tasks /\ outcomes' = outcomes
  BY DEF ConfigureAccount
<1>4. \A m \in Accounts : accounts'[m].generation = accounts[m].generation
  BY <1>1 DEF ConfigureAccount
<1>5. \A m \in Accounts : m # n => /\ accounts'[m] = accounts[m]
                                   /\ observations'[m] = observations[m]
  BY <1>1 DEF ConfigureAccount
<1>6. accounts'[n].capacity >= 1
  BY <1>1, <1>2 DEF ConfigureAccount, NamesFree, LedgerInv, ObservedConfigured, AccountRow
<1>7. ObservedConfigured'
  BY <1>5, <1>6 DEF LedgerInv, ObservedConfigured
<1>8. AliasesCanonical'
  <2>1. aliases' = [m \in Accounts |-> IF m \in names \cup {n} THEN n ELSE aliases[m]]
    BY DEF ConfigureAccount
  <2>2. \A m \in names \cup {n} : aliases[m] \in {n, NoAccount}
    BY DEF ConfigureAccount, NamesFree
  <2>3. ASSUME NEW m \in Accounts, aliases'[m] # NoAccount
        PROVE  /\ aliases'[aliases'[m]] = aliases'[m]
               /\ accounts'[aliases'[m]].capacity >= 1
    <3>1. CASE m \in names \cup {n}
      BY <2>1, <3>1, <1>6
    <3>2. CASE m \notin names \cup {n}
      <4> DEFINE k == aliases[m]
      <4>1. aliases'[m] = k /\ k \in Accounts /\ aliases[k] = k /\ accounts[k].capacity >= 1
        BY <1>1, <2>1, <2>3, <3>2 DEF LedgerInv, AliasesCanonical
      <4>2. k \in names \cup {n} => k = n
        BY <2>2, <4>1, <1>1
      <4>3. aliases'[k] = k
        BY <2>1, <4>1, <4>2
      <4> QED BY <4>1, <4>3, <1>5, <1>6
    <3> QED BY <3>1, <3>2
  <2>4. ASSUME NEW m \in Accounts, accounts'[m].capacity >= 1
        PROVE  aliases'[m] = m
    <3>1. CASE m = n
      BY <2>1, <3>1
    <3>2. CASE m # n
      <4>1. aliases[m] = m
        BY <2>4, <3>2, <1>5 DEF LedgerInv, AliasesCanonical
      <4>2. m \notin names \cup {n}
        BY <4>1, <2>2, <3>2, <1>1
      <4> QED BY <2>1, <4>1, <4>2
    <3> QED BY <3>1, <3>2
  <2> QED BY <2>3, <2>4 DEF AliasesCanonical
<1>9. OutcomeRows'
  BY <1>3 DEF LedgerInv, OutcomeRows
<1>10. RowsInv'
  BY <1>3, <1>4, SameRowsKeepInv
<1> QED BY <1>7, <1>8, <1>9, <1>10 DEF LedgerInv

\* A submitted task has no row yet, so no row's specification changes.
LEMMA SubmitKeepsInv ==
  ASSUME LedgerInv, NEW t \in TaskIds, NEW s \in Specs, Submit(t, s), TypeOK'
  PROVE  LedgerInv'
<1> USE Unchanged
<1>1. \A a \in Rows : attempts[a].task # t
  BY DEF Submit, LedgerInv, RowsInv, RowsGrounded
<1>2. \A a \in Rows : tasks'[attempts[a].task] = tasks[attempts[a].task]
  BY <1>1 DEF Submit, LedgerInv, RowsInv, TypeOK, RowsGrounded
<1>3. /\ attempts' = attempts /\ accounts' = accounts /\ observations' = observations
      /\ aliases' = aliases /\ outcomes' = outcomes
  BY DEF Submit
<1>4. RowsInv'
  BY <1>2, <1>3, SameRowsKeepInv
<1>5. OutcomeRows' /\ ObservedConfigured' /\ AliasesCanonical'
  BY <1>3 DEF LedgerInv, OutcomeRows, ObservedConfigured, AliasesCanonical
<1> QED BY <1>4, <1>5 DEF LedgerInv

\* Steps that leave attempts, tasks, accounts, observations and aliases alone.
LEMMA QuietKeepsInv ==
  ASSUME LedgerInv, attempts' = attempts, tasks' = tasks, accounts' = accounts,
         observations' = observations, aliases' = aliases, OutcomeRows', TypeOK'
  PROVE  LedgerInv'
<1>1. RowsInv'
  BY SameRowsKeepInv
<1>2. ObservedConfigured' /\ AliasesCanonical'
  BY DEF LedgerInv, ObservedConfigured, AliasesCanonical
<1> QED BY <1>1, <1>2 DEF LedgerInv

\* An outcome is recorded only for an attempt that is over.
LEMMA OutcomeRecorded ==
  ASSUME LedgerInv, attempts' = attempts, NEW a \in AttemptIds, NEW c, NEW ok \in BOOLEAN,
         OutcomeAdmitted(a, ok),
         outcomes' = [outcomes EXCEPT ![a] = [category |-> c, accepted |-> ok]]
  PROVE  OutcomeRows'
<1>1. outcomes \in [AttemptIds -> [category : Categories, accepted : BOOLEAN] \cup {NoOutcome}]
  BY DEF LedgerInv, TypeOK
<1>2. \A b \in AttemptIds : b # a => outcomes'[b] = outcomes[b]
  BY <1>1
<1>3. outcomes'[a].accepted = ok
  BY <1>1
<1> QED BY <1>2, <1>3 DEF LedgerInv, OutcomeRows, OutcomeAdmitted
-----------------------------------------------------------------------------
(* The invariant holds *)

LEMMA NextLedgerInv == LedgerInv /\ [Next]_vars => LedgerInv'
<1> SUFFICES ASSUME LedgerInv, [Next]_vars PROVE LedgerInv'
  OBVIOUS
<1> USE Unchanged
<1>0. TypeOK /\ TypeOK' /\ OutcomeRows
  BY NextTypeOK DEF LedgerInv
<1>1. ASSUME attempts' = attempts, outcomes' = outcomes
      PROVE  OutcomeRows'
  BY <1>0, <1>1 DEF OutcomeRows
<1>2. ASSUME NEW a \in AttemptIds, Advances(a), Others
      PROVE  LedgerInv'
  BY <1>0, <1>2, AdvanceKeepsInv DEF LedgerInv
<1>3. CASE Tick
  BY <1>0, <1>1, <1>3, QuietKeepsInv DEF Tick
<1>4. CASE Observe
  BY <1>0, <1>4, ConfigureKeepsInv DEF Observe
<1>5. CASE Cooldown
  BY <1>0, <1>1, <1>5, QuietKeepsInv DEF Cooldown, Defer
<1>6. CASE SubmitTask
  BY <1>0, <1>6, SubmitKeepsInv DEF SubmitTask
<1>7. CASE Admit
  BY <1>0, <1>7, ClaimKeepsInv DEF Admit
<1>8. CASE Dispatch
  BY <1>0, <1>2, <1>8, StartAdvances DEF Dispatch
<1>9. CASE HoldAttempt
  BY <1>0, <1>2, <1>9, HoldAdvances DEF HoldAttempt
<1>10. CASE Complete
  BY <1>0, <1>2, <1>10, FinishAdvances DEF Complete
<1>11. CASE ResolveHold
  BY <1>0, <1>2, <1>11, ResolveAdvances DEF ResolveHold
<1>12. CASE AcceptReviewed
  BY <1>0, <1>2, <1>12, AcceptAdvances DEF AcceptReviewed
<1>13. CASE Evaluate
  <2> PICK a \in AttemptIds, c \in Categories, ok \in BOOLEAN : RecordOutcome(a, c, ok)
    BY <1>13 DEF Evaluate
  <2>1. OutcomeRows'
    BY OutcomeRecorded DEF RecordOutcome
  <2> QED BY <1>0, <2>1, QuietKeepsInv DEF RecordOutcome
<1>14. CASE External
  BY <1>0, <1>14, RecordExternalKeepsInv DEF External
<1>15. CASE ExternalOutcome
  <2> PICK call \in unrecorded : RecordExternalOutcome(call)
    BY <1>15 DEF ExternalOutcome
  <2>1. call.attempt \in AttemptIds /\ call.accepted \in BOOLEAN
    BY <1>0 DEF TypeOK
  <2>2. OutcomeRows'
    BY <2>1, OutcomeRecorded DEF RecordExternalOutcome
  <2> QED BY <1>0, <2>2, QuietKeepsInv DEF RecordExternalOutcome
<1>16. CASE ExternalLost
  BY <1>0, <1>1, <1>16, QuietKeepsInv DEF ExternalLost, ExternalOutcomeLost
<1>17. CASE UNCHANGED vars
  BY <1>0, <1>1, <1>17, QuietKeepsInv
<1> QED
  BY <1>3, <1>4, <1>5, <1>6, <1>7, <1>8, <1>9, <1>10, <1>11, <1>12, <1>13, <1>14, <1>15,
     <1>16, <1>17 DEF Next

\* The invariant the results below follow from, for every size of every set.
THEOREM LedgerInvariant == Spec => []LedgerInv
BY InitLedgerInv, NextLedgerInv, PTL DEF Spec

\* claim() and record_external() never give one task two attempts.
THEOREM TaskAttemptedOnce == Spec => []OneAttemptPerTask
<1>1. LedgerInv => OneAttemptPerTask
  BY DEF LedgerInv, RowsInv
<1> QED BY <1>1, LedgerInvariant, PTL

\* Attempts that may still run never share a workspace, whatever their accounts.
THEOREM WorkspaceIsExclusive == Spec => []WorkspaceExclusive
<1>1. LedgerInv => WorkspaceExclusive
  BY DEF LedgerInv, RowsInv
<1> QED BY <1>1, LedgerInvariant, PTL

\* No two admitted attempts of an account carry the same generation.
THEOREM GenerationIsFence == Spec => []GenerationFence
<1>1. LedgerInv => GenerationFence
  BY DEF LedgerInv, RowsInv
<1> QED BY <1>1, LedgerInvariant, PTL

\* Aliases resolve in one step to a configured account.
THEOREM AliasesAreCanonical == Spec => []AliasesCanonical
<1>1. LedgerInv => AliasesCanonical
  BY DEF LedgerInv
<1> QED BY <1>1, LedgerInvariant, PTL

\* Outcomes describe attempts that are over, and credit only completed ones.
THEOREM OutcomesAreSound == Spec => []OutcomeSound
<1>1. LedgerInv => OutcomeSound
  BY DEF LedgerInv, OutcomeRows, OutcomeSound
<1> QED BY <1>1, LedgerInvariant, PTL
-----------------------------------------------------------------------------
(* Action properties and refinement *)

LEMMA CooldownsChange ==
  ASSUME Next PROVE cooldowns' = cooldowns \/ Cooldown
<1> USE Unchanged
<1>1. CASE Tick BY <1>1 DEF Tick
<1>2. CASE Observe BY <1>2 DEF Observe, ConfigureAccount
<1>3. CASE SubmitTask BY <1>3 DEF SubmitTask, Submit
<1>4. CASE Admit BY <1>4 DEF Admit, Claim
<1>5. CASE Dispatch BY <1>5 DEF Dispatch, Start
<1>6. CASE HoldAttempt BY <1>6 DEF HoldAttempt, Hold
<1>7. CASE Complete BY <1>7 DEF Complete, Finish
<1>8. CASE ResolveHold BY <1>8 DEF ResolveHold, Resolve
<1>9. CASE AcceptReviewed BY <1>9 DEF AcceptReviewed, Accept
<1>10. CASE Evaluate BY <1>10 DEF Evaluate, RecordOutcome
<1>11. CASE External BY <1>11 DEF External, RecordExternal
<1>12. CASE ExternalOutcome BY <1>12 DEF ExternalOutcome, RecordExternalOutcome
<1>13. CASE ExternalLost BY <1>13 DEF ExternalLost, ExternalOutcomeLost
<1> QED BY <1>1, <1>2, <1>3, <1>4, <1>5, <1>6, <1>7, <1>8, <1>9, <1>10, <1>11, <1>12, <1>13
        DEF Next

\* Only start() takes an attempt to dispatching.
LEMMA DispatchStarts ==
  ASSUME TypeOK, Next, NEW a \in AttemptIds, Dispatches(a)
  PROVE  Dispatch
<1> USE Unchanged
<1>0. /\ attempts \in [AttemptIds -> AttemptRow]
      /\ attempts[a].state # "dispatching" /\ attempts'[a].state = "dispatching"
      /\ attempts' # attempts
  BY DEF TypeOK, Dispatches
<1>1. ~Tick BY <1>0 DEF Tick
<1>2. ~Observe BY <1>0 DEF Observe, ConfigureAccount
<1>3. ~Cooldown BY <1>0 DEF Cooldown, Defer
<1>4. ~SubmitTask BY <1>0 DEF SubmitTask, Submit
<1>5. ~Admit
  <2> SUFFICES ASSUME NEW b \in AttemptIds, NEW t \in TaskIds, NEW n \in Accounts,
                      NEW e \in Estimates, Claim(b, t, n, e)
               PROVE  FALSE
    BY DEF Admit
  <2>1. attempts'[b].state = "queued"
    BY <1>0 DEF Claim
  <2>2. b # a => attempts'[a] = attempts[a]
    BY <1>0 DEF Claim
  <2> QED BY <1>0, <2>1, <2>2
<1>6. ~HoldAttempt
  BY <1>0 DEF HoldAttempt, Hold, AttemptRow
<1>7. ~Complete
  BY <1>0 DEF Complete, Finish, AttemptRow
<1>8. ~ResolveHold
  <2> SUFFICES ASSUME NEW b \in AttemptIds, NEW o \in {"released", "consumed"}, Resolve(b, o)
               PROVE  FALSE
    BY DEF ResolveHold
  <2>1. attempts'[b].state \in {"abandoned", "failed"}
    BY <1>0 DEF Resolve, AttemptRow
  <2>2. b # a => attempts'[a] = attempts[a]
    BY <1>0 DEF Resolve
  <2> QED BY <1>0, <2>1, <2>2
<1>9. ~AcceptReviewed
  BY <1>0 DEF AcceptReviewed, Accept, AttemptRow
<1>10. ~Evaluate BY <1>0 DEF Evaluate, RecordOutcome
<1>11. ~External
  <2> SUFFICES ASSUME NEW b \in AttemptIds, NEW t \in TaskIds, NEW n \in Accounts,
                      NEW s \in Specs, NEW r \in Receipts, NEW c \in Categories,
                      NEW ok \in BOOLEAN, RecordExternal(b, t, n, s, r, c, ok)
               PROVE  FALSE
    BY DEF External
  <2>1. attempts'[b].state = "completed"
    BY <1>0 DEF RecordExternal
  <2>2. b # a => attempts'[a] = attempts[a]
    BY <1>0 DEF RecordExternal
  <2> QED BY <1>0, <2>1, <2>2
<1>12. ~ExternalOutcome BY <1>0 DEF ExternalOutcome, RecordExternalOutcome
<1>13. ~ExternalLost BY <1>0 DEF ExternalLost, ExternalOutcomeLost
<1> QED BY <1>1, <1>2, <1>3, <1>4, <1>5, <1>6, <1>7, <1>8, <1>9, <1>10, <1>11, <1>12, <1>13
        DEF Next

\* start() dispatches nothing into a cooldown, and defer() never shortens one.
THEOREM CooldownIsHonoured == Spec => CooldownHonoured
<1> DEFINE Step ==
      /\ \A n \in Accounts : cooldowns'[n] >= cooldowns[n]
      /\ \A a \in AttemptIds : Dispatches(a) => cooldowns[attempts[a].account] <= now
<1>1. LedgerInv /\ [Next]_vars => [Step]_vars
  <2> SUFFICES ASSUME LedgerInv, Next PROVE Step
    BY DEF vars
  <2> USE Unchanged
  <2>1. /\ cooldowns \in [Accounts -> Int] /\ now \in Nat
        /\ attempts \in [AttemptIds -> AttemptRow]
    BY DEF LedgerInv, TypeOK
  <2>2. \A n \in Accounts : cooldowns'[n] >= cooldowns[n]
    <3>1. ASSUME NEW m \in Accounts, NEW until \in Deadlines, Defer(m, until)
          PROVE  \A n \in Accounts : cooldowns'[n] >= cooldowns[n]
      BY <2>1, <3>1, DeadlineAssumption DEF Defer
    <3>2. cooldowns' = cooldowns \/ Cooldown
      BY CooldownsChange
    <3> QED BY <2>1, <3>1, <3>2 DEF Cooldown
  <2>3. ASSUME NEW a \in AttemptIds, Dispatches(a)
        PROVE  cooldowns[attempts[a].account] <= now
    <3>1. Start(a, attempts[a].generation) /\ StillAdmissible(a)
      <4>1. PICK b \in AttemptIds, g \in Generations : Start(b, g)
        BY <2>3, DispatchStarts DEF LedgerInv, Dispatch
      <4>2. b = a /\ StillAdmissible(b)
        BY <2>1, <2>3, <4>1 DEF Dispatches, Start, AttemptRow
      <4> QED BY <4>1, <4>2 DEF Start
    <3>2. attempts[a].account \in Accounts
      BY <3>1 DEF Start, LedgerInv, RowsInv, RowsGrounded, Rows
    <3> QED BY <2>1, <3>1, <3>2 DEF StillAdmissible, InferencePaused
  <2> QED BY <2>2, <2>3
<1> QED BY <1>1, LedgerInvariant, PTL DEF Spec, CooldownHonoured

\* A row that advances is a move of the lifecycle.
LEMMA AdvanceIsMove ==
  ASSUME TypeOK, NEW a \in AttemptIds, Advances(a)
  PROVE  Lifecycle!Move(a, attempts[a].state, attempts'[a].state)
<1>1. [b \in AttemptIds |-> attempts'[b].state] =
        [[b \in AttemptIds |-> attempts[b].state] EXCEPT ![a] = attempts'[a].state]
  BY DEF Advances
<1>2. [b \in AttemptIds |-> attempts'[b].task] = [b \in AttemptIds |-> attempts[b].task]
  BY DEF Advances
<1> QED BY <1>1, <1>2 DEF Lifecycle!Move

\* A row that is inserted for a task no row names enters the lifecycle.
LEMMA InsertIsEnter ==
  ASSUME LedgerInv, NEW a \in AttemptIds, NEW t \in TaskIds, NEW row,
         attempts[a].state = "absent", ~Attempted(t), row.task = t,
         attempts' = [attempts EXCEPT ![a] = row]
  PROVE  Lifecycle!Enter(a, t, row.state)
<1>1. attempts \in [AttemptIds -> AttemptRow]
  BY DEF LedgerInv, TypeOK
<1>2. \A b \in AttemptIds : attempts[b].task # t
  BY SentinelAssumption DEF Attempted, Rows, LedgerInv, RowsInv, EmptyRows
<1>3. [b \in AttemptIds |-> attempts'[b].state] =
        [[b \in AttemptIds |-> attempts[b].state] EXCEPT ![a] = row.state]
  BY <1>1
<1>4. [b \in AttemptIds |-> attempts'[b].task] =
        [[b \in AttemptIds |-> attempts[b].task] EXCEPT ![a] = t]
  BY <1>1
<1> QED BY <1>2, <1>3, <1>4 DEF Lifecycle!Enter

LEMMA InitRefines == Init => Lifecycle!LifecycleInit
BY DEF Init, NoRow, Lifecycle!LifecycleInit

LEMMA NextRefines ==
  LedgerInv /\ [Next]_vars => [Lifecycle!LifecycleNext]_(Lifecycle!lifecycleVars)
<1> SUFFICES ASSUME LedgerInv, [Next]_vars
             PROVE  \/ Lifecycle!LifecycleNext
                    \/ UNCHANGED Lifecycle!lifecycleVars
  OBVIOUS
<1> USE Unchanged
<1>0. TypeOK /\ attempts \in [AttemptIds -> AttemptRow]
  BY DEF LedgerInv, TypeOK
<1>1. ASSUME attempts' = attempts
      PROVE  UNCHANGED Lifecycle!lifecycleVars
  BY <1>1 DEF Lifecycle!lifecycleVars
<1>2. CASE Tick \/ Observe \/ Cooldown \/ SubmitTask
  BY <1>1, <1>2 DEF Tick, Observe, ConfigureAccount, Cooldown, Defer, SubmitTask, Submit
<1>3. CASE Evaluate \/ ExternalOutcome \/ ExternalLost \/ UNCHANGED vars
  BY <1>1, <1>3
  DEF Evaluate, RecordOutcome, ExternalOutcome, RecordExternalOutcome, ExternalLost,
      ExternalOutcomeLost
<1>4. CASE Admit
  <2> PICK a \in AttemptIds, t \in TaskIds, n \in Accounts, e \in Estimates : Claim(a, t, n, e)
    BY <1>4 DEF Admit
  <2> DEFINE row == [task |-> t, account |-> aliases[n],
                     generation |-> accounts[aliases[n]].generation + 1, state |-> "queued",
                     estimate |-> e, workspace |-> tasks[t].workspace,
                     receipt |-> NoReceipt, updated |-> now]
  <2>1. /\ attempts[a].state = "absent" /\ ~Attempted(t)
        /\ attempts' = [attempts EXCEPT ![a] = row]
    BY DEF Claim, NextGeneration, Admissible
  <2>2. row.task = t /\ row.state = "queued"
    OBVIOUS
  <2> HIDE DEF row
  <2>3. Lifecycle!Enter(a, t, "queued")
    BY <2>1, <2>2, InsertIsEnter
  <2> QED BY <2>3 DEF Lifecycle!LifecycleNext
<1>5. CASE External
  <2> PICK a \in AttemptIds, t \in TaskIds, n \in Accounts, s \in Specs, r \in Receipts,
           c \in Categories, ok \in BOOLEAN : RecordExternal(a, t, n, s, r, c, ok)
    BY <1>5 DEF External
  <2> DEFINE row == [task |-> t, account |-> n, generation |-> accounts[n].generation,
                     state |-> "completed", estimate |-> <<>>, workspace |-> s.workspace,
                     receipt |-> r, updated |-> now]
  <2>1. /\ attempts[a].state = "absent" /\ tasks[t] = NoSpec
        /\ attempts' = [attempts EXCEPT ![a] = row]
    BY DEF RecordExternal
  <2>2. ~Attempted(t)
    BY <2>1 DEF LedgerInv, RowsInv, RowsGrounded, Attempted
  <2>3. row.task = t /\ row.state = "completed"
    OBVIOUS
  <2> HIDE DEF row
  <2>4. Lifecycle!Enter(a, t, "completed")
    BY <2>1, <2>2, <2>3, InsertIsEnter
  <2> QED BY <2>4 DEF Lifecycle!LifecycleNext
<1>6. CASE Dispatch
  <2> PICK a \in AttemptIds, g \in Generations : Start(a, g)
    BY <1>6 DEF Dispatch
  <2>1. attempts[a].state = "queued" /\ attempts'[a].state \in {"dispatching", "held"}
    BY <1>0 DEF Start, AttemptRow
  <2>2. Lifecycle!Move(a, attempts[a].state, attempts'[a].state)
    BY <1>0, StartAdvances, AdvanceIsMove
  <2>3. \/ Lifecycle!Move(a, "queued", "dispatching")
       \/ Lifecycle!Move(a, "queued", "held")
    BY <2>1, <2>2 DEF Lifecycle!Move
  <2> QED BY <2>3 DEF Lifecycle!LifecycleNext
<1>7. CASE HoldAttempt
  <2> PICK a \in AttemptIds : Hold(a)
    BY <1>7 DEF HoldAttempt
  <2>1. attempts[a].state = "dispatching" /\ attempts'[a].state = "held"
    BY <1>0 DEF Hold, AttemptRow
  <2>2. Lifecycle!Move(a, attempts[a].state, attempts'[a].state)
    BY <1>0, HoldAdvances, AdvanceIsMove
  <2>3. Lifecycle!Move(a, "dispatching", "held")
    BY <2>1, <2>2 DEF Lifecycle!Move
  <2> QED BY <2>3 DEF Lifecycle!LifecycleNext
<1>8. CASE Complete
  <2> PICK a \in AttemptIds, g \in Generations, r \in Receipts : Finish(a, g, r)
    BY <1>8 DEF Complete
  <2>1. attempts[a].state = "dispatching" /\ attempts'[a].state = "completed"
    BY <1>0 DEF Finish, AttemptRow
  <2>2. Lifecycle!Move(a, attempts[a].state, attempts'[a].state)
    BY <1>0, FinishAdvances, AdvanceIsMove
  <2>3. Lifecycle!Move(a, "dispatching", "completed")
    BY <2>1, <2>2 DEF Lifecycle!Move
  <2> QED BY <2>3 DEF Lifecycle!LifecycleNext
<1>9. CASE ResolveHold
  <2> PICK a \in AttemptIds, o \in {"released", "consumed"} : Resolve(a, o)
    BY <1>9 DEF ResolveHold
  <2>1. attempts[a].state = "held" /\ attempts'[a].state \in {"failed", "abandoned"}
    BY <1>0 DEF Resolve, AttemptRow
  <2>2. Lifecycle!Move(a, attempts[a].state, attempts'[a].state)
    BY <1>0, ResolveAdvances, AdvanceIsMove
  <2>3. \/ Lifecycle!Move(a, "held", "failed")
       \/ Lifecycle!Move(a, "held", "abandoned")
    BY <2>1, <2>2 DEF Lifecycle!Move
  <2> QED BY <2>3 DEF Lifecycle!LifecycleNext
<1>10. CASE AcceptReviewed
  <2> PICK a \in AttemptIds, r \in Receipts, f \in Reviewers : Accept(a, r, f)
    BY <1>10 DEF AcceptReviewed
  <2>1. attempts[a].state = "completed" /\ attempts'[a].state = "accepted"
    BY <1>0 DEF Accept, AttemptRow
  <2>2. Lifecycle!Move(a, attempts[a].state, attempts'[a].state)
    BY <1>0, AcceptAdvances, AdvanceIsMove
  <2>3. Lifecycle!Move(a, "completed", "accepted")
    BY <2>1, <2>2 DEF Lifecycle!Move
  <2> QED BY <2>3 DEF Lifecycle!LifecycleNext
<1> QED BY <1>2, <1>3, <1>4, <1>5, <1>6, <1>7, <1>8, <1>9, <1>10 DEF Next

\* The ledger implements the attempt lifecycle.
THEOREM LedgerImplementsLifecycle == Spec => ImplementsLifecycle
BY InitRefines, NextRefines, LedgerInvariant, PTL
DEF Spec, ImplementsLifecycle, Lifecycle!LifecycleSpec

\* What the lifecycle is for: an attempt that was held, for whatever reason and by whomever, is
\* over, and its task is its own, for all time.
Over == {"held", "failed", "abandoned"}
HeldIsOver(a) == [](attempts[a].state = "held" => [](attempts[a].state \in Over))
TaskIsOwned(a, t) ==
  [](attempts[a].state # "absent" /\ attempts[a].task = t
       => [](attempts[a].state # "absent" /\ attempts[a].task = t))

\* A step of the lifecycle revives nothing and gives no task away.
LEMMA LifecycleStep ==
  ASSUME [Lifecycle!LifecycleNext]_(Lifecycle!lifecycleVars), NEW a \in AttemptIds
  PROVE  /\ attempts[a].state \in Over => attempts'[a].state \in Over
         /\ attempts[a].state # "absent" =>
              attempts'[a].state # "absent" /\ attempts'[a].task = attempts[a].task
<1> DEFINE state == [b \in AttemptIds |-> attempts[b].state]
           owner == [b \in AttemptIds |-> attempts[b].task]
           state1 == [b \in AttemptIds |-> attempts'[b].state]
           owner1 == [b \in AttemptIds |-> attempts'[b].task]
<1>0. /\ state[a] = attempts[a].state /\ state1[a] = attempts'[a].state
      /\ owner[a] = attempts[a].task /\ owner1[a] = attempts'[a].task
  OBVIOUS
<1>1. ASSUME UNCHANGED Lifecycle!lifecycleVars
      PROVE  /\ state[a] \in Over => state1[a] \in Over
             /\ state[a] # "absent" => state1[a] # "absent" /\ owner1[a] = owner[a]
  <2>1. state1 = state /\ owner1 = owner
    BY <1>1 DEF Lifecycle!lifecycleVars
  <2> HIDE DEF state, owner, state1, owner1
  <2> QED BY <2>1
<1>2. ASSUME NEW b \in AttemptIds, NEW t \in TaskIds, NEW s \in {"queued", "completed"}, Lifecycle!Enter(b, t, s)
      PROVE  /\ state[a] \in Over => state1[a] \in Over
             /\ state[a] # "absent" => state1[a] # "absent" /\ owner1[a] = owner[a]
  <2>1. state[b] = "absent" /\ s # "absent" /\ state1 = [state EXCEPT ![b] = s] /\ owner1 = [owner EXCEPT ![b] = t]
    BY <1>2 DEF Lifecycle!Enter
  <2>2. state \in [AttemptIds -> {state[c] : c \in AttemptIds}] /\ owner \in [AttemptIds -> {owner[c] : c \in AttemptIds}]
    OBVIOUS
  <2> HIDE DEF state, owner, state1, owner1
  <2> QED BY <2>1, <2>2 DEF Over
<1>3. state \in [AttemptIds -> {state[c] : c \in AttemptIds}]
  OBVIOUS
<1>4. ASSUME NEW b \in AttemptIds,
             \/ Lifecycle!Move(b, "queued", "dispatching") \/ Lifecycle!Move(b, "queued", "held")
             \/ Lifecycle!Move(b, "dispatching", "held") \/ Lifecycle!Move(b, "dispatching", "completed")
             \/ Lifecycle!Move(b, "completed", "accepted")
             \/ Lifecycle!Move(b, "held", "failed") \/ Lifecycle!Move(b, "held", "abandoned")
      PROVE  /\ state[a] \in Over => state1[a] \in Over
             /\ state[a] # "absent" => state1[a] # "absent" /\ owner1[a] = owner[a]
  <2>1. CASE Lifecycle!Move(b, "queued", "dispatching")
    <3>1. state[b] = "queued" /\ state1 = [state EXCEPT ![b] = "dispatching"] /\ owner1 = owner
      BY <2>1 DEF Lifecycle!Move
    <3> HIDE DEF state, owner, state1, owner1
    <3> QED BY <1>3, <3>1 DEF Over
  <2>2. CASE Lifecycle!Move(b, "queued", "held")
    <3>1. state[b] = "queued" /\ state1 = [state EXCEPT ![b] = "held"] /\ owner1 = owner
      BY <2>2 DEF Lifecycle!Move
    <3> HIDE DEF state, owner, state1, owner1
    <3> QED BY <1>3, <3>1 DEF Over
  <2>3. CASE Lifecycle!Move(b, "dispatching", "held")
    <3>1. state[b] = "dispatching" /\ state1 = [state EXCEPT ![b] = "held"] /\ owner1 = owner
      BY <2>3 DEF Lifecycle!Move
    <3> HIDE DEF state, owner, state1, owner1
    <3> QED BY <1>3, <3>1 DEF Over
  <2>4. CASE Lifecycle!Move(b, "dispatching", "completed")
    <3>1. state[b] = "dispatching" /\ state1 = [state EXCEPT ![b] = "completed"] /\ owner1 = owner
      BY <2>4 DEF Lifecycle!Move
    <3> HIDE DEF state, owner, state1, owner1
    <3> QED BY <1>3, <3>1 DEF Over
  <2>5. CASE Lifecycle!Move(b, "completed", "accepted")
    <3>1. state[b] = "completed" /\ state1 = [state EXCEPT ![b] = "accepted"] /\ owner1 = owner
      BY <2>5 DEF Lifecycle!Move
    <3> HIDE DEF state, owner, state1, owner1
    <3> QED BY <1>3, <3>1 DEF Over
  <2>6. CASE Lifecycle!Move(b, "held", "failed")
    <3>1. state[b] = "held" /\ state1 = [state EXCEPT ![b] = "failed"] /\ owner1 = owner
      BY <2>6 DEF Lifecycle!Move
    <3> HIDE DEF state, owner, state1, owner1
    <3> QED BY <1>3, <3>1 DEF Over
  <2>7. CASE Lifecycle!Move(b, "held", "abandoned")
    <3>1. state[b] = "held" /\ state1 = [state EXCEPT ![b] = "abandoned"] /\ owner1 = owner
      BY <2>7 DEF Lifecycle!Move
    <3> HIDE DEF state, owner, state1, owner1
    <3> QED BY <1>3, <3>1 DEF Over
  <2> QED BY <1>4, <2>1, <2>2, <2>3, <2>4, <2>5, <2>6, <2>7
<1>5. ASSUME Lifecycle!LifecycleNext
      PROVE  /\ state[a] \in Over => state1[a] \in Over
             /\ state[a] # "absent" => state1[a] # "absent" /\ owner1[a] = owner[a]
  <2>1. PICK b \in AttemptIds :
          \/ \E t \in TaskIds, s \in {"queued", "completed"} : Lifecycle!Enter(b, t, s)
          \/ Lifecycle!Move(b, "queued", "dispatching")
          \/ Lifecycle!Move(b, "queued", "held")
          \/ Lifecycle!Move(b, "dispatching", "held")
          \/ Lifecycle!Move(b, "dispatching", "completed")
          \/ Lifecycle!Move(b, "completed", "accepted")
          \/ Lifecycle!Move(b, "held", "failed")
          \/ Lifecycle!Move(b, "held", "abandoned")
    BY <1>5 DEF Lifecycle!LifecycleNext
  <2> HIDE DEF state, owner, state1, owner1
  <2>2. CASE \E t \in TaskIds, s \in {"queued", "completed"} : Lifecycle!Enter(b, t, s)
    BY <1>2, <2>2
  <2> QED BY <1>4, <2>1, <2>2
<1>6. /\ state[a] \in Over => state1[a] \in Over
      /\ state[a] # "absent" => state1[a] # "absent" /\ owner1[a] = owner[a]
  BY <1>1, <1>5
<1> HIDE DEF state, owner, state1, owner1
<1> QED BY <1>0, <1>6

\* Nothing that was held, by a sweep, an operator, a worker or start() itself, runs or completes
\* later, however late its worker or its process answers (finish and hold of ledger.py).
THEOREM HeldStaysOver == Spec => \A a \in AttemptIds : HeldIsOver(a)
<1> SUFFICES ASSUME NEW a \in AttemptIds PROVE Spec => HeldIsOver(a)
  OBVIOUS
<1>1. [Lifecycle!LifecycleNext]_(Lifecycle!lifecycleVars) =>
        (attempts[a].state \in Over => (attempts[a].state \in Over)')
  BY LifecycleStep
<1>2. attempts[a].state = "held" => attempts[a].state \in Over
  BY DEF Over
<1> QED BY <1>1, <1>2, LedgerImplementsLifecycle, PTL
       DEF HeldIsOver, ImplementsLifecycle, Lifecycle!LifecycleSpec

\* A task that was given to an attempt is never taken from it (claim and record_external).
THEOREM TaskStaysOwned == Spec => \A a \in AttemptIds, t \in TaskIds : TaskIsOwned(a, t)
<1> SUFFICES ASSUME NEW a \in AttemptIds, NEW t \in TaskIds PROVE Spec => TaskIsOwned(a, t)
  OBVIOUS
<1>1. [Lifecycle!LifecycleNext]_(Lifecycle!lifecycleVars) =>
        (attempts[a].state # "absent" /\ attempts[a].task = t
           => (attempts[a].state # "absent" /\ attempts[a].task = t)')
  BY LifecycleStep
<1> QED BY <1>1, LedgerImplementsLifecycle, PTL
       DEF TaskIsOwned, ImplementsLifecycle, Lifecycle!LifecycleSpec
-----------------------------------------------------------------------------
(* Sums *)

\* Every set of naturals has a least one: what an induction is replaced by below.
LEMMA LeastNatural ==
  ASSUME NEW T \in SUBSET Nat, T # {}
  PROVE  \E n \in T : \A m \in T : n <= m
<1>1. PICK n \in T : \A m \in T : ~ (<<m, n>> \in OpToRel(<, Nat))
    BY NatLessThanWellFounded, WFMin
<1>2. \A m \in T : ~(m < n)
    BY <1>1 DEF OpToRel
<1> QED BY <1>2

\* g sums f over every subset of U, in whatever order.
Adds(g, f, U) ==
  /\ g \in [SUBSET U -> Int] /\ g[{}] = 0
  /\ \A s \in SUBSET U : \A x \in s : g[s] = f[x] + g[s \ {x}]

LEMMA SumsExist ==
  ASSUME NEW U, IsFiniteSet(U), NEW f, \A x \in U : f[x] \in Nat
  PROVE  \E g \in [SUBSET U -> Nat] : Adds(g, f, U)
<1> DEFINE Summed(V) == \E g \in [SUBSET V -> Nat] : Adds(g, f, V)
           bad == {n \in Nat : \E V \in SUBSET U : Cardinality(V) = n /\ ~Summed(V)}
<1>1. ASSUME bad # {} PROVE FALSE
  <2>1. PICK n \in bad : \A m \in bad : n <= m
      BY <1>1, LeastNatural
  <2>2. PICK V \in SUBSET U : Cardinality(V) = n /\ ~Summed(V)
      BY <2>1
  <2>3. IsFiniteSet(V)
      BY FS_Subset
  <2>4. CASE V = {}
    <3> DEFINE g == [s \in SUBSET V |-> 0]
    <3>1. g \in [SUBSET V -> Nat] /\ Adds(g, f, V)
        BY <2>4 DEF Adds
    <3> QED BY <2>2, <3>1
  <2>5. ASSUME NEW u \in V PROVE FALSE
    <3>1. IsFiniteSet(V \ {u}) /\ Cardinality(V \ {u}) = n - 1 /\ n - 1 \in Nat
      <4>1. IsFiniteSet(V \ {u}) /\ Cardinality(V \ {u}) = Cardinality(V) - 1
          BY <2>3, FS_RemoveElement
      <4> QED BY <2>2, <4>1, FS_CardinalityType
    <3>2. Summed(V \ {u})
      <4>1. n \in Nat /\ ~(n <= n - 1)
          BY <2>1
      <4>2. n - 1 \notin bad
        <5> HIDE DEF bad
        <5> QED BY <2>1, <4>1
      <4> QED BY <3>1, <4>2
    <3>3. PICK g \in [SUBSET (V \ {u}) -> Nat] : Adds(g, f, V \ {u})
        BY <3>2
    <3> DEFINE h == [s \in SUBSET V |-> IF u \in s THEN f[u] + g[s \ {u}] ELSE g[s]]
    <3>4. \A s \in SUBSET (V \ {u}) : g[s] \in Nat
        OBVIOUS
    <3>5. h \in [SUBSET V -> Nat]
      <4>1. \A s \in SUBSET V : s \ {u} \in SUBSET (V \ {u})
          OBVIOUS
      <4> QED BY <3>4, <4>1
    <3>6. h[{}] = 0
        BY <3>3 DEF Adds
    <3>7. ASSUME NEW s \in SUBSET V, NEW x \in s PROVE h[s] = f[x] + h[s \ {x}]
      <4>1. CASE x = u
          BY <4>1
      <4>2. CASE x # u /\ u \in s
        <5>1. s \ {u} \in SUBSET (V \ {u}) /\ x \in s \ {u}
            BY <4>2
        <5>2. g[s \ {u}] = f[x] + g[(s \ {u}) \ {x}]
            BY <3>3, <5>1 DEF Adds
        <5>3. (s \ {u}) \ {x} = (s \ {x}) \ {u}
            OBVIOUS
        <5>4. h[s] = f[u] + g[s \ {u}]
            BY <4>2
        <5>5. h[s \ {x}] = f[u] + g[(s \ {x}) \ {u}]
            BY <4>2
        <5>6. f[u] \in Nat /\ f[x] \in Nat /\ g[(s \ {x}) \ {u}] \in Nat
            BY <5>1
        <5>7. g[s \ {u}] = f[x] + g[(s \ {x}) \ {u}]
            BY <5>2, <5>3
        <5>8. \A i, j, k \in Nat : i + (j + k) = j + (i + k)
            OBVIOUS
        <5> HIDE DEF h
        <5>9. f[u] + (f[x] + g[(s \ {x}) \ {u}]) = f[x] + (f[u] + g[(s \ {x}) \ {u}])
            BY <5>6, <5>8
        <5> QED BY <5>4, <5>5, <5>7, <5>9, Zenon
      <4>3. CASE u \notin s
        <5>1. s \in SUBSET (V \ {u}) /\ h[s] = g[s] /\ h[s \ {x}] = g[s \ {x}]
            BY <4>3
        <5> HIDE DEF h
        <5> QED BY <3>3, <5>1 DEF Adds
      <4> QED BY <4>1, <4>2, <4>3
    <3> HIDE DEF h
    <3>8. Adds(h, f, V)
        BY <3>5, <3>6, <3>7 DEF Adds
    <3> QED BY <2>2, <3>5, <3>8
  <2> QED BY <2>4, <2>5
<1>2. U \in SUBSET U /\ Cardinality(U) \in Nat
    BY FS_CardinalityType
<1> QED BY <1>1, <1>2

\* Any such g is the fold of the community modules.
LEMMA SumIs ==
  ASSUME NEW U, IsFiniteSet(U), NEW f, NEW g, Adds(g, f, U)
  PROVE  SumFunctionOnSet(f, U) = g[U]
<1> DEFINE Any(s) == CHOOSE x \in s : TRUE
           Fold(h) == [s \in SUBSET U |-> IF s = {} THEN 0 ELSE f[Any(s)] + h[s \ {Any(s)}]]
           fold == CHOOSE h : h = Fold(h)
<1>1. SumFunctionOnSet(f, U) = fold[U]
    BY DEF SumFunctionOnSet, FoldFunctionOnSet, MapThenFoldSet
<1>2. \A s \in SUBSET U : s # {} => Any(s) \in s
    OBVIOUS
<1> HIDE DEF Any
<1>3. g = Fold(g)
    BY <1>2 DEF Adds
<1>4. fold = Fold(fold)
    BY <1>3
<1> HIDE DEF fold
<1>5. \A s \in SUBSET U : fold[s] = IF s = {} THEN 0 ELSE f[Any(s)] + fold[s \ {Any(s)}]
    BY <1>4
<1> DEFINE bad == {n \in Nat : \E s \in SUBSET U : Cardinality(s) = n /\ fold[s] # g[s]}
<1>6. ASSUME bad # {} PROVE FALSE
  <2>1. PICK n \in bad : \A m \in bad : n <= m
      BY <1>6, LeastNatural
  <2>2. PICK s \in SUBSET U : Cardinality(s) = n /\ fold[s] # g[s]
      BY <2>1
  <2>3. s # {}
      BY <1>5, <2>2 DEF Adds
  <2>4. IsFiniteSet(s)
      BY FS_Subset
  <2>5. IsFiniteSet(s \ {Any(s)}) /\ Cardinality(s \ {Any(s)}) = n - 1 /\ n - 1 \in Nat
    <3>1. IsFiniteSet(s \ {Any(s)}) /\ Cardinality(s \ {Any(s)}) = Cardinality(s) - 1
        BY <1>2, <2>3, <2>4, FS_RemoveElement
    <3> QED BY <2>2, <3>1, FS_CardinalityType
  <2>6. fold[s \ {Any(s)}] = g[s \ {Any(s)}]
    <3>1. n - 1 \notin bad
        BY <2>1, <2>5
    <3> QED BY <2>5, <3>1
  <2>7. g[s] = f[Any(s)] + g[s \ {Any(s)}]
      BY <1>2, <2>3 DEF Adds
  <2> QED BY <1>5, <2>2, <2>3, <2>6, <2>7
<1>7. Cardinality(U) \in Nat
    BY FS_CardinalityType
<1> QED BY <1>1, <1>6, <1>7

\* What a sum is, element by element.
LEMMA SumFacts ==
  ASSUME NEW U, IsFiniteSet(U), NEW f, \A x \in U : f[x] \in Nat
  PROVE  /\ SumFunctionOnSet(f, {}) = 0
         /\ \A S \in SUBSET U : SumFunctionOnSet(f, S) \in Nat
         /\ \A S \in SUBSET U : \A x \in S : SumFunctionOnSet(f, S) = f[x] + SumFunctionOnSet(f, S \ {x})
<1>1. PICK g \in [SUBSET U -> Nat] : Adds(g, f, U)
    BY SumsExist
<1>2. ASSUME NEW S \in SUBSET U PROVE SumFunctionOnSet(f, S) = g[S]
  <2> DEFINE h == [s \in SUBSET S |-> g[s]]
  <2>1. Adds(h, f, S)
      BY <1>1 DEF Adds
  <2>2. IsFiniteSet(S)
      BY FS_Subset
  <2>3. h[S] = g[S]
      OBVIOUS
  <2> QED BY <2>1, <2>2, <2>3, SumIs
<1> QED BY <1>1, <1>2 DEF Adds

\* A sum depends on nothing but what it sums.
LEMMA SumSame ==
  ASSUME NEW S, IsFiniteSet(S), NEW f, NEW h, \A x \in S : f[x] \in Nat /\ h[x] = f[x]
  PROVE  SumFunctionOnSet(h, S) = SumFunctionOnSet(f, S)
<1>1. PICK g \in [SUBSET S -> Nat] : Adds(g, f, S)
    BY SumsExist
<1>2. Adds(g, h, S)
    BY <1>1 DEF Adds
<1> QED BY <1>1, <1>2, SumIs

\* The sum over two sets that share nothing.
LEMMA SumOfUnion ==
  ASSUME NEW A, NEW B, IsFiniteSet(A), IsFiniteSet(B), A \cap B = {},
         NEW f, \A x \in A \cup B : f[x] \in Nat
  PROVE  SumFunctionOnSet(f, A \cup B) = SumFunctionOnSet(f, A) + SumFunctionOnSet(f, B)
<1>1. IsFiniteSet(A \cup B)
    BY FS_Union
<1> DEFINE Sum(S) == SumFunctionOnSet(f, S)
<1>2. /\ \A S \in SUBSET (A \cup B) : SumFunctionOnSet(f, S) \in Nat
      /\ \A S \in SUBSET (A \cup B) : \A x \in S :
           SumFunctionOnSet(f, S) = f[x] + SumFunctionOnSet(f, S \ {x})
  <2> DEFINE U == A \cup B
  <2>1. IsFiniteSet(U) /\ \A x \in U : f[x] \in Nat
      BY <1>1
  <2> HIDE DEF U
  <2>2. /\ \A S \in SUBSET U : SumFunctionOnSet(f, S) \in Nat
        /\ \A S \in SUBSET U : \A x \in S :
             SumFunctionOnSet(f, S) = f[x] + SumFunctionOnSet(f, S \ {x})
      BY <2>1, SumFacts
  <2> QED BY <2>2 DEF U
<1>3. /\ \A S \in SUBSET (A \cup B) : Sum(S) \in Nat
      /\ \A S \in SUBSET (A \cup B) : \A x \in S : Sum(S) = f[x] + Sum(S \ {x})
    BY <1>2
<1> HIDE DEF Sum
<1> DEFINE g == [s \in SUBSET A |-> Sum(s \cup B) - Sum(B)]
<1>4. g \in [SUBSET A -> Int]
  <2>1. \A s \in SUBSET A : s \cup B \in SUBSET (A \cup B) /\ B \in SUBSET (A \cup B)
      OBVIOUS
  <2> QED BY <1>3, <2>1
<1>5. g[{}] = 0
    BY <1>3
<1>6. ASSUME NEW s \in SUBSET A, NEW x \in s PROVE g[s] = f[x] + g[s \ {x}]
  <2>1. (s \cup B) \ {x} = (s \ {x}) \cup B
      OBVIOUS
  <2>2. Sum(s \cup B) = f[x] + Sum((s \ {x}) \cup B)
    <3>1. s \cup B \in SUBSET (A \cup B) /\ x \in s \cup B
        OBVIOUS
    <3> QED BY <1>3, <2>1, <3>1
  <2>3. Sum(B) \in Nat /\ Sum((s \ {x}) \cup B) \in Nat /\ f[x] \in Nat
      BY <1>3
  <2>4. g[s] = Sum(s \cup B) - Sum(B) /\ g[s \ {x}] = Sum((s \ {x}) \cup B) - Sum(B)
      OBVIOUS
  <2> HIDE DEF g
  <2> QED BY <2>2, <2>3, <2>4
<1>7. g[A] = Sum(A \cup B) - Sum(B)
    OBVIOUS
<1> HIDE DEF g
<1>8. Sum(A) = g[A]
  <2>1. Adds(g, f, A)
      BY <1>4, <1>5, <1>6 DEF Adds
  <2> QED BY <2>1, SumIs DEF Sum
<1>9. Sum(A \cup B) \in Nat /\ Sum(B) \in Nat
    BY <1>3
<1> QED BY <1>7, <1>8, <1>9 DEF Sum

-----------------------------------------------------------------------------
(* The invariant *)

Observed(n) == observations[n].snapshot # NoSnapshot

\* An observed account has the slots and the windows of its last reading.
AccountsObserved ==
  \A n \in Accounts :
    IF Observed(n)
    THEN /\ accounts[n].capacity = observations[n].snapshot.capacity
         /\ DOMAIN windows[n] = DOMAIN observations[n].snapshot.windows
         /\ \A w \in DOMAIN windows[n] : windows[n][w] \in Nat
    ELSE accounts[n].capacity = 0

\* Every reservation costs something, and reserves on an observed account.
RowsCost ==
  /\ \A a \in AttemptIds : \A w \in DOMAIN attempts[a].estimate : attempts[a].estimate[w] \in Nat \ {0}
  /\ \A a \in ActiveRows : attempts[a].account \in Accounts /\ Observed(attempts[a].account)

QuotaInv == AccountsObserved /\ RowsCost /\ NoErasedDebit

LEMMA QuotaBegins == Init => QuotaInv
<1> SUFFICES ASSUME Init PROVE QuotaInv
    OBVIOUS
<1>1. ActiveRows = {} /\ \A a \in AttemptIds : DOMAIN attempts[a].estimate = {}
    BY DEF Init, NoRow, ActiveRows, ACTIVE
<1>2. \A n \in Accounts : ~Observed(n) /\ accounts[n].capacity = 0
    BY DEF Init, Observed
<1> QED BY <1>1, <1>2 DEF QuotaInv, AccountsObserved, RowsCost, NoErasedDebit, Observed

LEMMA CostsAreNat ==
  ASSUME RowsCost
  PROVE  \A a \in AttemptIds : \A w : Cost(a, w) \in Nat
BY DEF RowsCost, Cost

\* Totals, read off the sums above.
LEMMA TotalFacts ==
  ASSUME RowsCost, NEW w
  PROVE  /\ \A S \in SUBSET AttemptIds : Total(S, w) \in Nat
         /\ \A S \in SUBSET AttemptIds : \A a \in S : Cost(a, w) <= Total(S, w)
         /\ \A S, R \in SUBSET AttemptIds : S \cap R = {} => Total(S \cup R, w) = Total(S, w) + Total(R, w)
<1> DEFINE c == [a \in AttemptIds |-> Cost(a, w)]
           Sum(S) == SumFunctionOnSet(c, S)
<1>1. \A a \in AttemptIds : c[a] = Cost(a, w) /\ c[a] \in Nat
    BY CostsAreNat
<1> HIDE DEF c
<1>2. \A S \in SUBSET AttemptIds : IsFiniteSet(S)
    BY AttemptsAssumption, FS_Subset
<1>3. ASSUME NEW S \in SUBSET AttemptIds PROVE Total(S, w) = Sum(S)
  <2> DEFINE h == [a \in S |-> Cost(a, w)]
  <2>1. \A a \in S : c[a] \in Nat /\ h[a] = c[a]
      BY <1>1
  <2>2. Total(S, w) = SumFunctionOnSet(h, S)
      BY DEF Total
  <2> HIDE DEF h
  <2> QED BY <1>2, <2>1, <2>2, SumSame
<1>4. /\ \A S \in SUBSET AttemptIds : Sum(S) \in Nat
      /\ \A S \in SUBSET AttemptIds : \A a \in S : Sum(S) = c[a] + Sum(S \ {a})
    BY <1>1, AttemptsAssumption, SumFacts
<1>5. \A S, R \in SUBSET AttemptIds : S \cap R = {} => Sum(S \cup R) = Sum(S) + Sum(R)
  <2> SUFFICES ASSUME NEW S \in SUBSET AttemptIds, NEW R \in SUBSET AttemptIds, S \cap R = {}
               PROVE  Sum(S \cup R) = Sum(S) + Sum(R)
      OBVIOUS
  <2>1. \A a \in S \cup R : c[a] \in Nat
      BY <1>1
  <2> QED BY <1>2, <2>1, SumOfUnion
<1> HIDE DEF Sum
<1>6. \A S \in SUBSET AttemptIds : \A a \in S : Cost(a, w) <= Sum(S)
  <2> SUFFICES ASSUME NEW S \in SUBSET AttemptIds, NEW a \in S PROVE Cost(a, w) <= Sum(S)
      OBVIOUS
  <2>1. Sum(S \ {a}) \in Nat /\ Sum(S) = c[a] + Sum(S \ {a})
      BY <1>4
  <2> QED BY <1>1, <2>1
<1>7. \A S, R \in SUBSET AttemptIds : S \cup R \in SUBSET AttemptIds
    OBVIOUS
<1>8. \A S \in SUBSET AttemptIds : Total(S, w) \in Nat
    BY <1>3, <1>4
<1>9. \A S \in SUBSET AttemptIds : \A a \in S : Cost(a, w) <= Total(S, w)
    BY <1>3, <1>6
<1>10. \A S, R \in SUBSET AttemptIds : S \cap R = {} => Total(S \cup R, w) = Total(S, w) + Total(R, w)
    BY <1>3, <1>5, <1>7
<1> QED BY <1>8, <1>9, <1>10

\* A total changes with nothing but the costs it sums.
LEMMA TotalStays ==
  ASSUME RowsCost, NEW S \in SUBSET AttemptIds, NEW w, \A a \in S : Cost(a, w)' = Cost(a, w)
  PROVE  Total(S, w)' = Total(S, w)
<1> DEFINE f == [a \in S |-> Cost(a, w)]
           h == [a \in S |-> Cost(a, w)']
<1>1. IsFiniteSet(S)
    BY AttemptsAssumption, FS_Subset
<1>2. \A a \in S : f[a] \in Nat /\ h[a] = f[a]
    BY CostsAreNat
<1>3. Total(S, w) = SumFunctionOnSet(f, S) /\ Total(S, w)' = SumFunctionOnSet(h, S)
    BY DEF Total
<1> HIDE DEF f, h
<1> QED BY <1>1, <1>2, <1>3, SumSame

\* One more element adds its cost.
LEMMA TotalGrows ==
  ASSUME RowsCost, NEW S \in SUBSET AttemptIds, NEW b \in AttemptIds, b \notin S, NEW w,
         \A a \in S : Cost(a, w)' = Cost(a, w), Cost(b, w)' \in Nat
  PROVE  Total(S \cup {b}, w)' = Cost(b, w)' + Total(S, w)
<1> DEFINE f == [a \in S |-> Cost(a, w)]
           h == [a \in S \cup {b} |-> Cost(a, w)']
<1>1. IsFiniteSet(S) /\ IsFiniteSet(S \cup {b})
    BY AttemptsAssumption, FS_Subset
<1>2. (\A a \in S : f[a] \in Nat /\ h[a] = f[a]) /\ h[b] = Cost(b, w)'
    BY CostsAreNat
<1>3. Total(S, w) = SumFunctionOnSet(f, S) /\ Total(S \cup {b}, w)' = SumFunctionOnSet(h, S \cup {b})
    BY DEF Total
<1> HIDE DEF f, h
<1>4. \A a \in S \cup {b} : h[a] \in Nat
    BY <1>2
<1>5. SumFunctionOnSet(h, S \cup {b}) = h[b] + SumFunctionOnSet(h, (S \cup {b}) \ {b})
    BY <1>1, <1>4, SumFacts
<1>6. (S \cup {b}) \ {b} = S
    OBVIOUS
<1>7. SumFunctionOnSet(h, S) = SumFunctionOnSet(f, S)
    BY <1>1, <1>2, SumSame
<1> QED BY <1>2, <1>3, <1>5, <1>6, <1>7
-----------------------------------------------------------------------------
(* What a step does to the remaining quota *)

\* A step that touches the row of one attempt, and never adds to a window.
RowStep(a) ==
  /\ \A b \in AttemptIds : b # a => attempts'[b] = attempts[b]
  /\ observations' = observations
  /\ \A n \in Accounts :
       /\ accounts'[n].capacity = accounts[n].capacity
       /\ DOMAIN windows'[n] = DOMAIN windows[n]
       /\ \A w \in DOMAIN windows[n] :
            windows[n][w] \in Nat => windows'[n][w] \in Nat /\ windows'[n][w] <= windows[n][w]

\* The debits of account n stand: attempt a is counted as it was.
Counted(a, n) ==
  /\ (a \in Unseen(n))' <=> a \in Unseen(n)
  /\ a \in Unseen(n) => \A w : Cost(a, w)' = Cost(a, w)
\* Or it is counted from now on, and what it reserved is debited.
Debits(a, n) ==
  /\ a \notin Unseen(n) /\ (a \in Unseen(n))'
  /\ \A w \in DOMAIN windows[n] : windows'[n][w] <= Debited(windows[n][w], Cost(a, w)')

LEMMA DebitedFacts ==
  /\ \A r, s \in Nat : Debited(r, s) \in Nat /\ Debited(r, s) <= r /\ Debited(r, 0) = r
  /\ \A q, r, s, c, p \in Nat :
       q <= Debited(r, s) /\ p <= Debited(q, c) => p <= Debited(r, c + s)
BY DEF Debited

LEMMA SnapshotFacts ==
  ASSUME TypeOK, NEW n \in Accounts, Observed(n)
  PROVE  /\ observations[n].snapshot \in Snapshots
         /\ \A w \in DOMAIN observations[n].snapshot.windows : observations[n].snapshot.windows[w] \in Nat
BY SnapshotAssumption DEF TypeOK, Observed

LEMMA RowStepKeepsDebits ==
  ASSUME TypeOK, QuotaInv, NEW a \in AttemptIds, RowStep(a), \A w : Cost(a, w)' \in Nat,
         \A n \in Accounts : Counted(a, n) \/ Debits(a, n)
  PROVE  AccountsObserved' /\ NoErasedDebit'
<1> USE DEF QuotaInv
<1>1. \A n \in Accounts : Observed(n)' = Observed(n) /\ observations'[n] = observations[n]
    BY DEF RowStep, Observed
<1>2. AccountsObserved'
    BY <1>1 DEF RowStep, AccountsObserved
<1>3. NoErasedDebit'
  <2> SUFFICES ASSUME NEW n \in Accounts, Observed(n), NEW w \in DOMAIN windows'[n]
               PROVE  windows'[n][w] <= Debited(observations[n].snapshot.windows[w], Total(Unseen(n), w)')
      BY <1>1 DEF NoErasedDebit, Observed
  <2> DEFINE left == observations[n].snapshot.windows[w]
  <2>0. PICK old \in SUBSET AttemptIds : old = Unseen(n)
      BY DEF Unseen, UnseenCompletions
  <2>1. w \in DOMAIN windows[n] /\ windows[n][w] \in Nat /\ left \in Nat
      BY SnapshotFacts DEF RowStep, AccountsObserved
  <2>2. windows'[n][w] \in Nat /\ windows'[n][w] <= windows[n][w]
      BY <2>1 DEF RowStep
  <2>3. windows[n][w] <= Debited(left, Total(old, w))
      BY <2>0, <2>1 DEF NoErasedDebit, Observed
  <2>4. \A v : Total(old, v) \in Nat
      BY TotalFacts
  <2>5. \A b \in AttemptIds : b # a => (b \in Unseen(n)' <=> b \in old) /\ \A v : Cost(b, v)' = Cost(b, v)
      BY <1>1, <2>0 DEF RowStep, Unseen, UnseenCompletions, Cost
  <2>6. Unseen(n)' \subseteq AttemptIds
      BY DEF Unseen, UnseenCompletions
  <2>7. CASE Counted(a, n)
    <3>1. Unseen(n)' = old
        BY <2>0, <2>5, <2>6, <2>7 DEF Counted
    <3>2. \A b \in old : Cost(b, w)' = Cost(b, w)
        BY <2>0, <2>5, <2>7 DEF Counted
    <3>3. Total(old, w)' = Total(old, w)
        BY <3>2, TotalStays
    <3>4. Total(Unseen(n), w)' = Total(old, w)
        BY <3>1, <3>3 DEF Total
    <3> HIDE DEF left
    <3>5. Debited(left, Total(old, w)) \in Nat
        BY <2>1, <2>4, DebitedFacts
    <3>6. windows'[n][w] <= Debited(left, Total(old, w))
        BY <2>1, <2>2, <2>3, <3>5
    <3> QED BY <3>4, <3>6 DEF left
  <2>8. CASE Debits(a, n)
    <3>1. Unseen(n)' = old \cup {a} /\ a \notin old
        BY <2>0, <2>5, <2>6, <2>8 DEF Debits
    <3>2. \A b \in old : Cost(b, w)' = Cost(b, w)
        BY <2>5, <3>1
    <3>3. windows'[n][w] <= Debited(windows[n][w], Cost(a, w)')
        BY <2>1, <2>8 DEF Debits
    <3> HIDE DEF left
    <3>4. Total(old \cup {a}, w)' = Cost(a, w)' + Total(old, w)
        BY <3>1, <3>2, TotalGrows
    <3>5. Total(Unseen(n), w)' = Cost(a, w)' + Total(old, w)
        BY <3>1, <3>4 DEF Total
    <3>6. windows'[n][w] <= Debited(left, Cost(a, w)' + Total(old, w))
        BY <2>1, <2>2, <2>3, <2>4, <3>3, DebitedFacts
    <3> QED BY <3>5, <3>6 DEF left
  <2> QED BY <2>7, <2>8
<1> QED BY <1>2, <1>3

\* A step that leaves the tables of quota and attempts alone.
LEMMA QuietKeepsDebits ==
  ASSUME TypeOK, QuotaInv, UNCHANGED <<accounts, windows, observations, attempts>>
  PROVE  QuotaInv'
<1> USE DEF QuotaInv
<1>1. AccountsObserved'
    BY DEF AccountsObserved, Observed
<1>2. RowsCost'
    BY DEF RowsCost, Observed, ActiveRows
<1>3. NoErasedDebit'
  <2> SUFFICES ASSUME NEW n \in Accounts, Observed(n), NEW w \in DOMAIN windows[n]
               PROVE  windows[n][w] <= Debited(observations[n].snapshot.windows[w], Total(Unseen(n), w)')
      BY DEF NoErasedDebit, Observed
  <2>1. Unseen(n)' = Unseen(n) /\ Unseen(n) \in SUBSET AttemptIds
      BY DEF Unseen, UnseenCompletions
  <2>2. Total(Unseen(n), w)' = Total(Unseen(n), w)
      BY <2>1 DEF Total, Cost
  <2> QED BY <2>2 DEF NoErasedDebit, Observed
<1> QED BY <1>1, <1>2, <1>3

LEMMA ConfigureKeepsDebits ==
  ASSUME TypeOK, QuotaInv, NEW n \in Accounts, NEW s \in Snapshots, NEW o \in 0..(now + Skew),
         NEW names \in SUBSET Accounts, ConfigureAccount(n, s, o, names)
  PROVE  QuotaInv'
<1> USE DEF QuotaInv
<1>1. CASE o = observations[n].observed_at
  <2>1. UNCHANGED <<accounts, windows, observations, attempts>>
      BY <1>1 DEF ConfigureAccount
  <2> QED BY <2>1, QuietKeepsDebits
<1>2. CASE o # observations[n].observed_at
  <2>1. /\ accounts' = [accounts EXCEPT ![n] = [capacity |-> s.capacity, generation |-> @.generation,
                                                expires |-> s.expires, models |-> s.models]]
        /\ windows' = [windows EXCEPT ![n] = Reconciled(n, s, o)]
        /\ observations' = [observations EXCEPT ![n] = [observed_at |-> o, snapshot |-> s]]
        /\ attempts' = attempts
      BY <1>2 DEF ConfigureAccount
  <2>2. /\ accounts'[n].capacity = s.capacity /\ windows'[n] = Reconciled(n, s, o)
        /\ observations'[n] = [observed_at |-> o, snapshot |-> s]
        /\ \A m \in Accounts : m # n => accounts'[m] = accounts[m] /\ windows'[m] = windows[m]
                                        /\ observations'[m] = observations[m]
      BY <2>1 DEF TypeOK
  <2>3. s # NoSnapshot /\ (\A w \in DOMAIN s.windows : s.windows[w] \in Nat)
      BY SentinelAssumption, SnapshotAssumption
  <2>4. \A S \in SUBSET AttemptIds : \A w : Total(S, w) \in Nat
      BY TotalFacts
  <2>5. UnseenCompletions(n, o) \in SUBSET AttemptIds
      BY DEF UnseenCompletions
  <2>6. /\ DOMAIN Reconciled(n, s, o) = DOMAIN s.windows
        /\ \A w \in DOMAIN s.windows :
             /\ Reconciled(n, s, o)[w] = Debited(s.windows[w], Total(UnseenCompletions(n, o), w))
             /\ Reconciled(n, s, o)[w] \in Nat
      BY <2>3, <2>4, <2>5, DebitedFacts DEF Reconciled
  <2>7. AccountsObserved'
      BY <2>2, <2>3, <2>6 DEF AccountsObserved, Observed
  <2>8. RowsCost'
      BY <2>1, <2>2, <2>3 DEF RowsCost, Observed, ActiveRows
  <2>9. NoErasedDebit'
    <3> SUFFICES ASSUME NEW m \in Accounts, Observed(m)', NEW w \in DOMAIN windows'[m]
                 PROVE  windows'[m][w] <= Debited(observations'[m].snapshot.windows[w], Total(Unseen(m), w)')
        BY DEF NoErasedDebit, Observed
    <3>1. CASE m # n
      <4>1. Unseen(m)' = Unseen(m)
          BY <2>1, <2>2, <3>1 DEF Unseen, UnseenCompletions
      <4>2. Total(Unseen(m), w)' = Total(Unseen(m), w)
          BY <2>1, <4>1 DEF Total, Cost
      <4> QED BY <2>2, <3>1, <4>2 DEF NoErasedDebit, Observed
    <3>2. CASE m = n
      <4>1. Unseen(n)' = UnseenCompletions(n, o)
          BY <2>1, <2>2 DEF Unseen, UnseenCompletions
      <4>2. Total(Unseen(n), w)' = Total(UnseenCompletions(n, o), w)
          BY <2>1, <4>1 DEF Total, Cost
      <4>3. windows'[n][w] = Debited(s.windows[w], Total(UnseenCompletions(n, o), w)) /\ windows'[n][w] \in Nat
          BY <2>2, <2>6, <3>2
      <4> QED BY <2>2, <3>2, <4>2, <4>3
    <3> QED BY <3>1, <3>2
  <2> QED BY <2>7, <2>8, <2>9
<1> QED BY <1>1, <1>2

\* A row that moves on keeps what it reserved.
LEMMA AdvanceKeepsQuota ==
  ASSUME LedgerInv, QuotaInv, NEW a \in AttemptIds, Advances(a), Others, RowStep(a),
         attempts'[a].estimate = attempts[a].estimate,
         \A n \in Accounts : Counted(a, n) \/ Debits(a, n)
  PROVE  QuotaInv'
<1>1. \A b \in AttemptIds : attempts'[b].estimate = attempts[b].estimate
    BY DEF RowStep
<1>2. \A b \in AttemptIds : \A w : Cost(b, w)' = Cost(b, w) /\ Cost(b, w) \in Nat
    BY <1>1, CostsAreNat DEF Cost, QuotaInv
<1>3. ActiveRows' \subseteq ActiveRows
    BY DEF Advances, ActiveRows
<1>4. \A b \in ActiveRows : attempts'[b].account = attempts[b].account
    BY DEF Advances, ActiveRows
<1>5. RowsCost'
    BY <1>1, <1>3, <1>4 DEF QuotaInv, RowsCost, RowStep, Observed
<1> QED BY <1>2, <1>5, RowStepKeepsDebits DEF QuotaInv, LedgerInv

\* A step that spends nothing.
LEMMA RowStepSpares ==
  ASSUME NEW a \in AttemptIds, \A b \in AttemptIds : b # a => attempts'[b] = attempts[b],
         UNCHANGED <<observations, accounts, windows>>
  PROVE  RowStep(a)
<1>1. \A k \in Nat : k \in Nat /\ k <= k
    OBVIOUS
<1> QED BY <1>1 DEF RowStep

\* What spending a reservation does to the windows.
LEMMA SpendFacts ==
  ASSUME TypeOK, QuotaInv, NEW a \in AttemptIds, attempts[a].account \in Accounts, Spend(a)
  PROVE  /\ \A n \in Accounts :
              /\ DOMAIN windows'[n] = DOMAIN windows[n]
              /\ \A w \in DOMAIN windows[n] :
                   windows[n][w] \in Nat => windows'[n][w] \in Nat /\ windows'[n][w] <= windows[n][w]
         /\ \A w \in DOMAIN windows[attempts[a].account] :
              windows'[attempts[a].account][w] = Debited(windows[attempts[a].account][w], Cost(a, w))
<1> DEFINE m == attempts[a].account
<1>1. \A n \in Accounts : n # m => windows'[n] = windows[n]
    BY DEF Spend, TypeOK
<1>2. windows'[m] = [w \in DOMAIN windows[m] |-> Debited(windows[m][w], Cost(a, w))]
    BY DEF Spend, TypeOK
<1>3. \A w : Cost(a, w) \in Nat
    BY CostsAreNat DEF QuotaInv
<1> HIDE DEF m
<1>4. \A r, c \in Nat : Debited(r, c) \in Nat /\ Debited(r, c) <= r
    BY DebitedFacts
<1>5. \A n \in Accounts :
        /\ DOMAIN windows'[n] = DOMAIN windows[n]
        /\ \A w \in DOMAIN windows[n] :
             windows[n][w] \in Nat => windows'[n][w] \in Nat /\ windows'[n][w] <= windows[n][w]
  <2> SUFFICES ASSUME NEW n \in Accounts
               PROVE  /\ DOMAIN windows'[n] = DOMAIN windows[n]
                      /\ \A w \in DOMAIN windows[n] :
                           windows[n][w] \in Nat => windows'[n][w] \in Nat /\ windows'[n][w] <= windows[n][w]
      OBVIOUS
  <2>1. CASE n = m
      BY <1>2, <1>3, <1>4, <2>1
  <2>2. CASE n # m
      BY <1>1, <2>2
  <2> QED BY <2>1, <2>2
<1> QED BY <1>2, <1>5 DEF m

LEMMA StartKeepsDebits ==
  ASSUME LedgerInv, QuotaInv, NEW a \in AttemptIds, NEW g, Start(a, g)
  PROVE  QuotaInv'
<1>1. attempts \in [AttemptIds -> AttemptRow] /\ TypeOK
    BY DEF LedgerInv, TypeOK
<1>2. Advances(a) /\ Others
    BY <1>1, StartAdvances
<1>3. \/ attempts' = [attempts EXCEPT ![a].state = "dispatching", ![a].updated = now]
      \/ attempts' = [attempts EXCEPT ![a].state = "held"]
    BY DEF Start
<1>4. /\ \A b \in AttemptIds : b # a => attempts'[b] = attempts[b]
      /\ attempts'[a].estimate = attempts[a].estimate /\ attempts'[a].state \in {"dispatching", "held"}
    BY <1>1, <1>3 DEF AttemptRow
<1>5. RowStep(a)
    BY <1>4, Unchanged, RowStepSpares DEF Start
<1>6. \A n \in Accounts : Counted(a, n)
    BY <1>4 DEF Counted, Unseen, UnseenCompletions, Start
<1> QED BY <1>2, <1>4, <1>5, <1>6, AdvanceKeepsQuota

LEMMA HoldKeepsDebits ==
  ASSUME LedgerInv, QuotaInv, NEW a \in AttemptIds, Hold(a)
  PROVE  QuotaInv'
<1>1. attempts \in [AttemptIds -> AttemptRow] /\ TypeOK
    BY DEF LedgerInv, TypeOK
<1>2. Advances(a) /\ Others
    BY <1>1, HoldAdvances
<1>4. /\ \A b \in AttemptIds : b # a => attempts'[b] = attempts[b]
      /\ attempts'[a].estimate = attempts[a].estimate /\ attempts'[a].state = "held"
    BY <1>1 DEF AttemptRow, Hold
<1>5. RowStep(a)
    BY <1>4, Unchanged, RowStepSpares DEF Hold
<1>6. \A n \in Accounts : Counted(a, n)
    BY <1>4 DEF Counted, Unseen, UnseenCompletions, Hold
<1> QED BY <1>2, <1>4, <1>5, <1>6, AdvanceKeepsQuota

LEMMA AcceptKeepsDebits ==
  ASSUME LedgerInv, QuotaInv, NEW a \in AttemptIds, NEW r, NEW f, Accept(a, r, f)
  PROVE  QuotaInv'
<1>1. attempts \in [AttemptIds -> AttemptRow] /\ TypeOK
    BY DEF LedgerInv, TypeOK
<1>2. Advances(a) /\ Others
    BY <1>1, AcceptAdvances
<1>4. /\ \A b \in AttemptIds : b # a => attempts'[b] = attempts[b]
      /\ attempts'[a].estimate = attempts[a].estimate /\ attempts'[a].state = "accepted"
      /\ attempts'[a].account = attempts[a].account /\ attempts'[a].updated = attempts[a].updated
    BY <1>1 DEF AttemptRow, Accept
<1>5. RowStep(a)
    BY <1>4, Unchanged, RowStepSpares DEF Accept
<1>6. \A n \in Accounts : Counted(a, n)
    BY <1>4, Unchanged DEF Counted, Unseen, UnseenCompletions, Accept, Cost
<1> QED BY <1>2, <1>4, <1>5, <1>6, AdvanceKeepsQuota

LEMMA ResolveKeepsDebits ==
  ASSUME LedgerInv, QuotaInv, NEW a \in AttemptIds, NEW o \in {"released", "consumed"}, Resolve(a, o)
  PROVE  QuotaInv'
<1>1. attempts \in [AttemptIds -> AttemptRow] /\ TypeOK
    BY DEF LedgerInv, TypeOK
<1>2. Advances(a) /\ Others
    BY <1>1, ResolveAdvances
<1>3. attempts[a].account \in Accounts
    BY DEF Resolve, LedgerInv, RowsInv, RowsGrounded, Rows
<1>4. /\ \A b \in AttemptIds : b # a => attempts'[b] = attempts[b]
      /\ attempts'[a].estimate = attempts[a].estimate /\ attempts'[a].state \in {"abandoned", "failed"}
    BY <1>1 DEF AttemptRow, Resolve
<1>5. RowStep(a)
  <2>1. CASE o = "consumed"
    <3>1. Spend(a) /\ UNCHANGED <<accounts, observations>>
        BY <2>1 DEF Resolve
    <3> QED BY <1>1, <1>3, <1>4, <3>1, SpendFacts DEF RowStep
  <2>2. CASE o # "consumed"
      BY <1>4, <2>2, RowStepSpares DEF Resolve
  <2> QED BY <2>1, <2>2
<1>6. \A n \in Accounts : Counted(a, n)
    BY <1>4 DEF Counted, Unseen, UnseenCompletions, Resolve
<1> QED BY <1>2, <1>4, <1>5, <1>6, AdvanceKeepsQuota

\* The one step that makes a completion debits what it reserved.
LEMMA FinishKeepsDebits ==
  ASSUME LedgerInv, QuotaInv, NEW a \in AttemptIds, NEW g, NEW r, Finish(a, g, r)
  PROVE  QuotaInv'
<1>1. attempts \in [AttemptIds -> AttemptRow] /\ TypeOK
    BY DEF LedgerInv, TypeOK
<1>2. Advances(a) /\ Others
    BY <1>1, FinishAdvances
<1>3. attempts[a].account \in Accounts
    BY DEF Finish, LedgerInv, RowsInv, RowsGrounded, Rows
<1>4. /\ \A b \in AttemptIds : b # a => attempts'[b] = attempts[b]
      /\ attempts'[a].estimate = attempts[a].estimate /\ attempts'[a].account = attempts[a].account
    BY <1>1 DEF AttemptRow, Finish
<1>5. RowStep(a)
    BY <1>1, <1>3, <1>4, SpendFacts DEF RowStep, Finish
<1>6. ASSUME NEW n \in Accounts PROVE Counted(a, n) \/ Debits(a, n)
  <2>1. a \notin Unseen(n)
      BY DEF Unseen, UnseenCompletions, Finish
  <2>2. CASE n # attempts[a].account
      BY <1>4, <2>1, <2>2 DEF Counted, Unseen, UnseenCompletions
  <2>3. CASE n = attempts[a].account
    <3>1. \A w \in DOMAIN windows[n] : windows'[n][w] = Debited(windows[n][w], Cost(a, w)')
      <4>1. \A w : Cost(a, w)' = Cost(a, w)
          BY <1>4 DEF Cost
      <4> QED BY <1>1, <1>3, <2>3, <4>1, SpendFacts DEF Finish
    <3>2. \A w \in DOMAIN windows[n] : windows'[n][w] <= Debited(windows[n][w], Cost(a, w)')
      <4>1. \A w \in DOMAIN windows[n] : windows[n][w] \in Nat => windows'[n][w] \in Nat
          BY <1>5 DEF RowStep
      <4>2. CASE Observed(n)
          BY <3>1, <4>1, <4>2 DEF QuotaInv, AccountsObserved
      <4>3. CASE ~Observed(n)
        <5>1. FALSE
          <6>1. a \in ActiveRows
              BY DEF Finish, ActiveRows, ACTIVE
          <6> QED BY <2>3, <4>3, <6>1 DEF QuotaInv, RowsCost
        <5> QED BY <5>1
      <4> QED BY <4>2, <4>3
    <3> QED BY <2>1, <3>2 DEF Counted, Debits
  <2> QED BY <2>2, <2>3
<1> QED BY <1>2, <1>4, <1>5, <1>6, AdvanceKeepsQuota

\* What a claim reserves costs something in every window.
LEMMA ClaimKeepsDebits ==
  ASSUME LedgerInv, QuotaInv, NEW a \in AttemptIds, NEW t \in TaskIds, NEW alias \in Accounts,
         NEW e \in Estimates, Claim(a, t, alias, e)
  PROVE  QuotaInv'
<1> DEFINE n == aliases[alias]
<1>1. attempts \in [AttemptIds -> AttemptRow] /\ TypeOK /\ accounts \in [Accounts -> AccountRow]
    BY DEF LedgerInv, TypeOK
<1>2. n \in Accounts /\ Observed(n)
  <2>1. n \in Accounts /\ accounts[n].capacity >= 1
      BY DEF Claim, LedgerInv, AliasesCanonical, TypeOK
  <2> QED BY <2>1 DEF QuotaInv, AccountsObserved
<1>3. \A w \in DOMAIN e : e[w] \in Nat \ {0}
    BY EstimateAssumption DEF Claim
<1>4. /\ \A b \in AttemptIds : b # a => attempts'[b] = attempts[b]
      /\ attempts'[a].estimate = e /\ attempts'[a].account = n /\ attempts'[a].state = "queued"
      /\ attempts[a].state = "absent"
    BY <1>1 DEF Claim
<1>5. RowStep(a)
    BY <1>1, <1>4 DEF RowStep, Claim, NextGeneration, AccountRow
<1>6. \A m \in Accounts : Counted(a, m)
    BY <1>4 DEF Counted, Unseen, UnseenCompletions
<1>7. \A w : Cost(a, w)' \in Nat
    BY <1>3, <1>4 DEF Cost
<1>8. RowsCost'
    BY <1>2, <1>3, <1>4 DEF RowsCost, QuotaInv, ActiveRows, Observed, Claim
<1> QED BY <1>1, <1>5, <1>6, <1>7, <1>8, RowStepKeepsDebits DEF QuotaInv

\* Work from outside reserves nothing.
LEMMA ExternalKeepsDebits ==
  ASSUME LedgerInv, QuotaInv, NEW a \in AttemptIds, NEW t, NEW n \in Accounts, NEW s, NEW r, NEW c, NEW ok,
         RecordExternal(a, t, n, s, r, c, ok)
  PROVE  QuotaInv'
<1>1. attempts \in [AttemptIds -> AttemptRow] /\ TypeOK
    BY DEF LedgerInv, TypeOK
<1>2. /\ \A b \in AttemptIds : b # a => attempts'[b] = attempts[b]
      /\ attempts'[a].estimate = <<>> /\ attempts'[a].account = n /\ attempts'[a].state = "completed"
      /\ attempts[a].state = "absent"
    BY <1>1 DEF RecordExternal
<1>3. RowStep(a)
    BY <1>2, Unchanged, RowStepSpares DEF RecordExternal
<1>4. \A w : Cost(a, w)' = 0
    BY <1>2 DEF Cost
<1>5. ASSUME NEW m \in Accounts PROVE Counted(a, m) \/ Debits(a, m)
  <2>1. a \notin Unseen(m)
      BY <1>2 DEF Unseen, UnseenCompletions
  <2>2. CASE Observed(m)
    <3>1. \A w \in DOMAIN windows[m] : windows'[m][w] <= Debited(windows[m][w], Cost(a, w)')
        BY <1>3, <1>4, <2>2, DebitedFacts DEF QuotaInv, AccountsObserved, RowStep
    <3> QED BY <2>1, <3>1 DEF Counted, Debits
  <2>3. CASE m = n
    <3>1. Observed(n)
        BY DEF RecordExternal, QuotaInv, AccountsObserved
    <3> QED BY <2>2, <2>3, <3>1
  <2>4. CASE m # n
      BY <1>2, <2>1, <2>4 DEF Counted, Unseen, UnseenCompletions
  <2> QED BY <2>3, <2>4
<1>6. RowsCost'
    BY <1>2, Unchanged DEF RowsCost, QuotaInv, ActiveRows, ACTIVE, Observed, RecordExternal
<1> QED BY <1>1, <1>3, <1>4, <1>5, <1>6, RowStepKeepsDebits DEF QuotaInv

LEMMA NextQuotaInv == LedgerInv /\ QuotaInv /\ [Next]_vars => QuotaInv'
<1> SUFFICES ASSUME LedgerInv, QuotaInv, [Next]_vars PROVE QuotaInv'
    OBVIOUS
<1> USE Unchanged
<1>0. TypeOK
    BY DEF LedgerInv
<1>1. CASE Tick \/ Cooldown \/ SubmitTask \/ Evaluate \/ ExternalOutcome \/ ExternalLost \/ UNCHANGED vars
  <2>1. UNCHANGED <<accounts, windows, observations, attempts>>
      BY <1>1 DEF Tick, Cooldown, Defer, SubmitTask, Submit, Evaluate, RecordOutcome, ExternalOutcome,
         RecordExternalOutcome, ExternalLost, ExternalOutcomeLost
  <2> QED BY <1>0, <2>1, QuietKeepsDebits
<1>2. CASE Observe
    BY <1>0, <1>2, ConfigureKeepsDebits DEF Observe
<1>3. CASE Admit
    BY <1>3, ClaimKeepsDebits DEF Admit
<1>4. CASE Dispatch
    BY <1>4, StartKeepsDebits DEF Dispatch
<1>5. CASE HoldAttempt
    BY <1>5, HoldKeepsDebits DEF HoldAttempt
<1>6. CASE Complete
    BY <1>6, FinishKeepsDebits DEF Complete
<1>7. CASE ResolveHold
    BY <1>7, ResolveKeepsDebits DEF ResolveHold
<1>8. CASE AcceptReviewed
    BY <1>8, AcceptKeepsDebits DEF AcceptReviewed
<1>9. CASE External
    BY <1>9, ExternalKeepsDebits DEF External
<1> QED BY <1>1, <1>2, <1>3, <1>4, <1>5, <1>6, <1>7, <1>8, <1>9 DEF Next

\* What is left of an account's quota is bounded by its last reading and what completed since.
THEOREM QuotaInvariant == Spec => []QuotaInv
<1>1. Spec => []LedgerInv
    BY LedgerInvariant
<1> QED BY <1>1, QuotaBegins, NextQuotaInv, PTL DEF Spec

\* A reading taken before an attempt completed cannot give its quota back, in whatever order
\* readings and completions arrive (configure_account and finish in ledger.py).
THEOREM DebitsAreKept == Spec => []NoErasedDebit
<1>1. QuotaInv => NoErasedDebit
    BY DEF QuotaInv
<1> QED BY <1>1, QuotaInvariant, PTL

LEMMA DispatchFits ==
  ASSUME LedgerInv, QuotaInv, Next, NEW a \in AttemptIds, Dispatches(a)
  PROVE  LET n == attempts[a].account IN
         /\ Cardinality(ActiveOn(n)) <= observations[n].snapshot.capacity
         /\ \A w \in DOMAIN observations[n].snapshot.windows :
              Total(ActiveOn(n) \cup Unseen(n), w) <= observations[n].snapshot.windows[w]
<1> DEFINE n == attempts[a].account
<1>0. TypeOK /\ attempts \in [AttemptIds -> AttemptRow]
    BY DEF LedgerInv, TypeOK
<1>1. attempts[a].state = "queued" /\ StillAdmissible(a)
  <2>1. PICK b \in AttemptIds, g \in Generations : Start(b, g)
      BY <1>0, DispatchStarts DEF Dispatch
  <2>2. b = a
      BY <1>0, <2>1 DEF Dispatches, Start, AttemptRow
  <2>3. StillAdmissible(b)
      BY <1>0, <2>1, <2>2 DEF Dispatches, Start, AttemptRow
  <2> QED BY <2>1, <2>2, <2>3 DEF Start
<1>2. n \in Accounts /\ Observed(n) /\ a \in ActiveOn(n)
    BY <1>1 DEF QuotaInv, RowsCost, ActiveOn, ActiveRows, ACTIVE
<1> HIDE DEF n
<1>3. /\ accounts[n].capacity = observations[n].snapshot.capacity
      /\ DOMAIN windows[n] = DOMAIN observations[n].snapshot.windows
      /\ \A w \in DOMAIN windows[n] : windows[n][w] \in Nat
    BY <1>2 DEF QuotaInv, AccountsObserved
<1>4. /\ \A w \in DOMAIN windows[n] : Total(ActiveOn(n), w) <= windows[n][w]
      /\ Cardinality(ActiveOn(n)) <= accounts[n].capacity
      /\ DOMAIN attempts[a].estimate = DOMAIN windows[n]
    BY <1>1, <1>2 DEF StillAdmissible, n
<1>5. ASSUME NEW w \in DOMAIN observations[n].snapshot.windows
      PROVE  Total(ActiveOn(n) \cup Unseen(n), w) <= observations[n].snapshot.windows[w]
  <2> DEFINE left == observations[n].snapshot.windows[w]
             active == ActiveOn(n)
             unseen == Unseen(n)
  <2>1. active \in SUBSET AttemptIds /\ unseen \in SUBSET AttemptIds /\ active \cap unseen = {}
      BY DEF ActiveOn, ActiveRows, ACTIVE, Unseen, UnseenCompletions
  <2>2. left \in Nat /\ w \in DOMAIN windows[n] /\ windows[n][w] \in Nat
      BY <1>0, <1>2, <1>3, SnapshotFacts
  <2>3. windows[n][w] <= Debited(left, Total(unseen, w))
      BY <1>2, <2>2 DEF QuotaInv, NoErasedDebit, Observed
  <2>4. Cost(a, w) \in Nat \ {0}
      BY <1>4, <2>2 DEF QuotaInv, RowsCost, Cost
  <2>5. Total(active, w) <= windows[n][w]
      BY <1>4, <2>2
  <2>6. a \in active
      BY <1>2
  <2> HIDE DEF left, active, unseen
  <2>7. /\ Total(active, w) \in Nat /\ Total(unseen, w) \in Nat /\ Cost(a, w) <= Total(active, w)
        /\ Total(active \cup unseen, w) = Total(active, w) + Total(unseen, w)
    <3>1. RowsCost
        BY DEF QuotaInv
    <3> QED BY <2>1, <2>6, <3>1, TotalFacts
  <2>8. Total(active \cup unseen, w) <= left
      BY <2>2, <2>3, <2>4, <2>5, <2>7 DEF Debited
  <2> QED BY <2>8 DEF left, active, unseen
<1> QED BY <1>3, <1>4, <1>5 DEF n

\* What starts fits the slots and the windows of the provider's own last reading, with all that
\* completed since (start in ledger.py).
THEOREM DispatchesFit == Spec => DispatchWithinObservation
<1> DEFINE Fits ==
      \A a \in AttemptIds : Dispatches(a) =>
        LET n == attempts[a].account IN
        /\ Cardinality(ActiveOn(n)) <= observations[n].snapshot.capacity
        /\ \A w \in DOMAIN observations[n].snapshot.windows :
             Total(ActiveOn(n) \cup Unseen(n), w) <= observations[n].snapshot.windows[w]
<1>1. LedgerInv /\ QuotaInv /\ [Next]_vars => [Fits]_vars
    BY DispatchFits
<1> QED BY <1>1, LedgerInvariant, QuotaInvariant, PTL DEF Spec, DispatchWithinObservation
-----------------------------------------------------------------------------
(* Workers around the ledger: the inductive invariant *)

Pcs == {"idle", "staging", "running", "stopping", "checking", "finishing", "failing", "killing"}
JobRow == [pc : Pcs, attempt : AttemptIds \cup {NoTask}, generation : Nat,
           receipt : Receipts \cup {NoReceipt}]

\* Type correctness of the variables around the ledger.
GridTypeOK ==
  /\ job \in [Workers -> JobRow]
  /\ adapter \in [AttemptIds -> {"none", "alive", "exited", "stopped"}]
  /\ launches \in [AttemptIds -> Nat]
  /\ pass \in [queue : SUBSET TaskIds, candidate : Nat \ {0}]
  /\ sweep \subseteq AttemptIds

Busy(p) == job[p].pc # "idle"
Begun(a) == attempts[a].state \notin {"absent", "queued"}

\* A busy worker holds an attempt that start() let run, and no other worker holds it.
Holds(p) ==
  /\ job[p].attempt \in AttemptIds /\ Begun(job[p].attempt)
  /\ \A q \in Workers : Busy(q) /\ job[q].attempt = job[p].attempt => q = p

\* It knows what it did to the adapter and to the ledger.
Knows(p) ==
  /\ job[p].pc = "staging" => launches[job[p].attempt] = 0 /\ adapter[job[p].attempt] = "none"
  /\ job[p].pc \in {"checking", "finishing"} => adapter[job[p].attempt] = "stopped"
  /\ job[p].pc = "finishing" => job[p].receipt \in Receipts
  /\ job[p].pc = "killing" => attempts[job[p].attempt].state # "dispatching"

JobsInv == \A p \in Workers : Busy(p) => Holds(p) /\ Knows(p)

\* An attempt that was never started has no adapter.
UnbegunInv == \A a \in AttemptIds : ~Begun(a) => launches[a] = 0 /\ adapter[a] = "none"

GridInv ==
  /\ TypeOK /\ GridTypeOK
  /\ JobsInv
  /\ UnbegunInv
  /\ LaunchOnce
  /\ CompletedIsStopped
-----------------------------------------------------------------------------
(* Steps of the ledger, as the workers see them *)

\* Nothing that began is taken back or dispatched again.
Onward ==
  \A a \in AttemptIds : Begun(a) =>
    /\ attempts'[a].state \notin {"absent", "queued"}
    /\ attempts[a].state # "dispatching" => attempts'[a].state # "dispatching"

\* Nothing completes.
NoneCompletes ==
  \A a \in AttemptIds : attempts'[a].state \in {"completed", "accepted"} =>
                          attempts[a].state \in {"completed", "accepted"}

LEMMA QuietLedger == attempts' = attempts => Onward /\ NoneCompletes
BY DEF Onward, NoneCompletes, Begun

LEMMA StartOnward ==
  ASSUME TypeOK, NEW a \in AttemptIds, NEW g, Start(a, g)
  PROVE  /\ Onward /\ NoneCompletes
         /\ ~Begun(a) /\ attempts'[a].state \in {"dispatching", "held"}
<1>1. attempts \in [AttemptIds -> AttemptRow]
  BY DEF TypeOK
<1>2. \/ attempts' = [attempts EXCEPT ![a].state = "dispatching", ![a].updated = now]
      \/ attempts' = [attempts EXCEPT ![a].state = "held"]
  BY DEF Start
<1>3. attempts[a].state = "queued"
  BY DEF Start
<1> QED BY <1>1, <1>2, <1>3 DEF Onward, NoneCompletes, Begun, AttemptRow

LEMMA ClaimOnward ==
  ASSUME TypeOK, NEW a \in AttemptIds, NEW t, NEW n, NEW e, Claim(a, t, n, e)
  PROVE  Onward /\ NoneCompletes
<1>1. attempts \in [AttemptIds -> AttemptRow]
  BY DEF TypeOK
<1>2. attempts[a].state = "absent" /\ attempts'[a].state = "queued"
      /\ \A b \in AttemptIds \ {a} : attempts'[b] = attempts[b]
  BY <1>1 DEF Claim
<1> QED BY <1>2 DEF Onward, NoneCompletes, Begun

LEMMA HoldOnward ==
  ASSUME TypeOK, NEW a \in AttemptIds, HoldIfDispatching(a)
  PROVE  Onward /\ NoneCompletes /\ attempts'[a].state # "dispatching"
<1>1. attempts \in [AttemptIds -> AttemptRow]
  BY DEF TypeOK
<1>2. CASE attempts[a].state = "dispatching"
  BY <1>1, <1>2 DEF HoldIfDispatching, Hold, Onward, NoneCompletes, Begun, AttemptRow
<1>3. CASE attempts[a].state # "dispatching"
  BY <1>3, QuietLedger DEF HoldIfDispatching, vars
<1> QED BY <1>2, <1>3

LEMMA ResolveOnward ==
  ASSUME TypeOK, NEW a \in AttemptIds, NEW o, Resolve(a, o)
  PROVE  Onward /\ NoneCompletes
<1>1. attempts \in [AttemptIds -> AttemptRow]
  BY DEF TypeOK
<1> QED BY <1>1 DEF Resolve, Onward, NoneCompletes, Begun, AttemptRow

LEMMA AcceptOnward ==
  ASSUME TypeOK, NEW a \in AttemptIds, NEW r, NEW f, Accept(a, r, f)
  PROVE  Onward /\ NoneCompletes
<1>1. attempts \in [AttemptIds -> AttemptRow]
  BY DEF TypeOK
<1> QED BY <1>1 DEF Accept, Onward, NoneCompletes, Begun, AttemptRow
-----------------------------------------------------------------------------
(* Every step of the grid is a step of the ledger *)

LEMMA FinishJobFinishes ==
  ASSUME GridTypeOK, JobsInv, NEW p \in Workers, FinishJob(p)
  PROVE  [Next]_vars
<1>1. CASE attempts[job[p].attempt].state = "dispatching"
  <2> DEFINE a == job[p].attempt
             g == job[p].generation
             r == job[p].receipt
  <2>1. Finish(a, g, r)
    BY <1>1 DEF FinishJob
  <2>2. a \in AttemptIds /\ r \in Receipts
    BY DEF FinishJob, At, JobsInv, Busy, Holds, Knows
  <2>3. g = attempts[a].generation
    BY <2>1 DEF Finish
  <2>4. g \in Generations
    BY <2>2, <2>3 DEF Generations
  <2> HIDE DEF a, g, r
  <2>5. Complete
    BY <2>1, <2>2, <2>4 DEF Complete
  <2> QED BY <2>5 DEF Next
<1>2. CASE attempts[job[p].attempt].state # "dispatching"
  BY <1>2 DEF FinishJob
<1> QED BY <1>1, <1>2

LEMMA HoldsAreLedgerSteps ==
  ASSUME NEW a \in AttemptIds, HoldIfDispatching(a)
  PROVE  [Next]_vars
BY DEF HoldIfDispatching, HoldAttempt, Next

\* A candidate names an account and a reservation that claim() may be asked for.
LEMMA CandidateTyped ==
  ASSUME NEW t \in TaskIds, NEW i \in Nat \ {0}, i <= Len(Candidates[t])
  PROVE  Candidates[t][i].account \in Accounts /\ Candidates[t][i].estimate \in Estimates
<1> DEFINE C == [account : Accounts, estimate : Estimates]
           s == Candidates[t]
<1>1. s \in Seq(C)
  BY CandidateAssumption
<1>0. i <= Len(s)
  OBVIOUS
<1> HIDE DEF C, s
<1>2. s[i] \in C
  BY <1>0, <1>1
<1> QED BY <1>2 DEF C, s

LEMMA TryCandidateClaims ==
  ASSUME GridTypeOK, TryCandidate
  PROVE  \/ UNCHANGED vars
         \/ \E a \in AttemptIds, t \in TaskIds, n \in Accounts, e \in Estimates :
              Claim(a, t, n, e)
<1>1. PICK t \in pass.queue :
        \/ UNCHANGED vars
        \/ /\ pass.candidate <= Len(Candidates[t])
           /\ \E a \in AttemptIds :
                Claim(a, t, Candidates[t][pass.candidate].account,
                      Candidates[t][pass.candidate].estimate)
  BY DEF TryCandidate
<1>2. t \in TaskIds /\ pass.candidate \in Nat \ {0}
  BY DEF GridTypeOK
<1>3. CASE UNCHANGED vars
  BY <1>3
<1>4. CASE /\ pass.candidate <= Len(Candidates[t])
           /\ \E a \in AttemptIds :
                Claim(a, t, Candidates[t][pass.candidate].account,
                      Candidates[t][pass.candidate].estimate)
  <2>1. Candidates[t][pass.candidate].account \in Accounts
        /\ Candidates[t][pass.candidate].estimate \in Estimates
    BY <1>2, <1>4, CandidateTyped
  <2> QED BY <1>2, <1>4, <2>1
<1> QED BY <1>1, <1>3, <1>4

LEMMA GridStepIsLedgerStep ==
  ASSUME GridTypeOK, JobsInv, [GridNext]_gridVars
  PROVE  [Next]_vars
<1>1. CASE (Tick \/ Caller) /\ UNCHANGED <<workerVars, callerVars>>
  BY <1>1 DEF Caller, ResolveEnded, ResolveHold, Next
<1>2. CASE TickBegins
  BY <1>2 DEF TickBegins
<1>3. CASE TryCandidate
  BY <1>3, TryCandidateClaims DEF Next, Admit
<1>4. CASE \E before \in 0..(now + 1) : SweepReads(before)
  BY <1>4 DEF SweepReads
<1>5. CASE \E a \in sweep : SweepHolds(a)
  BY <1>5, HoldsAreLedgerSteps DEF SweepHolds, GridTypeOK
<1>6. CASE \E p \in Workers, a \in AttemptIds, g \in Generations : Execute(p, a, g)
  BY <1>6 DEF Execute, Dispatch, Next
<1>7. ASSUME NEW p \in Workers, WorkerStep(p)
      PROVE  [Next]_vars
  <2>1. CASE FinishJob(p)
    BY <2>1, FinishJobFinishes
  <2>2. CASE HoldJob(p)
    <3>1. job[p].attempt \in AttemptIds /\ HoldIfDispatching(job[p].attempt)
      BY <2>2 DEF HoldJob, At, JobsInv, Busy, Holds
    <3> QED BY <3>1, HoldsAreLedgerSteps
  <2>3. CASE \/ Launch(p) \/ StagingFails(p) \/ SeeExit(p) \/ GiveUp(p)
             \/ StopGroup(p) \/ CheckReceipt(p) \/ KillAdapter(p)
    BY <2>3 DEF Launch, StagingFails, SeeExit, GiveUp, StopGroup, CheckReceipt, KillAdapter,
                LedgerUntouched
  <2> QED BY <1>7, <2>1, <2>2, <2>3 DEF WorkerStep
<1>8. CASE \E p \in Workers : Crash(p)
  BY <1>8 DEF Crash, LedgerUntouched
<1>9. CASE \E a \in AttemptIds : AdapterExits(a)
  BY <1>9 DEF AdapterExits, LedgerUntouched
<1>10. CASE UNCHANGED gridVars
  BY <1>10 DEF gridVars
<1> QED BY <1>1, <1>2, <1>3, <1>4, <1>5, <1>6, <1>7, <1>8, <1>9, <1>10 DEF GridNext
-----------------------------------------------------------------------------
(* The invariant is inductive *)

\* The variables around the ledger stay well typed.
LEMMA JobUpdates ==
  ASSUME NEW row \in JobRow, NEW pc \in Pcs, NEW r \in Receipts \cup {NoReceipt}
  PROVE  [row EXCEPT !.pc = pc] \in JobRow /\ [row EXCEPT !.pc = pc, !.receipt = r] \in JobRow
BY DEF JobRow

LEMMA IdleTyped == Idle \in JobRow /\ Idle.pc = "idle"
BY DEF Idle, JobRow, Pcs

\* One job moves to a place of its own.
LEMMA GotoTyped ==
  ASSUME GridTypeOK, NEW p \in Workers, NEW pc \in Pcs, Goto(p, pc)
  PROVE  /\ job' \in [Workers -> JobRow]
         /\ \A q \in Workers \ {p} : job'[q] = job[q]
         /\ job'[p].pc = pc /\ job'[p].attempt = job[p].attempt
         /\ job'[p].receipt = job[p].receipt
<1>1. job \in [Workers -> JobRow] /\ job[p] \in JobRow
  BY DEF GridTypeOK
<1>2. job' = [job EXCEPT ![p] = [job[p] EXCEPT !.pc = pc]]
  BY <1>1 DEF Goto
<1>3. job'[p] = [job[p] EXCEPT !.pc = pc] /\ \A q \in Workers \ {p} : job'[q] = job[q]
  BY <1>1, <1>2
<1>4. [job[p] EXCEPT !.pc = pc] \in JobRow
  BY <1>1, JobUpdates
<1>5. job' \in [Workers -> JobRow]
  BY <1>1, <1>2, <1>4
<1>6. /\ [job[p] EXCEPT !.pc = pc].pc = pc
      /\ [job[p] EXCEPT !.pc = pc].attempt = job[p].attempt
      /\ [job[p] EXCEPT !.pc = pc].receipt = job[p].receipt
  BY <1>1 DEF JobRow
<1> QED BY <1>3, <1>5, <1>6

\* One job ends.
LEMMA IdleAgain ==
  ASSUME GridTypeOK, NEW p \in Workers, job' = [job EXCEPT ![p] = Idle]
  PROVE  /\ job' \in [Workers -> JobRow]
         /\ \A q \in Workers \ {p} : job'[q] = job[q]
         /\ job'[p] = Idle /\ job'[p].pc = "idle"
BY IdleTyped DEF GridTypeOK

\* A step of the ledger that no worker takes part in keeps what the workers know.
LEMMA QuietWorkers ==
  ASSUME GridInv, UNCHANGED workerVars, Onward, NoneCompletes
  PROVE  JobsInv' /\ UnbegunInv' /\ LaunchOnce' /\ CompletedIsStopped'
<1>0. job' = job /\ adapter' = adapter /\ launches' = launches
  BY DEF workerVars
<1>1. JobsInv'
  <2> SUFFICES ASSUME NEW p \in Workers, Busy(p)'
               PROVE  Holds(p)' /\ Knows(p)'
    BY DEF JobsInv
  <2>1. Busy(p) /\ Holds(p) /\ Knows(p)
    BY <1>0 DEF GridInv, JobsInv, Busy
  <2>2. Holds(p)'
    BY <1>0, <2>1 DEF Holds, Begun, Onward, Busy
  <2>3. job[p].pc = "killing" => attempts'[job[p].attempt].state # "dispatching"
    BY <2>1 DEF Holds, Knows, Onward
  <2>4. Knows(p)'
    BY <1>0, <2>1, <2>3 DEF Knows
  <2> QED BY <2>2, <2>4
<1>2. UnbegunInv'
  BY <1>0 DEF GridInv, UnbegunInv, Begun, Onward
<1>3. LaunchOnce' /\ CompletedIsStopped'
  BY <1>0 DEF GridInv, LaunchOnce, CompletedIsStopped, NoneCompletes
<1> QED BY <1>1, <1>2, <1>3

\* A step of one busy worker keeps what the others know, and its own hold.
LEMMA OtherWorkers ==
  ASSUME GridInv, NEW p \in Workers, Busy(p), Onward,
         \A q \in Workers \ {p} : job'[q] = job[q],
         job'[p].pc # "idle" => job'[p].attempt = job[p].attempt,
         \A a \in AttemptIds \ {job[p].attempt} :
           adapter'[a] = adapter[a] /\ launches'[a] = launches[a]
  PROVE  /\ \A q \in Workers \ {p} : Busy(q)' => Holds(q)' /\ Knows(q)'
         /\ Busy(p)' => Holds(p)'
         /\ UnbegunInv'
<1>1. Holds(p) /\ Knows(p)
  BY DEF GridInv, JobsInv
<1>2. ASSUME NEW q \in Workers \ {p}, Busy(q)'
      PROVE  Holds(q)' /\ Knows(q)'
  <2>1. job'[q] = job[q] /\ Busy(q) /\ Holds(q) /\ Knows(q)
    BY <1>2 DEF GridInv, JobsInv, Busy
  <2>2. job[q].attempt # job[p].attempt
    BY <2>1, <1>1 DEF Holds
  <2>3. /\ adapter'[job[q].attempt] = adapter[job[q].attempt]
        /\ launches'[job[q].attempt] = launches[job[q].attempt]
    BY <2>1, <2>2 DEF Holds
  <2>4. \A x \in Workers : Busy(x)' /\ job'[x].attempt = job'[q].attempt => x = q
    BY <2>1, <2>2 DEF Holds, Busy
  <2>5. Holds(q)'
    BY <2>1, <2>4 DEF Holds, Begun, Onward
  <2>6. job[q].pc = "killing" => attempts'[job[q].attempt].state # "dispatching"
    BY <2>1 DEF Holds, Knows, Onward
  <2>7. Knows(q)'
    BY <2>1, <2>3, <2>6 DEF Knows
  <2> QED BY <2>5, <2>7
<1>3. ASSUME Busy(p)'
      PROVE  Holds(p)'
  <2>1. job'[p].attempt = job[p].attempt
    BY <1>3 DEF Busy
  <2>2. \A x \in Workers : Busy(x)' /\ job'[x].attempt = job'[p].attempt => x = p
    BY <1>1, <2>1 DEF Holds, Busy
  <2> QED BY <1>1, <2>1, <2>2 DEF Holds, Begun, Onward
<1>4. UnbegunInv'
  BY <1>1 DEF GridInv, UnbegunInv, Holds, Begun, Onward
<1> QED BY <1>2, <1>3, <1>4
\* What is left to show of a step of worker p once it holds on: what p itself knows.
LEMMA WorkerMoves ==
  ASSUME GridInv, NEW p \in Workers, Busy(p), Onward,
         job' \in [Workers -> JobRow],
         \A q \in Workers \ {p} : job'[q] = job[q],
         job'[p].pc # "idle" => job'[p].attempt = job[p].attempt,
         \A a \in AttemptIds \ {job[p].attempt} :
           adapter'[a] = adapter[a] /\ launches'[a] = launches[a],
         UNCHANGED callerVars,
         adapter' \in [AttemptIds -> {"none", "alive", "exited", "stopped"}],
         launches' \in [AttemptIds -> Nat],
         job'[p].pc # "idle" => Knows(p)'
  PROVE  GridTypeOK' /\ JobsInv' /\ UnbegunInv'
<1>1. /\ \A q \in Workers \ {p} : Busy(q)' => Holds(q)' /\ Knows(q)'
      /\ Busy(p)' => Holds(p)'
      /\ UnbegunInv'
  BY OtherWorkers
<1>2. JobsInv'
  BY <1>1 DEF JobsInv, Busy
<1>3. GridTypeOK'
  BY DEF GridInv, GridTypeOK, callerVars
<1> QED BY <1>1, <1>2, <1>3

\* What the steps of a worker keep, besides the types of the ledger.
WorkersInv == GridTypeOK /\ JobsInv /\ UnbegunInv /\ LaunchOnce /\ CompletedIsStopped

LEMMA SameAdapters ==
  ASSUME GridInv, NEW p \in Workers, Busy(p), UNCHANGED <<adapter, launches>>,
         UNCHANGED callerVars, Onward, NoneCompletes, NEW pc \in Pcs \ {"idle"},
         Goto(p, pc), pc \notin {"staging", "checking", "finishing"},
         pc = "killing" => attempts'[job[p].attempt].state # "dispatching"
  PROVE  WorkersInv'
<1>1. GridTypeOK /\ adapter' = adapter /\ launches' = launches
  BY DEF GridInv
<1>2. /\ job' \in [Workers -> JobRow]
      /\ \A q \in Workers \ {p} : job'[q] = job[q]
      /\ job'[p].pc = pc /\ job'[p].attempt = job[p].attempt
  BY <1>1, GotoTyped
<1>3. Knows(p)'
  BY <1>2 DEF Knows
<1>4. GridTypeOK' /\ JobsInv' /\ UnbegunInv'
  <2>1. /\ adapter' \in [AttemptIds -> {"none", "alive", "exited", "stopped"}]
        /\ launches' \in [AttemptIds -> Nat]
    BY <1>1 DEF GridTypeOK
  <2> QED BY <1>1, <1>2, <1>3, <2>1, WorkerMoves
<1>5. LaunchOnce' /\ CompletedIsStopped'
  BY <1>1 DEF GridInv, LaunchOnce, CompletedIsStopped, NoneCompletes
<1> QED BY <1>4, <1>5 DEF WorkersInv

LEMMA LaunchKeeps ==
  ASSUME GridInv, NEW p \in Workers, Launch(p)
  PROVE  WorkersInv'
<1> DEFINE a == job[p].attempt
<1>1. /\ GridTypeOK /\ job[p].pc = "staging" /\ Busy(p) /\ Holds(p) /\ Knows(p)
      /\ Goto(p, "running") /\ "running" \in Pcs
      /\ attempts' = attempts /\ UNCHANGED callerVars /\ Onward /\ NoneCompletes
  BY QuietLedger DEF Launch, At, Busy, GridInv, JobsInv, LedgerUntouched, vars, Pcs
<1>2. a \in AttemptIds /\ launches[a] = 0 /\ adapter[a] = "none"
  BY <1>1 DEF Holds, Knows
<1>3. /\ adapter' = [adapter EXCEPT ![a] = "alive"]
      /\ launches' = [launches EXCEPT ![a] = launches[a] + 1]
  BY DEF Launch
<1>4. /\ adapter' \in [AttemptIds -> {"none", "alive", "exited", "stopped"}]
      /\ launches' \in [AttemptIds -> Nat] /\ launches'[a] = 1
      /\ \A b \in AttemptIds \ {a} : adapter'[b] = adapter[b] /\ launches'[b] = launches[b]
  BY <1>1, <1>2, <1>3 DEF GridTypeOK
<1>5. /\ job' \in [Workers -> JobRow]
      /\ \A q \in Workers \ {p} : job'[q] = job[q]
      /\ job'[p].pc = "running" /\ job'[p].attempt = a
  BY <1>1, GotoTyped
<1>6. Knows(p)'
  BY <1>5 DEF Knows
<1>7. GridTypeOK' /\ JobsInv' /\ UnbegunInv'
  BY <1>1, <1>4, <1>5, <1>6, WorkerMoves
<1>8. attempts[a].state \notin {"completed", "accepted"}
  BY <1>2 DEF GridInv, CompletedIsStopped
<1>9. LaunchOnce' /\ CompletedIsStopped'
  <2> HIDE DEF a
  <2> QED BY <1>1, <1>4, <1>8 DEF GridInv, LaunchOnce, CompletedIsStopped
<1> QED BY <1>7, <1>9 DEF WorkersInv

LEMMA StopGroupKeeps ==
  ASSUME GridInv, NEW p \in Workers, StopGroup(p)
  PROVE  WorkersInv'
<1> DEFINE a == job[p].attempt
<1>1. /\ GridTypeOK /\ Busy(p) /\ Holds(p) /\ Knows(p) /\ job[p].pc = "stopping"
      /\ "checking" \in Pcs /\ "failing" \in Pcs \ {"idle"}
      /\ attempts' = attempts /\ UNCHANGED callerVars /\ Onward /\ NoneCompletes
      /\ launches' = launches
  BY QuietLedger DEF StopGroup, At, Busy, GridInv, JobsInv, LedgerUntouched, vars, Pcs
<1>2. a \in AttemptIds
  BY <1>1 DEF Holds
<1>3. CASE UNCHANGED adapter /\ Goto(p, "failing")
  BY <1>1, <1>3, SameAdapters
<1>4. CASE adapter' = [adapter EXCEPT ![a] = "stopped"] /\ Goto(p, "checking")
  <2>4. /\ adapter' \in [AttemptIds -> {"none", "alive", "exited", "stopped"}]
        /\ adapter'[a] = "stopped" /\ launches' \in [AttemptIds -> Nat]
        /\ \A b \in AttemptIds \ {a} : adapter'[b] = adapter[b] /\ launches'[b] = launches[b]
    BY <1>1, <1>2, <1>4 DEF GridTypeOK
  <2>5. /\ job' \in [Workers -> JobRow]
        /\ \A q \in Workers \ {p} : job'[q] = job[q]
        /\ job'[p].pc = "checking" /\ job'[p].attempt = a
    BY <1>1, <1>4, GotoTyped
  <2>6. Knows(p)'
    BY <2>4, <2>5 DEF Knows
  <2>7. GridTypeOK' /\ JobsInv' /\ UnbegunInv'
    BY <1>1, <2>4, <2>5, <2>6, WorkerMoves
  <2>8. LaunchOnce' /\ CompletedIsStopped'
    <3> HIDE DEF a
    <3> QED BY <1>1, <2>4 DEF GridInv, LaunchOnce, CompletedIsStopped
  <2> QED BY <2>7, <2>8 DEF WorkersInv
<1> QED BY <1>3, <1>4 DEF StopGroup

LEMMA CheckReceiptKeeps ==
  ASSUME GridInv, NEW p \in Workers, CheckReceipt(p)
  PROVE  WorkersInv'
<1>1. /\ GridTypeOK /\ Busy(p) /\ Holds(p) /\ Knows(p) /\ job[p].pc = "checking"
      /\ "finishing" \in Pcs /\ "failing" \in Pcs \ {"idle"}
      /\ attempts' = attempts /\ UNCHANGED callerVars /\ Onward /\ NoneCompletes
      /\ UNCHANGED <<adapter, launches>>
  BY QuietLedger DEF CheckReceipt, At, Busy, GridInv, JobsInv, LedgerUntouched, vars, Pcs
<1>2. CASE Goto(p, "failing")
  BY <1>1, <1>2, SameAdapters
<1>3. ASSUME NEW r \in Receipts,
             job' = [job EXCEPT ![p].pc = "finishing", ![p].receipt = r]
      PROVE  WorkersInv'
  <2>1. job \in [Workers -> JobRow] /\ job[p] \in JobRow
    BY <1>1 DEF GridTypeOK
  <2> DEFINE row == [job[p] EXCEPT !.pc = "finishing", !.receipt = r]
  <2>2. job' = [job EXCEPT ![p] = row]
    BY <1>3, <2>1
  <2>3. row \in JobRow
    BY <1>1, <2>1, JobUpdates
  <2>4. row.pc = "finishing" /\ row.attempt = job[p].attempt /\ row.receipt = r
    BY <2>1 DEF JobRow
  <2> HIDE DEF row
  <2>5. /\ job' \in [Workers -> JobRow] /\ job'[p] = row
        /\ \A q \in Workers \ {p} : job'[q] = job[q]
    BY <2>1, <2>2, <2>3
  <2>6. adapter[job[p].attempt] = "stopped"
    BY <1>1 DEF Knows
  <2>7. Knows(p)'
    BY <1>1, <1>3, <2>4, <2>5, <2>6 DEF Knows
  <2>8. /\ adapter' \in [AttemptIds -> {"none", "alive", "exited", "stopped"}]
        /\ launches' \in [AttemptIds -> Nat]
    BY <1>1 DEF GridTypeOK
  <2>9. GridTypeOK' /\ JobsInv' /\ UnbegunInv'
    BY <1>1, <2>4, <2>5, <2>7, <2>8, WorkerMoves
  <2>10. LaunchOnce' /\ CompletedIsStopped'
    BY <1>1 DEF GridInv, LaunchOnce, CompletedIsStopped
  <2> QED BY <2>9, <2>10 DEF WorkersInv
<1> QED BY <1>2, <1>3 DEF CheckReceipt

\* A step that ends the job of p, with the adapters of all other attempts as they were.
LEMMA JobEnds ==
  ASSUME GridInv, NEW p \in Workers, Busy(p), Onward, UNCHANGED <<launches, callerVars>>,
         job' = [job EXCEPT ![p] = Idle],
         adapter' \in [AttemptIds -> {"none", "alive", "exited", "stopped"}],
         \A a \in AttemptIds \ {job[p].attempt} : adapter'[a] = adapter[a]
  PROVE  GridTypeOK' /\ JobsInv' /\ UnbegunInv' /\ LaunchOnce'
<1>1. GridTypeOK /\ UNCHANGED callerVars /\ launches' = launches
  BY DEF GridInv
<1>2. /\ job' \in [Workers -> JobRow]
      /\ \A q \in Workers \ {p} : job'[q] = job[q]
      /\ job'[p].pc = "idle"
  BY <1>1, IdleAgain
<1>3. launches' \in [AttemptIds -> Nat]
  BY <1>1 DEF GridTypeOK
<1>4. GridTypeOK' /\ JobsInv' /\ UnbegunInv'
  BY <1>1, <1>2, <1>3, WorkerMoves
<1> QED BY <1>1, <1>4 DEF GridInv, LaunchOnce

LEMMA FinishJobKeeps ==
  ASSUME GridInv, NEW p \in Workers, FinishJob(p)
  PROVE  WorkersInv'
<1> DEFINE a == job[p].attempt
<1>1. /\ TypeOK /\ GridTypeOK /\ Busy(p) /\ Holds(p) /\ Knows(p) /\ job[p].pc = "finishing"
      /\ UNCHANGED callerVars /\ UNCHANGED <<adapter, launches>>
  BY DEF FinishJob, At, Busy, GridInv, JobsInv
<1>2. a \in AttemptIds /\ adapter[a] = "stopped"
  BY <1>1 DEF Holds, Knows
<1>3. CASE attempts[a].state = "dispatching"
  <2>1. Finish(a, job[p].generation, job[p].receipt) /\ job' = [job EXCEPT ![p] = Idle]
    BY <1>3 DEF FinishJob
  <2>2. attempts \in [AttemptIds -> AttemptRow]
    BY <1>1 DEF TypeOK
  <2>3. Onward /\ \A b \in AttemptIds \ {a} : attempts'[b] = attempts[b]
    BY <1>2, <1>3, <2>1, <2>2 DEF Finish, Onward, Begun, AttemptRow
  <2>4. adapter' \in [AttemptIds -> {"none", "alive", "exited", "stopped"}]
    BY <1>1 DEF GridTypeOK
  <2>5. GridTypeOK' /\ JobsInv' /\ UnbegunInv' /\ LaunchOnce'
    BY <1>1, <2>1, <2>3, <2>4, JobEnds
  <2>6. CompletedIsStopped'
    <3> HIDE DEF a
    <3> QED BY <1>1, <1>2, <2>3 DEF GridInv, CompletedIsStopped
  <2> QED BY <2>5, <2>6 DEF WorkersInv
<1>4. CASE attempts[a].state # "dispatching"
  <2>1. Goto(p, "failing") /\ attempts' = attempts
    BY <1>4 DEF FinishJob, Goto, vars
  <2>2. Onward /\ NoneCompletes /\ "failing" \in Pcs \ {"idle"}
    BY <2>1, QuietLedger DEF Pcs
  <2> QED BY <1>1, <2>1, <2>2, SameAdapters
<1> QED BY <1>3, <1>4

LEMMA HoldJobKeeps ==
  ASSUME GridInv, NEW p \in Workers, HoldJob(p)
  PROVE  WorkersInv'
<1>1. /\ TypeOK /\ GridTypeOK /\ Busy(p) /\ Holds(p)
      /\ Goto(p, "killing") /\ "killing" \in Pcs \ {"idle"}
      /\ HoldIfDispatching(job[p].attempt)
      /\ UNCHANGED callerVars /\ UNCHANGED <<adapter, launches>>
  BY DEF HoldJob, At, Busy, GridInv, JobsInv, Pcs
<1>2. job[p].attempt \in AttemptIds
  BY <1>1 DEF Holds
<1>3. Onward /\ NoneCompletes /\ attempts'[job[p].attempt].state # "dispatching"
  BY <1>1, <1>2, HoldOnward
<1> QED BY <1>1, <1>3, SameAdapters

LEMMA KillAdapterKeeps ==
  ASSUME GridInv, NEW p \in Workers, KillAdapter(p)
  PROVE  WorkersInv'
<1> DEFINE a == job[p].attempt
<1>1. /\ GridTypeOK /\ Busy(p) /\ Holds(p)
      /\ attempts' = attempts /\ UNCHANGED <<launches, callerVars>> /\ Onward
      /\ job' = [job EXCEPT ![p] = Idle]
      /\ adapter' = [adapter EXCEPT ![a] =
                       IF adapter[a] \in {"alive", "exited"} THEN "stopped" ELSE adapter[a]]
  BY QuietLedger DEF KillAdapter, At, Busy, GridInv, JobsInv, LedgerUntouched, vars
<1>2. a \in AttemptIds
  BY <1>1 DEF Holds
<1>3. /\ adapter' \in [AttemptIds -> {"none", "alive", "exited", "stopped"}]
      /\ \A b \in AttemptIds \ {a} : adapter'[b] = adapter[b]
      /\ adapter[a] = "stopped" => adapter'[a] = "stopped"
  BY <1>1, <1>2 DEF GridTypeOK
<1>4. GridTypeOK' /\ JobsInv' /\ UnbegunInv' /\ LaunchOnce'
  BY <1>1, <1>3, JobEnds
<1>5. CompletedIsStopped'
  <2> HIDE DEF a
  <2> QED BY <1>1, <1>3 DEF GridInv, CompletedIsStopped
<1> QED BY <1>4, <1>5 DEF WorkersInv

LEMMA CrashKeeps ==
  ASSUME GridInv, NEW p \in Workers, Crash(p)
  PROVE  WorkersInv'
<1>1. /\ GridTypeOK /\ Busy(p) /\ attempts' = attempts
      /\ UNCHANGED <<launches, callerVars>> /\ Onward
      /\ job' = [job EXCEPT ![p] = Idle] /\ adapter' = adapter
  BY QuietLedger DEF Crash, At, Busy, GridInv, LedgerUntouched, vars
<1>2. adapter' \in [AttemptIds -> {"none", "alive", "exited", "stopped"}]
  BY <1>1 DEF GridTypeOK
<1>3. GridTypeOK' /\ JobsInv' /\ UnbegunInv' /\ LaunchOnce'
  BY <1>1, <1>2, JobEnds
<1>4. CompletedIsStopped'
  BY <1>1 DEF GridInv, CompletedIsStopped
<1> QED BY <1>3, <1>4 DEF WorkersInv

LEMMA WorkerStepKeeps ==
  ASSUME GridInv, NEW p \in Workers, WorkerStep(p)
  PROVE  WorkersInv'
<1>1. CASE StagingFails(p)
  <2>1. /\ Busy(p) /\ Goto(p, "failing") /\ "failing" \in Pcs \ {"idle"}
        /\ UNCHANGED <<adapter, launches>> /\ UNCHANGED callerVars /\ Onward /\ NoneCompletes
    BY <1>1, QuietLedger DEF StagingFails, At, Busy, LedgerUntouched, vars, Pcs
  <2> QED BY <2>1, SameAdapters
<1>2. CASE SeeExit(p)
  <2>1. /\ Busy(p) /\ Goto(p, "stopping") /\ "stopping" \in Pcs \ {"idle"}
        /\ UNCHANGED <<adapter, launches>> /\ UNCHANGED callerVars /\ Onward /\ NoneCompletes
    BY <1>2, QuietLedger DEF SeeExit, At, Busy, LedgerUntouched, vars, Pcs
  <2> QED BY <2>1, SameAdapters
<1>3. CASE GiveUp(p)
  <2>1. /\ Busy(p) /\ Goto(p, "failing") /\ "failing" \in Pcs \ {"idle"}
        /\ UNCHANGED <<adapter, launches>> /\ UNCHANGED callerVars /\ Onward /\ NoneCompletes
    BY <1>3, QuietLedger DEF GiveUp, At, Busy, LedgerUntouched, vars, Pcs
  <2> QED BY <2>1, SameAdapters
<1> QED
  BY <1>1, <1>2, <1>3, LaunchKeeps, StopGroupKeeps, CheckReceiptKeeps, FinishJobKeeps,
     HoldJobKeeps, KillAdapterKeeps DEF WorkerStep

\* start() hands the attempt to one worker: nobody holds an attempt that has not begun.
LEMMA ExecuteKeeps ==
  ASSUME GridInv, NEW p \in Workers, NEW a \in AttemptIds, NEW g \in Generations,
         Execute(p, a, g)
  PROVE  WorkersInv'
<1>1. /\ TypeOK /\ GridTypeOK /\ ~Busy(p) /\ Start(a, g)
      /\ adapter' = adapter /\ launches' = launches /\ UNCHANGED callerVars
  BY DEF Execute, At, Busy, GridInv
<1>2. /\ Onward /\ NoneCompletes
      /\ ~Begun(a) /\ attempts'[a].state \in {"dispatching", "held"}
  BY <1>1, StartOnward
<1>3. LaunchOnce' /\ CompletedIsStopped'
  BY <1>1, <1>2 DEF GridInv, LaunchOnce, CompletedIsStopped, NoneCompletes
<1>4. CASE attempts'[a].state # "dispatching"
  <2>1. UNCHANGED workerVars
    BY <1>1, <1>4 DEF Execute, workerVars
  <2>2. JobsInv' /\ UnbegunInv'
    BY <1>2, <2>1, QuietWorkers
  <2>3. GridTypeOK'
    BY <1>1, <2>1 DEF GridTypeOK, callerVars, workerVars
  <2> QED BY <1>3, <2>2, <2>3 DEF WorkersInv
<1>5. CASE attempts'[a].state = "dispatching"
  <2> DEFINE row == [pc |-> "staging", attempt |-> a, generation |-> g, receipt |-> NoReceipt]
  <2>1. job' = [job EXCEPT ![p] = row]
    BY <1>5 DEF Execute
  <2>2. g \in Nat
    BY <1>1 DEF Generations, TypeOK, AttemptRow
  <2>3. row \in JobRow
    BY <2>2 DEF JobRow, Pcs
  <2>4. row.pc = "staging" /\ row.attempt = a
    OBVIOUS
  <2> HIDE DEF row
  <2>5. /\ job' \in [Workers -> JobRow] /\ job'[p] = row
        /\ \A q \in Workers \ {p} : job'[q] = job[q]
    BY <1>1, <2>1, <2>3 DEF GridTypeOK
  <2>6. GridTypeOK'
    BY <1>1, <2>5 DEF GridTypeOK, callerVars
  <2>7. \A q \in Workers : Busy(q) => Holds(q) /\ Knows(q) /\ job[q].attempt # a
    BY <1>2 DEF GridInv, JobsInv, Holds
  <2>8. launches[a] = 0 /\ adapter[a] = "none"
    BY <1>2 DEF GridInv, UnbegunInv
  <2>9. Holds(p)' /\ Knows(p)'
    <3>1. \A q \in Workers : Busy(q)' /\ job'[q].attempt = job'[p].attempt => q = p
      BY <2>4, <2>5, <2>7 DEF Busy
    <3>2. Begun(a)'
      BY <1>2 DEF Begun
    <3>3. Holds(p)'
      BY <2>4, <2>5, <3>1, <3>2 DEF Holds
    <3>4. Knows(p)'
      BY <1>1, <2>4, <2>5, <2>8 DEF Knows
    <3> QED BY <3>3, <3>4
  <2>10. ASSUME NEW q \in Workers \ {p}, Busy(q)'
         PROVE  Holds(q)' /\ Knows(q)'
    <3>1. job'[q] = job[q] /\ Busy(q) /\ Holds(q) /\ Knows(q) /\ job[q].attempt # a
      BY <2>5, <2>7, <2>10 DEF Busy
    <3>2. \A x \in Workers : Busy(x)' /\ job'[x].attempt = job'[q].attempt => x = q
      BY <2>4, <2>5, <3>1 DEF Holds, Busy
    <3>3. Holds(q)'
      BY <1>2, <3>1, <3>2 DEF Holds, Begun, Onward
    <3>4. job[q].pc = "killing" => attempts'[job[q].attempt].state # "dispatching"
      BY <1>2, <3>1 DEF Holds, Knows, Onward
    <3>5. Knows(q)'
      BY <1>1, <3>1, <3>4 DEF Knows
    <3> QED BY <3>3, <3>5
  <2>11. JobsInv'
    BY <2>9, <2>10 DEF JobsInv
  <2>12. UnbegunInv'
    BY <1>1, <1>2 DEF GridInv, UnbegunInv, Begun, Onward
  <2> QED BY <1>3, <2>6, <2>11, <2>12 DEF WorkersInv
<1> QED BY <1>4, <1>5

\* A leader that exits was alive, so its attempt began and has not completed.
LEMMA AdapterExitsKeeps ==
  ASSUME GridInv, NEW a \in AttemptIds, AdapterExits(a)
  PROVE  WorkersInv'
<1>1. /\ GridTypeOK /\ adapter[a] = "alive" /\ attempts' = attempts
      /\ job' = job /\ launches' = launches /\ UNCHANGED callerVars
      /\ adapter' = [adapter EXCEPT ![a] = "exited"]
  BY DEF AdapterExits, GridInv, LedgerUntouched, vars
<1>2. /\ adapter' \in [AttemptIds -> {"none", "alive", "exited", "stopped"}]
      /\ \A b \in AttemptIds : adapter[b] \in {"none", "stopped"} => adapter'[b] = adapter[b]
  BY <1>1 DEF GridTypeOK
<1>3. GridTypeOK'
  BY <1>1, <1>2 DEF GridTypeOK, callerVars
<1>4. JobsInv'
  <2> SUFFICES ASSUME NEW p \in Workers, Busy(p)'
               PROVE  Holds(p)' /\ Knows(p)'
    BY DEF JobsInv
  <2>1. Busy(p) /\ Holds(p) /\ Knows(p)
    BY <1>1 DEF GridInv, JobsInv, Busy
  <2>2. Holds(p)'
    BY <1>1, <2>1 DEF Holds, Begun, Busy
  <2>3. Knows(p)'
    BY <1>1, <1>2, <2>1 DEF Holds, Knows
  <2> QED BY <2>2, <2>3
<1>5. UnbegunInv' /\ LaunchOnce' /\ CompletedIsStopped'
  BY <1>1, <1>2 DEF GridInv, UnbegunInv, LaunchOnce, CompletedIsStopped, Begun
<1> QED BY <1>3, <1>4, <1>5 DEF WorkersInv

\* Operators, the scheduler and the sweep touch the attempts only through the ledger.
LEMMA CallersKeep ==
  ASSUME GridInv, [Next]_vars,
         \/ (Tick \/ Caller) /\ UNCHANGED <<workerVars, callerVars>>
         \/ TickBegins
         \/ TryCandidate
         \/ \E before \in 0..(now + 1) : SweepReads(before)
         \/ \E a \in sweep : SweepHolds(a)
  PROVE  WorkersInv'
<1>0. TypeOK /\ GridTypeOK
  BY DEF GridInv
<1>1. UNCHANGED workerVars
  BY DEF TickBegins, TryCandidate, SweepReads, SweepHolds
<1>2. Onward /\ NoneCompletes
  <2>1. CASE (Tick \/ Caller) /\ UNCHANGED <<workerVars, callerVars>>
    <3>1. CASE Tick \/ Observe \/ Cooldown \/ SubmitTask
      BY <3>1, QuietLedger
      DEF Tick, Observe, ConfigureAccount, Cooldown, Defer, SubmitTask, Submit
    <3>2. CASE ResolveEnded \/ AcceptReviewed
      BY <3>2, <1>0, ResolveOnward, AcceptOnward DEF ResolveEnded, AcceptReviewed
    <3> QED BY <2>1, <3>1, <3>2 DEF Caller
  <2>2. CASE TryCandidate
    BY <1>0, <2>2, TryCandidateClaims, ClaimOnward, QuietLedger DEF vars
  <2>3. CASE \E a \in sweep : SweepHolds(a)
    BY <1>0, <2>3, HoldOnward DEF SweepHolds, GridTypeOK
  <2>4. CASE TickBegins \/ \E before \in 0..(now + 1) : SweepReads(before)
    BY <2>4, QuietLedger DEF TickBegins, SweepReads, vars
  <2> QED BY <2>1, <2>2, <2>3, <2>4
<1>3. JobsInv' /\ UnbegunInv' /\ LaunchOnce' /\ CompletedIsStopped'
  BY <1>1, <1>2, QuietWorkers
<1>4. /\ pass' \in [queue : SUBSET TaskIds, candidate : Nat \ {0}]
      /\ sweep' \subseteq AttemptIds
  <2>1. CASE UNCHANGED callerVars
    BY <1>0, <2>1 DEF GridTypeOK, callerVars
  <2>2. CASE TickBegins
    BY <1>0, <2>2 DEF TickBegins, GridTypeOK, Pending
  <2>3. CASE TryCandidate
    <3>1. PICK t \in pass.queue :
            \/ pass' = [queue |-> pass.queue \ {t}, candidate |-> 1]
            \/ pass' = [pass EXCEPT !.candidate = pass.candidate + 1]
      BY <2>3 DEF TryCandidate
    <3> QED BY <1>0, <2>3, <3>1 DEF GridTypeOK, TryCandidate
  <2>4. CASE \E before \in 0..(now + 1) : SweepReads(before)
    BY <1>0, <2>4 DEF GridTypeOK, SweepReads
  <2>5. CASE \E a \in sweep : SweepHolds(a)
    BY <1>0, <2>5 DEF GridTypeOK, SweepHolds
  <2> QED BY <2>1, <2>2, <2>3, <2>4, <2>5
<1>5. GridTypeOK'
  BY <1>0, <1>1, <1>4 DEF GridTypeOK, workerVars
<1> QED BY <1>3, <1>5 DEF WorkersInv

LEMMA GridStepKeeps ==
  ASSUME GridInv, [GridNext]_gridVars
  PROVE  GridInv'
<1>1. [Next]_vars
  BY GridStepIsLedgerStep DEF GridInv
<1>2. TypeOK'
  BY <1>1, NextTypeOK DEF GridInv
<1>3. CASE UNCHANGED gridVars
  <2>1. attempts' = attempts /\ UNCHANGED workerVars /\ UNCHANGED callerVars
    BY <1>3 DEF gridVars, vars
  <2>2. JobsInv' /\ UnbegunInv' /\ LaunchOnce' /\ CompletedIsStopped'
    BY <2>1, QuietLedger, QuietWorkers
  <2>3. GridTypeOK'
    BY <2>1 DEF GridInv, GridTypeOK, workerVars, callerVars
  <2> QED BY <1>2, <2>2, <2>3 DEF GridInv
<1>4. ASSUME GridNext
      PROVE  WorkersInv'
  BY <1>1, <1>4, CallersKeep, ExecuteKeeps, WorkerStepKeeps, CrashKeeps, AdapterExitsKeeps
  DEF GridNext
<1> QED BY <1>2, <1>3, <1>4 DEF GridInv, WorkersInv

LEMMA GridInitInv == GridInit => GridInv
<1> SUFFICES ASSUME GridInit PROVE GridInv
  OBVIOUS
<1>1. TypeOK
  BY InitTypeOK DEF GridInit
<1>2. \A p \in Workers : ~Busy(p)
  BY DEF GridInit, Busy, Idle
<1>3. GridTypeOK
  BY IdleTyped DEF GridInit, GridTypeOK
<1>4. \A a \in AttemptIds : attempts[a].state = "absent"
  BY DEF GridInit, Init, NoRow
<1>5. UnbegunInv /\ LaunchOnce /\ CompletedIsStopped
  BY <1>4 DEF GridInit, UnbegunInv, LaunchOnce, CompletedIsStopped
<1> QED BY <1>1, <1>2, <1>3, <1>5 DEF GridInv, JobsInv

\* Workers, the scheduler, the sweep and the operator keep the invariant.
THEOREM GridInvariant == GridSpec => []GridInv
BY GridInitInv, GridStepKeeps, PTL DEF GridSpec
-----------------------------------------------------------------------------
(* What the workers promise *)

\* Whatever the ledger promises (one attempt for a task, exclusive workspaces, generations
\* that fence, debits that are kept) it promises with workers that die around it too:
\* execute(), tick() and hold_abandoned() change the ledger only by its own operations.
THEOREM GridImplementsLedger == GridSpec => Spec
<1>1. GridInit => Init
  BY DEF GridInit
<1>2. GridInv /\ [GridNext]_gridVars => [Next]_vars
  BY GridStepIsLedgerStep DEF GridInv
<1> QED BY <1>1, <1>2, GridInvariant, PTL DEF GridSpec, Spec

\* So with workers that die, deliveries that repeat and a scheduler that goes on from what it
\* read earlier, the ledger still keeps all its promises.
THEOREM LedgerHoldsUnderWorkers ==
  GridSpec => /\ ImplementsLifecycle /\ CooldownHonoured /\ DispatchWithinObservation
              /\ \A a \in AttemptIds : HeldIsOver(a)
              /\ [](/\ OneAttemptPerTask /\ WorkspaceExclusive /\ GenerationFence
                    /\ OutcomeSound /\ NoErasedDebit)
BY GridImplementsLedger, LedgerImplementsLifecycle, CooldownIsHonoured, DispatchesFit, HeldStaysOver,
   TaskAttemptedOnce, WorkspaceIsExclusive, GenerationIsFence, OutcomesAreSound, DebitsAreKept, PTL

\* Repeated and stale deliveries, crashes and sweeps start no second adapter for an attempt.
THEOREM AdapterLaunchesOnce == GridSpec => []LaunchOnce
<1>1. GridInv => LaunchOnce
  BY DEF GridInv
<1> QED BY <1>1, GridInvariant, PTL

\* An attempt counts as completed only once its whole process group has been stopped.
THEOREM CompletedHasStopped == GridSpec => []CompletedIsStopped
<1>1. GridInv => CompletedIsStopped
  BY DEF GridInv
<1> QED BY <1>1, GridInvariant, PTL

\* The step by which a worker ends its job, other than by dying.
LEMMA EndingSettles ==
  ASSUME GridInv, NEW p \in Workers, WorkerStep(p), job'[p] = Idle
  PROVE  /\ attempts'[job[p].attempt].state # "dispatching"
         /\ adapter'[job[p].attempt] \notin {"alive", "exited"}
<1>1. TypeOK /\ GridTypeOK /\ job \in [Workers -> JobRow] /\ job[p] \in JobRow
  BY DEF GridInv, GridTypeOK
<1>2. CASE KillAdapter(p)
  <2>1. /\ job[p].attempt \in AttemptIds
        /\ attempts[job[p].attempt].state # "dispatching" /\ attempts' = attempts
    BY <1>2 DEF KillAdapter, At, GridInv, JobsInv, Busy, Holds, Knows,
                      LedgerUntouched, vars
  <2> QED BY <1>1, <1>2, <2>1 DEF KillAdapter, GridTypeOK
<1>3. CASE FinishJob(p)
  <2>1. /\ job[p].attempt \in AttemptIds /\ adapter[job[p].attempt] = "stopped"
        /\ adapter' = adapter
    BY <1>3 DEF FinishJob, At, GridInv, JobsInv, Busy, Holds, Knows
  <2>2. CASE attempts[job[p].attempt].state = "dispatching"
    <3>1. attempts'[job[p].attempt].state = "completed"
      BY <1>1, <1>3, <2>1, <2>2 DEF FinishJob, Finish, TypeOK, AttemptRow
    <3> QED BY <2>1, <3>1
  <2>3. CASE attempts[job[p].attempt].state # "dispatching"
    BY <1>3, <2>1, <2>3 DEF FinishJob, vars
  <2> QED BY <2>2, <2>3
<1>4. ASSUME NEW pc \in Pcs \ {"idle"}, Goto(p, pc)
      PROVE  FALSE
  BY <1>1, <1>4, GotoTyped, IdleTyped
<1>5. CASE CheckReceipt(p)
  <2>1. ASSUME NEW r \in Receipts,
               job' = [job EXCEPT ![p].pc = "finishing", ![p].receipt = r]
        PROVE  FALSE
    <3>1. job'[p].pc = "finishing"
      BY <1>1, <2>1 DEF JobRow
    <3> QED BY <3>1, IdleTyped
  <2> QED BY <1>4, <1>5, <2>1 DEF CheckReceipt, Pcs
<1>6. CASE \/ Launch(p) \/ StagingFails(p) \/ SeeExit(p) \/ GiveUp(p)
           \/ StopGroup(p) \/ HoldJob(p)
  BY <1>4, <1>6 DEF Launch, StagingFails, SeeExit, GiveUp, StopGroup, HoldJob, Pcs
<1> QED BY <1>2, <1>3, <1>5, <1>6 DEF WorkerStep

LEMMA EndingsSettle ==
  GridInv => [\A p \in Workers : WorkerStep(p) /\ job'[p] = Idle =>
                /\ attempts'[job[p].attempt].state # "dispatching"
                /\ adapter'[job[p].attempt] \notin {"alive", "exited"}]_gridVars
BY EndingSettles

\* A worker that ends its job, other than by dying, leaves its attempt settled and no process.
THEOREM EndsSettled == GridSpec => SettlesAndReaps
BY EndingsSettle, GridInvariant, PTL DEF SettlesAndReaps
=============================================================================
