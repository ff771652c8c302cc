------------------------------ MODULE MCLedger ------------------------------
(***************************************************************************)
(* Small instances of Ledger.  A behaviour is of one kind ("part").         *)
(* "quota": one account whose readings change its capacity and its windows  *)
(* under running attempts, while time passes and cooldowns are announced.   *)
(* "admission": two names, either of which may become the other's alias,    *)
(* tasks that may share a workspace, outcomes and work recorded from        *)
(* outside, at one time and with one reading that has room for all.         *)
(***************************************************************************)
EXTENDS Ledger, TLC

CONSTANTS a1, a2, t1, t2, n1, n2, w1, w2, m1, ws1, ws2

Attempts2 == {a1, a2}
Tasks2 == {t1, t2}
OneName == {n1}
TwoNames == {n1, n2}
TwoWindows == {w1, w2}
SpecIn(w) == [model |-> m1, family |-> "fa", workspace |-> w, manifest |-> "in",
              provenance |-> "grid"]
OwnWorkspaces == {SpecIn(ws1), SpecIn(ws2)}
Reading(capacity, left, expires) ==
  [capacity |-> capacity, windows |-> left, expires |-> expires, models |-> {m1}]
\* Room for both attempts, for one of them, and a reading that adds a window.
ChangingQuota == {Reading(2, w1 :> 2, 3), Reading(1, w1 :> 1, 3),
                  Reading(2, w1 :> 2 @@ w2 :> 1, 2)}
RoomForTwo == {Reading(2, w1 :> 2, 3)}
EstimateEach == {w1 :> 1, w1 :> 1 @@ w2 :> 1}
EstimateOne == {w1 :> 1}
Receipt(ok) == [terminal |-> TRUE, artifacts |-> ok, model |-> m1, manifest |-> "in"]
GoodReceipt == {Receipt(TRUE)}
AnyReceipt == {Receipt(TRUE), Receipt(FALSE)}
Families == {"fa", "fb"}
OutsideFamily == {"fb"}
Work == {"packet"}
WorkOrCanary == {"packet", "canary"}
Never == {}
OneOrTwo == {1, 2}

NameSymmetry == Permutations(Attempts2) \cup Permutations(Tasks2) \cup Permutations(TwoNames)
-----------------------------------------------------------------------------
VARIABLE part

\* Quota moves: one name is configured, and nothing comes from outside the grid.
QuotaNext ==
  /\ \/ Tick \/ Observe \/ Cooldown \/ SubmitTask \/ Admit \/ Dispatch
     \/ HoldAttempt \/ Complete \/ ResolveHold \/ AcceptReviewed
  /\ \A m, n \in Accounts : aliases'[m] # NoAccount /\ aliases'[n] # NoAccount => m = n

\* Time and quota stand still: the one reading has room for both attempts.
AdmissionNext ==
  /\ \/ Observe \/ SubmitTask \/ Admit \/ Dispatch \/ HoldAttempt \/ Complete \/ ResolveHold
     \/ AcceptReviewed \/ Evaluate \/ External \/ ExternalOutcome \/ ExternalLost
  /\ \A n \in Accounts : observations'[n].observed_at # -1 =>
       observations'[n] = [observed_at |-> 0, snapshot |-> Reading(2, w1 :> 2, 3)]
  /\ \A a \in AttemptIds : attempts'[a].receipt \in GoodReceipt \cup {NoReceipt}

LedgerInit == Init /\ part \in {"quota", "admission"}
LedgerNext ==
  /\ UNCHANGED part
  /\ \/ part = "quota" /\ QuotaNext
     \/ part = "admission" /\ AdmissionNext
LedgerSpec == LedgerInit /\ [][LedgerNext]_<<part, vars>>
=============================================================================
