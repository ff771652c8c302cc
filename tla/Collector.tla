----------------------------- MODULE Collector -----------------------------
(***************************************************************************)
(* Quota collection of one account (src/inference_grid/collector.py,        *)
(* retry_after.py): callers admit themselves in one transaction, call the   *)
(* provider with no transaction held, store a cooldown the provider asks    *)
(* for, and clear their claim.  Callers die, and time passes, anywhere.     *)
(*                                                                         *)
(* Accounts do not interact (the claim, the cooldown and the lock are the   *)
(* account's), and all names of an account resolve to it before anything    *)
(* is read, so one account is enough; Ledger models names.  The operator's  *)
(* reconciliation of a claim that was left behind is outside the program    *)
(* and is not modelled: such a claim stays.                                 *)
(***************************************************************************)
EXTENDS Naturals, FiniteSets, FiniteSetsExt

CONSTANTS
  Callers,
  Timeout,         \* timeout_seconds
  Fallback,        \* fallback_seconds
  Waits,           \* what a provider may ask for: seconds, or an instant
  CollectClock,    \* bound: the clock
  Calls            \* bound: calls of the provider

ASSUME CollectorAssumption ==
  /\ Timeout \in Nat \ {0} /\ Fallback \in Nat \ {0}
  /\ Waits \subseteq Nat /\ CollectClock \in Nat /\ Calls \in Nat

VARIABLES
  wallClock,
  until,       \* cooldowns[account, "usage"], 0 when there is none
  claim,       \* collection_claims: the token of the call under way, 0 when there is none
  drawn,       \* tokens drawn
  caller,      \* caller -> where it is, its token, when it began, its deadline, what it will store
  demanded     \* history: until when the provider asked to be left alone

collectorVars == <<wallClock, until, claim, drawn, caller, demanded>>

NoCall == [at |-> "idle", token |-> 0, began |-> 0, deadline |-> 0, store |-> 0, status |-> "none"]
Never == CollectClock + 1

CollectorInit ==
  /\ wallClock = 0 /\ until = 0 /\ claim = 0 /\ drawn = 0
  /\ caller = [c \in Callers |-> NoCall]
  /\ demanded = 0
-----------------------------------------------------------------------------
\* classify_quota_status
Action(code) ==
  CASE code = 200 -> "validate"
    [] code = 429 -> "cooldown"
    [] code \in {401, 403} -> "auth_required"
    [] code \in 500..599 -> "transient_error"
    [] OTHER -> "http_error"

\* retry_deadline: seconds count from when the answer came, a date is a deadline already, an
\* unreadable header is the fallback, and an overflow is an error.  Never in the past.
RetryDeadline(header, received) ==
  CASE header.kind = "seconds" -> received + header.value
    [] header.kind = "date" -> Max({received, header.value})
    [] header.kind = "unreadable" -> received + Fallback
Headers == [kind : {"seconds", "date"}, value : Waits]
           \cup [kind : {"unreadable", "overflow"}, value : {0}]

\* What the trusted collector may return: an error or something else, or a response whose
\* time of receipt is its own or, when it gives none, the time it returned.
Responses == [kind : {"raises", "invalid"}, code : {0}, received : {0}, header : {[kind |-> "overflow", value |-> 0]}]
             \cup [kind : {"response"}, code : {200, 403, 503}, received : 0..wallClock,
                   header : {[kind |-> "unreadable", value |-> 0]}]
             \cup [kind : {"response"}, code : {429}, received : 0..wallClock, header : Headers]

Move(c, step) == caller' = [caller EXCEPT ![c] = step]

\* The admitting transaction: a cooldown or a claim refuses; a claim past its deadline is
\* reported for reconciliation and never taken over.
Admit(c) ==
  /\ caller[c].at = "idle" /\ drawn < Calls
  /\ until <= wallClock
  /\ claim = 0
  /\ drawn' = drawn + 1
  /\ claim' = drawn + 1
  /\ Move(c, [at |-> "calling", token |-> drawn + 1, began |-> wallClock,
              deadline |-> wallClock + Timeout, store |-> 0, status |-> "collecting"])
  /\ UNCHANGED <<wallClock, until, demanded>>

Leaves(c) == Move(c, NoCall)      \* "reconciliation_required": the claim stays
Releases(c, status) == Move(c, [caller[c] EXCEPT !.at = "releasing", !.status = status])

\* What becomes of the response, and what the provider has asked for by it.
Asked(r) ==
  IF r.kind # "response" \/ Action(r.code) # "cooldown" THEN demanded
  ELSE IF r.header.kind = "overflow" THEN Never
  ELSE Max({demanded, RetryDeadline(r.header, r.received)})
Observations == {"response_ok_unvalidated", "unknown", "provider_error", "observation", "invalid_observation"}

Respond(c) ==
  /\ caller[c].at = "calling"
  /\ \E r \in Responses :
       LET timely == caller[c].began <= r.received
           action == Action(r.code)
       IN /\ demanded' = IF timely THEN Asked(r) ELSE IF Asked(r) = demanded THEN demanded ELSE Never
          /\ \/ r.kind = "raises" /\ Releases(c, "collector_error")
             \/ r.kind = "invalid" /\ Releases(c, "invalid_response")
             \/ /\ r.kind = "response" /\ ~timely
                /\ IF action = "cooldown" THEN Leaves(c) ELSE Releases(c, "invalid_response_time")
             \/ /\ r.kind = "response" /\ timely /\ action = "cooldown"
                /\ IF r.header.kind = "overflow" THEN Leaves(c)
                   ELSE Move(c, [caller[c] EXCEPT !.at = "deferring",
                                                  !.store = RetryDeadline(r.header, r.received)])
             \/ /\ r.kind = "response" /\ timely /\ action # "cooldown"
                /\ IF wallClock > caller[c].deadline THEN Releases(c, "deadline_exceeded")
                   ELSE \E s \in IF action = "validate" THEN Observations ELSE {action} : Releases(c, s)
  /\ UNCHANGED <<wallClock, until, claim, drawn>>

\* ledger.defer keeps the longer wait.
StoreCooldown(c) ==
  /\ caller[c].at = "deferring"
  /\ until' = Max({until, caller[c].store})
  /\ Releases(c, "cooldown")
  /\ UNCHANGED <<wallClock, claim, drawn, demanded>>

\* As if a cooldown that could not be stored ended like any other error.
StoreForgotten(c) ==
  /\ caller[c].at = "deferring"
  /\ Releases(c, "collector_error")
  /\ UNCHANGED <<wallClock, until, claim, drawn, demanded>>
\* A cooldown that cannot be stored keeps the claim, so that nobody calls on.
StoreFails(c) ==
  /\ caller[c].at = "deferring"
  /\ Leaves(c)
  /\ UNCHANGED <<wallClock, until, claim, drawn, demanded>>

\* Only the token's own call clears the claim.
ClearClaim(c) ==
  /\ caller[c].at = "releasing"
  /\ claim' = IF claim = caller[c].token THEN 0 ELSE claim
  /\ Move(c, NoCall)
  /\ UNCHANGED <<wallClock, until, drawn, demanded>>

CallerDies(c) ==
  /\ caller[c].at # "idle"
  /\ Leaves(c)
  /\ UNCHANGED <<wallClock, until, claim, drawn, demanded>>

\* Another client defers the account, by the command line.
DeferUsage ==
  /\ \E w \in Waits : until' = Max({until, w})
  /\ UNCHANGED <<wallClock, claim, drawn, caller, demanded>>

TimePasses ==
  /\ wallClock < CollectClock
  /\ wallClock' = wallClock + 1
  /\ UNCHANGED <<until, claim, drawn, caller, demanded>>

CollectorNext ==
  \/ DeferUsage \/ TimePasses
  \/ \E c \in Callers : \/ Admit(c) \/ Respond(c) \/ StoreCooldown(c) \/ StoreFails(c)
                        \/ ClearClaim(c) \/ CallerDies(c)

CollectorSpec == CollectorInit /\ [][CollectorNext]_collectorVars
-----------------------------------------------------------------------------
CollectorTypeOK ==
  /\ wallClock \in 0..CollectClock /\ drawn \in 0..Calls /\ claim \in 0..drawn
  /\ until \in Nat /\ demanded \in Nat
  /\ \A c \in Callers : caller[c].at \in {"idle", "calling", "deferring", "releasing"}

\* The provider is called by one caller at a time, and never before the time it has asked to
\* be left alone until, whatever became of the call that was told so: a wait that cannot be
\* read or stored, and a death before it is stored, keep everyone away.
ProviderRespected ==
  [][ \A c \in Callers :
        caller[c].at # "calling" /\ caller'[c].at = "calling"
          => /\ demanded <= wallClock
             /\ \A d \in Callers : caller[d].at # "calling" ]_collectorVars
=============================================================================
