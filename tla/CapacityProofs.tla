--------------------------- MODULE CapacityProofs ---------------------------
(***************************************************************************)
(* Proofs about quota collection and what is shown of it, for any callers,  *)
(* requests, clocks and waits: the provider is left alone as long as it     *)
(* asked (Collector), a refresh is answered once and a "collected" answer   *)
(* is true of the dashboard (Refresh), and the page's stamps are true of    *)
(* its numbers (Readings).                                                 *)
(***************************************************************************)
EXTENDS Collector, Refresh, Readings, FiniteSetTheorems, WellFoundedInduction, TLAPS

-----------------------------------------------------------------------------
(* Collector *)

\* The longer of two waits: what Max returns for two natural numbers.
LEMMA LongerWait ==
  ASSUME NEW a \in Nat, NEW b \in Nat
  PROVE  /\ Max({a, b}) \in {a, b}
         /\ Max({a, b}) >= a /\ Max({a, b}) >= b
         /\ Max({a, b}) \in Nat
<1>1. \E x \in {a, b} : \A y \in {a, b} : x >= y
  <2>1. a >= b \/ b >= a
    OBVIOUS
  <2> QED BY <2>1
<1>2. Max({a, b}) \in {a, b} /\ \A y \in {a, b} : Max({a, b}) >= y
  BY <1>1 DEF Max
<1> QED BY <1>2

CallStatuses ==
  Observations \cup {"none", "collecting", "collector_error", "invalid_response", "invalid_response_time",
                     "deadline_exceeded", "cooldown", "auth_required", "transient_error", "http_error"}
CallRow == [at : {"idle", "calling", "deferring", "releasing"}, token : Nat, began : Nat,
            deadline : Nat, store : Nat, status : CallStatuses]

\* Whoever is under way holds the claim, and until what the provider asked for is in the
\* cooldowns, the claim keeps everyone away or the caller that will store it holds it.
CollectorInv ==
  /\ CollectorTypeOK
  /\ caller \in [Callers -> CallRow]
  /\ \A c \in Callers : caller[c].at # "idle" => claim # 0 /\ caller[c].token = claim
  /\ \A c, d \in Callers : caller[c].at # "idle" /\ caller[d].at # "idle" => c = d
  /\ claim = 0 => demanded <= until
  /\ \A c \in Callers :
       /\ caller[c].at \in {"calling", "releasing"} => demanded <= until
       /\ caller[c].at = "deferring" => demanded <= until \/ demanded <= caller[c].store

\* What a response of the provider is: only a 429 asks for a wait, and the wait is a time.
LEMMA ResponseAsks ==
  ASSUME wallClock \in Nat, demanded \in Nat, NEW r \in Responses
  PROVE  /\ r.kind \in {"raises", "invalid", "response"}
         /\ r.kind # "response" \/ Action(r.code) # "cooldown" => Asked(r) = demanded
         /\ r.kind = "response" /\ Action(r.code) = "cooldown" /\ r.header.kind # "overflow"
              => /\ RetryDeadline(r.header, r.received) \in Nat
                 /\ Asked(r) \in {demanded, RetryDeadline(r.header, r.received)}
         /\ Asked(r) \in Nat
<1>1. CASE r.kind # "response" \/ Action(r.code) # "cooldown"
  BY <1>1 DEF Asked, Responses
<1>2. CASE r.kind = "response" /\ Action(r.code) = "cooldown"
  <2>1. r.code = 429
    BY <1>2 DEF Responses, Action
  <2>2. r.received \in Nat /\ r.header \in Headers
    BY <1>2, <2>1 DEF Responses
  <2>3. CASE r.header.kind = "overflow"
    BY <1>2, <2>3, CollectorAssumption DEF Asked, Never
  <2>4. CASE r.header.kind # "overflow"
    <3>1. r.header.value \in Nat /\ r.header.kind \in {"seconds", "date", "unreadable"}
      <4>1. CASE r.header \in [kind : {"seconds", "date"}, value : Waits]
        BY <4>1, CollectorAssumption
      <4>2. CASE r.header \in [kind : {"unreadable", "overflow"}, value : {0}]
        BY <2>4, <4>2
      <4> QED BY <2>2, <4>1, <4>2 DEF Headers
    <3>2. RetryDeadline(r.header, r.received) \in Nat
      <4>1. Max({r.received, r.header.value}) \in Nat
        BY <2>2, <3>1, LongerWait
      <4>2. Fallback \in Nat
        BY CollectorAssumption
      <4> QED BY <2>2, <3>1, <4>1, <4>2 DEF RetryDeadline
    <3>3. Max({demanded, RetryDeadline(r.header, r.received)})
            \in {demanded, RetryDeadline(r.header, r.received)}
      BY <3>2, LongerWait
    <3> QED BY <1>2, <2>4, <3>2, <3>3 DEF Asked
  <2> QED BY <1>2, <2>3, <2>4
<1> QED BY <1>1, <1>2

\* A step of one caller changes its row and no other.
LEMMA CallerMoves ==
  ASSUME caller \in [Callers -> CallRow], NEW c \in Callers, NEW step \in CallRow, Move(c, step)
  PROVE  /\ caller' \in [Callers -> CallRow]
         /\ caller'[c] = step
         /\ \A d \in Callers : d # c => caller'[d] = caller[d]
BY DEF Move

\* A caller that leaves has no row; one that ends its call keeps its token.
LEMMA CallerEnds ==
  ASSUME caller \in [Callers -> CallRow], NEW c \in Callers
  PROVE  /\ NoCall \in CallRow /\ NoCall.at = "idle"
         /\ \A s \in CallStatuses :
              LET row == [caller[c] EXCEPT !.at = "releasing", !.status = s]
              IN row \in CallRow /\ row.at = "releasing" /\ row.token = caller[c].token
<1>1. NoCall \in CallRow /\ NoCall.at = "idle"
  BY DEF NoCall, CallRow, CallStatuses
<1>2. caller[c] \in CallRow
  OBVIOUS
<1>3. ASSUME NEW s \in CallStatuses
      PROVE  LET row == [caller[c] EXCEPT !.at = "releasing", !.status = s]
             IN row \in CallRow /\ row.at = "releasing" /\ row.token = caller[c].token
  BY <1>2 DEF CallRow
<1> QED BY <1>1, <1>3

\* What is left of a call that ends or is left: nobody else's row changes.
LEMMA CallerLeft ==
  ASSUME caller \in [Callers -> CallRow], NEW c \in Callers
  PROVE  /\ Leaves(c) =>
              /\ caller' \in [Callers -> CallRow] /\ caller'[c].at = "idle"
              /\ \A d \in Callers : d # c => caller'[d] = caller[d]
         /\ \A s \in CallStatuses : Releases(c, s) =>
              /\ caller' \in [Callers -> CallRow]
              /\ caller'[c].at = "releasing" /\ caller'[c].token = caller[c].token
              /\ \A d \in Callers : d # c => caller'[d] = caller[d]
<1>1. ASSUME Leaves(c)
      PROVE  /\ caller' \in [Callers -> CallRow] /\ caller'[c].at = "idle"
             /\ \A d \in Callers : d # c => caller'[d] = caller[d]
  BY <1>1, CallerEnds, CallerMoves DEF Leaves
<1>2. ASSUME NEW s \in CallStatuses, Releases(c, s)
      PROVE  /\ caller' \in [Callers -> CallRow]
             /\ caller'[c].at = "releasing" /\ caller'[c].token = caller[c].token
             /\ \A d \in Callers : d # c => caller'[d] = caller[d]
  <2> DEFINE row == [caller[c] EXCEPT !.at = "releasing", !.status = s]
  <2>1. row \in CallRow /\ row.at = "releasing" /\ row.token = caller[c].token
    BY CallerEnds
  <2>2. Move(c, row)
    BY <1>2 DEF Releases
  <2> HIDE DEF row
  <2> QED BY <2>1, <2>2, CallerMoves
<1> QED BY <1>1, <1>2

\* No caller is under way, so no time has been asked for yet.
LEMMA CollectorInvInit == CollectorInit => CollectorInv
<1>1. NoCall \in CallRow /\ NoCall.at = "idle"
  BY DEF NoCall, CallRow, CallStatuses
<1> QED BY <1>1, CollectorAssumption DEF CollectorInit, CollectorInv, CollectorTypeOK

\* Every step of a caller, of the command line and of the clock keeps it.
LEMMA CollectorInvNext == CollectorInv /\ [CollectorNext]_collectorVars => CollectorInv'
<1> SUFFICES ASSUME CollectorInv, [CollectorNext]_collectorVars
             PROVE  CollectorInv'
  OBVIOUS
<1>0. /\ wallClock \in Nat /\ drawn \in Nat /\ claim \in Nat /\ until \in Nat /\ demanded \in Nat
      /\ caller \in [Callers -> CallRow]
  BY CollectorAssumption DEF CollectorInv, CollectorTypeOK
<1>1. CASE DeferUsage
  <2>1. PICK w \in Waits : until' = Max({until, w})
    BY <1>1 DEF DeferUsage
  <2>2. until' \in Nat /\ until' >= until
    BY <1>0, <2>1, LongerWait, CollectorAssumption
  <2>3. UNCHANGED <<wallClock, claim, drawn, caller, demanded>>
    BY <1>1 DEF DeferUsage
  <2>4. CollectorTypeOK'
    BY <2>2, <2>3 DEF CollectorInv, CollectorTypeOK
  <2>5. \A x \in Nat : x <= until => x <= until'
    BY <1>0, <2>2
  <2> QED BY <1>0, <2>3, <2>4, <2>5 DEF CollectorInv
<1>2. CASE TimePasses
  BY <1>0, <1>2, CollectorAssumption DEF TimePasses, CollectorInv, CollectorTypeOK
<1>3. CASE UNCHANGED collectorVars
  BY <1>3 DEF collectorVars, CollectorInv, CollectorTypeOK
<1>4. ASSUME NEW c \in Callers, Admit(c) PROVE CollectorInv'
  <2>1. \A d \in Callers : caller[d].at = "idle"
    BY <1>4 DEF Admit, CollectorInv
  <2> DEFINE step == [at |-> "calling", token |-> drawn + 1, began |-> wallClock,
                      deadline |-> wallClock + Timeout, store |-> 0, status |-> "collecting"]
  <2>2. step \in CallRow /\ step.at = "calling" /\ step.token = drawn + 1
    BY <1>0, CollectorAssumption DEF CallRow, CallStatuses
  <2>3. Move(c, step)
    BY <1>4 DEF Admit
  <2> HIDE DEF step
  <2>4. /\ caller' \in [Callers -> CallRow] /\ caller'[c] = step
        /\ \A d \in Callers : d # c => caller'[d] = caller[d]
    BY <1>0, <2>2, <2>3, CallerMoves
  <2>5. CollectorTypeOK'
    BY <1>0, <1>4, <2>1, <2>2, <2>4, CollectorAssumption DEF Admit, CollectorInv, CollectorTypeOK
  <2>6. claim = 0 /\ demanded <= until /\ claim' = drawn + 1 /\ UNCHANGED <<demanded, until>>
    BY <1>4 DEF Admit, CollectorInv
  <2> QED BY <1>0, <2>1, <2>2, <2>4, <2>5, <2>6 DEF CollectorInv
<1>5. ASSUME NEW c \in Callers, CallerDies(c) PROVE CollectorInv'
  BY <1>0, <1>5, CallerLeft DEF CallerDies, CollectorInv, CollectorTypeOK
<1>6. ASSUME NEW c \in Callers, StoreFails(c) PROVE CollectorInv'
  BY <1>0, <1>6, CallerLeft DEF StoreFails, CollectorInv, CollectorTypeOK
<1>7. ASSUME NEW c \in Callers, ClearClaim(c) PROVE CollectorInv'
  <2>1. /\ caller' \in [Callers -> CallRow] /\ caller'[c].at = "idle"
        /\ \A d \in Callers : d # c => caller'[d] = caller[d]
    BY <1>0, <1>7, CallerEnds, CallerMoves DEF ClearClaim
  <2>2. claim' = 0 /\ demanded <= until /\ \A d \in Callers : caller'[d].at = "idle"
    BY <1>7, <2>1 DEF ClearClaim, CollectorInv
  <2> QED BY <1>0, <1>7, <2>1, <2>2 DEF ClearClaim, CollectorInv, CollectorTypeOK
<1>8. ASSUME NEW c \in Callers, StoreCooldown(c) PROVE CollectorInv'
  <2>1. caller[c].store \in Nat
    BY <1>0 DEF CallRow
  <2>2. until' \in Nat /\ until' >= until /\ until' >= caller[c].store
    BY <1>0, <1>8, <2>1, LongerWait DEF StoreCooldown
  <2>3. demanded' <= until'
    BY <1>0, <1>8, <2>1, <2>2 DEF StoreCooldown, CollectorInv
  <2>4. /\ caller' \in [Callers -> CallRow]
        /\ caller'[c].at = "releasing" /\ caller'[c].token = caller[c].token
        /\ \A d \in Callers : d # c => caller'[d] = caller[d]
    BY <1>0, <1>8, CallerLeft DEF StoreCooldown, CallStatuses
  <2> QED BY <1>0, <1>8, <2>2, <2>3, <2>4 DEF StoreCooldown, CollectorInv, CollectorTypeOK
<1>9. ASSUME NEW c \in Callers, Respond(c) PROVE CollectorInv'
  <2> DEFINE alone == \A d \in Callers : caller[d].at # "idle" => d = c
  <2>1. /\ caller[c].at = "calling" /\ alone /\ claim # 0 /\ caller[c].token = claim
        /\ demanded <= until
    BY <1>9 DEF Respond, CollectorInv
  <2>2. UNCHANGED <<wallClock, until, claim, drawn>>
    BY <1>9 DEF Respond
  <2>3. PICK r \in Responses :
       LET timely == caller[c].began <= r.received
           action == Action(r.code)
       IN /\ demanded' = IF timely THEN Asked(r) ELSE IF Asked(r) = demanded THEN demanded ELSE Never
          /\ \/ r.kind = "raises" /\ Releases(c, "collector_error")
             \/ r.kind = "invalid" /\ Releases(c, "invalid_response")
             \/ /\ r.kind = "response" /\ ~timely
                /\ IF action = "cooldown" THEN Leaves(c) ELSE Releases(c, "invalid_response_time")
             \/ /\ r.kind = "response" /\ timely /\ action = "cooldown"
                /\ IF r.header.kind = "overflow" THEN Leaves(c)
                   ELSE Move(c, [caller[c] EXCEPT !.at = "deferring",
                                                  !.store = RetryDeadline(r.header, r.received)])
             \/ /\ r.kind = "response" /\ timely /\ action # "cooldown"
                /\ IF wallClock > caller[c].deadline THEN Releases(c, "deadline_exceeded")
                   ELSE \E s \in IF action = "validate" THEN Observations ELSE {action} : Releases(c, s)
    BY <1>9 DEF Respond
  <2>4. demanded' \in Nat
    BY <1>0, <2>3, ResponseAsks, CollectorAssumption DEF Never
  <2>5. CASE Leaves(c)
    BY <1>0, <2>1, <2>2, <2>4, <2>5, CallerLeft DEF CollectorInv, CollectorTypeOK
  <2>6. CASE (\E s \in CallStatuses : Releases(c, s)) /\ demanded' = demanded
    BY <1>0, <2>1, <2>2, <2>6, CallerLeft DEF CollectorInv, CollectorTypeOK
  <2>7. CASE /\ r.kind = "response" /\ Action(r.code) = "cooldown" /\ r.header.kind # "overflow"
             /\ demanded' = Asked(r)
             /\ Move(c, [caller[c] EXCEPT !.at = "deferring",
                                          !.store = RetryDeadline(r.header, r.received)])
    <3> DEFINE deadline == RetryDeadline(r.header, r.received)
    <3>1. deadline \in Nat /\ (demanded' = demanded \/ demanded' = deadline)
      BY <1>0, <2>7, ResponseAsks
    <3> HIDE DEF deadline
    <3> DEFINE step == [caller[c] EXCEPT !.at = "deferring", !.store = deadline]
    <3>2. /\ step \in CallRow /\ step.at = "deferring" /\ step.store = deadline
          /\ step.token = caller[c].token
      BY <1>0, <3>1 DEF CallRow
    <3>3. Move(c, step)
      BY <2>7 DEF deadline
    <3> HIDE DEF step
    <3>4. /\ caller' \in [Callers -> CallRow] /\ caller'[c] = step
          /\ \A d \in Callers : d # c => caller'[d] = caller[d]
      BY <1>0, <3>2, <3>3, CallerMoves
    <3> QED BY <1>0, <2>1, <2>2, <3>1, <3>2, <3>4 DEF CollectorInv, CollectorTypeOK
  <2> QED
    <3>1. Action(r.code) \in {"validate", "cooldown", "auth_required", "transient_error", "http_error"}
      BY DEF Action
    <3>2. \A s \in IF Action(r.code) = "validate" THEN Observations ELSE {Action(r.code)} :
            Action(r.code) # "cooldown" => s \in CallStatuses
      BY <3>1 DEF CallStatuses
    <3>3. {"collector_error", "invalid_response", "invalid_response_time", "deadline_exceeded"}
            \subseteq CallStatuses
      BY DEF CallStatuses
    <3> QED BY <1>0, <2>3, <2>5, <2>6, <2>7, <3>2, <3>3, ResponseAsks
<1> QED BY <1>1, <1>2, <1>3, <1>4, <1>5, <1>6, <1>7, <1>8, <1>9 DEF CollectorNext

\* The inductive invariant of quota collection.
THEOREM CollectorInvariant == CollectorSpec => []CollectorInv
BY CollectorInvInit, CollectorInvNext, PTL DEF CollectorSpec

\* A call of the provider begins only when nobody else's is under way and the time until
\* which it asked to be left alone has come.
THEOREM ProviderIsRespected == CollectorSpec => ProviderRespected
<1>1. CollectorInv /\ [CollectorNext]_collectorVars
        => [ \A c \in Callers :
               caller[c].at # "calling" /\ caller'[c].at = "calling"
                 => /\ demanded <= wallClock
                    /\ \A d \in Callers : caller[d].at # "calling" ]_collectorVars
  <2> SUFFICES ASSUME CollectorInv, CollectorNext, NEW c \in Callers,
                      caller[c].at # "calling", caller'[c].at = "calling"
               PROVE  /\ demanded <= wallClock
                      /\ \A d \in Callers : caller[d].at # "calling"
    BY DEF collectorVars
  <2>0. /\ wallClock \in Nat /\ until \in Nat /\ demanded \in Nat
        /\ caller \in [Callers -> CallRow]
    BY DEF CollectorInv, CollectorTypeOK
  <2>1. Admit(c)
    <3>1. ASSUME NEW d \in Callers, Leaves(d) PROVE caller'[c].at # "calling"
      BY <2>0, <3>1 DEF Leaves, Move, NoCall
    <3>2. ASSUME NEW d \in Callers, NEW s, Releases(d, s) PROVE caller'[c].at # "calling"
      BY <2>0, <3>2 DEF Releases, Move, CallRow
    <3>3. ASSUME NEW d \in Callers, Respond(d) PROVE FALSE
      <4>1. PICK r \in Responses :
              \/ Leaves(d) \/ \E s : Releases(d, s)
              \/ Move(d, [caller[d] EXCEPT !.at = "deferring",
                                           !.store = RetryDeadline(r.header, r.received)])
        BY <3>3 DEF Respond
      <4> QED BY <2>0, <3>1, <3>2, <4>1 DEF Move, CallRow
    <3>4. ASSUME NEW d \in Callers, Admit(d) PROVE d = c
      BY <2>0, <3>4 DEF Admit, Move
    <3>5. CASE UNCHANGED caller
      BY <3>5
    <3> QED BY <2>0, <3>1, <3>2, <3>3, <3>4, <3>5 DEF CollectorNext, DeferUsage, TimePasses,
            StoreCooldown, StoreFails, ClearClaim, CallerDies, Leaves
  <2> QED BY <2>0, <2>1 DEF Admit, CollectorInv
<1> QED BY <1>1, CollectorInvariant, PTL DEF CollectorSpec, ProviderRespected
-----------------------------------------------------------------------------
(* Refresh: the request rows *)

RequestStates == Open \cup Terminal \cup {"none", "deleted"}
RequestRow == [state : RequestStates, requested : Nat, claimed : Nat, completed : Nat, collected : BOOLEAN]
AgentRow == [at : {"polling", "collecting", "uploading", "failing"}, id : Nat, collected : BOOLEAN]
Posters == {"agent", "uploader"}
UploadRow == [at : {"idle", "begin", "stamped", "read", "stored", "refused"}, stamp : Nat, read : Nat]

RefreshTyped ==
  /\ clock \in Nat /\ feed \in Nat
  /\ request \in [Requests -> RequestRow]
  /\ snapshot \in [captured : Nat, feed : Nat]
  /\ agent \in AgentRow
  /\ poster \in [Posters -> UploadRow]
  /\ collectedAs \in [Requests -> Nat]

\* One request is open; a claim came while the request could still wait; what the agent is
\* at is a request that collects, or one that has expired under it.
RowsInv ==
  /\ \A id, o \in Requests : request[id].state \in Open /\ request[o].state \in Open => id = o
  /\ \A id \in Requests :
       /\ request[id].state = "none" => request[id] = Unasked
       /\ request[id].state = "collecting" => request[id].claimed <= request[id].requested + QueuedTTL
  /\ agent.at # "polling" =>
       agent.id \in Requests /\ request[agent.id].state \in {"collecting", "failed", "deleted"}

\* What expiring does to a row: an open one past its wait fails, a terminal one past its keep
\* is deleted, and no other changes.
LEMMA ExpiringRow ==
  ASSUME NEW row \in RequestRow, clock \in Nat
  PROVE  /\ ExpiredRow(row) \in RequestRow
         /\ \/ ExpiredRow(row) = row
            \/ row.state \in Open /\ ExpiredRow(row).state = "failed"
            \/ row.state \in Terminal /\ ExpiredRow(row).state = "deleted"
         /\ ExpiredRow(row).state = "queued" => row.requested + QueuedTTL >= clock
         /\ ExpiredRow(row).state = "collecting" => row.claimed + CollectingTTL >= clock
<1>0. /\ row.requested \in Nat /\ row.claimed \in Nat /\ row.completed \in Nat
      /\ QueuedTTL \in Nat /\ CollectingTTL \in Nat /\ KeepTTL \in Nat
  BY RefreshAssumption DEF RequestRow
<1>1. /\ FailedAt(row) \in RequestRow /\ FailedAt(row).state = "failed"
      /\ [Unasked EXCEPT !.state = "deleted"] \in RequestRow
      /\ [Unasked EXCEPT !.state = "deleted"].state = "deleted"
  BY DEF FailedAt, RequestRow, RequestStates, Open, Terminal, Unasked
<1>2. CASE row.state = "queued" /\ row.requested + QueuedTTL < clock
  BY <1>1, <1>2 DEF ExpiredRow, Open
<1>3. CASE row.state = "collecting" /\ row.claimed + CollectingTTL < clock
  BY <1>1, <1>3 DEF ExpiredRow, Open
<1>4. CASE row.state \in Terminal /\ row.completed + KeepTTL < clock
  BY <1>1, <1>4 DEF ExpiredRow, Terminal
<1>5. CASE /\ ~(row.state = "queued" /\ row.requested + QueuedTTL < clock)
           /\ ~(row.state = "collecting" /\ row.claimed + CollectingTTL < clock)
           /\ ~(row.state \in Terminal /\ row.completed + KeepTTL < clock)
  <2>1. ExpiredRow(row) = row
    BY <1>5 DEF ExpiredRow
  <2> QED BY <1>0, <1>5, <2>1
<1> QED BY <1>2, <1>3, <1>4, <1>5

\* What expiring does to the rows: those still open are as they were and within their wait.
LEMMA Expiring ==
  ASSUME RefreshTyped
  PROVE  /\ Expire \in [Requests -> RequestRow]
         /\ \A id \in Requests :
              /\ \/ Expire[id] = request[id]
                 \/ request[id].state \in Open /\ Expire[id].state = "failed"
                 \/ request[id].state \in Terminal /\ Expire[id].state = "deleted"
              /\ Expire[id].state = "queued" => request[id].requested + QueuedTTL >= clock
              /\ Expire[id].state = "collecting" => request[id].claimed + CollectingTTL >= clock
<1>1. clock \in Nat /\ \A id \in Requests : request[id] \in RequestRow
  BY DEF RefreshTyped
<1>2. \A id \in Requests : Expire[id] = ExpiredRow(request[id])
  BY DEF Expire
<1>3. Expire \in [Requests -> RequestRow]
  BY <1>1, ExpiringRow DEF Expire
<1> HIDE DEF Expire
<1> QED BY <1>1, <1>2, <1>3, ExpiringRow

\* A phone's request becomes a row only when none is open.
Enqueued(id) ==
  /\ OpenIn(Expire) = {} /\ request[id].state = "none"
  /\ request' = [Expire EXCEPT ![id] = [Unasked EXCEPT !.state = "queued", !.requested = clock]]
  /\ agent' = agent /\ collectedAs' = collectedAs

\* The agent is given the queued request, when none collects.
Claimed(id) ==
  /\ Expire[id].state = "queued" /\ \A o \in Requests : Expire[o].state # "collecting"
  /\ request' = [Expire EXCEPT ![id].state = "collecting", ![id].claimed = clock]
  /\ agent.at = "polling"
  /\ agent' \in {agent, [at |-> "collecting", id |-> id, collected |-> FALSE]}
  /\ collectedAs' = collectedAs

\* The agent's report settles the request it claimed, while it still collects.
Settled(id, state) ==
  /\ agent.at # "polling" /\ id = agent.id /\ Expire[id].state = "collecting"
  /\ request' = [Expire EXCEPT ![id].state = state, ![id].completed = clock, ![id].collected = agent.collected]
  /\ agent' = NoAgent /\ collectedAs' = collectedAs

\* The rows stay or expire, and the agent goes on with the request it is at or forgets it.
Waited ==
  /\ request' \in {request, Expire}
  /\ agent'.at = "polling" \/ (agent.at # "polling" /\ agent'.id = agent.id)

\* The oldest of some ids, when all were asked at the same time or there is one only.
LEMMA OldestIsOne ==
  ASSUME NEW ids, NEW rows, ids # {},
         \A i, o \in ids : rows[i].requested = rows[o].requested,
         \A i \in ids : rows[i].requested \in Nat
  PROVE  Oldest(ids, rows) \in ids
<1>1. \E i \in ids : \A o \in ids : rows[i].requested <= rows[o].requested
  <2>1. PICK i \in ids : TRUE
    OBVIOUS
  <2>2. \A o \in ids : rows[i].requested <= rows[o].requested
    <3> SUFFICES ASSUME NEW o \in ids PROVE rows[i].requested <= rows[o].requested
      OBVIOUS
    <3>1. rows[i].requested = rows[o].requested /\ rows[i].requested \in Nat
      BY <2>1
    <3> QED BY <3>1
  <2> QED BY <2>1, <2>2
<1> QED BY <1>1 DEF Oldest

\* Every step does one of these to the rows.
LEMMA RequestSteps ==
  ASSUME RefreshTyped, RowsInv, RefreshNext
  PROVE  \/ Waited
         \/ \E id \in Requests : Enqueued(id) \/ Claimed(id)
         \/ \E id \in Requests, state \in {"completed", "cooldown", "failed"} : Settled(id, state)
<1>1. CASE RequestRefresh
  <2>1. CASE OpenIn(Expire) # {}
    BY <1>1, <2>1 DEF RequestRefresh, Waited
  <2>2. CASE OpenIn(Expire) = {}
    <3> DEFINE id == Oldest(Fresh, request)
    <3>1. \A o \in Fresh : request[o].requested = 0
      BY DEF Fresh, RowsInv, Unasked
    <3>2. id \in Fresh
      BY <1>1, <2>2, <3>1, OldestIsOne DEF RequestRefresh
    <3>3. Enqueued(id)
      BY <1>1, <2>2, <3>2 DEF RequestRefresh, Enqueued, Fresh
    <3> QED BY <3>2, <3>3 DEF Fresh
  <2> QED BY <2>1, <2>2
<1>2. CASE GetRefresh
  BY <1>2 DEF GetRefresh, Waited
<1>3. CASE ClaimRefresh
  <2>1. CASE (\E o \in Requests : Expire[o].state = "collecting") \/ Queued(Expire) = {}
    BY <1>3, <2>1 DEF ClaimRefresh, Waited
  <2>2. CASE (\A o \in Requests : Expire[o].state # "collecting") /\ Queued(Expire) # {}
    <3> DEFINE id == Oldest(Queued(Expire), Expire)
    <3>1. \A o \in Queued(Expire) : Expire[o] = request[o] /\ request[o].requested \in Nat
      BY Expiring DEF Queued, RefreshTyped, RequestRow
    <3>2. \A i, o \in Queued(Expire) : i = o
      BY <3>1 DEF Queued, RowsInv, Open
    <3>3. id \in Queued(Expire)
      BY <2>2, <3>1, <3>2, OldestIsOne
    <3>4. Claimed(id)
      BY <1>3, <2>2, <3>3 DEF ClaimRefresh, Claimed, Queued
    <3> QED BY <3>3, <3>4 DEF Queued
  <2> QED BY <2>1, <2>2
<1>4. CASE Collect
  BY <1>4 DEF Collect, Waited, RefreshTyped, AgentRow
<1>5. CASE Report
  <2>1. agent.at # "polling" /\ agent' = NoAgent /\ collectedAs' = collectedAs /\ agent.id \in Requests
    BY <1>5 DEF Report, RowsInv
  <2>2. ASSUME NEW state \in {"completed", "cooldown", "failed"}, Complete(agent.id, state)
        PROVE  Waited \/ Settled(agent.id, state)
    BY <2>1, <2>2 DEF Complete, Settled, Waited, NoAgent
  <2>3. CASE UNCHANGED request
    BY <2>1, <2>3 DEF Waited, NoAgent
  <2> QED BY <1>5, <2>1, <2>2, <2>3 DEF Report
<1>6. CASE AgentDies
  BY <1>6 DEF AgentDies, Waited, NoAgent
<1>7. CASE StartUpload \/ Tick
  BY <1>7 DEF StartUpload, Tick, Waited
<1>8. ASSUME NEW p \in Posters, StampAndRead(p) \/ Post(p) \/ UploadFails(p) PROVE Waited
  BY <1>8 DEF StampAndRead, Post, UploadFails, Waited
<1> QED BY <1>1, <1>2, <1>3, <1>4, <1>5, <1>6, <1>7, <1>8 DEF RefreshNext, Posters

\* A row of each step stays a row.
LEMMA RowsTyped ==
  ASSUME RefreshTyped, RowsInv
  PROVE  /\ Waited => request' \in [Requests -> RequestRow]
         /\ \A id \in Requests : Enqueued(id) \/ Claimed(id) => request' \in [Requests -> RequestRow]
         /\ \A id \in Requests, state \in {"completed", "cooldown", "failed"} :
              Settled(id, state) => request' \in [Requests -> RequestRow]
<1>1. clock \in Nat /\ Expire \in [Requests -> RequestRow] /\ request \in [Requests -> RequestRow]
  BY Expiring DEF RefreshTyped
<1>2. agent.collected \in BOOLEAN
  BY DEF RefreshTyped, AgentRow
<1> HIDE DEF Expire
<1>3. Waited => request' \in [Requests -> RequestRow]
  BY <1>1 DEF Waited
<1>4. ASSUME NEW id \in Requests, Enqueued(id) PROVE request' \in [Requests -> RequestRow]
  BY <1>1, <1>4 DEF Enqueued, Unasked, RequestRow, RequestStates, Open
<1>5. ASSUME NEW id \in Requests, Claimed(id) PROVE request' \in [Requests -> RequestRow]
  BY <1>1, <1>5 DEF Claimed, RequestRow, RequestStates, Open
<1>6. ASSUME NEW id \in Requests, NEW state \in {"completed", "cooldown", "failed"}, Settled(id, state)
      PROVE  request' \in [Requests -> RequestRow]
  BY <1>1, <1>2, <1>6 DEF Settled, RequestRow, RequestStates, Terminal
<1> QED BY <1>3, <1>4, <1>5, <1>6

\* What each step makes of the row it is about, beside the rows that wait or expire.
LEMMA RowsChanged ==
  ASSUME RefreshTyped, RowsInv, NEW id \in Requests
  PROVE  /\ Enqueued(id) \/ Claimed(id) \/ (\E state \in {"completed", "cooldown", "failed"} : Settled(id, state))
              => \A o \in Requests : o # id => request'[o] = Expire[o]
         /\ Enqueued(id) => /\ request'[id].state = "queued" /\ request'[id].requested = clock
         /\ Claimed(id) => /\ request'[id].state = "collecting" /\ request'[id].claimed = clock
                           /\ request'[id].requested = request[id].requested
         /\ \A state \in {"completed", "cooldown", "failed"} :
              Settled(id, state) => /\ request'[id].state = state
                                    /\ request'[id].collected = agent.collected
<1>1. Expire \in [Requests -> RequestRow]
  BY Expiring
<1>2. Claimed(id) => Expire[id] = request[id]
  BY Expiring DEF Claimed
<1> HIDE DEF Expire
<1>3. Enqueued(id) \/ Claimed(id) \/ (\E state \in {"completed", "cooldown", "failed"} : Settled(id, state))
        => \A o \in Requests : o # id => request'[o] = Expire[o]
  BY <1>1 DEF Enqueued, Claimed, Settled
<1>4. Enqueued(id) => /\ request'[id].state = "queued" /\ request'[id].requested = clock
  BY <1>1 DEF Enqueued, Unasked
<1>5. Claimed(id) => /\ request'[id].state = "collecting" /\ request'[id].claimed = clock
                     /\ request'[id].requested = request[id].requested
  BY <1>1, <1>2 DEF Claimed, RequestRow
<1>6. ASSUME NEW state \in {"completed", "cooldown", "failed"}, Settled(id, state)
      PROVE  request'[id].state = state /\ request'[id].collected = agent.collected
  BY <1>1, <1>6 DEF Settled, RequestRow
<1> QED BY <1>3, <1>4, <1>5, <1>6

\* The invariant of the rows is kept by every step.
LEMMA RowsInvNext == RefreshTyped /\ RowsInv /\ [RefreshNext]_refreshVars => RowsInv'
<1> SUFFICES ASSUME RefreshTyped, RowsInv, [RefreshNext]_refreshVars PROVE RowsInv'
  OBVIOUS
<1>1. CASE UNCHANGED refreshVars
  BY <1>1 DEF refreshVars, RowsInv
<1>2. CASE RefreshNext
  <2>0. /\ clock \in Nat /\ QueuedTTL \in Nat
        /\ \A o \in Requests : /\ Expire[o].state \in Open \cup {"none"} => Expire[o] = request[o]
                               /\ request[o].state = "collecting" => Expire[o].state \in {"collecting", "failed"}
                               /\ request[o].state \in {"failed", "deleted"} =>
                                    Expire[o].state \in {"failed", "deleted"}
                               /\ Expire[o].state = "queued" => request[o].requested + QueuedTTL >= clock
    BY Expiring, RefreshAssumption DEF RefreshTyped, Open, Terminal
  <2>1. CASE Waited
    <3>1. \A o \in Requests : \/ request'[o] = request[o]
                              \/ request'[o] = Expire[o]
      BY <2>1 DEF Waited
    <3>2. \A o \in Requests : /\ request'[o].state \in Open \cup {"none"} => request'[o] = request[o]
                              /\ request[o].state \in {"collecting", "failed", "deleted"} =>
                                   request'[o].state \in {"collecting", "failed", "deleted"}
      BY <2>0, <3>1
    <3> HIDE DEF Expire
    <3> QED BY <2>1, <3>2 DEF RowsInv, Waited, Open
  <2>2. ASSUME NEW id \in Requests, Enqueued(id) PROVE RowsInv'
    <3>1. /\ request'[id].state = "queued" /\ \A o \in Requests : o # id => request'[o] = Expire[o]
          /\ \A o \in Requests : Expire[o].state \notin Open
          /\ agent' = agent /\ request[id].state = "none"
      BY <2>2, RowsChanged DEF Enqueued, OpenIn
    <3> HIDE DEF Expire
    <3> QED BY <2>0, <3>1 DEF RowsInv, Open
  <2>3. ASSUME NEW id \in Requests, Claimed(id) PROVE RowsInv'
    <3>1. /\ request'[id].state = "collecting" /\ request'[id].claimed = clock
          /\ request'[id].requested = request[id].requested
          /\ \A o \in Requests : o # id => request'[o] = Expire[o]
          /\ Expire[id].state = "queued" /\ agent.at = "polling"
          /\ agent' \in {agent, [at |-> "collecting", id |-> id, collected |-> FALSE]}
      BY <2>3, RowsChanged DEF Claimed
    <3>2. clock <= request[id].requested + QueuedTTL
      <4>1. request[id].requested \in Nat
        BY DEF RefreshTyped, RequestRow
      <4> QED BY <2>0, <3>1, <4>1
    <3> HIDE DEF Expire
    <3>3. \A o \in Requests : o # id => request'[o].state \notin Open
      BY <2>0, <3>1 DEF RowsInv, Open
    <3> QED BY <2>0, <3>1, <3>2, <3>3 DEF RowsInv, Open
  <2>4. ASSUME NEW id \in Requests, NEW state \in {"completed", "cooldown", "failed"}, Settled(id, state)
        PROVE  RowsInv'
    <3>1. /\ request'[id].state = state /\ \A o \in Requests : o # id => request'[o] = Expire[o]
          /\ agent'.at = "polling"
      BY <2>4, RowsChanged DEF Settled, NoAgent
    <3> HIDE DEF Expire
    <3> QED BY <2>0, <3>1 DEF RowsInv, Open
  <2> QED BY <1>2, <2>1, <2>2, <2>3, <2>4, RequestSteps
<1> QED BY <1>1, <1>2

\* The rows, the uploads and the clock keep their types.
LEMMA RefreshTypedNext == RefreshTyped /\ RowsInv /\ [RefreshNext]_refreshVars => RefreshTyped'
<1> SUFFICES ASSUME RefreshTyped, RowsInv, [RefreshNext]_refreshVars PROVE RefreshTyped'
  OBVIOUS
<1>1. CASE UNCHANGED refreshVars
  BY <1>1 DEF refreshVars, RefreshTyped
<1>2. CASE RefreshNext
  <2>1. request' \in [Requests -> RequestRow]
    BY <1>2, RequestSteps, RowsTyped
  <2>0. /\ clock \in Nat /\ feed \in Nat /\ snapshot \in [captured : Nat, feed : Nat]
        /\ agent \in AgentRow /\ poster \in [Posters -> UploadRow] /\ collectedAs \in [Requests -> Nat]
        /\ NoAgent \in AgentRow /\ NoUpload \in UploadRow /\ "agent" \in Posters /\ "uploader" \in Posters
    BY DEF RefreshTyped, NoAgent, AgentRow, NoUpload, UploadRow, Posters
  <2> SUFFICES /\ clock' \in Nat /\ feed' \in Nat /\ snapshot' \in [captured : Nat, feed : Nat]
               /\ agent' \in AgentRow /\ poster' \in [Posters -> UploadRow] /\ collectedAs' \in [Requests -> Nat]
    BY <2>1 DEF RefreshTyped
  <2>2. CASE RequestRefresh \/ GetRefresh
    BY <2>0, <2>2 DEF RequestRefresh, GetRefresh
  <2>3. CASE ClaimRefresh
    <3>1. CASE agent' = agent
      BY <2>0, <2>3, <3>1 DEF ClaimRefresh
    <3>2. CASE agent' # agent
      <4>1. PICK id \in Requests : agent' = [at |-> "collecting", id |-> id, collected |-> FALSE]
        <5>1. agent.at = "polling" /\ agent'.at = "collecting"
          BY <2>3, <3>2 DEF ClaimRefresh
        <5>2. ~Waited /\ \A id, state : ~Settled(id, state)
          BY <5>1 DEF Waited, Settled
        <5>3. PICK id \in Requests : Enqueued(id) \/ Claimed(id)
          BY <1>2, <5>2, RequestSteps
        <5> QED BY <3>2, <5>3 DEF Enqueued, Claimed
      <4>2. id \in Nat
        BY RefreshAssumption
      <4> QED BY <2>0, <2>3, <4>1, <4>2 DEF ClaimRefresh, AgentRow
    <3> QED BY <3>1, <3>2
  <2>4. CASE Collect
    <3>1. /\ [agent EXCEPT !.at = "uploading", !.collected = TRUE] \in AgentRow
          /\ [agent EXCEPT !.at = "uploading"] \in AgentRow
          /\ [agent EXCEPT !.at = "failing"] \in AgentRow
      BY <2>0 DEF AgentRow
    <3>2. [poster EXCEPT !["agent"].at = "begin"] \in [Posters -> UploadRow]
      BY <2>0 DEF UploadRow
    <3>3. feed' \in Nat /\ collectedAs' \in [Requests -> Nat]
      BY <2>0, <2>4 DEF Collect
    <3> QED BY <2>0, <2>4, <3>1, <3>2, <3>3 DEF Collect
  <2>5. CASE Report \/ AgentDies
    BY <2>0, <2>5 DEF Report, AgentDies
  <2>6. CASE StartUpload
    BY <2>0, <2>6 DEF StartUpload, UploadRow
  <2>7. CASE Tick
    BY <2>0, <2>7 DEF Tick
  <2>8. ASSUME NEW p \in Posters, StampAndRead(p) PROVE poster' \in [Posters -> UploadRow]
    BY <2>0, <2>8 DEF StampAndRead, UploadRow
  <2>9. ASSUME NEW p \in Posters PROVE Replied(p, "stored") \in UploadRow /\ Replied(p, "refused") \in UploadRow
    BY <2>0 DEF Replied, UploadRow
  <2>10. ASSUME NEW p \in Posters, Post(p) \/ UploadFails(p)
         PROVE  poster' \in [Posters -> UploadRow] /\ snapshot' \in [captured : Nat, feed : Nat]
    <3>1. PICK reply \in {"stored", "refused"} : poster' = [poster EXCEPT ![p] = Replied(p, reply)]
      BY <2>10 DEF Post, UploadFails
    <3>2. poster[p].stamp \in Nat /\ poster[p].read \in Nat
      BY <2>0 DEF UploadRow
    <3> QED BY <2>0, <2>9, <2>10, <3>1, <3>2 DEF Post, UploadFails
  <2>11. \A p \in Posters : StampAndRead(p) \/ Post(p) \/ UploadFails(p)
           => UNCHANGED <<clock, feed, agent, collectedAs>> /\ (StampAndRead(p) => snapshot' = snapshot)
    BY DEF StampAndRead, Post, UploadFails
  <2> QED BY <1>2, <2>0, <2>2, <2>3, <2>4, <2>5, <2>6, <2>7, <2>8, <2>10, <2>11 DEF RefreshNext, Posters
<1> QED BY <1>1, <1>2

\* At the start nothing was asked for.
LEMMA RefreshStarts == RefreshInit => RefreshTyped /\ RowsInv
<1>1. Unasked \in RequestRow /\ Unasked.state = "none" /\ NoAgent \in AgentRow /\ NoUpload \in UploadRow
      /\ NoAgent.at = "polling"
  BY DEF Unasked, RequestRow, RequestStates, NoAgent, AgentRow, NoUpload, UploadRow
<1> QED BY <1>1 DEF RefreshInit, RefreshTyped, RowsInv, Posters, Open

\* The inductive invariant of the request rows.
THEOREM RequestRowsInvariant == RefreshSpec => [](RefreshTyped /\ RowsInv)
BY RefreshStarts, RefreshTypedNext, RowsInvNext, PTL DEF RefreshSpec

\* What a step may do to the rows: at most one is open, none longer than both waits, and an
\* answer stands.
LEMMA AnswersStand ==
  ASSUME RefreshTyped, RowsInv, RowsInv', [RefreshNext]_refreshVars
  PROVE  /\ Cardinality(OpenIn(request')) <= 1
         /\ request' # request =>
              \A id \in OpenIn(request') : clock <= request'[id].requested + QueuedTTL + CollectingTTL
         /\ \A id \in Requests :
              request[id].state \in Terminal
                => request'[id] = request[id] \/ request'[id].state = "deleted"
<1>0. /\ clock \in Nat /\ QueuedTTL \in Nat /\ CollectingTTL \in Nat
      /\ \A o \in Requests : request[o].requested \in Nat /\ request[o].claimed \in Nat
  BY RefreshAssumption DEF RefreshTyped, RequestRow
<1>1. Cardinality(OpenIn(request')) <= 1
  <2>1. \A id, o \in OpenIn(request') : id = o
    BY DEF OpenIn, RowsInv
  <2>2. CASE OpenIn(request') = {}
    BY <2>2, FS_EmptySet
  <2>3. CASE OpenIn(request') # {}
    <3>1. PICK id \in OpenIn(request') : OpenIn(request') = {id}
      BY <2>1, <2>3
    <3> QED BY <3>1, FS_Singleton
  <2> QED BY <2>2, <2>3
<1>2. \A o \in Requests :
        /\ Expire[o].state \in Open => Expire[o] = request[o]
             /\ clock <= request[o].requested + QueuedTTL + CollectingTTL
        /\ request[o].state \in Terminal => Expire[o] = request[o] \/ Expire[o].state = "deleted"
  <2> SUFFICES ASSUME NEW o \in Requests
               PROVE  /\ Expire[o].state \in Open => Expire[o] = request[o]
                          /\ clock <= request[o].requested + QueuedTTL + CollectingTTL
                      /\ request[o].state \in Terminal => Expire[o] = request[o] \/ Expire[o].state = "deleted"
    OBVIOUS
  <2>1. Expire[o].state \in Open => Expire[o] = request[o]
    BY Expiring DEF Open, Terminal
  <2>2. ASSUME Expire[o].state \in Open PROVE clock <= request[o].requested + QueuedTTL + CollectingTTL
    <3>1. CASE Expire[o].state = "queued"
      BY <1>0, <3>1, Expiring
    <3>2. CASE Expire[o].state = "collecting"
      <4>1. request[o].claimed <= request[o].requested + QueuedTTL
        BY <2>1, <2>2, <3>2 DEF RowsInv
      <4>2. request[o].claimed + CollectingTTL >= clock
        BY <3>2, Expiring
      <4> QED BY <1>0, <4>1, <4>2
    <3> QED BY <2>2, <3>1, <3>2 DEF Open
  <2>3. request[o].state \in Terminal => Expire[o] = request[o] \/ Expire[o].state = "deleted"
    BY Expiring DEF Open, Terminal
  <2> QED BY <2>1, <2>2, <2>3
<1>3. ASSUME NEW id \in Requests, Enqueued(id) \/ Claimed(id)
      PROVE  /\ request'[id].state \in Open /\ request[id].state \notin Terminal
             /\ clock <= request'[id].requested + QueuedTTL + CollectingTTL
             /\ \A o \in Requests : o # id => request'[o] = Expire[o]
  BY <1>0, <1>2, <1>3, RowsChanged DEF Enqueued, Claimed, Open, Terminal
<1>4. ASSUME NEW id \in Requests, NEW state \in {"completed", "cooldown", "failed"}, Settled(id, state)
      PROVE  /\ request'[id].state \notin Open /\ request[id].state \notin Terminal
             /\ \A o \in Requests : o # id => request'[o] = Expire[o]
  BY <1>2, <1>4, RowsChanged DEF Settled, Open, Terminal
<1>5. CASE request' = request
  BY <1>1, <1>5
<1>6. CASE request' = Expire
  BY <1>1, <1>2, <1>6 DEF OpenIn
<1>7. Waited => request' \in {request, Expire}
  BY DEF Waited
<1>8. ~RefreshNext => request' = request
  BY DEF refreshVars
<1> HIDE DEF Expire
<1> QED BY <1>1, <1>2, <1>3, <1>4, <1>5, <1>6, <1>7, <1>8, RequestSteps DEF OpenIn

\* One refresh is open at a time and none for longer than its waits, and a late report never
\* changes an answer: for any requests, waits and schedule of phone, server and agent.
THEOREM RefreshAnsweredOnce == RefreshSpec => AnsweredOnce
<1>1. RefreshTyped /\ RowsInv /\ (RefreshTyped /\ RowsInv)' /\ [RefreshNext]_refreshVars
        => [ /\ Cardinality(OpenIn(request')) <= 1
             /\ request' # request =>
                  \A id \in OpenIn(request') : clock <= request'[id].requested + QueuedTTL + CollectingTTL
             /\ \A id \in Requests :
                  request[id].state \in Terminal
                    => request'[id] = request[id] \/ request'[id].state = "deleted" ]_refreshVars
  BY AnswersStand
<1> QED BY <1>1, RequestRowsInvariant, PTL DEF RefreshSpec, AnsweredOnce
-----------------------------------------------------------------------------
(* Refresh: what a phone that is told "collected" can see *)

Told(id) == request[id].state \in {"completed", "cooldown"} /\ request[id].collected

\* The dashboard shows a feed at least as new as v, and no upload that has read an older one
\* can be accepted.
NotDropped(v) ==
  /\ snapshot.feed >= v
  /\ \A p \in Posters :
       poster[p].at = "read" => poster[p].read >= v \/ poster[p].stamp <= snapshot.captured

\* An upload stamped at "stamp" or later that reads v at least outdoes whatever the uploader has read.
Outrun(v, stamp) ==
  poster["uploader"].at = "read" =>
    poster["uploader"].read >= v \/ poster["uploader"].stamp <= stamp

\* How far the agent's upload of what it collected, version v, has come.
Carried(v) ==
  /\ poster["agent"].at \in {"stamped", "read"} => Outrun(v, poster["agent"].stamp)
  /\ poster["agent"].at = "read" => poster["agent"].read >= v
  /\ poster["agent"].at = "stored" => snapshot.feed >= v /\ Outrun(v, snapshot.captured)

ShownInv ==
  /\ \A id \in Requests : collectedAs[id] <= feed
  /\ \A p \in Posters : poster[p].stamp <= clock
  /\ \A id \in Requests : Told(id) => NotDropped(collectedAs[id])
  /\ agent.at = "uploading" /\ agent.collected => Carried(collectedAs[agent.id])

\* Any one upload's step: what it reads is the feed of then, what it stamps is the time of
\* then, and the dashboard takes only what was stamped after what it has.
LEMMA UploadSteps ==
  ASSUME RefreshTyped, RefreshNext, NEW p \in Posters
  PROVE  /\ clock' >= clock /\ feed' >= feed /\ clock' \in Nat /\ feed' \in Nat
         /\ \/ poster'[p].at = poster[p].at /\ poster'[p].stamp = poster[p].stamp /\ poster'[p].read = poster[p].read
            \/ poster'[p] = NoUpload
            \/ poster'[p].at = "begin" /\ poster'[p].stamp = poster[p].stamp
            \/ poster[p].at = "begin" /\ poster'[p].at = "stamped" /\ poster'[p].stamp = clock
            \/ /\ poster[p].at = "stamped" /\ poster'[p].at = "read"
               /\ poster'[p].stamp = poster[p].stamp /\ poster'[p].read = feed
            \/ poster'[p].at = "refused" /\ poster'[p].stamp = poster[p].stamp
            \/ /\ poster[p].at = "read" /\ poster'[p].at = "stored" /\ poster'[p].stamp = poster[p].stamp
               /\ snapshot' = [captured |-> poster[p].stamp, feed |-> poster[p].read]
         /\ \/ snapshot' = snapshot
            \/ \E q \in Posters :
                 /\ poster[q].at = "read" /\ poster[q].stamp > snapshot.captured
                 /\ snapshot' = [captured |-> poster[q].stamp, feed |-> poster[q].read]
                 /\ \A r \in Posters : r # q => poster'[r] = poster[r]
                 /\ poster'[q].at # "read"
<1>0. /\ clock \in Nat /\ feed \in Nat /\ poster \in [Posters -> UploadRow]
      /\ "agent" \in Posters /\ "uploader" \in Posters
  BY DEF RefreshTyped, Posters
<1>1. CASE RequestRefresh \/ GetRefresh \/ ClaimRefresh
  BY <1>0, <1>1 DEF RequestRefresh, GetRefresh, ClaimRefresh
<1>2. CASE Collect
  <2>1. poster' \in {poster, [poster EXCEPT !["agent"].at = "begin"]}
    BY <1>2 DEF Collect
  <2>2. \/ poster'[p] = poster[p]
        \/ poster'[p].at = "begin" /\ poster'[p].stamp = poster[p].stamp
    BY <1>0, <2>1 DEF UploadRow
  <2> QED BY <1>0, <1>2, <2>2 DEF Collect
<1>3. CASE Report \/ AgentDies
  BY <1>0, <1>3 DEF Report, AgentDies
<1>4. CASE StartUpload
  <2>1. \/ poster'[p] = poster[p]
        \/ poster'[p].at = "begin" /\ poster'[p].stamp = poster[p].stamp
    BY <1>0, <1>4 DEF StartUpload, UploadRow
  <2> QED BY <1>0, <1>4, <2>1 DEF StartUpload
<1>5. CASE Tick
  BY <1>0, <1>5 DEF Tick
<1>6. ASSUME NEW q \in Posters, StampAndRead(q)
      PROVE  /\ UNCHANGED <<clock, feed, snapshot>>
             /\ \/ poster'[p] = poster[p]
                \/ poster[p].at = "begin" /\ poster'[p].at = "stamped" /\ poster'[p].stamp = clock
                \/ /\ poster[p].at = "stamped" /\ poster'[p].at = "read"
                   /\ poster'[p].stamp = poster[p].stamp /\ poster'[p].read = feed
  BY <1>0, <1>6 DEF StampAndRead, UploadRow
<1>7. ASSUME NEW q \in Posters
      PROVE  \A reply \in {"stored", "refused"} :
               \/ Replied(q, reply) = NoUpload
               \/ Replied(q, reply).at = reply /\ Replied(q, reply).stamp = poster[q].stamp
  BY <1>0 DEF Replied, UploadRow
<1>8. ASSUME NEW q \in Posters, UploadFails(q)
      PROVE  /\ UNCHANGED <<clock, feed, snapshot>>
             /\ \/ poster'[p] = poster[p] \/ poster'[p] = NoUpload
                \/ poster'[p].at = "refused" /\ poster'[p].stamp = poster[p].stamp
  BY <1>0, <1>7, <1>8 DEF UploadFails
<1>9. ASSUME NEW q \in Posters, Post(q)
      PROVE  /\ UNCHANGED <<clock, feed>>
             /\ \/ poster'[p] = poster[p] \/ poster'[p] = NoUpload
                \/ poster'[p].at = "refused" /\ poster'[p].stamp = poster[p].stamp
                \/ /\ poster[p].at = "read" /\ poster'[p].at = "stored" /\ poster'[p].stamp = poster[p].stamp
                   /\ snapshot' = [captured |-> poster[p].stamp, feed |-> poster[p].read]
             /\ \/ snapshot' = snapshot
                \/ /\ poster[q].at = "read" /\ poster[q].stamp > snapshot.captured
                   /\ snapshot' = [captured |-> poster[q].stamp, feed |-> poster[q].read]
                   /\ \A r \in Posters : r # q => poster'[r] = poster[r]
                   /\ poster'[q].at # "read"
  <2>1. CASE Accepts(poster[q])
    <3>1. PICK reply \in {"stored", "refused"} : poster' = [poster EXCEPT ![q] = Replied(q, reply)]
      BY <1>9, <2>1 DEF Post
    <3>2. poster'[q] = NoUpload \/ (poster'[q].at = reply /\ poster'[q].stamp = poster[q].stamp)
      BY <1>0, <1>7, <3>1
    <3> QED BY <1>0, <1>9, <2>1, <3>1, <3>2 DEF Post, Accepts, NoUpload
  <2>2. CASE ~Accepts(poster[q])
    BY <1>0, <1>7, <1>9, <2>2 DEF Post
  <2> QED BY <2>1, <2>2
<1> QED
  <2>1. RequestRefresh \/ GetRefresh \/ ClaimRefresh \/ Collect \/ Report \/ AgentDies \/ StartUpload \/ Tick
        \/ \E q \in Posters : StampAndRead(q) \/ Post(q) \/ UploadFails(q)
    BY DEF RefreshNext, Posters
  <2> QED BY <1>0, <1>1, <1>2, <1>3, <1>4, <1>5, <1>6, <1>8, <1>9, <2>1

\* The numbers an upload and the dashboard hold.
LEMMA UploadNumbers ==
  ASSUME RefreshTyped
  PROVE  /\ clock \in Nat /\ feed \in Nat /\ snapshot.captured \in Nat /\ snapshot.feed \in Nat
         /\ \A p \in Posters : poster[p].stamp \in Nat /\ poster[p].read \in Nat
         /\ "agent" \in Posters /\ "uploader" \in Posters
         /\ NoUpload.at = "idle" /\ NoUpload.stamp = 0
BY DEF RefreshTyped, UploadRow, Posters, NoUpload

\* What the dashboard shows is never undone by an upload that read the feed before.
LEMMA KeptNext ==
  ASSUME RefreshTyped, RefreshNext, NEW v \in Nat, v <= feed, NotDropped(v)
  PROVE  NotDropped(v)'
<1>1. snapshot'.feed >= v /\ snapshot'.captured >= snapshot.captured /\ snapshot'.captured \in Nat
  <2>1. CASE snapshot' = snapshot
    BY <2>1, UploadNumbers DEF NotDropped
  <2>2. ASSUME NEW q \in Posters, poster[q].at = "read", poster[q].stamp > snapshot.captured,
               snapshot' = [captured |-> poster[q].stamp, feed |-> poster[q].read]
        PROVE  snapshot'.feed >= v /\ snapshot'.captured >= snapshot.captured /\ snapshot'.captured \in Nat
    <3>1. poster[q].read >= v
      BY <2>2, UploadNumbers DEF NotDropped
    <3> QED BY <2>2, <3>1, UploadNumbers
  <2> QED BY <2>1, <2>2, UploadSteps, UploadNumbers
<1>2. ASSUME NEW p \in Posters, poster'[p].at = "read"
      PROVE  poster'[p].read >= v \/ poster'[p].stamp <= snapshot'.captured
  <2>1. CASE poster'[p].at = poster[p].at /\ poster'[p].stamp = poster[p].stamp /\ poster'[p].read = poster[p].read
    <3>1. poster[p].read >= v \/ poster[p].stamp <= snapshot.captured
      BY <1>2, <2>1 DEF NotDropped
    <3> QED BY <1>1, <2>1, <3>1, UploadNumbers
  <2>2. CASE poster'[p].read = feed
    BY <2>2, UploadNumbers
  <2> QED BY <1>2, <2>1, <2>2, UploadSteps, UploadNumbers
<1> QED BY <1>1, <1>2 DEF NotDropped

\* While the agent uploads what it collected, the uploader cannot outdo it with an older feed.
LEMMA CarriedNext ==
  ASSUME RefreshTyped, RefreshNext, NEW v \in Nat, v <= feed, Carried(v),
         \A p \in Posters : poster[p].stamp <= clock
  PROVE  Carried(v)'
<1> DEFINE a == poster["agent"]
           u == poster["uploader"]
<1>0. /\ clock \in Nat /\ feed \in Nat /\ snapshot.captured \in Nat /\ snapshot.feed \in Nat
      /\ a.stamp \in Nat /\ a.read \in Nat /\ u.stamp \in Nat /\ u.read \in Nat
  BY UploadNumbers
<1>1. poster'["uploader"].at = "read" =>
        \/ u.at = "read" /\ poster'["uploader"].stamp = u.stamp /\ poster'["uploader"].read = u.read
        \/ poster'["uploader"].read = feed
  BY UploadSteps, UploadNumbers
<1>2. ASSUME NEW stamp \in Nat, Outrun(v, stamp), NEW later \in Nat, later >= stamp
      PROVE  poster'["uploader"].at = "read" =>
               poster'["uploader"].read >= v \/ poster'["uploader"].stamp <= later
  BY <1>0, <1>1, <1>2 DEF Outrun
<1>3. ASSUME poster'["agent"].at = "stamped"
      PROVE  Outrun(v, poster["agent"].stamp)'
  <2>1. CASE a.at = "stamped" /\ poster'["agent"].stamp = a.stamp
    BY <1>0, <1>2, <2>1 DEF Carried, Outrun
  <2>2. CASE poster'["agent"].stamp = clock
    <3>1. u.stamp <= clock
      BY UploadNumbers
    <3> QED BY <1>0, <1>1, <2>2, <3>1 DEF Outrun
  <2> QED BY <1>3, <2>1, <2>2, UploadSteps, UploadNumbers
<1>4. ASSUME poster'["agent"].at = "read"
      PROVE  Outrun(v, poster["agent"].stamp)' /\ poster'["agent"].read >= v
  <2>1. CASE a.at = "read" /\ poster'["agent"].stamp = a.stamp /\ poster'["agent"].read = a.read
    BY <1>0, <1>2, <2>1 DEF Carried, Outrun
  <2>2. CASE a.at = "stamped" /\ poster'["agent"].stamp = a.stamp /\ poster'["agent"].read = feed
    BY <1>0, <1>2, <2>2 DEF Carried, Outrun
  <2> QED BY <1>4, <2>1, <2>2, UploadSteps, UploadNumbers
<1>5. ASSUME poster'["agent"].at = "stored"
      PROVE  snapshot'.feed >= v /\ Outrun(v, snapshot.captured)'
  <2>1. CASE a.at = "read" /\ snapshot' = [captured |-> a.stamp, feed |-> a.read]
    BY <1>0, <1>2, <2>1 DEF Carried, Outrun
  <2>2. CASE a.at = "stored" /\ snapshot' = snapshot
    BY <1>0, <1>2, <2>2 DEF Carried, Outrun
  <2>3. ASSUME a.at = "stored", NEW q \in Posters, poster[q].at = "read", poster[q].stamp > snapshot.captured,
               snapshot' = [captured |-> poster[q].stamp, feed |-> poster[q].read], poster'[q].at # "read"
        PROVE  snapshot'.feed >= v /\ Outrun(v, snapshot.captured)'
    <3>1. q = "uploader"
      BY <2>3 DEF Posters
    <3>2. u.read >= v
      BY <1>0, <2>3, <3>1 DEF Carried, Outrun
    <3> QED BY <2>3, <3>1, <3>2 DEF Outrun
  <2>4. a.at = "stored" \/ (a.at = "read" /\ snapshot' = [captured |-> a.stamp, feed |-> a.read])
    BY <1>5, UploadSteps, UploadNumbers
  <2> QED BY <2>1, <2>2, <2>3, <2>4, UploadSteps, UploadNumbers
<1> QED BY <1>3, <1>4, <1>5 DEF Carried

\* What the agent is at, step by step: it begins an upload when it has collected, and goes on
\* with it until it reports or is killed.
LEMMA AgentSteps ==
  ASSUME RefreshTyped, RowsInv, RefreshNext
  PROVE  /\ agent'.at = "uploading" =>
              \/ agent.at = "uploading" /\ agent' = agent /\ collectedAs' = collectedAs
              \/ poster'["agent"].at = "begin"
         /\ \A id \in Requests : Told(id) => collectedAs'[id] = collectedAs[id]
         /\ \A id \in Requests : collectedAs'[id] \in {collectedAs[id], feed'}
<1>0. /\ agent \in AgentRow /\ poster \in [Posters -> UploadRow] /\ "agent" \in Posters
      /\ collectedAs \in [Requests -> Nat] /\ feed \in Nat
  BY DEF RefreshTyped, Posters
<1>1. CASE Collect
  <2>1. agent.id \in Requests /\ ~Told(agent.id)
    BY <1>1 DEF Collect, RowsInv, Told
  <2>2. collectedAs' \in {collectedAs, [collectedAs EXCEPT ![agent.id] = feed + 1]}
        /\ (collectedAs' # collectedAs => feed' = feed + 1)
    BY <1>1 DEF Collect
  <2>3. agent'.at = "uploading" => poster' = [poster EXCEPT !["agent"].at = "begin"]
    BY <1>0, <1>1 DEF Collect, AgentRow
  <2>4. agent'.at = "uploading" => poster'["agent"].at = "begin"
    BY <1>0, <2>3 DEF UploadRow
  <2>5. ASSUME NEW id \in Requests
        PROVE  /\ collectedAs'[id] \in {collectedAs[id], feed'}
               /\ id # agent.id => collectedAs'[id] = collectedAs[id]
    BY <1>0, <2>2
  <2> QED BY <2>1, <2>4, <2>5
<1>2. CASE Report \/ AgentDies
  BY <1>2 DEF Report, AgentDies, NoAgent
<1>3. CASE ClaimRefresh
  BY <1>3 DEF ClaimRefresh
<1>4. CASE RequestRefresh \/ GetRefresh \/ StartUpload \/ Tick
  BY <1>4 DEF RequestRefresh, GetRefresh, StartUpload, Tick
<1>5. ASSUME NEW p \in Posters, StampAndRead(p) \/ Post(p) \/ UploadFails(p)
      PROVE  agent' = agent /\ collectedAs' = collectedAs
  BY <1>5 DEF StampAndRead, Post, UploadFails
<1> QED BY <1>1, <1>2, <1>3, <1>4, <1>5 DEF RefreshNext, Posters

\* A phone is told "collected" only by the report of an agent whose upload was stored.
LEMMA ToldSteps ==
  ASSUME RefreshTyped, RowsInv, RefreshNext, NEW id \in Requests, Told(id)'
  PROVE  \/ Told(id)
         \/ /\ agent.at = "uploading" /\ agent.collected /\ id = agent.id
            /\ poster["agent"].at = "stored" /\ poster' = [poster EXCEPT !["agent"] = NoUpload]
            /\ UNCHANGED <<snapshot, feed, collectedAs>>
<1>1. Expire[id].state \in {"completed", "cooldown"} => Expire[id] = request[id]
  BY Expiring
<1> HIDE DEF Expire
<1>2. CASE request'[id] = request[id]
  BY <1>2 DEF Told
<1>3. CASE request'[id] = Expire[id]
  BY <1>1, <1>3 DEF Told
<1>4. CASE request'[id] # request[id] /\ request'[id] # Expire[id]
  <2>1. ~Waited
    BY <1>4 DEF Waited
  <2>2. \A o \in Requests : ~Enqueued(o) /\ ~Claimed(o)
    <3> SUFFICES ASSUME NEW o \in Requests, Enqueued(o) \/ Claimed(o) PROVE FALSE
      OBVIOUS
    <3>1. o = id
      BY <1>4, RowsChanged
    <3> QED BY <3>1, RowsChanged DEF Told
  <2>3. PICK o \in Requests, state \in {"completed", "cooldown", "failed"} : Settled(o, state)
    BY <2>1, <2>2, RequestSteps
  <2>4. o = id /\ request'[id].state = state /\ state # "failed" /\ agent.collected /\ id = agent.id
    <3>1. o = agent.id
      BY <2>3 DEF Settled
    <3>2. o = id
      BY <1>4, <2>3, RowsChanged
    <3>3. request'[id].state = state /\ request'[id].collected = agent.collected
      BY <2>3, <3>2, RowsChanged
    <3> QED BY <3>1, <3>2, <3>3 DEF Told
  <2>5. agent' = NoAgent /\ agent.at # "polling"
    BY <2>3 DEF Settled
  <2>6. Report \/ AgentDies
    <3>1. ~ClaimRefresh
      BY <2>5 DEF ClaimRefresh
    <3>2. Collect => agent'.at # "polling"
      BY DEF Collect, RefreshTyped, AgentRow
    <3>3. RequestRefresh \/ GetRefresh \/ StartUpload \/ Tick => agent' = agent
      BY DEF RequestRefresh, GetRefresh, StartUpload, Tick
    <3>4. \A p \in Posters : StampAndRead(p) \/ Post(p) \/ UploadFails(p) => agent' = agent
      BY DEF StampAndRead, Post, UploadFails
    <3> QED BY <2>5, <3>1, <3>2, <3>3, <3>4 DEF RefreshNext, Posters, NoAgent
  <2>7. ~(Complete(agent.id, "failed"))
    <3>1. Complete(agent.id, "failed") => request'[id].state = "failed" \/ request'[id] = Expire[id]
      <4>1. Expire \in [Requests -> RequestRow]
        BY Expiring
      <4> QED BY <2>4, <4>1 DEF Complete, RequestRow
    <3> QED BY <1>4, <2>4, <3>1
  <2> QED BY <1>4, <2>4, <2>6, <2>7 DEF Report, AgentDies
<1> QED BY <1>2, <1>3, <1>4

\* The invariant of what is shown is kept by every step.
LEMMA ShownInvNext == RefreshTyped /\ RowsInv /\ ShownInv /\ [RefreshNext]_refreshVars => ShownInv'
<1> SUFFICES ASSUME RefreshTyped, RowsInv, ShownInv, RefreshNext PROVE ShownInv'
  <2>1. ASSUME ShownInv, UNCHANGED refreshVars PROVE ShownInv'
    <3>1. /\ clock' = clock /\ request' = request /\ snapshot' = snapshot /\ feed' = feed
          /\ agent' = agent /\ poster' = poster /\ collectedAs' = collectedAs
      BY <2>1 DEF refreshVars
    <3>2. \A id \in Requests : Told(id)' => Told(id)
      BY <3>1 DEF Told
    <3>3. \A id \in Requests : NotDropped(collectedAs[id]) => NotDropped(collectedAs[id])'
      BY <3>1 DEF NotDropped
    <3>4. Carried(collectedAs[agent.id]) => Carried(collectedAs[agent.id])'
      BY <3>1 DEF Carried, Outrun
    <3> QED BY <2>1, <3>1, <3>2, <3>3, <3>4 DEF ShownInv
  <2> QED BY <2>1
<1>0. /\ \A id \in Requests : collectedAs[id] \in Nat
      /\ agent.at = "uploading" => agent.id \in Requests
  BY DEF RefreshTyped, RowsInv
<1>1. \A id \in Requests : collectedAs'[id] <= feed'
  <2> SUFFICES ASSUME NEW id \in Requests PROVE collectedAs'[id] <= feed'
    OBVIOUS
  <2>1. feed' >= feed /\ feed' \in Nat /\ collectedAs[id] <= feed /\ feed \in Nat
    BY UploadSteps, UploadNumbers DEF ShownInv
  <2> QED BY <1>0, <2>1, AgentSteps
<1>2. \A p \in Posters : poster'[p].stamp <= clock'
  <2> SUFFICES ASSUME NEW p \in Posters PROVE poster'[p].stamp <= clock'
    OBVIOUS
  <2>1. poster'[p].stamp \in {poster[p].stamp, clock, 0}
    BY UploadSteps, UploadNumbers
  <2>2. clock' >= clock /\ clock' \in Nat /\ poster[p].stamp <= clock
    BY UploadSteps DEF ShownInv
  <2> QED BY <2>1, <2>2, UploadNumbers
<1>3. ASSUME NEW id \in Requests, Told(id)' PROVE NotDropped(collectedAs[id])'
  <2>1. CASE Told(id)
    <3>1. NotDropped(collectedAs[id]) /\ collectedAs[id] <= feed /\ collectedAs'[id] = collectedAs[id]
      BY <2>1, AgentSteps DEF ShownInv
    <3> DEFINE v == collectedAs[id]
    <3>2. v \in Nat /\ v <= feed /\ NotDropped(v) /\ collectedAs'[id] = v
      BY <1>0, <3>1
    <3> SUFFICES ASSUME NEW w \in Nat, w <= feed, NotDropped(w), collectedAs'[id] = w PROVE NotDropped(collectedAs[id])'
      BY <3>2
    <3>3. NotDropped(w)'
      BY KeptNext
    <3> QED BY <3>3 DEF NotDropped
  <2>2. CASE /\ agent.at = "uploading" /\ agent.collected /\ id = agent.id
             /\ poster["agent"].at = "stored" /\ poster' = [poster EXCEPT !["agent"] = NoUpload]
             /\ UNCHANGED <<snapshot, feed, collectedAs>>
    <3>1. snapshot.feed >= collectedAs[id] /\ Outrun(collectedAs[id], snapshot.captured)
      BY <2>2 DEF ShownInv, Carried
    <3>2. poster'["agent"].at # "read" /\ poster'["uploader"] = poster["uploader"]
      BY <2>2 DEF RefreshTyped, NoUpload, Posters
    <3> QED BY <2>2, <3>1, <3>2 DEF NotDropped, Outrun, Posters
  <2> QED BY <1>3, <2>1, <2>2, ToldSteps
<1>4. ASSUME (agent.at = "uploading" /\ agent.collected)' PROVE Carried(collectedAs[agent.id])'
  <2>1. CASE agent.at = "uploading" /\ agent' = agent /\ collectedAs' = collectedAs
    <3>1. /\ collectedAs[agent.id] \in Nat /\ collectedAs[agent.id] <= feed
          /\ Carried(collectedAs[agent.id]) /\ collectedAs'[agent'.id] = collectedAs[agent.id]
      BY <1>0, <1>4, <2>1 DEF ShownInv
    <3> SUFFICES ASSUME NEW w \in Nat, w <= feed, Carried(w), collectedAs'[agent'.id] = w
                 PROVE  Carried(collectedAs[agent.id])'
      BY <3>1
    <3>2. Carried(w)'
      BY CarriedNext DEF ShownInv
    <3> QED BY <3>2 DEF Carried, Outrun
  <2>2. CASE poster'["agent"].at = "begin"
    BY <2>2 DEF Carried
  <2> QED BY <1>4, <2>1, <2>2, AgentSteps
<1> QED BY <1>1, <1>2, <1>3, <1>4 DEF ShownInv

\* At the start nothing is told and nothing is under way.
LEMMA ShownStarts == RefreshInit => ShownInv
BY DEF RefreshInit, ShownInv, Told, Unasked, NoUpload, NoAgent, Posters

\* The inductive invariant of the dashboard: types, rows, and what each upload has read.
THEOREM DashboardInvariant == RefreshSpec => [](RefreshTyped /\ RowsInv /\ ShownInv)
BY RefreshStarts, ShownStarts, RefreshTypedNext, RowsInvNext, ShownInvNext, PTL DEF RefreshSpec

\* Whenever a phone is told "collected", the dashboard shows that collection or a later one,
\* whatever the two uploads, the expiry and the clock do.
THEOREM CollectedIsShown == RefreshSpec => []CollectedShown
<1>1. RefreshTyped /\ ShownInv => CollectedShown
  BY DEF ShownInv, CollectedShown, Told, NotDropped
<1> QED BY <1>1, DashboardInvariant, PTL
-----------------------------------------------------------------------------
(* Refresh: the bounds *)

\* The ids whose collection has made a version of the feed.
CollectedIds == {id \in Requests : collectedAs[id] # 0}

\* Nothing is stamped later than now or has read a feed that is not there yet, and each version
\* of the feed is one request's: a request collects once, between its claim and its report.
BoundsInv ==
  /\ clock \in 1..MaxClock
  /\ \A id \in Requests : request[id].requested <= clock /\ request[id].claimed <= clock
  /\ snapshot.captured <= clock /\ snapshot.feed <= feed
  /\ \A p \in Posters : poster[p].read <= feed
  /\ feed = Cardinality(CollectedIds)
  /\ \A id \in Requests : request[id].state \in {"none", "queued"} => collectedAs[id] = 0
  /\ agent.at = "collecting" => collectedAs[agent.id] = 0

\* Expiring a row keeps its times or forgets them, and makes no row wait again.
LEMMA ExpiringTimes ==
  ASSUME RefreshTyped, NEW id \in Requests
  PROVE  /\ Expire[id].requested \in {request[id].requested, 0}
         /\ Expire[id].claimed \in {request[id].claimed, 0}
         /\ Expire[id].state \in {"none", "queued"} => Expire[id] = request[id]
<1>1. request[id] \in RequestRow /\ Expire[id] = ExpiredRow(request[id])
  BY DEF RefreshTyped, Expire
<1>2. /\ FailedAt(request[id]).requested = request[id].requested
      /\ FailedAt(request[id]).claimed = request[id].claimed
  BY <1>1 DEF FailedAt, RequestRow
<1>3. [Unasked EXCEPT !.state = "deleted"].requested = 0 /\ [Unasked EXCEPT !.state = "deleted"].claimed = 0
  BY DEF Unasked
<1>4. ExpiredRow(request[id]) \in {request[id], FailedAt(request[id]), [Unasked EXCEPT !.state = "deleted"]}
  BY DEF ExpiredRow
<1>5. Expire[id].state \in {"none", "queued"} => Expire[id] = request[id]
  BY Expiring DEF Open, Terminal
<1> QED BY <1>1, <1>2, <1>3, <1>4, <1>5

\* The times of a row after any step are those it had, now, or none.
LEMMA RowTimes ==
  ASSUME RefreshTyped, RowsInv, [RefreshNext]_refreshVars, NEW id \in Requests
  PROVE  /\ request'[id].requested \in {request[id].requested, clock, 0}
         /\ request'[id].claimed \in {request[id].claimed, clock, 0}
         /\ request'[id].state \in {"none", "queued"} => request[id].state \in {"none", "queued"}
<1>1. CASE UNCHANGED refreshVars
  BY <1>1 DEF refreshVars
<1>e. Expire \in [Requests -> RequestRow]
  BY Expiring
<1>t. /\ Expire[id].requested \in {request[id].requested, 0}
      /\ Expire[id].claimed \in {request[id].claimed, 0}
      /\ Expire[id].state \in {"none", "queued"} => Expire[id] = request[id]
  BY ExpiringTimes
<1> HIDE DEF Expire
<1>2. CASE Waited
  BY <1>2, <1>t DEF Waited
<1>3. ASSUME NEW o \in Requests, Enqueued(o)
      PROVE  /\ request'[id].requested \in {request[id].requested, clock, 0}
             /\ request'[id].claimed \in {request[id].claimed, clock, 0}
             /\ request'[id].state \in {"none", "queued"} => request[id].state \in {"none", "queued"}
  BY <1>3, <1>e, <1>t DEF Enqueued, Unasked
<1>4. ASSUME NEW o \in Requests, Claimed(o)
      PROVE  /\ request'[id].requested \in {request[id].requested, clock, 0}
             /\ request'[id].claimed \in {request[id].claimed, clock, 0}
             /\ request'[id].state \in {"none", "queued"} => request[id].state \in {"none", "queued"}
  BY <1>4, <1>e, <1>t DEF Claimed, RequestRow
<1>5. ASSUME NEW o \in Requests, NEW state \in {"completed", "cooldown", "failed"}, Settled(o, state)
      PROVE  /\ request'[id].requested \in {request[id].requested, clock, 0}
             /\ request'[id].claimed \in {request[id].claimed, clock, 0}
             /\ request'[id].state \in {"none", "queued"} => request[id].state \in {"none", "queued"}
  BY <1>5, <1>e, <1>t DEF Settled, RequestRow
<1> QED BY <1>1, <1>2, <1>3, <1>4, <1>5, RequestSteps

\* What an upload has read after any step is what it had, the feed of now, or nothing.
LEMMA UploadReads ==
  ASSUME RefreshTyped, RefreshNext, NEW p \in Posters
  PROVE  poster'[p].read \in {poster[p].read, feed, 0}
<1>0. /\ poster \in [Posters -> UploadRow] /\ "agent" \in Posters /\ "uploader" \in Posters
      /\ NoUpload.read = 0
  BY DEF RefreshTyped, Posters, NoUpload
<1>1. CASE RequestRefresh \/ GetRefresh \/ ClaimRefresh \/ Tick
  BY <1>1 DEF RequestRefresh, GetRefresh, ClaimRefresh, Tick
<1>2. CASE Collect
  <2>1. poster' \in {poster, [poster EXCEPT !["agent"].at = "begin"]}
    BY <1>2 DEF Collect
  <2> QED BY <1>0, <2>1 DEF UploadRow
<1>3. CASE Report \/ AgentDies
  BY <1>0, <1>3 DEF Report, AgentDies
<1>4. CASE StartUpload
  BY <1>0, <1>4 DEF StartUpload, UploadRow
<1>5. ASSUME NEW q \in Posters, StampAndRead(q) PROVE poster'[p].read \in {poster[p].read, feed, 0}
  BY <1>0, <1>5 DEF StampAndRead, UploadRow
<1>6. ASSUME NEW q \in Posters, Post(q) \/ UploadFails(q) PROVE poster'[p].read \in {poster[p].read, feed, 0}
  <2>1. PICK reply \in {"stored", "refused"} : poster' = [poster EXCEPT ![q] = Replied(q, reply)]
    BY <1>6 DEF Post, UploadFails
  <2>2. Replied(q, reply).read \in {poster[q].read, 0}
    BY <1>0 DEF Replied, UploadRow
  <2> QED BY <1>0, <2>1, <2>2
<1> QED BY <1>1, <1>2, <1>3, <1>4, <1>5, <1>6 DEF RefreshNext, Posters

\* One more id has collected.
LEMMA OneMoreCollected ==
  ASSUME RefreshTyped, NEW id \in Requests, collectedAs[id] = 0, feed = Cardinality(CollectedIds),
         collectedAs' = [collectedAs EXCEPT ![id] = feed + 1]
  PROVE  Cardinality(CollectedIds') = feed + 1
<1>1. collectedAs \in [Requests -> Nat] /\ feed \in Nat
  BY DEF RefreshTyped
<1>2. CollectedIds' = CollectedIds \cup {id} /\ id \notin CollectedIds
  <2>1. feed + 1 # 0
    BY <1>1
  <2> QED BY <1>1, <2>1 DEF CollectedIds
<1>3. IsFiniteSet(CollectedIds)
  BY RefreshAssumption, FS_Subset DEF CollectedIds
<1> QED BY <1>2, <1>3, FS_AddElement

\* Who counts: the agent's collection, and nothing else.
LEMMA CountKept ==
  ASSUME RefreshTyped, RowsInv, BoundsInv, RefreshNext
  PROVE  /\ feed' = Cardinality(CollectedIds')
         /\ \A id \in Requests : request'[id].state \in {"none", "queued"} => collectedAs'[id] = 0
         /\ agent'.at = "collecting" => collectedAs'[agent'.id] = 0
<1>0. /\ agent \in AgentRow /\ collectedAs \in [Requests -> Nat] /\ feed \in Nat
  BY DEF RefreshTyped
<1>w. \A id \in Requests : request'[id].state \in {"none", "queued"} => request[id].state \in {"none", "queued"}
  BY RowTimes
<1>1. CASE collectedAs' = collectedAs /\ feed' = feed /\ (agent'.at = "collecting" => agent' = agent)
  BY <1>1, <1>w DEF BoundsInv, CollectedIds
<1>2. CASE ClaimRefresh /\ agent' # agent
  <2>1. agent.at = "polling" /\ agent'.at = "collecting" /\ collectedAs' = collectedAs /\ feed' = feed
    BY <1>2 DEF ClaimRefresh
  <2>2. PICK id \in Requests : Claimed(id)
    <3>1. \A id, state : ~Settled(id, state)
      BY <2>1 DEF Settled
    <3>2. \A id \in Requests : ~Enqueued(id)
      BY <1>2 DEF Enqueued
    <3>3. ~Waited
      BY <2>1 DEF Waited
    <3> QED BY <3>1, <3>2, <3>3, RequestSteps
  <2>3. agent'.id = id /\ Expire[id].state = "queued"
    BY <1>2, <2>2 DEF Claimed
  <2>4. request[id].state = "queued"
    BY <2>3, ExpiringTimes
  <2> QED BY <1>w, <2>1, <2>3, <2>4 DEF BoundsInv, CollectedIds
<1>3. CASE Collect
  <2>1. agent.at = "collecting" /\ agent.id \in Requests /\ request' = request
    BY <1>3 DEF Collect, RowsInv
  <2>2. collectedAs[agent.id] = 0 /\ request[agent.id].state \notin {"none", "queued"}
    BY <2>1 DEF BoundsInv, RowsInv
  <2>3. agent'.at # "collecting"
    BY <1>0, <1>3 DEF Collect, AgentRow
  <2>4. CASE collectedAs' = collectedAs /\ feed' = feed
    BY <2>1, <2>3, <2>4 DEF BoundsInv, CollectedIds
  <2>5. CASE collectedAs' = [collectedAs EXCEPT ![agent.id] = feed + 1] /\ feed' = feed + 1
    <3>1. feed' = Cardinality(CollectedIds')
      BY <2>1, <2>2, <2>5, OneMoreCollected DEF BoundsInv
    <3>2. ASSUME NEW id \in Requests, request'[id].state \in {"none", "queued"} PROVE collectedAs'[id] = 0
      BY <1>0, <2>1, <2>2, <2>5, <3>2 DEF BoundsInv
    <3> QED BY <2>3, <3>1, <3>2
  <2> QED BY <1>3, <2>4, <2>5 DEF Collect
<1>4. CASE RefreshNext /\ ~Collect /\ (ClaimRefresh => agent' = agent)
  <2>1. ClaimRefresh => collectedAs' = collectedAs /\ feed' = feed
    BY DEF ClaimRefresh
  <2>2. RequestRefresh \/ GetRefresh \/ StartUpload \/ Tick
          => collectedAs' = collectedAs /\ feed' = feed /\ agent' = agent
    BY DEF RequestRefresh, GetRefresh, StartUpload, Tick
  <2>3. Report \/ AgentDies => collectedAs' = collectedAs /\ feed' = feed /\ agent'.at # "collecting"
    BY DEF Report, AgentDies, NoAgent
  <2>4. \A p \in Posters : StampAndRead(p) \/ Post(p) \/ UploadFails(p)
          => collectedAs' = collectedAs /\ feed' = feed /\ agent' = agent
    BY DEF StampAndRead, Post, UploadFails
  <2> QED BY <1>1, <1>4, <2>1, <2>2, <2>3, <2>4 DEF RefreshNext, Posters
<1> QED BY <1>2, <1>3, <1>4

\* The bounds are kept by every step.
LEMMA BoundsNext ==
  RefreshTyped /\ RowsInv /\ ShownInv /\ BoundsInv /\ [RefreshNext]_refreshVars => BoundsInv'
<1>1. ASSUME BoundsInv, UNCHANGED refreshVars PROVE BoundsInv'
  BY <1>1 DEF refreshVars, BoundsInv, CollectedIds
<1> SUFFICES ASSUME RefreshTyped, RowsInv, ShownInv, BoundsInv, RefreshNext PROVE BoundsInv'
  BY <1>1
<1>0. /\ clock \in Nat /\ feed \in Nat /\ snapshot.captured \in Nat /\ snapshot.feed \in Nat
      /\ clock' >= clock /\ feed' >= feed /\ clock' \in Nat /\ feed' \in Nat
      /\ \A p \in Posters : poster[p].stamp \in Nat /\ poster[p].read \in Nat
  BY UploadNumbers, UploadSteps DEF Posters
<1>2. clock' \in 1..MaxClock
  <2>1. clock' = clock \/ (clock < MaxClock /\ clock' = clock + 1)
    <3>1. \A p \in Posters : StampAndRead(p) \/ Post(p) \/ UploadFails(p) => clock' = clock
      BY DEF StampAndRead, Post, UploadFails
    <3> QED BY <3>1 DEF RefreshNext, Posters, RequestRefresh, GetRefresh, ClaimRefresh, Collect, Report,
            AgentDies, StartUpload, Tick
  <2> QED BY <1>0, <2>1, RefreshAssumption DEF BoundsInv
<1>3. ASSUME NEW id \in Requests PROVE request'[id].requested <= clock' /\ request'[id].claimed <= clock'
  <2>1. request[id].requested <= clock /\ request[id].claimed <= clock
        /\ request[id].requested \in Nat /\ request[id].claimed \in Nat
    BY DEF BoundsInv, RefreshTyped, RequestRow
  <2> QED BY <1>0, <2>1, RowTimes
<1>4. snapshot'.captured <= clock' /\ snapshot'.feed <= feed'
  <2>1. CASE snapshot' = snapshot
    BY <1>0, <2>1 DEF BoundsInv
  <2>2. ASSUME NEW q \in Posters, snapshot' = [captured |-> poster[q].stamp, feed |-> poster[q].read]
        PROVE  snapshot'.captured <= clock' /\ snapshot'.feed <= feed'
    BY <1>0, <2>2 DEF BoundsInv, ShownInv
  <2> QED BY <2>1, <2>2, UploadSteps DEF Posters
<1>5. ASSUME NEW p \in Posters PROVE poster'[p].read <= feed'
  BY <1>0, UploadReads DEF BoundsInv
<1> QED BY <1>2, <1>3, <1>4, <1>5, CountKept DEF BoundsInv

LEMMA BoundsStart == RefreshInit => BoundsInv
<1> SUFFICES ASSUME RefreshInit PROVE BoundsInv
  OBVIOUS
<1>1. CollectedIds = {}
  BY DEF RefreshInit, CollectedIds
<1>2. Cardinality(CollectedIds) = 0
  BY <1>1, FS_EmptySet
<1>3. 1 \in 1..MaxClock
  BY RefreshAssumption
<1> QED BY <1>2, <1>3 DEF RefreshInit, BoundsInv, Unasked, NoUpload, NoAgent, Posters

\* The types follow: every version of the feed is one request's, so there are no more of them.
LEMMA RefreshTypes == RefreshTyped /\ ShownInv /\ BoundsInv => RefreshTypeOK
<1> SUFFICES ASSUME RefreshTyped, ShownInv, BoundsInv PROVE RefreshTypeOK
  OBVIOUS
<1>1. Cardinality(CollectedIds) <= Cardinality(Requests) /\ Cardinality(Requests) \in Nat
  BY RefreshAssumption, FS_Subset, FS_CardinalityType DEF CollectedIds
<1>2. /\ clock \in 1..MaxClock /\ feed \in 0..Cardinality(Requests)
      /\ snapshot.captured \in 0..clock /\ snapshot.feed \in 0..feed
  BY <1>1, UploadNumbers DEF BoundsInv
<1>3. ASSUME NEW id \in Requests
      PROVE  /\ request[id].state \in Open \cup Terminal \cup {"none", "deleted"}
             /\ request[id].requested \in 0..clock /\ request[id].claimed \in 0..clock
             /\ collectedAs[id] \in 0..feed
  BY DEF RefreshTyped, RequestRow, RequestStates, BoundsInv, ShownInv
<1>4. agent.at \in {"polling", "collecting", "uploading", "failing"}
  BY DEF RefreshTyped, AgentRow
<1>5. \A p \in Posters : poster[p].at \in {"idle", "begin", "stamped", "read", "stored", "refused"}
  BY DEF RefreshTyped, UploadRow
<1> QED BY <1>2, <1>3, <1>4, <1>5 DEF RefreshTypeOK, Posters

\* A request collects once, nothing is stamped later than now, and nobody shows a feed that
\* is not there yet.
THEOREM RefreshTyping == RefreshSpec => []RefreshTypeOK
<1>1. RefreshInit => RefreshTyped /\ RowsInv /\ ShownInv /\ BoundsInv
  BY RefreshStarts, ShownStarts, BoundsStart
<1>2. RefreshTyped /\ RowsInv /\ ShownInv /\ BoundsInv /\ [RefreshNext]_refreshVars
        => (RefreshTyped /\ RowsInv /\ ShownInv /\ BoundsInv)'
  BY RefreshTypedNext, RowsInvNext, ShownInvNext, BoundsNext
<1>3. RefreshTyped /\ RowsInv /\ ShownInv /\ BoundsInv => RefreshTypeOK
  BY RefreshTypes
<1> QED BY <1>1, <1>2, <1>3, PTL DEF RefreshSpec
-----------------------------------------------------------------------------
(* Readings *)

\* As of instant n: a reading's percentages are those of its stamp, its resets too or labelled with
\* the reading they come from, none is read later than n, and "ok" is said of no carried numbers.
Sound(n, r) ==
  /\ r = [observed |-> r.observed, status |-> r.status, stale |-> r.stale, windows |-> r.windows]
  /\ r.observed \in 0..n /\ r.stale \in BOOLEAN
  /\ r.stale => r.status # "ok"
  /\ \A w \in DOMAIN r.windows :
       /\ w \in QuotaWindows
       /\ r.windows[w] \in [used : 0..n, reset : 0..n, label : 0..n]
       /\ r.windows[w].used \in {0, r.observed}
       /\ r.windows[w].reset \in {0, r.observed, r.windows[w].label}

\* A session's event, which carries and labels nothing.
SoundEvent(n, r) ==
  /\ Sound(n, r) /\ ~r.stale
  /\ \A w \in DOMAIN r.windows : r.windows[w].label = 0

\* Every copy of a reading on its way to the page is sound.
ReadingsInv ==
  /\ instant \in 1..ReadClock
  /\ Sound(instant, obsFile) /\ Sound(instant, quota)
  /\ Sound(instant, overlay) /\ Sound(instant, upstream)
  /\ DOMAIN rollout = Homes /\ \A h \in Homes : SoundEvent(instant, rollout[h])

\* A new reading is sound, whatever its status.
LEMMA NewReading ==
  ASSUME instant \in 1..ReadClock, NEW status, NEW a, DOMAIN a \subseteq QuotaWindows,
         \A w \in DOMAIN a : a[w] \in {Number, Unnumbered, [Number EXCEPT !.reset = 0]}
  PROVE  SoundEvent(instant, Reading(status, a))
<1> DEFINE r == Reading(status, a)
<1>0. instant \in Nat /\ instant > 0
  BY ReadingsAssumption
<1>1. /\ r = [observed |-> r.observed, status |-> r.status, stale |-> r.stale, windows |-> r.windows]
      /\ r.observed = instant /\ r.stale = FALSE /\ r.windows = a
  BY DEF Reading
<1>2. ASSUME NEW w \in DOMAIN a
      PROVE  /\ a[w] \in [used : 0..instant, reset : 0..instant, label : 0..instant]
             /\ a[w].used \in {0, instant} /\ a[w].reset \in {0, instant} /\ a[w].label = 0
  <2>1. a[w] \in {Number, Unnumbered, [Number EXCEPT !.reset = 0]}
    OBVIOUS
  <2> QED BY <1>0, <2>1 DEF Number, Unnumbered
<1> HIDE DEF r
<1>3. Sound(instant, r)
  <2>1. r.observed \in 0..instant
    BY <1>0, <1>1
  <2>2. r.stale \in BOOLEAN /\ ~r.stale
    BY <1>1
  <2>3. \A w \in DOMAIN r.windows :
          /\ w \in QuotaWindows
          /\ r.windows[w] \in [used : 0..instant, reset : 0..instant, label : 0..instant]
          /\ r.windows[w].used \in {0, r.observed}
          /\ r.windows[w].reset \in {0, r.observed, r.windows[w].label}
    BY <1>1, <1>2
  <2>4. r = [observed |-> r.observed, status |-> r.status, stale |-> r.stale, windows |-> r.windows]
    BY <1>1
  <2> QED BY <2>1, <2>2, <2>3, <2>4, Zenon DEF Sound
<1>4. SoundEvent(instant, r)
  BY <1>1, <1>2, <1>3 DEF SoundEvent
<1> QED BY <1>4 DEF r

\* No reading at all, whatever is said of it.
LEMMA NothingRead ==
  ASSUME NEW n \in Nat, NEW status
  PROVE  SoundEvent(n, NoReading(status))
<1> DEFINE r == NoReading(status)
<1>1. /\ r.observed = 0 /\ r.stale = FALSE /\ r.windows = NoWindows
      /\ r = [observed |-> r.observed, status |-> r.status, stale |-> r.stale, windows |-> r.windows]
  BY DEF NoReading
<1> HIDE DEF r
<1>2. r.observed \in 0..n
  BY <1>1
<1>3. r.stale \in BOOLEAN /\ ~r.stale
  BY <1>1
<1>4. DOMAIN r.windows = {}
  BY <1>1 DEF NoWindows
<1>5. SoundEvent(n, r)
  BY <1>1, <1>2, <1>3, <1>4, Zenon DEF SoundEvent, Sound
<1> QED BY <1>5 DEF r

\* What is sound stays so as time passes.
LEMMA SoundStays ==
  ASSUME NEW n \in Nat, NEW r, Sound(n, r)
  PROVE  Sound(n + 1, r)
<1>1. \A x \in 0..n : x \in 0..(n + 1)
  OBVIOUS
<1>2. ASSUME NEW c \in [used : 0..n, reset : 0..n, label : 0..n]
      PROVE  c \in [used : 0..(n + 1), reset : 0..(n + 1), label : 0..(n + 1)]
  BY <1>1
<1> QED BY <1>1, <1>2 DEF Sound

\* A failed poll that carries the windows of a sound reading is sound.
LEMMA CarriedReading ==
  ASSUME ReadingsInv, NEW status, status # "ok"
  PROVE  Sound(instant, Carry(Empty(status), obsFile))
<1>1. SoundEvent(instant, Empty(status))
  BY NewReading DEF ReadingsInv, Empty, NoWindows
<1>2. CASE DOMAIN obsFile.windows = {}
  BY <1>1, <1>2 DEF Carry, SoundEvent
<1>3. CASE DOMAIN obsFile.windows # {}
  <2> DEFINE c == Carry(Empty(status), obsFile)
  <2>1. c = [observed |-> obsFile.observed, status |-> status, stale |-> TRUE,
             windows |-> obsFile.windows]
    BY <1>3 DEF Carry, Empty, Reading
  <2>2. /\ c.observed = obsFile.observed /\ c.status = status /\ c.stale = TRUE
        /\ c.windows = obsFile.windows
    BY <2>1
  <2>3. c = [observed |-> c.observed, status |-> c.status, stale |-> c.stale, windows |-> c.windows]
    BY <2>1, <2>2
  <2> HIDE DEF c
  <2>4. Sound(instant, obsFile)
    BY DEF ReadingsInv
  <2>5. Sound(instant, c)
    BY <2>2, <2>3, <2>4 DEF Sound
  <2> QED BY <2>5 DEF c
<1> QED BY <1>2, <1>3

\* The latest event is one of a home that has any.
LEMMA LatestHeard ==
  ASSUME ReadingsInv, Heard # {}
  PROVE  Latest \in Heard
<1>0. instant \in Nat
  BY DEF ReadingsInv
<1>1. \A h \in Heard : rollout[h].observed \in 0..instant
  BY DEF ReadingsInv, SoundEvent, Sound, Heard
<1> DEFINE ages == {instant - rollout[h].observed : h \in Heard}
<1>2. ages \subseteq Nat
  BY <1>0, <1>1
<1>3. ages # {}
  OBVIOUS
<1> HIDE DEF ages
<1>4. PICK n \in ages : \A m \in ages : ~(<<m, n>> \in OpToRel(<, Nat))
  BY <1>2, <1>3, NatLessThanWellFounded, WFMin
<1>5. \A m \in ages : ~(m < n)
  BY <1>2, <1>4 DEF OpToRel
<1>6. PICK h \in Heard : n = instant - rollout[h].observed
  BY <1>4 DEF ages
<1>7. ASSUME NEW g \in Heard PROVE rollout[g].observed <= rollout[h].observed
  <2>1. ~(instant - rollout[g].observed < n)
    BY <1>5 DEF ages
  <2> QED BY <1>0, <1>1, <1>6, <2>1
<1> QED BY <1>7 DEF Latest

\* The account of several homes: percentages of the latest event, resets labelled.
LEMMA MergedReading ==
  ASSUME ReadingsInv, NEW src \in Sources, Latest \in Homes
  PROVE  Sound(instant, [observed |-> rollout[Latest].observed, status |-> rollout[Latest].status,
                         stale |-> FALSE, windows |-> Merge(src)])
<1> DEFINE l == rollout[Latest]
           m == Merge(src)
           c == [observed |-> l.observed, status |-> l.status, stale |-> FALSE, windows |-> m]
<1>0. instant \in Nat
  BY DEF ReadingsInv
<1>1. SoundEvent(instant, l)
  BY DEF ReadingsInv
<1>2. /\ l = [observed |-> l.observed, status |-> l.status, stale |-> l.stale, windows |-> l.windows]
      /\ l.observed \in 0..instant /\ l.stale = FALSE
      /\ \A w \in DOMAIN l.windows : /\ l.windows[w].used \in {0, l.observed}
                                     /\ l.windows[w].used \in 0..instant
  BY <1>1 DEF SoundEvent, Sound
<1>3. DOMAIN m = QuotaWindows
  BY DEF Merge
<1>4. ASSUME NEW w \in QuotaWindows
      PROVE  /\ m[w] \in [used : 0..instant, reset : 0..instant, label : 0..instant]
             /\ m[w].used \in {0, l.observed} /\ m[w].reset \in {0, l.observed, m[w].label}
  <2> DEFINE s == rollout[src[w]]
  <2>1. /\ m[w].used = IF Gives(Latest, w) THEN l.windows[w].used ELSE 0
        /\ m[w].reset = IF src[w] = "none" THEN 0 ELSE s.windows[w].reset
        /\ m[w].label = IF src[w] = "none" \/ s.observed = l.observed THEN 0 ELSE s.observed
        /\ m[w] = [used |-> m[w].used, reset |-> m[w].reset, label |-> m[w].label]
    BY DEF Merge
  <2>2. m[w].used \in 0..instant /\ m[w].used \in {0, l.observed}
    BY <1>0, <1>2, <2>1 DEF Gives
  <2>3. /\ m[w].reset \in 0..instant /\ m[w].label \in 0..instant
        /\ m[w].reset \in {0, l.observed, m[w].label}
    <3>1. CASE src[w] = "none"
      BY <1>0, <2>1, <3>1
    <3>2. CASE src[w] # "none"
      <4>1. src[w] \in Homes /\ w \in DOMAIN s.windows
        BY <3>2 DEF Sources, Gives, Heard
      <4>2. SoundEvent(instant, s)
        BY <4>1 DEF ReadingsInv
      <4>3. /\ s.observed \in 0..instant /\ s.windows[w].reset \in 0..instant
            /\ s.windows[w].reset \in {0, s.observed, s.windows[w].label} /\ s.windows[w].label = 0
        BY <4>1, <4>2 DEF SoundEvent, Sound
      <4> HIDE DEF s, l, m
      <4> QED BY <1>0, <2>1, <3>2, <4>3
    <3> QED BY <3>1, <3>2
  <2> HIDE DEF s, l, m
  <2> QED BY <2>1, <2>2, <2>3
<1>6. /\ c.observed = l.observed /\ c.stale = FALSE /\ c.windows = m
      /\ c = [observed |-> c.observed, status |-> c.status, stale |-> c.stale, windows |-> c.windows]
  <2> HIDE DEF l, m
  <2> QED OBVIOUS
<1> HIDE DEF c, l, m
<1>7. Sound(instant, c)
  BY <1>2, <1>3, <1>4, <1>6 DEF Sound
<1> QED BY <1>7 DEF c, l, m

\* No step makes a copy that is not sound: each writes a new reading or passes a sound one on.
LEMMA ReadingsInvNext == ReadingsInv /\ [ReadingsNext]_readingsVars => ReadingsInv'
<1> SUFFICES ASSUME ReadingsInv, [ReadingsNext]_readingsVars PROVE ReadingsInv'
  OBVIOUS
<1>0. instant \in Nat /\ instant \in 1..ReadClock
  BY ReadingsAssumption DEF ReadingsInv
<1>c. \A status : Sound(instant, Empty(status))
  BY <1>0, NewReading DEF Empty, NoWindows, SoundEvent
<1>d. \A status, a : a \in Answers => Sound(instant, Reading(status, a))
  <2> SUFFICES ASSUME NEW status, NEW a \in Answers PROVE Sound(instant, Reading(status, a))
    OBVIOUS
  <2>1. PICK S \in SUBSET QuotaWindows : a \in [S -> {Number, Unnumbered}]
    BY DEF Answers
  <2>2. DOMAIN a \subseteq QuotaWindows /\ \A w \in DOMAIN a : a[w] \in {Number, Unnumbered}
    BY <2>1
  <2> QED BY <1>0, <2>2, NewReading DEF SoundEvent
<1>e. \A status : \A S \in SUBSET QuotaWindows : Sound(instant, Reading(status, Numbers(S)))
  BY <1>0, NewReading DEF SoundEvent, Numbers
<1>f. Sound(instant, QuotaFile)
  BY <1>0, NewReading DEF SoundEvent, QuotaFile
<1>1. ASSUME instant' = instant, rollout' = rollout, UNCHANGED shown,
             Sound(instant, obsFile'), Sound(instant, quota')
      PROVE  ReadingsInv'
  BY <1>1 DEF ReadingsInv, shown
<1>2. CASE PollClaude
  <2>1. Sound(instant, obsFile')
    BY <1>2, <1>d, CarriedReading DEF PollClaude
  <2> QED BY <1>1, <1>2, <2>1 DEF PollClaude, Collects, NextStep, ReadingsInv
<1>3. CASE CollectGoat
  <2>1. Sound(instant, obsFile')
    <3>1. ASSUME NEW a \in [QuotaWindows -> {Number, Unnumbered}] PROVE Sound(instant, Reading("ok", a))
      BY <1>0, NewReading DEF SoundEvent
    <3> QED BY <1>3, <1>c, <3>1 DEF CollectGoat
  <2> QED BY <1>1, <1>3, <2>1 DEF CollectGoat, Collects, NextStep, ReadingsInv
<1>4. CASE CollectZai
  <2>1. Sound(instant, obsFile') /\ Sound(instant, quota')
    BY <1>4, <1>c, <1>e, <1>f DEF CollectZai, ReadingsInv
  <2> QED BY <1>1, <1>4, <2>1 DEF CollectZai, Collects, NextStep
<1>5. CASE CollectCodex \/ CollectGo
  <2>1. Sound(instant, obsFile')
    BY <1>5, <1>c, <1>d, <1>e DEF CollectCodex, CollectGo
  <2> QED BY <1>1, <1>5, <2>1 DEF CollectCodex, CollectGo, Collects, NextStep, ReadingsInv
<1>6. CASE BuildOverlay
  <2>1. PICK src \in Sources : overlay' = AccountOverlay(src)
    BY <1>6 DEF BuildOverlay
  <2>2. Sound(instant, ZaiAccount)
    <3>1. Sound(instant, NoReading("unknown"))
      BY <1>0, NothingRead DEF SoundEvent
    <3> QED BY <3>1 DEF ReadingsInv, ZaiAccount
  <2>3. Sound(instant, CodexAccount(src))
    <3>1. CASE obsFile.status = "ok" \/ Heard = {}
      BY <1>0, <3>1, NothingRead DEF Absent, ReadingsInv, CodexAccount, SoundEvent
    <3>2. CASE obsFile.status # "ok" /\ Heard # {}
      <4>1. Latest \in Homes
        BY <3>2, LatestHeard DEF Heard
      <4>2. CodexAccount(src) = [observed |-> rollout[Latest].observed, status |-> rollout[Latest].status,
                                 stale |-> FALSE, windows |-> Merge(src)]
        BY <3>2 DEF CodexAccount
      <4> QED BY <4>1, <4>2, MergedReading
    <3> QED BY <3>1, <3>2
  <2>4. Sound(instant, overlay')
    BY <2>1, <2>2, <2>3 DEF AccountOverlay, ReadingsInv
  <2> QED BY <1>6, <2>4 DEF BuildOverlay, NextStep, files, ReadingsInv
<1>7. CASE SessionRecords
  <2>1. PICK h \in Homes, S \in SUBSET QuotaWindows, status \in {"ok", "error"} :
          \E a \in [S -> {Number, [Number EXCEPT !.reset = 0]}] :
            rollout' = [rollout EXCEPT ![h] = Reading(status, a)]
    BY <1>7 DEF SessionRecords
  <2>2. PICK a \in [S -> {Number, [Number EXCEPT !.reset = 0]}] :
          rollout' = [rollout EXCEPT ![h] = Reading(status, a)]
    BY <2>1
  <2>3. DOMAIN a \subseteq QuotaWindows
        /\ \A w \in DOMAIN a : a[w] \in {Number, Unnumbered, [Number EXCEPT !.reset = 0]}
    OBVIOUS
  <2>4. SoundEvent(instant, Reading(status, a))
    BY <1>0, <2>3, NewReading
  <2>5. DOMAIN rollout' = Homes /\ \A g \in Homes : SoundEvent(instant, rollout'[g])
    BY <2>2, <2>4 DEF ReadingsInv
  <2> QED BY <1>7, <2>5 DEF SessionRecords, ReadingsInv, shown
<1>8. CASE OperatorAttests \/ ClaudeOverlayLost
  <2>1. Sound(instant, obsFile') /\ Sound(instant, quota')
    BY <1>0, <1>8, <1>f, NothingRead DEF Absent, OperatorAttests, ClaudeOverlayLost, ReadingsInv, SoundEvent
  <2> QED BY <1>1, <1>8, <2>1 DEF OperatorAttests, ClaudeOverlayLost
<1>9. CASE ReadFeed
  BY <1>9 DEF ReadFeed, files, ReadingsInv
<1>10. CASE ReadTick
  <2>1. instant' = instant + 1 /\ instant' \in 1..ReadClock /\ UNCHANGED <<files, shown>>
    BY <1>0, <1>10, ReadingsAssumption DEF ReadTick
  <2>2. \A r : Sound(instant, r) => Sound(instant', r)
    BY <1>0, <2>1, SoundStays
  <2>3. \A r : SoundEvent(instant, r) => SoundEvent(instant', r)
    BY <2>2 DEF SoundEvent
  <2> QED BY <2>1, <2>2, <2>3 DEF ReadingsInv, files, shown
<1>11. CASE ChainStops \/ StepEnds \/ \E c \in DOMAIN Chains : StartChain(c)
  BY <1>11 DEF ChainStops, StepEnds, StartChain, NextStep, files, shown, ReadingsInv
<1>12. CASE UNCHANGED readingsVars
  BY <1>12 DEF readingsVars, ReadingsInv
<1> QED BY <1>2, <1>3, <1>4, <1>5, <1>6, <1>7, <1>8, <1>9, <1>10, <1>11, <1>12 DEF ReadingsNext

\* At the start nothing has been read.
LEMMA ReadingsBegin == ReadingsInit => ReadingsInv
<1>1. 1 \in 1..ReadClock /\ 1 \in Nat
  BY ReadingsAssumption
<1>2. SoundEvent(1, Absent) /\ Sound(1, Absent)
  BY <1>1, NothingRead DEF Absent, SoundEvent
<1> QED BY <1>1, <1>2 DEF ReadingsInit, ReadingsInv

\* A page served at any time shows no percentage of another instant than its stamp, no reset of
\* another reading without its label, and "ok" of no carried numbers, whatever chains stop
\* half-way, windows are carried and files are rebuilt between two reads (refresh_claude.py:113,
\* overlay_build.py:164, capacity.py: project).
THEOREM ReadingsAreHonest == ReadingsSpec => []ReadingsHonest
<1>1. ReadingsInv => ReadingsHonest
  BY DEF ReadingsInv, Sound, ReadingsHonest, Page, Project
<1>2. ReadingsInv /\ [ReadingsNext]_readingsVars => ReadingsInv'
  BY ReadingsInvNext
<1> QED BY <1>1, <1>2, ReadingsBegin, PTL DEF ReadingsSpec

\* The child under way is at a step of its chain.
ReadingsTyped ==
  /\ subject \in Providers
  /\ \/ child = NoChild
     \/ child \in [chain : DOMAIN Chains, step : Nat] /\ child.step \in 1..Len(Chains[child.chain])

\* The next step of a chain is one of its steps, or the chain has ended.
LEMMA ChainGoesOn ==
  ASSUME ReadingsTyped, child # NoChild, NextStep
  PROVE  \/ child' = NoChild
         \/ child' \in [chain : DOMAIN Chains, step : Nat] /\ child'.step \in 1..Len(Chains[child'.chain])
<1>1. /\ child \in [chain : DOMAIN Chains, step : Nat]
      /\ child.step \in 1..Len(Chains[child.chain])
  BY DEF ReadingsTyped
<1>2. CASE child.step = Len(Chains[child.chain])
  BY <1>2 DEF NextStep
<1>3. CASE child.step # Len(Chains[child.chain])
  <2>1. child' = [child EXCEPT !.step = child.step + 1]
    BY <1>3 DEF NextStep
  <2>2. child'.chain = child.chain /\ child'.step = child.step + 1 /\ child' \in [chain : DOMAIN Chains, step : Nat]
    BY <1>1, <2>1
  <2>3. Len(Chains["claude"]) = 5 /\ Len(Chains["go"]) = 3 /\ child.chain \in {"claude", "go"}
    BY <1>1 DEF Chains
  <2>4. Len(Chains[child.chain]) \in Nat
    BY <2>3
  <2> QED BY <1>1, <1>3, <2>2, <2>4
<1> QED BY <1>2, <1>3

\* Every step of the readings keeps the child in its chain.
LEMMA ReadingsTypedNext == ReadingsTyped /\ [ReadingsNext]_readingsVars => ReadingsTyped'
<1> SUFFICES ASSUME ReadingsTyped, [ReadingsNext]_readingsVars PROVE ReadingsTyped'
  OBVIOUS
<1>1. ASSUME child # NoChild, NextStep PROVE ReadingsTyped'
  <2>1. subject' = subject
    BY <1>1 DEF NextStep
  <2> QED BY <1>1, <2>1, ChainGoesOn DEF ReadingsTyped
<1>2. CASE PollClaude \/ CollectGoat \/ CollectCodex \/ CollectGo \/ CollectZai \/ BuildOverlay \/ StepEnds
  <2>1. child # NoChild /\ NextStep
    BY <1>2 DEF PollClaude, CollectGoat, CollectCodex, CollectGo, CollectZai, BuildOverlay, StepEnds,
                Collects, StepIs
  <2> QED BY <1>1, <2>1
<1>3. CASE ChainStops
  BY <1>3 DEF ChainStops, ReadingsTyped
<1>4. ASSUME NEW c \in DOMAIN Chains, StartChain(c) PROVE ReadingsTyped'
  <2>1. child' = [chain |-> c, step |-> 1] /\ subject' = subject
    BY <1>4 DEF StartChain
  <2>2. Len(Chains["claude"]) = 5 /\ Len(Chains["go"]) = 3 /\ c \in {"claude", "go"}
    BY DEF Chains
  <2>3. 1 \in 1..Len(Chains[c])
    <3>1. \A k \in {3, 5} : 1 \in 1..k
      OBVIOUS
    <3>2. Len(Chains[c]) \in {3, 5}
      BY <2>2, Zenon
    <3> QED BY <3>1, <3>2, Zenon
  <2> QED BY <2>1, <2>3 DEF ReadingsTyped
<1>5. CASE SessionRecords \/ OperatorAttests \/ ClaudeOverlayLost \/ ReadFeed \/ ReadTick
           \/ UNCHANGED readingsVars
  BY <1>5 DEF SessionRecords, OperatorAttests, ClaudeOverlayLost, ReadFeed, ReadTick, readingsVars,
              ReadingsTyped
<1> QED BY <1>2, <1>3, <1>4, <1>5 DEF ReadingsNext

\* Nothing has been read yet.
LEMMA ReadingsStart == ReadingsInit => ReadingsInv /\ ReadingsTyped
BY ReadingsBegin DEF ReadingsInit, ReadingsTyped

\* No reading is stamped later than now.
LEMMA ReadingsTypes == ReadingsInv /\ ReadingsTyped => ReadingsTypeOK
<1> SUFFICES ASSUME ReadingsInv, ReadingsTyped PROVE ReadingsTypeOK
  OBVIOUS
<1>1. \A r \in {obsFile, quota, overlay, upstream} \cup {rollout[h] : h \in Homes} : Sound(instant, r)
  BY DEF ReadingsInv, SoundEvent
<1>2. \A r \in {obsFile, quota, overlay, upstream} \cup {rollout[h] : h \in Homes} :
        /\ r.observed \in 0..instant
        /\ \A w \in DOMAIN r.windows : w \in QuotaWindows
             /\ r.windows[w] \in [used: 0..instant, reset: 0..instant, label: 0..instant]
  BY <1>1 DEF Sound
<1> QED BY <1>2 DEF ReadingsInv, ReadingsTyped, ReadingsTypeOK

\* Type correctness of the readings: neither a file nor the page has a stamp of the future.
THEOREM ReadingsTyping == ReadingsSpec => []ReadingsTypeOK
<1>1. ReadingsInv /\ ReadingsTyped /\ [ReadingsNext]_readingsVars => (ReadingsInv /\ ReadingsTyped)'
  BY ReadingsInvNext, ReadingsTypedNext
<1> QED BY <1>1, ReadingsStart, ReadingsTypes, PTL DEF ReadingsSpec
=============================================================================
