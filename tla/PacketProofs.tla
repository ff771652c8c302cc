---------------------------- MODULE PacketProofs ----------------------------
(***************************************************************************)
(* Proofs about packet attempts, for any set of attempts, any sizes and any *)
(* number of rounds.                                                       *)
(*                                                                         *)
(* A step of one attempt changes nothing of another but the free space, so  *)
(* what is said of one attempt at a time (Local) needs one case per action. *)
(* The disk guard relates two attempts: of two whose claims are young, at   *)
(* most one can have missed the other's (NoMutualMiss), as in a mutual      *)
(* exclusion by flags that are raised before they are read.                *)
(***************************************************************************)
EXTENDS MCAttempts, LedgerProofs

-----------------------------------------------------------------------------
(* Types: as much of them as the invariants need *)

Guards == [measured : Int, unread : SUBSET Attempts, counted : SUBSET Attempts]
Endings == {"unset", "exited", "failed", "limited", "idle", "wall"}
Loops == [round : Nat, session : BOOLEAN, idle : Nat, moved : BOOLEAN,
          gates : GateMarks \cup {"green", "unset"}, ended : Endings, reason : Reasons]
Trees == {"ungated", "gated"}
Settlements == {"dispatching", "held", "completed"}

Typed ==
  /\ free \in Int
  /\ reservation \in [Attempts -> Nat \cup {None}]
  /\ expired \subseteq Attempts
  /\ guard \in [Attempts -> Guards]
  /\ written \in [Attempts -> Int]
  /\ tree \in [Attempts -> Trees]
  /\ loop \in [Attempts -> Loops]
  /\ state \in [Attempts -> Settlements]
  /\ branch \in [Attempts -> Trees \cup {None}]
  /\ pc \in [Attempts -> Labels]

-----------------------------------------------------------------------------
(* The inductive invariant *)

Claimed == {"claimed", "measured", "reading", "cloning"}
BeforeLoop == {"admitted", "claiming", "cloned", "orphaned"} \cup Claimed
HasClone == {"cloned", "between", "working", "gating", "judging", "fetching", "fetched"}

\* What the directory of reservations holds at each point of an attempt.
ClaimInv(a) ==
  /\ AtStep(a, "admitted") => reservation[a] = None
  /\ pc[a] \in Claimed => reservation[a] = Size[a]
  /\ pc[a] \notin Claimed \cup {"dead", "orphaned"} => reservation[a] \in {None, 0}
  /\ a \in expired => reservation[a] # None
  /\ AtStep(a, "cloning") => guard[a].unread = {}

\* Where the work of an attempt is at each point of it.
WorkInv(a) ==
  /\ pc[a] \in BeforeLoop => loop[a].round = 0
  /\ pc[a] \in HasClone => written[a] = Size[a]
  /\ pc[a] \in {"fetched", "finishing"} => branch[a] = tree[a]
  /\ loop[a].round > 0 => written[a] = Size[a] \/ branch[a] = tree[a]

\* What the gates have seen of it.
GateInv(a) ==
  /\ pc[a] \in BeforeLoop \cup {"between", "working"} => loop[a].gates # "green"
  /\ AtStep(a, "judging") /\ loop[a].gates = "green" => tree[a] = "gated"
  /\ pc[a] \in {"fetching", "fetched", "finishing"} =>
       loop[a].gates = "green" /\ tree[a] = "gated"
  /\ state[a] = "completed" =>
       AtStep(a, "done") /\ loop[a].gates = "green" /\ branch[a] = "gated"

\* How the last round of an attempt ended, where a next one may begin.
RoundInv(a) ==
  /\ pc[a] \in BeforeLoop => loop[a].idle = 0
  /\ pc[a] \in {"between", "working"} => loop[a].idle < 2
  /\ AtStep(a, "gating") /\ loop[a].idle >= 2 => loop[a].ended = "idle"
  /\ AtStep(a, "between") /\ loop[a].round > 0 =>
       loop[a].session /\ loop[a].ended \notin {"wall", "limited"}

Local(a) == ClaimInv(a) /\ WorkInv(a) /\ GateInv(a) /\ RoundInv(a)

\* Attempt a has listed the claims and will not count b's.
Missed(a, b) ==
  pc[a] \in {"reading", "cloning"} /\ b \notin guard[a].unread \cup guard[a].counted
NoMutualMiss ==
  \A a, b \in Attempts :
    a # b /\ a \notin expired /\ b \notin expired => ~(Missed(a, b) /\ Missed(b, a))

PacketInv == Typed /\ (\A a \in Attempts : Local(a)) /\ NoMutualMiss

\* The steps of attempt a, its death and what is done to it from outside.
Steps(a) == AttemptStep(a) \/ Dies(a) \/ Expires(a) \/ HoldAbandoned(a)

-----------------------------------------------------------------------------
(* Each step keeps the types and touches one attempt *)

LEMMA InitPacketInv == PacketInit => PacketInv
BY SizeAssumption, SpaceAssumption, MarkAssumption
   DEF PacketInit, PacketInv, Typed, Guards, Loops, NoGuard, NoRounds, Local, ClaimInv, WorkInv,
       GateInv, RoundInv, NoMutualMiss, Missed, AtStep, Claimed, BeforeLoop, HasClone,
       Endings, Reasons, Trees, Settlements, Labels

\* What a step of attempt a leaves as it is for attempt b.
Untouched(b) ==
  /\ pc'[b] = pc[b] /\ reservation'[b] = reservation[b] /\ guard'[b] = guard[b]
  /\ written'[b] = written[b] /\ tree'[b] = tree[b] /\ loop'[b] = loop[b]
  /\ state'[b] = state[b] /\ branch'[b] = branch[b] /\ (b \in expired' <=> b \in expired)

\* What the fields of a guard or of a loop become leaves it one.
LEMMA GuardUpdates ==
  ASSUME NEW g \in Guards, NEW m \in Int, NEW u \in SUBSET Attempts,
         NEW c \in SUBSET Attempts
  PROVE  /\ [g EXCEPT !.measured = m] \in Guards
         /\ [g EXCEPT !.unread = u] \in Guards
         /\ [g EXCEPT !.unread = u, !.counted = c] \in Guards
BY DEF Guards

LEMMA LoopStops ==
  ASSUME NEW l \in Loops, NEW r \in Reasons
  PROVE  [l EXCEPT !.reason = r] \in Loops
BY DEF Loops

LEMMA LoopEnters ==
  ASSUME NEW l \in Loops PROVE [l EXCEPT !.round = l.round + 1] \in Loops
BY DEF Loops

LEMMA LoopWorks ==
  ASSUME NEW l \in Loops, NEW e \in Endings, NEW m \in BOOLEAN, NEW s \in BOOLEAN, NEW i \in Nat
  PROVE  [l EXCEPT !.ended = e, !.moved = m, !.session = s, !.idle = i] \in Loops
BY DEF Loops

LEMMA LoopGates ==
  ASSUME NEW l \in Loops, NEW g \in GateMarks \cup {"green"}, NEW r \in Reasons
  PROVE  [l EXCEPT !.gates = g, !.reason = r] \in Loops
BY DEF Loops

LEMMA EndedIsLoop ==
  ASSUME NEW l \in Loops PROVE Ended(l) \in Loops
BY DEF Loops, Ended, NoRounds, Endings, Reasons

LEMMA StepTyped ==
  ASSUME Typed, NEW a \in Attempts, Steps(a)
  PROVE  Typed' /\ \A b \in Attempts \ {a} : Untouched(b)
<1> USE SizeAssumption, SpaceAssumption DEF Typed, Untouched, ToStep, AtStep, packetVars, diskVars,
        Endings, Reasons, Trees, Settlements, Labels
<1>1. ASSUME NEW b \in Attempts, ReadClaim(a, b)
      PROVE  Typed' /\ \A c \in Attempts \ {a} : Untouched(c)
  <2> DEFINE c == IF Counts(b) THEN guard[a].counted \cup {b} ELSE guard[a].counted
             g == [guard[a] EXCEPT !.unread = guard[a].unread \ {b}, !.counted = c]
  <2>1. guard[a] \in Guards /\ guard[a].unread \in SUBSET Attempts
          /\ guard[a].counted \in SUBSET Attempts
    BY DEF Guards
  <2>2. g \in Guards
    BY <2>1, GuardUpdates
  <2>3. /\ guard' = [guard EXCEPT ![a] = g]
        /\ UNCHANGED <<diskVars, tree, loop, state, branch, pc>>
    BY <1>1, <2>1 DEF ReadClaim
  <2> HIDE DEF g
  <2> QED BY <2>2, <2>3
<1>2. CASE CreateClaim(a)
  BY <1>2 DEF CreateClaim, Guards, Loops
<1>3. CASE WriteClaim(a)
  BY <1>3 DEF WriteClaim, Guards, Loops
<1>4. CASE Measure(a)
  <2> DEFINE g == [guard[a] EXCEPT !.measured = free]
  <2>1. g \in Guards
    BY GuardUpdates
  <2>2. guard' = [guard EXCEPT ![a] = g]
    BY <1>4 DEF Measure
  <2>3. ToStep(a, "measured") /\ UNCHANGED <<diskVars, tree, loop, state, branch>>
    BY <1>4 DEF Measure
  <2> HIDE DEF g
  <2> QED BY <2>1, <2>2, <2>3
<1>5. CASE ListClaims(a)
  <2> DEFINE g == [guard[a] EXCEPT !.unread = {b \in Attempts : reservation[b] # None}]
  <2>1. g \in Guards
    BY GuardUpdates
  <2>2. guard' = [guard EXCEPT ![a] = g]
    BY <1>5 DEF ListClaims
  <2>3. ToStep(a, "reading") /\ UNCHANGED <<diskVars, tree, loop, state, branch>>
    BY <1>5 DEF ListClaims
  <2> HIDE DEF g
  <2> QED BY <2>1, <2>2, <2>3
<1>6. CASE StartClone(a)
  <2> DEFINE g == [guard[a] EXCEPT !.measured = 0]
  <2>1. g \in Guards
    <3>1. guard[a] \in Guards /\ 0 \in Int
      OBVIOUS
    <3> QED BY <3>1, GuardUpdates
  <2>2. guard' = [guard EXCEPT ![a] = g]
    BY <1>6 DEF StartClone
  <2>3. ToStep(a, "cloning") /\ UNCHANGED <<diskVars, tree, loop, state, branch>>
    BY <1>6 DEF StartClone
  <2> HIDE DEF g
  <2> QED BY <2>1, <2>2, <2>3
<1>7. CASE RefuseClone(a)
  BY <1>7 DEF RefuseClone, RemoveClaim, NoGuard, Guards, Loops
<1>8. CASE CloneWrites(a)
  BY <1>8 DEF CloneWrites, Guards, Loops
<1>9. CASE CloneDone(a)
  BY <1>9 DEF CloneDone, RemoveClaim, NoGuard, Guards, Loops
<1>10. CASE CloneFails(a)
  BY <1>10 DEF CloneFails, RemoveClaim, NoGuard, Guards, Loops
<1>11. CASE Fails(a)
  BY <1>11 DEF Fails, Ended, NoRounds, Guards, Loops
<1>12. CASE BeginLoop(a)
  BY <1>12 DEF BeginLoop, Guards, Loops
<1>13. CASE NoRound(a)
  <2>1. PICK r \in Reasons : Stop(a, r)
    BY <1>13 DEF NoRound
  <2> DEFINE l == [loop[a] EXCEPT !.reason = r]
  <2>2. l \in Loops
    BY LoopStops
  <2>3. loop' = [loop EXCEPT ![a] = l] /\ ToStep(a, "judging")
    BY <2>1 DEF Stop
  <2>4. UNCHANGED <<diskVars, guard, tree, state, branch>>
    BY <1>13 DEF NoRound
  <2> HIDE DEF l
  <2> QED BY <2>2, <2>3, <2>4
<1>14. CASE StartRound(a)
  <2> DEFINE l == [loop[a] EXCEPT !.round = loop[a].round + 1]
  <2>1. l \in Loops
    BY LoopEnters
  <2>2. loop' = [loop EXCEPT ![a] = l]
    BY <1>14 DEF StartRound
  <2>3. ToStep(a, "working") /\ UNCHANGED <<diskVars, guard, tree, state, branch>>
    BY <1>14 DEF StartRound
  <2> HIDE DEF l
  <2> QED BY <2>1, <2>2, <2>3
<1>15. CASE AgentEnds(a)
  <2>1. PICK how \in {"exited", "failed", "limited", "idle", "wall"},
             moved \in BOOLEAN, session \in BOOLEAN :
          /\ tree' = [tree EXCEPT ![a] = IF moved THEN "ungated" ELSE @]
          /\ loop' = [loop EXCEPT ![a].ended = how, ![a].moved = moved,
                                  ![a].session = @ \/ session,
                                  ![a].idle = IF how = "idle" THEN @ + 1 ELSE @]
    BY <1>15 DEF AgentEnds
  <2> DEFINE s == loop[a].session \/ session
             i == IF how = "idle" THEN loop[a].idle + 1 ELSE loop[a].idle
             l == [loop[a] EXCEPT !.ended = how, !.moved = moved, !.session = s, !.idle = i]
  <2>2. how \in Endings /\ s \in BOOLEAN /\ i \in Nat
    BY DEF Loops
  <2>3. l \in Loops
    <3>1. loop[a] \in Loops
      OBVIOUS
    <3> HIDE DEF s, i, Typed
    <3> QED BY <2>2, <3>1, LoopWorks
  <2>4. loop' = [loop EXCEPT ![a] = l]
    BY <2>1
  <2>5. ToStep(a, "gating") /\ UNCHANGED <<diskVars, guard, state, branch>>
    BY <1>15 DEF AgentEnds
  <2>6. tree' \in [Attempts -> Trees] /\ \A b \in Attempts \ {a} : tree'[b] = tree[b]
    BY <2>1
  <2> HIDE DEF l
  <2> QED BY <2>3, <2>4, <2>5, <2>6
<1>16. CASE RunGates(a)
  <2>1. PICK g \in GateMarks \cup {"green"} :
          /\ loop' = [loop EXCEPT ![a].gates = g, ![a].reason = Verdict(loop[a], g)]
          /\ tree' = [tree EXCEPT ![a] = "gated"]
          /\ ToStep(a, IF Verdict(loop[a], g) = "next" THEN "between" ELSE "judging")
    BY <1>16 DEF RunGates
  <2> DEFINE l == [loop[a] EXCEPT !.gates = g, !.reason = Verdict(loop[a], g)]
  <2>2. Verdict(loop[a], g) \in Reasons
    BY DEF Verdict
  <2>3. l \in Loops
    BY <2>2, LoopGates
  <2>4. loop' = [loop EXCEPT ![a] = l]
    BY <2>1
  <2>5. UNCHANGED <<diskVars, guard, state, branch>>
    BY <1>16 DEF RunGates
  <2>6. pc' \in [Attempts -> Labels] /\ \A b \in Attempts \ {a} : pc'[b] = pc[b]
    BY <2>1
  <2>7. tree' \in [Attempts -> Trees] /\ \A b \in Attempts \ {a} : tree'[b] = tree[b]
    BY <2>1
  <2> HIDE DEF l
  <2> QED BY <2>3, <2>4, <2>5, <2>6, <2>7
<1>17. CASE Judge(a)
  BY <1>17 DEF Judge, Ended, NoRounds, Guards, Loops
<1>18. CASE Fetch(a)
  BY <1>18 DEF Fetch, Guards, Loops
<1>19. CASE FetchFails(a)
  BY <1>19 DEF FetchFails, Guards, Loops
<1>20. CASE Reclaim(a)
  BY <1>20 DEF Reclaim, Guards, Loops
<1>21. CASE FinishPacket(a)
  BY <1>21 DEF FinishPacket, Guards, Loops
<1>22. CASE HoldPacket(a)
  BY <1>22 DEF HoldPacket, HoldState, Guards, Loops
<1>23. CASE Dies(a)
  <2>1. Ended(loop[a]) \in Loops
    BY EndedIsLoop
  <2>2. NoGuard \in Guards
    BY DEF NoGuard, Guards
  <2> QED BY <1>23, <2>1, <2>2 DEF Dies
<1>24. CASE Expires(a)
  BY <1>24 DEF Expires, Guards, Loops
<1>25. CASE HoldAbandoned(a)
  BY <1>25 DEF HoldAbandoned, HoldState, Guards, Loops
<1> QED BY <1>1, <1>2, <1>3, <1>4, <1>5, <1>6, <1>7, <1>8, <1>9, <1>10, <1>11, <1>12, <1>13, <1>14, <1>15, <1>16, <1>17, <1>18, <1>19, <1>20, <1>21, <1>22, <1>23, <1>24, <1>25 DEF Steps, AttemptStep

-----------------------------------------------------------------------------
(* Each step keeps what is said of its own attempt *)

LEMMA StepLocal ==
  ASSUME Typed, NEW a \in Attempts, Local(a), Steps(a)
  PROVE  Local(a)'
<1> USE SizeAssumption, SpaceAssumption, NoneAssumption, MarkAssumption
    DEF Typed, Local, ClaimInv, WorkInv, GateInv, RoundInv, ToStep, AtStep, packetVars, diskVars,
        Claimed, BeforeLoop, HasClone
<1>1. ASSUME NEW b \in Attempts, ReadClaim(a, b)
      PROVE  Local(a)'
  BY <1>1 DEF ReadClaim, Guards
<1>2. CASE CreateClaim(a)
  BY <1>2 DEF CreateClaim, Guards, Loops
<1>3. CASE WriteClaim(a)
  BY <1>3 DEF WriteClaim, Guards, Loops
<1>4. CASE Measure(a)
  BY <1>4 DEF Measure, Guards, Loops
<1>5. CASE ListClaims(a)
  BY <1>5 DEF ListClaims, Guards, Loops
<1>6. CASE StartClone(a)
  BY <1>6 DEF StartClone, Guards, Loops
<1>7. CASE RefuseClone(a)
  BY <1>7 DEF RefuseClone, RemoveClaim, NoGuard, Guards, Loops
<1>8. CASE CloneWrites(a)
  BY <1>8 DEF CloneWrites, Guards, Loops
<1>9. CASE CloneDone(a)
  BY <1>9 DEF CloneDone, RemoveClaim, NoGuard, Guards, Loops
<1>10. CASE CloneFails(a)
  BY <1>10 DEF CloneFails, RemoveClaim, NoGuard, Guards, Loops
<1>11. CASE Fails(a)
  BY <1>11 DEF Fails, Ended, NoRounds, Guards, Loops, Fallible
<1>12. CASE BeginLoop(a)
  BY <1>12 DEF BeginLoop, Guards, Loops
<1>13. CASE NoRound(a)
  BY <1>13 DEF NoRound, Stop, Guards, Loops
<1>14. CASE StartRound(a)
  BY <1>14 DEF StartRound, Guards, Loops
<1>15. CASE AgentEnds(a)
  BY <1>15 DEF AgentEnds, Guards, Loops
<1>16. CASE RunGates(a)
  BY <1>16 DEF RunGates, Verdict, Guards, Loops
<1>17. CASE Judge(a)
  BY <1>17 DEF Judge, Ended, NoRounds, Guards, Loops
<1>18. CASE Fetch(a)
  BY <1>18 DEF Fetch, Guards, Loops
<1>19. CASE FetchFails(a)
  BY <1>19 DEF FetchFails, Guards, Loops
<1>20. CASE Reclaim(a)
  BY <1>20 DEF Reclaim, Guards, Loops
<1>21. CASE FinishPacket(a)
  BY <1>21 DEF FinishPacket, Guards, Loops
<1>22. CASE HoldPacket(a)
  BY <1>22 DEF HoldPacket, HoldState, Guards, Loops
<1>23. CASE Dies(a)
  BY <1>23 DEF Dies, Ended, NoRounds, NoGuard, Guards, Loops
<1>24. CASE Expires(a)
  BY <1>24 DEF Expires, Guards, Loops
<1>25. CASE HoldAbandoned(a)
  BY <1>25 DEF HoldAbandoned, HoldState, Guards, Loops
<1> QED BY <1>1, <1>2, <1>3, <1>4, <1>5, <1>6, <1>7, <1>8, <1>9, <1>10, <1>11, <1>12, <1>13, <1>14, <1>15, <1>16, <1>17, <1>18, <1>19, <1>20, <1>21, <1>22, <1>23, <1>24, <1>25 DEF Steps, AttemptStep

-----------------------------------------------------------------------------
(* The disk guard: a claim is missed by one of two attempts at most *)

\* A claim is full, and counts while it is young, as long as its attempt may read or clone.
LEMMA ClaimCounts ==
  ASSUME NEW b \in Attempts, ClaimInv(b), pc[b] \in Claimed, b \notin expired
  PROVE  reservation[b] # None /\ Counts(b)
BY SizeAssumption, NoneAssumption DEF ClaimInv, Counts, Claimed, AtStep

\* An attempt newly misses a young claim only while the owner of it has not yet listed any.
LEMMA StepMisses ==
  ASSUME Typed, NEW a \in Attempts, NEW b \in Attempts, a # b, ClaimInv(b), Steps(a),
         b \notin expired, Missed(a, b)'
  PROVE  Missed(a, b) \/ ~Missed(b, a)
<1> USE DEF Typed, Missed, ToStep, AtStep, packetVars, diskVars
<1>1. Missed(b, a) => reservation[b] # None /\ Counts(b)
  BY ClaimCounts DEF Claimed
<1>2. CASE ListClaims(a)
  <2>1. guard'[a].unread = {c \in Attempts : reservation[c] # None}
    BY <1>2 DEF ListClaims, Guards
  <2> QED BY <1>1, <2>1
<1>3. ASSUME NEW c \in Attempts, ReadClaim(a, c)
      PROVE  Missed(a, b) \/ ~Missed(b, a)
  <2>1. pc' = pc /\ AtStep(a, "reading")
    BY <1>3 DEF ReadClaim
  <2>2. /\ guard'[a].unread = guard[a].unread \ {c}
        /\ guard'[a].counted = IF Counts(c) THEN guard[a].counted \cup {c} ELSE guard[a].counted
    BY <1>3 DEF ReadClaim, Guards
  <2>3. CASE c = b
    BY <1>1, <2>1, <2>2, <2>3
  <2>4. CASE c # b
    BY <2>1, <2>2, <2>4
  <2> QED BY <2>3, <2>4
<1>4. CASE StartClone(a)
  <2>1. guard'[a].unread = guard[a].unread /\ guard'[a].counted = guard[a].counted
    BY <1>4 DEF StartClone, Guards
  <2> QED BY <1>4, <2>1 DEF StartClone
<1>5. CASE CloneWrites(a)
  BY <1>5 DEF CloneWrites
<1>6. CASE HoldAbandoned(a)
  BY <1>6 DEF HoldAbandoned
<1>7. CASE \/ CreateClaim(a) \/ WriteClaim(a) \/ Measure(a) \/ RefuseClone(a)
           \/ CloneDone(a) \/ CloneFails(a) \/ Fails(a) \/ Dies(a) \/ Expires(a)
  BY <1>7 DEF CreateClaim, WriteClaim, Measure, RefuseClone, CloneDone, CloneFails, Fails,
              Dies, Expires
<1>8. CASE \/ BeginLoop(a) \/ NoRound(a) \/ StartRound(a) \/ AgentEnds(a) \/ RunGates(a)
           \/ Judge(a) \/ Fetch(a) \/ FetchFails(a) \/ Reclaim(a) \/ FinishPacket(a) \/ HoldPacket(a)
  BY <1>8 DEF BeginLoop, NoRound, Stop, StartRound, AgentEnds, RunGates, Judge, Fetch,
              FetchFails, Reclaim, FinishPacket, HoldPacket
<1> QED BY <1>2, <1>3, <1>4, <1>5, <1>6, <1>7, <1>8 DEF Steps, AttemptStep

\* A claim that was ignored counts again only when it is written anew or was removed, and its
\* owner has then read no claims.
LEMMA StepRenews ==
  ASSUME Typed, NEW a \in Attempts, NEW b \in Attempts, Steps(a), a \in expired, a \notin expired'
  PROVE  ~Missed(a, b)'
<1> USE DEF Typed, Missed, ToStep, AtStep, packetVars, diskVars
<1>1. CASE WriteClaim(a) \/ RefuseClone(a) \/ CloneDone(a) \/ CloneFails(a)
  BY <1>1 DEF WriteClaim, RefuseClone, CloneDone, CloneFails
<1>2. CASE ~(WriteClaim(a) \/ RefuseClone(a) \/ CloneDone(a) \/ CloneFails(a))
  BY <1>2 DEF Steps, AttemptStep, CreateClaim, Measure, ListClaims, ReadClaim, StartClone,
       CloneWrites, BeginLoop, Fails, NoRound, StartRound, AgentEnds, RunGates, Judge, Fetch,
       FetchFails, Reclaim, FinishPacket, HoldPacket, Dies, Expires, HoldAbandoned
<1> QED BY <1>1, <1>2

-----------------------------------------------------------------------------
(* The invariant is kept *)

LEMMA NextPacketInv == PacketInv /\ [PacketNext]_packetVars => PacketInv'
<1> SUFFICES ASSUME PacketInv, [PacketNext]_packetVars PROVE PacketInv'
  OBVIOUS
<1>1. CASE UNCHANGED packetVars
  BY <1>1 DEF packetVars, diskVars, PacketInv, Typed, Local, ClaimInv, WorkInv, GateInv, RoundInv,
              NoMutualMiss, Missed, AtStep
<1>2. ASSUME NEW a \in Attempts, Steps(a)
      PROVE  PacketInv'
  <2>1. Typed' /\ \A b \in Attempts \ {a} : Untouched(b)
    BY <1>2, StepTyped DEF PacketInv
  <2>2. \A b \in Attempts : Local(b)'
    <3>1. Local(a)'
      BY <1>2, StepLocal DEF PacketInv
    <3>2. ASSUME NEW b \in Attempts, b # a PROVE Local(b)'
      BY <2>1, <3>2 DEF PacketInv, Untouched, Local, ClaimInv, WorkInv, GateInv, RoundInv, AtStep
    <3> QED BY <3>1, <3>2
  <2>3. \A b, c \in Attempts : b # a => (Missed(b, c)' <=> Missed(b, c))
    BY <2>1 DEF Untouched, Missed
  <2>4. \A b \in Attempts : b # a /\ b \notin expired /\ Missed(a, b)' => Missed(a, b) \/ ~Missed(b, a)
    BY <1>2, StepMisses DEF PacketInv, Local
  <2>5. \A b \in Attempts : a \in expired /\ a \notin expired' => ~Missed(a, b)'
    BY <1>2, StepRenews DEF PacketInv
  <2>6. \A b \in Attempts \ {a} : b \in expired' <=> b \in expired
    BY <2>1 DEF Untouched
  <2>7. ASSUME NEW b \in Attempts \ {a}, a \notin expired', b \notin expired'
        PROVE  ~(Missed(a, b)' /\ Missed(b, a)')
    BY <2>3, <2>4, <2>5, <2>6, <2>7 DEF PacketInv, NoMutualMiss
  <2>8. NoMutualMiss'
    BY <2>3, <2>6, <2>7 DEF PacketInv, NoMutualMiss
  <2> QED BY <2>1, <2>2, <2>8 DEF PacketInv
<1>3. CASE PacketNext
  BY <1>2, <1>3 DEF PacketNext, Steps
<1> QED BY <1>1, <1>3

\* The invariant holds of every behaviour of the attempts, whatever their agents do and
\* whenever they die.
THEOREM PacketInvariant == PacketSpec => []PacketInv
<1> QED BY InitPacketInv, NextPacketInv, PTL DEF PacketSpec

\* Of two attempts in a clone whose claims are young, one has counted the other's size
\* (run_packet's "claim first, then read"), for any number of attempts, any interleaving of
\* their guards and claims that are ignored after their hour at any point, also of live clones.
THEOREM ClaimsAreSeen == PacketSpec => []ClaimsSeen
<1>1. PacketInv => ClaimsSeen
  BY DEF PacketInv, NoMutualMiss, Missed, Local, ClaimInv, ClaimsSeen, AtStep
<1> QED BY <1>1, PacketInvariant, PTL

\* No attempt that has ended weighs on a later disk guard (the unlinks of run_packet).
THEOREM ClaimsAreReleased == PacketSpec => []ClaimsReleased
<1>1. PacketInv => ClaimsReleased
  BY DEF PacketInv, Local, ClaimInv, ClaimsReleased, Counts, Claimed
<1> QED BY <1>1, PacketInvariant, PTL

\* Work is in its clone or in the project's branch: run_packet reclaims a clone only after
\* its branch was fetched.
THEOREM WorkIsKept == PacketSpec => []WorkKept
<1>1. PacketInv => WorkKept
  BY DEF PacketInv, Local, WorkInv, WorkKept
<1> QED BY <1>1, PacketInvariant, PTL

\* What run_packet finishes as completed is what all gates were green on.
THEOREM CompletedAreGated == PacketSpec => []CompletedIsGated
<1>1. PacketInv => CompletedIsGated
  BY DEF PacketInv, Local, GateInv, CompletedIsGated
<1> QED BY <1>1, PacketInvariant, PTL

\* What must hold of attempt a's last round when it enters another.
Justified(a) ==
  loop'[a].round > loop[a].round =>
    /\ loop[a].gates # "green" /\ loop[a].idle < 2
    /\ loop[a].round > 0 => loop[a].session /\ loop[a].ended \notin {"wall", "limited"}

\* Only StartRound enters a round.
LEMMA RoundStep ==
  PacketInv /\ [PacketNext]_packetVars => [\A a \in Attempts : Justified(a)]_packetVars
<1> SUFFICES ASSUME PacketInv, PacketNext, NEW b \in Attempts PROVE Justified(b)
  BY DEF PacketNext
<1>1. PICK a \in Attempts : Steps(a)
  BY DEF PacketNext, Steps
<1>2. CASE a # b
  BY <1>1, <1>2, StepTyped DEF PacketInv, Typed, Loops, Untouched, Justified
<1>3. CASE a = b /\ StartRound(a)
  BY <1>3 DEF StartRound, PacketInv, Local, GateInv, RoundInv, AtStep, BeforeLoop, Justified
<1>4. CASE a = b /\ ~StartRound(a)
  <2>1. loop'[a].round = loop[a].round
    <3> USE DEF PacketInv, Typed, Loops, packetVars, diskVars
    <3>1. CASE \/ CreateClaim(a) \/ WriteClaim(a) \/ Measure(a) \/ ListClaims(a)
               \/ (\E c \in Attempts : ReadClaim(a, c)) \/ StartClone(a) \/ RefuseClone(a)
               \/ CloneWrites(a) \/ CloneDone(a) \/ CloneFails(a) \/ BeginLoop(a)
               \/ Fetch(a) \/ FetchFails(a) \/ Reclaim(a) \/ FinishPacket(a) \/ HoldPacket(a)
               \/ Expires(a) \/ HoldAbandoned(a)
      <4>1. UNCHANGED loop
        BY <3>1 DEF CreateClaim, WriteClaim, Measure, ListClaims, ReadClaim, StartClone,
           RefuseClone, CloneWrites, CloneDone, CloneFails, BeginLoop, Fetch, FetchFails,
           Reclaim, FinishPacket, HoldPacket, Expires, HoldAbandoned
      <4> QED BY <4>1
    <3>2. CASE Fails(a) \/ Judge(a) \/ Dies(a)
      <4>1. loop' = [loop EXCEPT ![a] = Ended(loop[a])]
        BY <3>2 DEF Fails, Judge, Dies
      <4>2. Ended(loop[a]).round = loop[a].round
        BY DEF Ended, NoRounds
      <4> QED BY <4>1, <4>2
    <3>3. CASE NoRound(a)
      BY <3>3 DEF NoRound, Stop
    <3>4. CASE AgentEnds(a)
      BY <3>4 DEF AgentEnds
    <3>5. CASE RunGates(a)
      BY <3>5 DEF RunGates
    <3> QED BY <1>1, <1>4, <3>1, <3>2, <3>3, <3>4, <3>5 DEF Steps, AttemptStep
  <2> QED BY <1>4, <2>1 DEF PacketInv, Typed, Loops, Justified
<1> QED BY <1>2, <1>3, <1>4

\* build_loop enters a round only where the earlier ones leave something to fix and a
\* session to fix it in.
THEOREM RoundsAreJustified == PacketSpec => RoundJustified
BY RoundStep, PacketInvariant, PTL DEF PacketSpec, RoundJustified, Justified
-----------------------------------------------------------------------------
(* The volume and the bounds of an attempt *)

\* What is free and what the clones hold make up the volume.
VolumeKept == free + SumFunctionOnSet(written, Attempts) = Space

\* The bounds of the volume, of the claims and of the rounds.
BoundInv ==
  /\ free \in Nat /\ written \in [Attempts -> Nat] /\ VolumeKept
  /\ \A a \in Attempts :
       /\ written[a] <= Size[a]
       /\ reservation[a] \in {None, 0, Size[a]}
       /\ guard[a].measured \in 0..Space
       /\ loop[a].round <= MaxRounds
       /\ AtStep(a, "between") => loop[a].round < MaxRounds

\* A sum of naturals is one.
LEMMA SumIsNatural ==
  ASSUME NEW S, IsFiniteSet(S), NEW f \in [S -> Nat]
  PROVE  SumFunctionOnSet(f, S) \in Nat
BY SumFacts

\* A sum with one number replaced.
LEMMA SumMoved ==
  ASSUME NEW S, IsFiniteSet(S), NEW f \in [S -> Nat], NEW a \in S, NEW v \in Nat
  PROVE  SumFunctionOnSet([f EXCEPT ![a] = v], S) + f[a] = SumFunctionOnSet(f, S) + v
<1> DEFINE h == [f EXCEPT ![a] = v]
           R == S \ {a}
<1>1. h \in [S -> Nat] /\ h[a] = v /\ \A x \in R : h[x] = f[x]
  OBVIOUS
<1> HIDE DEF h
<1>2. IsFiniteSet(R) /\ R \in SUBSET S /\ S \in SUBSET S
  BY FS_Subset
<1>3. /\ SumFunctionOnSet(f, S) \in Nat /\ SumFunctionOnSet(f, R) \in Nat
      /\ SumFunctionOnSet(f, S) = f[a] + SumFunctionOnSet(f, R)
  BY <1>2, SumFacts
<1>4. SumFunctionOnSet(h, S) = v + SumFunctionOnSet(h, R)
  BY <1>1, <1>2, SumFacts
<1>5. SumFunctionOnSet(h, R) = SumFunctionOnSet(f, R)
  BY <1>1, <1>2, SumSame
<1> QED BY <1>3, <1>4, <1>5 DEF h

\* A sum of naturals that are all zero.
LEMMA SumOfNothing ==
  ASSUME NEW S, IsFiniteSet(S)
  PROVE  SumFunctionOnSet([x \in S |-> 0], S) = 0
<1> DEFINE g == [s \in SUBSET S |-> 0]
<1>1. Adds(g, [x \in S |-> 0], S)
  BY DEF Adds
<1> QED BY <1>1, SumIs

\* The volume is written, given back by a clone that failed, or given back by a reclaim.
LEMMA VolumeMoves ==
  ASSUME Typed, NEW a \in Attempts, Steps(a)
  PROVE  \/ UNCHANGED <<free, written>>
         \/ /\ written[a] < Size[a] /\ free > 0 /\ free' = free - 1
            /\ written' = [written EXCEPT ![a] = @ + 1]
         \/ free' = free + written[a] /\ written' = [written EXCEPT ![a] = 0]
BY DEF Steps, AttemptStep, diskVars, CreateClaim, WriteClaim, Measure, ListClaims, ReadClaim, StartClone,
       RefuseClone, CloneWrites, CloneDone, CloneFails, BeginLoop, Fails, NoRound, StartRound, AgentEnds,
       RunGates, Judge, Fetch, FetchFails, Reclaim, FinishPacket, HoldPacket, Dies, Expires, HoldAbandoned

\* Every unit is free or in one clone.
LEMMA VolumeStays ==
  ASSUME Typed, BoundInv, NEW a \in Attempts, Steps(a)
  PROVE  /\ free' \in Nat /\ written' \in [Attempts -> Nat] /\ VolumeKept'
         /\ \A b \in Attempts : written'[b] <= Size[b]
<1>0. /\ IsFiniteSet(Attempts) /\ Size \in [Attempts -> Nat \ {0}] /\ written \in [Attempts -> Nat]
      /\ free \in Nat /\ Space \in Nat
      /\ \A b \in Attempts : written[b] <= Size[b]
      /\ free + SumFunctionOnSet(written, Attempts) = Space
  BY SizeAssumption, SpaceAssumption DEF BoundInv, VolumeKept
<1>1. SumFunctionOnSet(written, Attempts) \in Nat
  BY <1>0, SumIsNatural
<1>2. CASE UNCHANGED <<free, written>>
  BY <1>0, <1>2 DEF VolumeKept
<1>3. CASE /\ written[a] < Size[a] /\ free > 0 /\ free' = free - 1
           /\ written' = [written EXCEPT ![a] = written[a] + 1]
  <2> DEFINE v == written[a] + 1
  <2>0. v \in Nat /\ written' = [written EXCEPT ![a] = v]
    BY <1>0, <1>3
  <2> HIDE DEF v
  <2>1. SumFunctionOnSet(written', Attempts) + written[a] = SumFunctionOnSet(written, Attempts) + v
    <3>1. SumFunctionOnSet([written EXCEPT ![a] = v], Attempts) + written[a] = SumFunctionOnSet(written, Attempts) + v
      BY <1>0, <2>0, SumMoved
    <3> QED BY <2>0, <3>1
  <2>2. SumFunctionOnSet(written', Attempts) \in Nat
    <3>1. written' \in [Attempts -> Nat]
      BY <1>0, <1>3
    <3> QED BY <1>0, <3>1, SumIsNatural
  <2>3. free' + SumFunctionOnSet(written', Attempts) = Space
    BY <1>0, <1>1, <1>3, <2>1, <2>2 DEF v
  <2> QED BY <1>0, <1>3, <2>3 DEF VolumeKept
<1>4. CASE free' = free + written[a] /\ written' = [written EXCEPT ![a] = 0]
  <2>1. SumFunctionOnSet(written', Attempts) + written[a] = SumFunctionOnSet(written, Attempts) + 0
    <3>1. 0 \in Nat
      OBVIOUS
    <3>2. SumFunctionOnSet([written EXCEPT ![a] = 0], Attempts) + written[a] = SumFunctionOnSet(written, Attempts) + 0
      BY <1>0, <3>1, SumMoved
    <3> QED BY <1>4, <3>2
  <2>2. SumFunctionOnSet(written', Attempts) \in Nat
    <3>1. written' \in [Attempts -> Nat]
      BY <1>0, <1>4
    <3> QED BY <1>0, <3>1, SumIsNatural
  <2>3. free' + SumFunctionOnSet(written', Attempts) = Space
    BY <1>0, <1>1, <1>4, <2>1, <2>2
  <2> QED BY <1>0, <1>4, <2>3 DEF VolumeKept
<1> QED BY <1>2, <1>3, <1>4, VolumeMoves

\* No guard measures more than the volume, and no loop enters more rounds than it may.
LEMMA BoundSteps ==
  ASSUME PacketInv, BoundInv, NEW a \in Attempts, Steps(a)
  PROVE  /\ reservation'[a] \in {None, 0, Size[a]}
         /\ guard'[a].measured \in 0..Space
         /\ loop'[a].round <= MaxRounds
         /\ AtStep(a, "between")' => loop'[a].round < MaxRounds
<1>0. /\ Typed /\ guard[a] \in Guards /\ loop[a] \in Loops /\ loop[a].round \in Nat /\ MaxRounds \in Nat \ {0}
      /\ reservation[a] \in {None, 0, Size[a]} /\ guard[a].measured \in 0..Space
      /\ loop[a].round <= MaxRounds /\ (AtStep(a, "between") => loop[a].round < MaxRounds)
      /\ free \in 0..Space /\ Space \in Nat
      /\ pc[a] \in BeforeLoop => loop[a].round = 0
  <2>1. SumFunctionOnSet(written, Attempts) \in Nat
    BY SizeAssumption, SumIsNatural DEF BoundInv
  <2>2. free \in 0..Space /\ Space \in Nat /\ MaxRounds \in Nat \ {0}
    BY <2>1, SpaceAssumption DEF BoundInv, VolumeKept
  <2> QED BY <2>2 DEF PacketInv, Typed, Loops, BoundInv, Local, WorkInv
<1>1. reservation'[a] \in {None, 0, Size[a]}
  BY <1>0 DEF Typed, Steps, AttemptStep, diskVars, CreateClaim, WriteClaim, Measure, ListClaims, ReadClaim, StartClone,
       RefuseClone, RemoveClaim, CloneWrites, CloneDone, CloneFails, BeginLoop, Fails, NoRound, StartRound, AgentEnds,
       RunGates, Judge, Fetch, FetchFails, Reclaim, FinishPacket, HoldPacket, Dies, Expires, HoldAbandoned
<1>2. guard'[a].measured \in 0..Space
  <2>1. CASE \E b \in Attempts : ReadClaim(a, b)
    BY <1>0, <2>1 DEF Typed, Guards, ReadClaim
  <2>2. CASE Measure(a) \/ ListClaims(a) \/ StartClone(a)
    BY <1>0, <2>2 DEF Typed, Guards, Measure, ListClaims, StartClone
  <2>3. CASE RefuseClone(a) \/ CloneDone(a) \/ CloneFails(a) \/ Dies(a)
    BY <1>0, <2>3 DEF Typed, NoGuard, RefuseClone, RemoveClaim, CloneDone, CloneFails, Dies
  <2> QED BY <1>0, <2>1, <2>2, <2>3 DEF Typed, Steps, AttemptStep, CreateClaim, WriteClaim,
       CloneWrites, BeginLoop, Fails, NoRound, StartRound, AgentEnds,
       RunGates, Judge, Fetch, FetchFails, Reclaim, FinishPacket, HoldPacket, Expires, HoldAbandoned
<1>3. loop'[a].round <= MaxRounds /\ (AtStep(a, "between")' => loop'[a].round < MaxRounds)
  <2> USE DEF Typed, AtStep, ToStep
  <2>1. CASE StartRound(a)
    BY <1>0, <2>1 DEF StartRound
  <2>2. CASE BeginLoop(a)
    BY <1>0, <2>2 DEF BeginLoop, BeforeLoop
  <2>3. CASE RunGates(a)
    <3>1. PICK g \in GateMarks \cup {"green"} :
            /\ loop' = [loop EXCEPT ![a].gates = g, ![a].reason = Verdict(loop[a], g)]
            /\ ToStep(a, IF Verdict(loop[a], g) = "next" THEN "between" ELSE "judging")
      BY <2>3 DEF RunGates
    <3>2. Verdict(loop[a], g) = "next" => loop[a].round < MaxRounds
      BY DEF Verdict
    <3>3. loop'[a].round = loop[a].round
      BY <1>0, <3>1
    <3>4. pc'[a] = "between" => Verdict(loop[a], g) = "next"
      BY <1>0, <3>1
    <3> QED BY <1>0, <3>2, <3>3, <3>4
  <2>4. CASE Fails(a) \/ Judge(a) \/ Dies(a)
    <3>1. loop'[a].round = loop[a].round /\ pc'[a] # "between"
      <4>1. loop' = [loop EXCEPT ![a] = Ended(loop[a])]
        BY <2>4 DEF Fails, Judge, Dies
      <4>2. Ended(loop[a]).round = loop[a].round
        BY DEF Ended, NoRounds
      <4>3. \E label \in Labels \ {"between"} : pc' = [pc EXCEPT ![a] = label]
        BY <2>4 DEF Fails, Judge, Dies, Labels
      <4> QED BY <1>0, <4>1, <4>2, <4>3
    <3> QED BY <1>0, <3>1
  <2>5. CASE NoRound(a) \/ AgentEnds(a)
    <3>1. loop'[a].round = loop[a].round /\ pc'[a] # "between"
      <4>1. CASE NoRound(a)
        <5>1. \E r \in Reasons : loop' = [loop EXCEPT ![a].reason = r]
          BY <4>1 DEF NoRound, Stop, Reasons
        <5>2. pc' = [pc EXCEPT ![a] = "judging"]
          BY <4>1 DEF NoRound, Stop
        <5> QED BY <1>0, <5>1, <5>2
      <4>2. CASE AgentEnds(a)
        <5>1. PICK how \in {"exited", "failed", "limited", "idle", "wall"}, moved \in BOOLEAN, session \in BOOLEAN :
                /\ tree' = [tree EXCEPT ![a] = IF moved THEN "ungated" ELSE @]
                /\ loop' = [loop EXCEPT ![a].ended = how, ![a].moved = moved,
                                        ![a].session = @ \/ session,
                                        ![a].idle = IF how = "idle" THEN @ + 1 ELSE @]
          BY <4>2 DEF AgentEnds
        <5>2. pc' = [pc EXCEPT ![a] = "gating"]
          BY <4>2 DEF AgentEnds
        <5> QED BY <1>0, <5>1, <5>2
      <4> QED BY <2>5, <4>1, <4>2
    <3> QED BY <1>0, <3>1
  <2>6. CASE \/ CreateClaim(a) \/ WriteClaim(a) \/ Measure(a) \/ ListClaims(a)
             \/ (\E b \in Attempts : ReadClaim(a, b)) \/ StartClone(a) \/ RefuseClone(a)
             \/ CloneWrites(a) \/ CloneDone(a) \/ CloneFails(a)
             \/ Fetch(a) \/ FetchFails(a) \/ Reclaim(a) \/ FinishPacket(a) \/ HoldPacket(a)
             \/ Expires(a) \/ HoldAbandoned(a)
    <3>1. loop' = loop /\ (pc'[a] = pc[a] \/ pc'[a] # "between")
      BY <1>0, <2>6 DEF CreateClaim, WriteClaim, Measure, ListClaims, ReadClaim, StartClone,
         RefuseClone, CloneWrites, CloneDone, CloneFails, Fetch, FetchFails,
         Reclaim, FinishPacket, HoldPacket, Expires, HoldAbandoned
    <3> QED BY <1>0, <3>1
  <2> QED BY <2>1, <2>2, <2>3, <2>4, <2>5, <2>6 DEF Steps, AttemptStep
<1> QED BY <1>1, <1>2, <1>3

\* Every step keeps the bounds: those of the attempt that takes it, and it touches no other.
LEMMA BoundNext == PacketInv /\ BoundInv /\ [PacketNext]_packetVars => BoundInv'
<1> SUFFICES ASSUME PacketInv, BoundInv, [PacketNext]_packetVars PROVE BoundInv'
  OBVIOUS
<1>1. CASE UNCHANGED packetVars
  BY <1>1 DEF packetVars, diskVars, BoundInv, VolumeKept, AtStep
<1>2. ASSUME NEW a \in Attempts, Steps(a) PROVE BoundInv'
  <2>0. Typed
    BY DEF PacketInv
  <2>1. \A b \in Attempts \ {a} : Untouched(b)
    BY <1>2, <2>0, StepTyped
  <2>2. ASSUME NEW b \in Attempts \ {a}
        PROVE  /\ reservation'[b] \in {None, 0, Size[b]} /\ guard'[b].measured \in 0..Space
               /\ loop'[b].round <= MaxRounds /\ (AtStep(b, "between")' => loop'[b].round < MaxRounds)
    BY <2>1 DEF Untouched, BoundInv, AtStep
  <2> QED BY <1>2, <2>0, <2>2, BoundSteps, VolumeStays DEF BoundInv
<1> QED BY <1>1, <1>2 DEF PacketNext, Steps

\* A volume without clones.
LEMMA BoundStart == PacketInit => BoundInv
<1> SUFFICES ASSUME PacketInit PROVE BoundInv
  OBVIOUS
<1>1. SumFunctionOnSet(written, Attempts) = 0
  BY SizeAssumption, SumOfNothing DEF PacketInit
<1>2. free + SumFunctionOnSet(written, Attempts) = Space
  BY <1>1, SpaceAssumption DEF PacketInit
<1> QED BY <1>2, SizeAssumption, SpaceAssumption DEF PacketInit, BoundInv, VolumeKept, NoGuard, NoRounds, AtStep

\* They are the types.
LEMMA PacketTypes == PacketInv /\ BoundInv => PacketTypeOK
<1> SUFFICES ASSUME PacketInv, BoundInv PROVE PacketTypeOK
  OBVIOUS
<1>1. free \in 0..Space
  <2>1. SumFunctionOnSet(written, Attempts) \in Nat
    BY SizeAssumption, SumIsNatural DEF BoundInv
  <2> QED BY <2>1, SpaceAssumption DEF BoundInv, VolumeKept
<1>2. Size \in [Attempts -> Nat \ {0}] /\ MaxRounds \in Nat
  BY SizeAssumption, SpaceAssumption
<1> QED BY <1>1, <1>2 DEF PacketInv, BoundInv, Typed, Guards, Loops, Trees, Settlements, PacketTypeOK

\* No unit of the volume is lost or given back twice, by clones that fail, processes that die
\* under a clone, reclaims and attempts that are held; and the types of the attempts.
THEOREM VolumeIsKept == PacketSpec => [](VolumeKept /\ PacketTypeOK)
<1>1. PacketInv /\ BoundInv => VolumeKept /\ PacketTypeOK
  BY PacketTypes DEF BoundInv
<1> QED BY <1>1, InitPacketInv, NextPacketInv, BoundStart, BoundNext, PTL DEF PacketSpec
-----------------------------------------------------------------------------
(* Attempts of both kinds *)

attemptsVars == <<part, packetVars, gridVars>>

\* The two kinds without what their scheduling owes them.
PacketMoves == PacketInit /\ [][PacketNext]_packetVars
GridMoves == GridInit /\ [][GridNext]_gridVars

\* Attempts of either kind move as attempts of their own specification, and so on the ledger
\* as its operations: neither way of running them does anything to the other.
THEOREM AttemptsImplementParts == AttemptsSpec => PacketMoves /\ GridMoves /\ Spec
<1>1. AttemptsInit => PacketInit /\ GridInit
  BY DEF AttemptsInit
<1>2. [AttemptsNext]_attemptsVars => [PacketNext]_packetVars /\ [GridNext]_gridVars
  BY DEF AttemptsNext, attemptsVars
<1>3. GridInit => Init
  BY DEF GridInit
<1>4. GridInv /\ [GridNext]_gridVars => [Next]_vars
  BY GridStepIsLedgerStep DEF GridInv
<1> QED BY <1>1, <1>2, <1>3, <1>4, GridInitInv, GridStepKeeps, PTL
       DEF AttemptsSpec, attemptsVars, PacketMoves, GridMoves, Spec

\* The invariants of both, which ask nothing of the scheduling.
LEMMA PartsKept == AttemptsSpec => [](PacketInv /\ BoundInv /\ GridInv)
BY AttemptsImplementParts, InitPacketInv, NextPacketInv, BoundStart, BoundNext, GridInitInv, GridStepKeeps, PTL
   DEF PacketMoves, GridMoves

\* What is promised of packets and what is promised of workers holds of both together.
THEOREM AttemptsSound ==
  AttemptsSpec => [](/\ ClaimsSeen /\ WorkKept /\ CompletedIsGated /\ VolumeKept
                     /\ LaunchOnce /\ CompletedIsStopped)
<1>1. PacketInv => ClaimsSeen /\ WorkKept /\ CompletedIsGated
  BY DEF PacketInv, NoMutualMiss, Missed, Local, ClaimInv, WorkInv, GateInv, ClaimsSeen, WorkKept,
         CompletedIsGated, AtStep
<1>2. BoundInv /\ GridInv => VolumeKept /\ LaunchOnce /\ CompletedIsStopped
  BY DEF BoundInv, GridInv
<1> QED BY <1>1, <1>2, PartsKept, PTL

\* The rounds of a packet stay justified, and a worker still settles what it ends.
THEOREM AttemptsSteps == AttemptsSpec => RoundJustified /\ SettlesAndReaps
BY AttemptsImplementParts, PartsKept, RoundStep, EndingsSettle, PTL
   DEF PacketMoves, GridMoves, RoundJustified, Justified, SettlesAndReaps
=============================================================================
