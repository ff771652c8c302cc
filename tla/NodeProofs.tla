------------------------------ MODULE NodeProofs ------------------------------
(***************************************************************************)
(* What the code nodes of a board promise, proved for every value of the    *)
(* constants: landings (Land), the plan node and its fix plans (Drafts),     *)
(* calibration runs (Calibration) and the packets of a branch review         *)
(* (ReviewPlan).  Each part has its inductive invariant, one lemma per       *)
(* action or group of actions, and the theorem of its specification.         *)
(***************************************************************************)
EXTENDS Land, Drafts, Calibration, ReviewPlan, SequenceTheorems, TLAPS

-----------------------------------------------------------------------------
(* Landings *)

LandRows == [pc : LanderPcs, packet : Packets \cup {NoPacket},
             head : Commits \cup {NoCommit}, commit : Commits \cup {NoCommit}]

\* What a landing has read by the time it uses it.
LandRead ==
  \A l \in Landers :
    /\ lander[l].pc \notin {"idle", "dead"} => lander[l].packet \in Packets
    /\ lander[l].pc \notin {"idle", "dead", "reading", "raised"} => lander[l].head \in Commits
    /\ lander[l].pc = "moving" => /\ lander[l].commit \in Commits
                                  /\ lander[l].commit.merged \in gated

\* While none has died: whoever holds the lock is named by it or is about to be, alone.
LandHeld ==
  crashes = 0 =>
    /\ \A l \in Landers :
         /\ lander[l].pc \notin {"dead", "stealing", "remaking"}
         /\ lander[l].pc = "signing" => lock = "nopid"
         /\ lander[l].pc \in Critical => lock = l
    /\ \A k, l \in Landers : lander[k].pc = "signing" /\ lander[l].pc = "signing" => k = l

LandInv == LandTypeOK /\ BaseGated /\ LandRead /\ LandHeld

\* At the start no landing has begun and the base holds nothing.
LEMMA LandBegins == LandInit => LandInv
<1> SUFFICES ASSUME LandInit PROVE LandInv
    OBVIOUS
<1>1. file \in [Packets -> FileStates]
    BY DEF LandInit, FileStates
<1>2. base \in Commits /\ base.merged \in gated
    BY <1>1 DEF LandInit, Commits
<1>3. /\ lander \in [Landers -> LandRows]
      /\ \A l \in Landers : lander[l].pc = "idle"
    BY DEF LandInit, NoLanding, LandRows, LanderPcs
<1>4. LandTypeOK
    BY <1>1, <1>2, <1>3 DEF LandTypeOK, LandRows, LandInit
<1>5. LandRead /\ LandHeld
    BY <1>3 DEF LandRead, LandHeld, Critical
<1> QED BY <1>2, <1>4, <1>5 DEF LandInv, BaseGated

\* A landing that is about to take the lock, or refused it.
LEMMA LandLocks ==
  ASSUME LandInv, NEW l \in Landers,
         \/ MakeLock(l) \/ LockHeld(l) \/ RemoveDeadLock(l) \/ RemakeLock(l) \/ SignLock(l)
  PROVE  LandInv'
<1> USE DEF LandInv, LandTypeOK, LandRead, BaseGated, LanderAt, LanderTo, Leave, LandRows
<1>u. UNCHANGED <<file, base, crashes, gated>>
    BY DEF MakeLock, LockHeld, RemoveDeadLock, RemakeLock, SignLock
<1>n. NoLanding \in LandRows /\ NoLanding.pc = "idle"
    BY DEF NoLanding, LanderPcs
<1>1. LandTypeOK'
    BY <1>u, <1>n
      DEF MakeLock, LockHeld, RemoveDeadLock, RemakeLock, SignLock, LanderPcs
<1>2. LandRead'
    BY <1>u, <1>n DEF MakeLock, LockHeld, RemoveDeadLock, RemakeLock, SignLock
<1>3. LandHeld'
    BY <1>u, <1>n, LandersAssumption
      DEF MakeLock, LockHeld, RemoveDeadLock, RemakeLock, SignLock, LandHeld, Critical, Alive
<1> QED BY <1>u, <1>1, <1>2, <1>3

\* A landing's row may be replaced by another.
LEMMA LanderMoves ==
  ASSUME lander \in [Landers -> LandRows], NEW l \in Landers, NEW row \in LandRows
  PROVE  [lander EXCEPT ![l] = row] \in [Landers -> LandRows]
OBVIOUS

\* A row may have a base read or a merge made put into it.
LEMMA LanderRows ==
  ASSUME NEW row \in LandRows, NEW c \in Commits
  PROVE  /\ [row EXCEPT !.pc = "locking", !.head = c] \in LandRows
         /\ [row EXCEPT !.pc = "moving", !.commit = c] \in LandRows
<1>1. "locking" \in LanderPcs /\ "moving" \in LanderPcs
    BY DEF LanderPcs
<1> QED BY <1>1 DEF LandRows

\* What a landing reads before the lock: the task, and the base with its board brought along.
LEMMA LandReads ==
  ASSUME LandInv, NEW l \in Landers, (\E t \in Packets : ReadTask(l, t)) \/ ReadBase(l)
  PROVE  LandInv'
<1> USE DEF LandInv, LandTypeOK, LandRead, LandHeld, BaseGated, LanderAt, LandRows, Critical
<1>1. CASE \E t \in Packets : ReadTask(l, t)
  <2> PICK t \in Packets : ReadTask(l, t)
      BY <1>1
  <2> DEFINE row == [NoLanding EXCEPT !.pc = "reading", !.packet = t]
  <2>1. row \in LandRows /\ row.pc = "reading" /\ row.packet = t
      BY DEF NoLanding, LanderPcs
  <2>2. lander' = [lander EXCEPT ![l] = row] /\ UNCHANGED <<file, base, lock, crashes, gated>>
      BY DEF ReadTask
  <2> HIDE DEF row
  <2>3. LandTypeOK'
      BY <2>1, <2>2, LanderMoves
  <2>4. (LandRead /\ LandHeld)'
      BY <2>1, <2>2
  <2> QED BY <2>2, <2>3, <2>4
<1>2. CASE ReadBase(l)
  <2>1. base' \in Commits /\ base'.merged = base.merged
      BY <1>2 DEF ReadBase, Commits
  <2>2. UNCHANGED <<file, lock, crashes, gated>>
      BY <1>2 DEF ReadBase
  <2>3. lander' = [lander EXCEPT ![l].pc = "locking", ![l].head = base']
      BY <1>2 DEF ReadBase
  <2> DEFINE row == [lander[l] EXCEPT !.pc = "locking", !.head = base']
  <2>4. LandTypeOK'
    <3>1. lander[l] \in LandRows
        OBVIOUS
    <3>2. row \in LandRows
        BY <2>1, <3>1, LanderRows
    <3>3. lander' = [lander EXCEPT ![l] = row]
        BY <2>3
    <3> HIDE DEF row
    <3>4. lander' \in [Landers -> LandRows]
        BY <3>2, <3>3, LanderMoves
    <3> QED BY <2>1, <2>2, <3>4
  <2>5. (LandRead /\ LandHeld)'
      BY <1>2, <2>1, <2>2, <2>3 DEF ReadBase
  <2> QED BY <2>1, <2>2, <2>4, <2>5
<1> QED BY <1>1, <1>2

\* The merge and the move of the base: only a gated combination is moved to.
LEMMA LandMerges ==
  ASSUME LandInv, NEW l \in Landers, Probe(l) \/ MergeAndCommit(l) \/ MoveBase(l)
  PROVE  LandInv'
<1> USE DEF LandInv, LandTypeOK, LandRead, LandHeld, BaseGated, LanderAt, LanderTo, LandRows, Critical
<1>1. CASE Probe(l)
    BY <1>1 DEF Probe, LanderPcs
<1>2. CASE MergeAndCommit(l)
  <2> DEFINE head == lander[l].head
             merged == head.merged \cup {Packet(l)}
             commit == [head EXCEPT !.merged = merged]
  <2>1. head \in Commits /\ Packet(l) \in Packets
      BY <1>2 DEF MergeAndCommit, Packet
  <2>2. merged \in SUBSET Packets /\ commit \in Commits /\ commit.merged = merged
      BY <2>1 DEF Commits
  <2>3. UNCHANGED <<file, base, lock, crashes>> /\ LanderAt(l, "merging")
      BY <1>2 DEF MergeAndCommit
  <2>4. CASE /\ lander' = [lander EXCEPT ![l].pc = "moving", ![l].commit = commit]
             /\ gated' = gated \cup {merged}
    <3> HIDE DEF head, merged, commit
    <3>0. lander \in [Landers -> LandRows] /\ lander[l] \in LandRows
        OBVIOUS
    <3> DEFINE row == [lander[l] EXCEPT !.pc = "moving", !.commit = commit]
    <3>a. row \in LandRows
        BY <2>2, <3>0, LanderRows
    <3>b. lander' = [lander EXCEPT ![l] = row]
        BY <2>4, <3>0
    <3> HIDE DEF row
    <3>1. lander' \in [Landers -> LandRows]
        BY <3>0, <3>a, <3>b, LanderMoves
    <3>4. gated' \subseteq SUBSET Packets
        BY <2>2, <2>4
    <3>5. LandTypeOK'
        BY <2>3, <3>1, <3>4
    <3>2. LandRead'
        BY <2>2, <2>3, <2>4
    <3>3. LandHeld'
        BY <2>2, <2>3, <2>4
    <3> QED BY <2>3, <2>4, <3>2, <3>3, <3>5
  <2>5. CASE LanderTo(l, "blocking") /\ UNCHANGED gated
      BY <2>3, <2>5 DEF LanderPcs
  <2> QED BY <1>2, <2>4, <2>5 DEF MergeAndCommit
<1>3. CASE MoveBase(l)
    BY <1>3 DEF MoveBase, LanderPcs
<1> QED BY <1>1, <1>2, <1>3

\* The checkout, the task file, the lock given back, errors.
LEMMA LandSettles ==
  ASSUME LandInv, NEW l \in Landers,
         \/ SyncCheckout(l) \/ SettleLanding(l, "settling", "landed")
         \/ SettleLanding(l, "blocking", "blocked") \/ Release(l) \/ GitFails(l) \/ BlockFailed(l)
  PROVE  LandInv'
<1> USE DEF LandInv, LandTypeOK, LandRead, LandHeld, BaseGated, LanderAt, LanderTo, Leave,
            LandRows, Critical
<1>n. NoLanding \in LandRows /\ NoLanding.pc = "idle"
    BY DEF NoLanding, LanderPcs
<1>1. CASE SyncCheckout(l)
  <2>1. file' \in [Packets -> FileStates]
      BY <1>1 DEF SyncCheckout, Commits
  <2>2. LandTypeOK'
      BY <1>1, <2>1 DEF SyncCheckout, LanderPcs
  <2> QED BY <1>1, <2>2 DEF SyncCheckout
<1>2. CASE SettleLanding(l, "settling", "landed") \/ SettleLanding(l, "blocking", "blocked")
  <2>1. file' \in [Packets -> FileStates]
      BY <1>2 DEF SettleLanding, FileStates
  <2>2. LandTypeOK'
      BY <1>2, <2>1 DEF SettleLanding, LanderPcs
  <2> QED BY <1>2, <2>2 DEF SettleLanding
<1>3. CASE Release(l)
    BY <1>3, <1>n, LandersAssumption DEF Release, LanderPcs
<1>4. CASE GitFails(l)
    BY <1>4 DEF GitFails, LanderPcs
<1>5. CASE BlockFailed(l)
    BY <1>5, <1>n DEF BlockFailed, FileStates
<1> QED BY <1>1, <1>2, <1>3, <1>4, <1>5

\* Every step of the specification keeps the invariant.
LEMMA LandStepKeeps == LandInv /\ [LandNext]_landVars => LandInv'
<1> SUFFICES ASSUME LandInv, [LandNext]_landVars PROVE LandInv'
    OBVIOUS
<1>1. CASE \E l \in Landers : LanderStep(l)
  <2> PICK l \in Landers : LanderStep(l)
      BY <1>1
  <2> QED BY LandReads, LandLocks, LandMerges, LandSettles DEF LanderStep
<1>2. CASE \E l \in Landers : LanderDies(l)
    BY <1>2 DEF LandInv, LandTypeOK, LandRead, LandHeld, BaseGated, LandRows, LanderDies, LanderAt,
                LanderTo, LanderPcs
<1>3. CASE \E t \in Packets : BuildPasses(t)
    BY <1>3 DEF LandInv, LandTypeOK, LandRead, LandHeld, BaseGated, LandRows, BuildPasses,
                FileStates
<1>4. CASE UNCHANGED landVars
    BY <1>4 DEF LandInv, LandTypeOK, LandRead, LandHeld, BaseGated, LandRows, landVars
<1> QED BY <1>1, <1>2, <1>3, <1>4 DEF LandNext

\* What every landing has read when it uses it, and who is named by the lock, hold in every
\* reachable state (land.py: land, _acquire_lock, _merge_and_commit).
THEOREM LandInvariant == LandSpec => []LandInv
<1>1. LandInit => LandInv
    BY LandBegins
<1>2. LandInv /\ [LandNext]_landVars => LandInv'
    BY LandStepKeeps
<1> QED BY <1>1, <1>2, PTL DEF LandSpec

\* The invariant says what a landing promises.
LEMMA LandSound == LandInv => LandingSound
BY DEF LandInv, LandTypeOK, LandHeld, LandingSound, LockExclusive

\* Unless a landing dies no two hold the base at a time, and deaths or not the base only ever
\* holds a combination whose own merged tree passed the gates (land.land).
THEOREM LandingIsSound == LandSpec => []LandingSound
BY LandSound, LandInvariant, PTL

-----------------------------------------------------------------------------
(* The plan node *)

DraftStates == {"absent", "ready", "dispatched", "passed", "blocked", "superseded"}
ThreadPlaces == {"none", "running", "author", "brief", "failover", "packet", "prompt", "list", "truncate",
                 "rewrite", "settle"}
DraftRows == [at : ThreadPlaces, section : Sections \cup {"none"}, list : SUBSET Sections]
RoundRows == [at : {"idle", "loop", "author", "brief", "ended"}, id : Ids \cup {"none"},
              drafted : SUBSET Sections, board : [Ids -> DraftStates], left : SUBSET Ids,
              planned : BOOLEAN]

DraftsTyped ==
  /\ taskFile \in [Ids -> DraftStates]
  /\ owed \in [PacketIds -> Reasons \cup {"none"}]
  /\ prompts \subseteq Ids /\ drafts \subseteq Sections /\ released \subseteq Sections
  /\ planner \in BOOLEAN
  /\ drafting \in [Ids -> DraftRows]
  /\ round \in RoundRows

\* A task file never goes, so the board a pass has read is behind by additions only.
BoardBehind == \A i \in Ids : taskFile[i] = "absent" => round.board[i] = "absent"

\* Threads belong to a pass that has not ended, and to tasks it read as ready.
ThreadsOfRound ==
  \A i \in Ids : drafting[i].at # "none" =>
    /\ round.at \in {"loop", "author", "brief"}
    /\ round.board[i] = "ready"
    /\ taskFile[i] \in {"dispatched", "blocked"}
    /\ drafting[i].at \in {"author", "brief", "failover"} => i \in Builds
    /\ drafting[i].at \in {"packet", "prompt", "list", "truncate", "rewrite", "settle"} =>
         drafting[i].section \in Sections
    /\ drafting[i].at = "packet" => round.board[drafting[i].section] = "absent"
    /\ drafting[i].at = "brief" => taskFile[FixPlan[i]] # "absent"

\* The brief of a fix plan comes after its task file.
PlanBeforeBrief == \A p \in Fixes : p \in prompts => taskFile[p] # "absent"

RoundSound ==
  /\ round.at \in {"author", "brief"} => round.id \in Builds
  /\ round.at = "brief" => taskFile[FixPlan[round.id]] # "absent"
  /\ round.at = "ended" => round.left = {}
  /\ round.planned => planner

\* A packet the pass read as blocked and owed a plan is still to be visited, or has it.
OwedOrVisited ==
  \A b \in Builds : round.board[b] = "blocked" /\ owed[b] = "verdict" /\ round.planned =>
    b \in round.left \/ taskFile[FixPlan[b]] # "absent"

DraftsInv == /\ DraftsTyped /\ BoardBehind /\ ThreadsOfRound /\ PlanBeforeBrief /\ RoundSound
             /\ OwedOrVisited

\* The ids of plans, of packets on the board and of sections to be drafted are apart.
LEMMA IdsApart ==
  /\ Builds \subseteq Ids /\ Sections \subseteq Ids /\ Fixes \subseteq Ids /\ PlanIds \subseteq Ids
  /\ Builds \subseteq PacketIds /\ \A b \in Builds : FixPlan[b] \in Fixes
  /\ \A p \in Fixes : p \notin Builds /\ p \notin Sections /\ p \notin Tickets
  /\ \A p \in PlanIds : p \notin PacketIds
  /\ PacketIds \subseteq Ids
BY DraftsAssumption DEF Fixes, PlanIds, PacketIds, Ids

\* At the start every pass and every thread rests.
LEMMA DraftsBegin == DraftsInit => DraftsInv
<1> SUFFICES ASSUME DraftsInit PROVE DraftsInv
    OBVIOUS
<1>1. Asleep \in RoundRows /\ NoDraft \in DraftRows
    BY DEF Asleep, NoDraft, RoundRows, DraftRows, ThreadPlaces, DraftStates
<1>2. DraftsTyped
    BY <1>1, IdsApart DEF DraftsInit, DraftsTyped, DraftStates, Ids, PlanIds
<1>3. /\ \A i \in Ids : drafting[i].at = "none"
      /\ \A i \in Ids : round.board[i] = "absent"
      /\ round.at = "idle" /\ round.planned = FALSE
    BY DEF DraftsInit, NoDraft, Asleep
<1>4. PlanBeforeBrief
    BY IdsApart DEF DraftsInit, PlanBeforeBrief
<1> QED BY <1>2, <1>3, <1>4, IdsApart
      DEF DraftsInv, BoardBehind, ThreadsOfRound, RoundSound, OwedOrVisited

\* A visited task leaves the rest of what the pass has read as it was.
LEMMA PassedOn ==
  ASSUME round \in RoundRows, NEW i \in Ids, Passed(i)
  PROVE  /\ round' \in RoundRows /\ round'.at = "loop" /\ round'.left = round.left \ {i}
         /\ round'.board = round.board /\ round'.planned = round.planned
BY DEF Passed, RoundRows

\* A thread that drafts keeps the section, and the list as it read it.
LEMMA DraftRowMoves ==
  ASSUME NEW row \in DraftRows
  PROVE  /\ \A s \in Sections : [row EXCEPT !.at = "packet", !.section = s] \in DraftRows
         /\ \A list \in SUBSET Sections :
              [row EXCEPT !.at = "truncate", !.list = list] \in DraftRows
BY DEF DraftRows, ThreadPlaces

LEMMA ListRead ==
  ASSUME drafting \in [Ids -> DraftRows], drafts \in SUBSET Sections, NEW i \in Ids, ReadDrafts(i)
  PROVE  /\ drafting' \in [Ids -> DraftRows] /\ drafting'[i].at = "truncate"
         /\ drafting'[i].section = drafting[i].section
         /\ \A j \in Ids \ {i} : drafting'[j] = drafting[j]
<1> DEFINE row == [drafting[i] EXCEPT !.at = "truncate", !.list = drafts]
<1>1. row \in DraftRows
    BY DraftRowMoves
<1>2. row.at = "truncate" /\ row.section = drafting[i].section
    BY DEF DraftRows
<1>3. drafting' = [drafting EXCEPT ![i] = row]
    BY DEF ReadDrafts
<1> QED BY <1>1, <1>2, <1>3

\* A thread is moved along, or ends.
LEMMA ThreadMoved ==
  ASSUME drafting \in [Ids -> DraftRows], NEW i \in Ids, NEW w \in ThreadPlaces
  PROVE  /\ DraftStep(i, w) => /\ drafting' \in [Ids -> DraftRows] /\ drafting'[i].at = w
                               /\ drafting'[i].section = drafting[i].section
                               /\ \A j \in Ids \ {i} : drafting'[j] = drafting[j]
         /\ Done(i) => /\ drafting' \in [Ids -> DraftRows] /\ drafting'[i].at = "none"
                       /\ \A j \in Ids \ {i} : drafting'[j] = drafting[j]
<1>1. NoDraft \in DraftRows /\ NoDraft.at = "none"
    BY DEF NoDraft, DraftRows, ThreadPlaces
<1> QED BY <1>1 DEF DraftStep, Done, DraftRows

\* A pass begins, ends, dies; the operator acts between passes.
LEMMA RoundKeeps ==
  ASSUME DraftsInv, BeginRound \/ EndRound \/ Sleep \/ PassDies \/ ReleaseDraft \/ MarkPlanner
  PROVE  DraftsInv'
<1> USE DEF DraftsInv, DraftsTyped, BoardBehind, ThreadsOfRound, PlanBeforeBrief, RoundSound,
            OwedOrVisited
<1>a. Asleep \in RoundRows /\ Asleep.at = "idle" /\ ~Asleep.planned
      /\ \A i \in Ids : Asleep.board[i] = "absent"
    BY DEF Asleep, RoundRows, DraftStates
<1>n. NoDraft \in DraftRows /\ NoDraft.at = "none"
    BY DEF NoDraft, DraftRows, ThreadPlaces
<1>1. CASE BeginRound
  <2>1. /\ round' \in RoundRows /\ round'.at = "loop" /\ round'.board = taskFile
        /\ round'.planned = planner /\ round'.left = {i \in Ids : taskFile[i] # "absent"}
      BY <1>1 DEF BeginRound, RoundRows
  <2>2. \A i \in Ids : drafting[i].at = "none"
      BY <1>1 DEF BeginRound
  <2> QED BY <1>1, <2>1, <2>2, IdsApart DEF BeginRound
<1>2. CASE EndRound
  <2>1. /\ round' \in RoundRows /\ round'.at = "ended" /\ round'.board = round.board
        /\ round'.planned = round.planned /\ round'.left = round.left /\ round.left = {}
      BY <1>2 DEF EndRound, RoundRows
  <2> QED BY <1>2, <2>1 DEF EndRound, Thread
<1>3. CASE Sleep
    BY <1>3, <1>a DEF Sleep
<1>4. CASE PassDies
    BY <1>4, <1>a, <1>n DEF PassDies
<1>5. CASE ReleaseDraft
    BY <1>5 DEF ReleaseDraft
<1>6. CASE MarkPlanner
    BY <1>6 DEF MarkPlanner
<1> QED BY <1>1, <1>2, <1>3, <1>4, <1>5, <1>6

\* The pass visits a task: it goes to author what is owed, dispatches, requeues or passes over.
LEMMA VisitKeeps ==
  ASSUME DraftsInv, NEW i \in Ids,
         DispatchTask(i) \/ RequeueTask(i) \/ PassOver(i) \/ RecoverFix(i) \/ LoopFailsOver(i)
  PROVE  DraftsInv'
<1> USE DEF DraftsInv, DraftsTyped, BoardBehind, ThreadsOfRound, PlanBeforeBrief, RoundSound,
            OwedOrVisited
<1>v. round.at = "loop" /\ i \in round.left
    BY DEF DispatchTask, RequeueTask, PassOver, RecoverFix, LoopFailsOver, Visiting
<1>1. CASE DispatchTask(i)
  <2>1. /\ round' \in RoundRows /\ round'.at = "loop" /\ round'.left = round.left \ {i}
        /\ round'.board = round.board /\ round'.planned = round.planned /\ round.board[i] = "ready"
      BY <1>1, PassedOn DEF DispatchTask
  <2>2. /\ drafting' \in [Ids -> DraftRows] /\ drafting'[i].at = "running"
        /\ \A j \in Ids \ {i} : drafting'[j] = drafting[j]
      BY <1>1, ThreadMoved DEF DispatchTask, ThreadPlaces
  <2>3. /\ taskFile' = [taskFile EXCEPT ![i] = "dispatched"] /\ taskFile' \in [Ids -> DraftStates]
        /\ UNCHANGED <<owed, prompts, drafts, released, planner>>
      BY <1>1 DEF DispatchTask, DraftStates
  <2>4. DraftsTyped' /\ RoundSound' /\ BoardBehind' /\ PlanBeforeBrief'
      BY <1>v, <2>1, <2>2, <2>3, IdsApart
  <2>5. ThreadsOfRound'
      BY <1>v, <2>1, <2>2, <2>3, IdsApart
  <2>6. OwedOrVisited'
      BY <2>1, <2>3, IdsApart
  <2> QED BY <2>4, <2>5, <2>6
<1>2. CASE RequeueTask(i)
  <2>1. /\ round' \in RoundRows /\ round'.at = "loop" /\ round'.left = round.left \ {i}
        /\ round'.board = round.board /\ round'.planned = round.planned
        /\ round.board[i] = "dispatched"
      BY <1>2, PassedOn DEF RequeueTask
  <2>2. /\ taskFile' = [taskFile EXCEPT ![i] = "ready"] /\ taskFile' \in [Ids -> DraftStates]
        /\ UNCHANGED <<owed, prompts, drafts, released, planner, drafting>>
      BY <1>2 DEF RequeueTask, DraftStates
  <2>3. DraftsTyped' /\ RoundSound' /\ BoardBehind' /\ PlanBeforeBrief'
      BY <1>v, <2>1, <2>2, IdsApart
  <2>4. ThreadsOfRound'
      BY <1>v, <2>1, <2>2, IdsApart
  <2>5. OwedOrVisited'
      BY <2>1, <2>2, IdsApart
  <2> QED BY <2>3, <2>4, <2>5
<1>3. CASE PassOver(i)
  <2>1. /\ round' \in RoundRows /\ round'.at = "loop" /\ round'.left = round.left \ {i}
        /\ round'.board = round.board /\ round'.planned = round.planned
      BY <1>3, PassedOn DEF PassOver
  <2>2. UNCHANGED <<taskFile, owed, prompts, drafts, released, planner, drafting>>
      BY <1>3 DEF PassOver
  <2>3. DraftsTyped' /\ RoundSound' /\ BoardBehind' /\ PlanBeforeBrief' /\ ThreadsOfRound'
      BY <1>v, <2>1, <2>2
  <2>4. OwedOrVisited'
      BY <1>3, <2>1, <2>2 DEF PassOver, FixDue
  <2> QED BY <2>3, <2>4
<1>4. CASE RecoverFix(i)
  <2>1. /\ round' \in RoundRows /\ round'.at = "author" /\ round'.left = round.left
        /\ round'.board = round.board /\ round'.planned = round.planned /\ round'.id = i
        /\ i \in Builds
      BY <1>4 DEF RecoverFix, FixDue, RoundRows
  <2>2. UNCHANGED <<taskFile, owed, prompts, drafts, released, planner, drafting>>
      BY <1>4 DEF RecoverFix
  <2> QED BY <1>v, <2>1, <2>2
<1>5. CASE LoopFailsOver(i)
  <2>1. /\ round' \in RoundRows /\ round'.at = "loop" /\ round'.left = round.left \ {i}
        /\ round'.board = round.board /\ round'.planned = round.planned
        /\ round.board[i] = "blocked" /\ i \in Builds /\ ~FixDue(i)
      BY <1>5, PassedOn DEF LoopFailsOver
  <2>2. /\ taskFile' = [taskFile EXCEPT ![i] = "superseded"] /\ taskFile' \in [Ids -> DraftStates]
        /\ UNCHANGED <<owed, prompts, drafts, released, planner, drafting>>
      BY <1>5 DEF LoopFailsOver, Supersede, DraftStates
  <2>3. DraftsTyped' /\ RoundSound' /\ BoardBehind' /\ PlanBeforeBrief'
      BY <1>v, <2>1, <2>2, IdsApart
  <2>4. ThreadsOfRound'
      BY <1>v, <2>1, <2>2, IdsApart
  <2>5. OwedOrVisited'
      BY <2>1, <2>2, IdsApart DEF FixDue
  <2> QED BY <2>3, <2>4, <2>5
<1> QED BY <1>1, <1>2, <1>3, <1>4, <1>5

\* A fix plan is authored by the pass loop or by the thread of the packet it is for.
LEMMA AuthoringKeeps ==
  ASSUME DraftsInv, LoopAuthors \/ LoopBriefs \/ \E i \in Ids : ThreadAuthors(i) \/ ThreadBriefs(i) \/ ThreadFailsOver(i)
  PROVE  DraftsInv'
<1> USE DEF DraftsInv, DraftsTyped, BoardBehind, ThreadsOfRound, PlanBeforeBrief, RoundSound,
            OwedOrVisited
<1>1. CASE LoopAuthors
  <2>1. /\ round.at = "author" /\ round.id \in Builds /\ FixPlan[round.id] \in Fixes
        /\ UNCHANGED <<owed, drafts, released, planner, drafting>>
      BY <1>1, IdsApart DEF LoopAuthors
  <2>2. CASE Authorable(FixPlan[round.id])
    <3>1. /\ taskFile' = [taskFile EXCEPT ![FixPlan[round.id]] = "ready"]
          /\ taskFile' \in [Ids -> DraftStates] /\ UNCHANGED prompts
          /\ taskFile[FixPlan[round.id]] = "absent"
        BY <1>1, <2>2 DEF LoopAuthors, Author, Authorable, DraftStates
    <3>2. /\ round' \in RoundRows /\ round'.at = "brief" /\ round'.id = round.id
          /\ round'.left = round.left /\ round'.board = round.board
          /\ round'.planned = round.planned
        BY <1>1, <2>2 DEF LoopAuthors, RoundRows
    <3> QED BY <2>1, <3>1, <3>2, IdsApart
  <2>3. CASE ~Authorable(FixPlan[round.id])
    <3>1. UNCHANGED <<taskFile, prompts>> /\ taskFile[FixPlan[round.id]] # "absent"
        BY <1>1, <2>1, <2>3 DEF LoopAuthors, Authorable
    <3>2. /\ round' \in RoundRows /\ round'.at = "loop" /\ round'.left = round.left \ {round.id}
          /\ round'.board = round.board /\ round'.planned = round.planned
        BY <1>1, <2>1, <2>3, PassedOn, IdsApart DEF LoopAuthors
    <3> QED BY <2>1, <3>1, <3>2, IdsApart
  <2> QED BY <2>2, <2>3
<1>2. CASE LoopBriefs
  <2>1. /\ round.at = "brief" /\ round.id \in Builds /\ FixPlan[round.id] \in Fixes
        /\ UNCHANGED <<taskFile, owed, drafts, released, planner, drafting>>
        /\ prompts' = prompts \cup {FixPlan[round.id]}
        /\ taskFile[FixPlan[round.id]] # "absent"
      BY <1>2, IdsApart DEF LoopBriefs, Brief
  <2>2. /\ round' \in RoundRows /\ round'.at = "loop" /\ round'.left = round.left \ {round.id}
        /\ round'.board = round.board /\ round'.planned = round.planned
      BY <1>2, <2>1, PassedOn, IdsApart DEF LoopBriefs
  <2> QED BY <2>1, <2>2, IdsApart
<1>3. ASSUME NEW i \in Ids, ThreadAuthors(i)
      PROVE  DraftsInv'
  <2>1. /\ drafting[i].at = "author" /\ i \in Builds /\ FixPlan[i] \in Fixes
        /\ UNCHANGED <<owed, drafts, released, planner, round>>
      BY <1>3, IdsApart DEF ThreadAuthors, Thread
  <2>2. CASE Authorable(FixPlan[i])
    <3>1. /\ taskFile' = [taskFile EXCEPT ![FixPlan[i]] = "ready"]
          /\ taskFile' \in [Ids -> DraftStates] /\ UNCHANGED prompts
          /\ taskFile[FixPlan[i]] = "absent"
        BY <1>3, <2>2 DEF ThreadAuthors, Author, Authorable, DraftStates
    <3>2. /\ drafting' \in [Ids -> DraftRows] /\ drafting'[i].at = "brief"
          /\ \A j \in Ids \ {i} : drafting'[j] = drafting[j]
        BY <1>3, <2>2, ThreadMoved DEF ThreadAuthors, ThreadPlaces
    <3>6. DraftsTyped'
        BY <2>1, <3>1, <3>2, IdsApart
    <3>7. RoundSound'
        BY <2>1, <3>1, <3>2, IdsApart
    <3>8. BoardBehind' /\ PlanBeforeBrief' /\ OwedOrVisited'
        BY <2>1, <3>1, <3>2, IdsApart
    <3>9. ThreadsOfRound'
        BY <2>1, <3>1, <3>2, IdsApart
    <3> QED BY <3>6, <3>7, <3>8, <3>9
  <2>3. CASE ~Authorable(FixPlan[i])
    <3>1. UNCHANGED <<taskFile, prompts>>
        BY <1>3, <2>3 DEF ThreadAuthors
    <3>2. /\ drafting' \in [Ids -> DraftRows] /\ drafting'[i].at = "failover"
          /\ \A j \in Ids \ {i} : drafting'[j] = drafting[j]
        BY <1>3, <2>3, ThreadMoved DEF ThreadAuthors, ThreadPlaces
    <3> QED BY <2>1, <3>1, <3>2, IdsApart
  <2> QED BY <2>2, <2>3
<1>4. ASSUME NEW i \in Ids, ThreadBriefs(i)
      PROVE  DraftsInv'
  <2>1. /\ drafting[i].at = "brief" /\ i \in Builds /\ FixPlan[i] \in Fixes
        /\ UNCHANGED <<taskFile, owed, drafts, released, planner, round>>
        /\ prompts' = prompts \cup {FixPlan[i]}
      BY <1>4, IdsApart DEF ThreadBriefs, Thread, Brief
  <2>2. /\ drafting' \in [Ids -> DraftRows] /\ drafting'[i].at = "failover"
        /\ \A j \in Ids \ {i} : drafting'[j] = drafting[j]
      BY <1>4, ThreadMoved DEF ThreadBriefs, ThreadPlaces
  <2> QED BY <2>1, <2>2, IdsApart
<1>5. ASSUME NEW i \in Ids, ThreadFailsOver(i)
      PROVE  DraftsInv'
  <2>1. /\ drafting[i].at = "failover" /\ i \in Builds /\ i \notin Fixes
        /\ UNCHANGED <<owed, prompts, drafts, released, planner, round>>
      BY <1>5, IdsApart DEF ThreadFailsOver, Thread
  <2>2. /\ taskFile' \in [Ids -> DraftStates]
        /\ \A j \in Ids \ {i} : taskFile'[j] = taskFile[j]
        /\ taskFile'[i] # "absent"
      BY <1>5, <2>1 DEF ThreadFailsOver, Supersede, DraftStates
  <2>3. /\ drafting' \in [Ids -> DraftRows] /\ drafting'[i].at = "none"
        /\ \A j \in Ids \ {i} : drafting'[j] = drafting[j]
      BY <1>5, ThreadMoved DEF ThreadFailsOver, ThreadPlaces
  <2>4. DraftsTyped' /\ RoundSound' /\ BoardBehind' /\ PlanBeforeBrief'
      BY <2>1, <2>2, <2>3, IdsApart
  <2>5. ThreadsOfRound'
      BY <2>1, <2>2, <2>3, IdsApart
  <2>6. OwedOrVisited'
      BY <2>1, <2>2, IdsApart
  <2> QED BY <2>4, <2>5, <2>6
<1> QED BY <1>1, <1>2, <1>3, <1>4, <1>5

\* A packet's attempt completes or is held.
LEMMA BuildKeeps ==
  ASSUME DraftsInv, NEW i \in Ids, BuildCompletes(i) \/ BuildHeld(i)
  PROVE  DraftsInv'
<1> USE DEF DraftsInv, DraftsTyped, BoardBehind, ThreadsOfRound, PlanBeforeBrief, RoundSound,
            OwedOrVisited
<1>1. /\ drafting[i].at = "running" /\ i \in PacketIds /\ i \notin Fixes
      /\ UNCHANGED <<prompts, drafts, released, planner, round>>
    BY IdsApart DEF BuildCompletes, BuildHeld, Thread, PlanIds
<1>2. CASE BuildCompletes(i)
  <2>1. /\ taskFile' = [taskFile EXCEPT ![i] = "passed"] /\ taskFile' \in [Ids -> DraftStates]
        /\ UNCHANGED owed
      BY <1>2 DEF BuildCompletes, DraftStates
  <2>2. /\ drafting' \in [Ids -> DraftRows] /\ drafting'[i].at = "none"
        /\ \A j \in Ids \ {i} : drafting'[j] = drafting[j]
      BY <1>2, ThreadMoved DEF BuildCompletes, ThreadPlaces
  <2>6. DraftsTyped'
      BY <1>1, <2>1, <2>2, IdsApart
  <2>7. RoundSound'
      BY <1>1, <2>1, <2>2, IdsApart
  <2>8. BoardBehind' /\ PlanBeforeBrief' /\ OwedOrVisited'
      BY <1>1, <2>1, <2>2, IdsApart
  <2>9. ThreadsOfRound'
      BY <1>1, <2>1, <2>2, IdsApart
  <2> QED BY <2>6, <2>7, <2>8, <2>9
<1>3. CASE BuildHeld(i)
  <2> PICK w \in Reasons :
        /\ owed' = [owed EXCEPT ![i] = w]
        /\ IF i \notin Builds THEN Done(i)
           ELSE DraftStep(i, IF w # "operator" /\ planner THEN "author" ELSE "failover")
      BY <1>3 DEF BuildHeld
  <2>1. /\ taskFile' = [taskFile EXCEPT ![i] = "blocked"] /\ taskFile' \in [Ids -> DraftStates]
        /\ owed' \in [PacketIds -> Reasons \cup {"none"}]
      BY <1>3 DEF BuildHeld, DraftStates
  <2>2. /\ drafting' \in [Ids -> DraftRows]
        /\ drafting'[i].at = "none" \/ (drafting'[i].at \in {"author", "failover"} /\ i \in Builds)
        /\ \A j \in Ids \ {i} : drafting'[j] = drafting[j]
      BY ThreadMoved DEF ThreadPlaces
  <2>3. DraftsTyped' /\ RoundSound'
    <3>1. DraftsTyped'
        BY <1>1, <2>1, <2>2
    <3> QED BY <1>1, <2>1, <3>1, IdsApart
  <2>4. BoardBehind' /\ PlanBeforeBrief'
      BY <1>1, <2>1, IdsApart
  <2>5. ThreadsOfRound'
      BY <1>1, <2>1, <2>2, IdsApart
  <2>6. OwedOrVisited'
      BY <1>1, <2>1, IdsApart
  <2> QED BY <2>3, <2>4, <2>5, <2>6
<1> QED BY <1>2, <1>3

\* A plan's attempt drafts a section, writes its files and its entry, and settles.
LEMMA PlanKeeps ==
  ASSUME DraftsInv, NEW i \in Ids,
         \/ PlanDrafts(i) \/ PlanBlocked(i) \/ WritePacket(i) \/ WritePrompt(i)
         \/ ReadDrafts(i) \/ Truncate(i) \/ WriteDrafts(i) \/ SettlePlan(i)
  PROVE  DraftsInv'
<1> USE DEF DraftsInv, DraftsTyped, BoardBehind, ThreadsOfRound, PlanBeforeBrief, RoundSound,
            OwedOrVisited
<1>u. UNCHANGED <<owed, released, planner, round>>
    BY DEF PlanDrafts, PlanBlocked, WritePacket, WritePrompt, ReadDrafts, Truncate, WriteDrafts,
           SettlePlan
<1>1. CASE PlanDrafts(i)
  <2> PICK s \in Sections :
        /\ taskFile[s] = "absent" /\ s \notin prompts
        /\ drafting' = [drafting EXCEPT ![i].at = "packet", ![i].section = s]
      BY <1>1 DEF PlanDrafts
  <2>1. drafting[i].at = "running" /\ UNCHANGED <<taskFile, prompts, drafts>>
      BY <1>1 DEF PlanDrafts, Thread
  <2>2. /\ drafting' \in [Ids -> DraftRows] /\ drafting'[i].at = "packet"
        /\ drafting'[i].section = s /\ \A j \in Ids \ {i} : drafting'[j] = drafting[j]
    <3>1. [drafting[i] EXCEPT !.at = "packet", !.section = s] \in DraftRows
        BY DraftRowMoves
    <3> QED BY <3>1 DEF DraftRows
  <2> QED BY <1>u, <2>1, <2>2, IdsApart
<1>2. CASE PlanBlocked(i) \/ SettlePlan(i)
  <2>1. /\ drafting[i].at \in {"running", "settle"} /\ UNCHANGED <<prompts, drafts>>
        /\ \E s \in {"blocked", "passed"} : taskFile' = [taskFile EXCEPT ![i] = s]
        /\ taskFile' \in [Ids -> DraftStates]
      BY <1>2 DEF PlanBlocked, SettlePlan, Thread, DraftStates
  <2>2. /\ drafting' \in [Ids -> DraftRows] /\ drafting'[i].at = "none"
        /\ \A j \in Ids \ {i} : drafting'[j] = drafting[j]
      BY <1>2, ThreadMoved DEF PlanBlocked, SettlePlan, ThreadPlaces
  <2> QED BY <1>u, <2>1, <2>2, IdsApart
<1>3. CASE WritePacket(i)
  <2>1. /\ drafting[i].at = "packet" /\ UNCHANGED <<prompts, drafts>>
        /\ taskFile' = [taskFile EXCEPT ![drafting[i].section] = "ready"]
        /\ taskFile' \in [Ids -> DraftStates]
      BY <1>3 DEF WritePacket, Thread, DraftStates
  <2>2. /\ drafting' \in [Ids -> DraftRows] /\ drafting'[i].at = "prompt"
        /\ drafting'[i].section = drafting[i].section
        /\ \A j \in Ids \ {i} : drafting'[j] = drafting[j]
      BY <1>3, ThreadMoved DEF WritePacket, ThreadPlaces
  <2>3. drafting[i].section \in Sections /\ round.board[drafting[i].section] = "absent"
      BY <2>1
  <2>4. DraftsTyped'
      BY <1>u, <2>1, <2>2
  <2>5. BoardBehind' /\ PlanBeforeBrief' /\ RoundSound' /\ OwedOrVisited'
      BY <1>u, <2>1, <2>3, IdsApart
  <2>6. ThreadsOfRound'
      BY <1>u, <2>1, <2>2, <2>3, IdsApart
  <2> QED BY <2>4, <2>5, <2>6
<1>4. CASE WritePrompt(i)
  <2>1. /\ drafting[i].at = "prompt" /\ UNCHANGED <<taskFile, drafts>>
        /\ prompts' = prompts \cup {drafting[i].section}
      BY <1>4 DEF WritePrompt, Thread
  <2>2. /\ drafting' \in [Ids -> DraftRows] /\ drafting'[i].at = "list"
        /\ drafting'[i].section = drafting[i].section
        /\ \A j \in Ids \ {i} : drafting'[j] = drafting[j]
      BY <1>4, ThreadMoved DEF WritePrompt, ThreadPlaces
  <2> QED BY <1>u, <2>1, <2>2, IdsApart
<1>5. CASE ReadDrafts(i)
  <2>1. drafting[i].at = "list" /\ UNCHANGED <<taskFile, prompts, drafts>>
      BY <1>5 DEF ReadDrafts, Thread
  <2>2. /\ drafting' \in [Ids -> DraftRows] /\ drafting'[i].at = "truncate"
        /\ drafting'[i].section = drafting[i].section
        /\ \A j \in Ids \ {i} : drafting'[j] = drafting[j]
      BY <1>5, ListRead
  <2> QED BY <1>u, <2>1, <2>2
<1>6. CASE Truncate(i) \/ WriteDrafts(i)
  <2>1. drafting[i].at \in {"truncate", "rewrite"} /\ UNCHANGED <<taskFile, prompts>>
      BY <1>6 DEF Truncate, WriteDrafts, Thread
  <2>2. drafts' \subseteq Sections
      BY <1>6, <2>1 DEF Truncate, WriteDrafts, DraftRows
  <2>3. /\ drafting' \in [Ids -> DraftRows] /\ drafting'[i].at \in {"rewrite", "settle"}
        /\ drafting'[i].section = drafting[i].section
        /\ \A j \in Ids \ {i} : drafting'[j] = drafting[j]
      BY <1>6, ThreadMoved DEF Truncate, WriteDrafts, ThreadPlaces
  <2> QED BY <1>u, <2>1, <2>2, <2>3
<1> QED BY <1>1, <1>2, <1>3, <1>4, <1>5, <1>6

\* Every step of the specification keeps the invariant.
LEMMA DraftStepKeeps == DraftsInv /\ [DraftsNext]_draftVars => DraftsInv'
<1> SUFFICES ASSUME DraftsInv, [DraftsNext]_draftVars PROVE DraftsInv'
    OBVIOUS
<1>1. CASE UNCHANGED draftVars
    BY <1>1 DEF DraftsInv, DraftsTyped, BoardBehind, ThreadsOfRound, PlanBeforeBrief, RoundSound,
                OwedOrVisited, draftVars
<1>2. CASE LoopMoves \/ PassDies \/ ReleaseDraft \/ MarkPlanner
    BY <1>2, RoundKeeps, VisitKeeps, AuthoringKeeps DEF LoopMoves
<1>3. CASE \E i \in Ids : ThreadMoves(i)
    BY <1>3, AuthoringKeeps, BuildKeeps, PlanKeeps DEF ThreadMoves
<1> QED BY <1>1, <1>2, <1>3 DEF DraftsNext

\* Threads, the pass and the files it has read stay in step in every reachable state, however
\* passes die and threads settle (runner.tick, fix_packet.py, plan_task.py).
THEOREM DraftsInvariant == DraftsSpec => []DraftsInv
<1> QED BY DraftsBegin, DraftStepKeeps, PTL DEF DraftsSpec

\* The plan node's files and threads are of their types, and a thread that has not settled
\* finds its task dispatched or blocked.
THEOREM DraftsTyping == DraftsSpec => []DraftsTypeOK
<1>1. DraftsInv => DraftsTypeOK
    BY DEF DraftsInv, DraftsTyped, ThreadsOfRound, DraftsTypeOK, DraftStates, Thread
<1> QED BY <1>1, DraftsInvariant, PTL

\* A pass that ran to its end leaves no packet without the fix plan it was owed when the pass
\* began, whichever pass or thread died before (fix_packet.recover_fix).
THEOREM FixIsRecovered == DraftsSpec => []FixRecovered
<1>1. DraftsInv => FixRecovered
    BY DEF DraftsInv, RoundSound, OwedOrVisited, FixRecovered
<1> QED BY <1>1, DraftsInvariant, PTL

-----------------------------------------------------------------------------
(* Calibration runs *)

TurnSteps == {"rest", "write", "brief", "wait", "init", "build", "record", "settle"}
TurnRows == [at : TurnSteps, run : Cases \cup {CorpusRun}, left : SUBSET Cases]

\* CalibrationTypeOK but for the order of updates, which only picks an attempt.
CalibrationTyped ==
  /\ form \in {CorpusRun, "review", "packet"}
  /\ node \in [Runs -> {"ready", "review_pending", "passed", "blocked"}]
  /\ turn \in TurnRows
  /\ manifest \in BOOLEAN
  /\ caseTask \in [Cases -> CaseStates]
  /\ briefed \subseteq Cases
  /\ repo \in [Cases -> {"none", "empty", "based"}]
  /\ attempt \in [Cases -> Active \cup {"none", "completed", "failed"}]
  /\ reply \in [Cases -> {"none", "right", "wrong"}]
  /\ outcome \in [Cases -> Seq(BOOLEAN)]
  /\ deaths \in 0..Falls

\* An attempt that has not ended has no outcome, an accepted one was right and completed.
OutcomesEarned ==
  /\ \A c \in Cases : attempt[c] \notin {"completed", "failed"} => outcome[c] = <<>>
  /\ \A c \in Cases : \A i \in DOMAIN outcome[c] :
       outcome[c][i] => reply[c] = "right" /\ attempt[c] = "completed"

\* A case's task and its attempt keep step; a packet case has no task of its own.
CasesInStep ==
  IF form = "packet" THEN \A c \in Cases : caseTask[c] = "none"
  ELSE \A c \in Cases :
         /\ caseTask[c] \in {"none", "ready"} => attempt[c] = "none"
         /\ caseTask[c] = "dispatched" => attempt[c] = "running"
         /\ caseTask[c] \in SettledStates => attempt[c] # "running"
         /\ caseTask[c] = "passed" => attempt[c] = "completed" /\ reply[c] # "none"

TurnSound ==
  /\ turn.at \in {"write", "brief", "wait"} => form # "packet"
  /\ turn.at \in {"write", "brief"} => \A c \in turn.left : caseTask[c] = "none"
  /\ turn.at \in {"init", "build"} => form = "packet"
  /\ turn.at # "rest" => turn.run \in Runs

Scored(c) == caseTask[c] = "passed" => outcome[c] # <<>>

\* A corpus run that scores has waited for every case and scored those it has left behind.
CorpusScored ==
  form = CorpusRun =>
    /\ turn.at \in {"record", "settle"} => \A c \in Cases : caseTask[c] \in SettledStates
    /\ turn.at = "record" => \A c \in Cases \ turn.left : Scored(c)
    /\ turn.at = "settle" => \A c \in Cases : Scored(c)
    /\ node[CorpusRun] = "passed" => \A c \in Cases : caseTask[c] \in SettledStates /\ Scored(c)

CalibrationInv == /\ CalibrationTyped /\ OutcomesEarned /\ CasesInStep /\ TurnSound
                  /\ CorpusScored

\* What a step of the tick leaves behind is a turn of its type, or rest.
LEMMA TurnTaken ==
  ASSUME NEW step \in TurnSteps, NEW r \in Runs, NEW remaining \in SUBSET Cases,
         Go(step, r, remaining)
  PROVE  /\ turn' \in TurnRows /\ turn'.at = step /\ turn'.run = r /\ turn'.left = remaining
BY DEF Go, Runs, TurnRows

LEMMA TurnRests == Resting \in TurnRows /\ Resting.at = "rest"
BY DEF Resting, TurnRows, TurnSteps

\* At the start nothing is authored, attempted or scored.
LEMMA CalibrationBegins == CalibrationInit => CalibrationInv
<1> SUFFICES ASSUME CalibrationInit PROVE CalibrationInv
    OBVIOUS
<1>1. Resting \in TurnRows /\ Resting.at = "rest"
    BY TurnRests
<1>2. CalibrationTyped
  <2>1. outcome \in [Cases -> Seq(BOOLEAN)]
      BY DEF CalibrationInit
  <2>2. /\ node \in [Runs -> {"ready", "review_pending", "passed", "blocked"}]
        /\ form \in {CorpusRun, "review", "packet"}
      BY DEF CalibrationInit
  <2>3. turn \in TurnRows /\ deaths \in 0..Falls
      BY <1>1, CalibrationAssumption DEF CalibrationInit
  <2> QED BY <2>1, <2>2, <2>3 DEF CalibrationInit, CalibrationTyped, CaseStates, Active
<1>3. OutcomesEarned /\ CasesInStep
    BY DEF CalibrationInit, OutcomesEarned, CasesInStep, SettledStates
<1>4. TurnSound /\ CorpusScored
    BY <1>1 DEF CalibrationInit, TurnSound, CorpusScored, Runs
<1> QED BY <1>2, <1>3, <1>4 DEF CalibrationInv

\* Authoring: the plan, and what a tick finds written.
LEMMA AuthorKeeps ==
  ASSUME CalibrationInv, NEW r \in Runs, AuthorCases(r) \/ AuthoredBefore(r)
  PROVE  CalibrationInv'
<1> USE DEF CalibrationInv, CalibrationTyped, OutcomesEarned, CasesInStep, TurnSound, CorpusScored,
            Scored, TurnIs, laneVars, boardVars
<1>1. UNCHANGED <<form, caseTask, briefed, repo, attempt, reply, outcome, deaths>>
      /\ UNCHANGED Runs
    BY DEF AuthorCases, AuthoredBefore, Runs
<1>2. CASE AuthorCases(r)
  <2>1. CasesOf(r) \in SUBSET Cases
      BY DEF CasesOf, Runs
  <2>2. /\ turn' \in TurnRows
        /\ turn'.at = "write" /\ turn'.run = r /\ turn'.left = CasesOf(r)
      BY <1>2, <2>1, TurnTaken DEF AuthorCases, TurnSteps
  <2>3. \A c \in CasesOf(r) : caseTask[c] = "none"
      BY <1>2 DEF AuthorCases
  <2>4. UNCHANGED node /\ manifest' \in BOOLEAN /\ form # "packet"
      BY <1>2 DEF AuthorCases
  <2>5. CalibrationTyped'
      BY <1>1, <2>2, <2>4
  <2>6. (OutcomesEarned /\ CasesInStep /\ CorpusScored)'
      BY <1>1, <2>2, <2>4
  <2>7. TurnSound'
      BY <1>1, <2>2, <2>3, <2>4
  <2> QED BY <2>5, <2>6, <2>7
<1>3. CASE AuthoredBefore(r)
  <2>1. /\ turn' \in TurnRows
        /\ turn'.at = "rest" /\ UNCHANGED manifest
      BY <1>3, TurnRests DEF AuthoredBefore, SettleRun
  <2>2. \E s \in {"blocked", "review_pending"} : node' = [node EXCEPT ![r] = s]
      BY <1>3 DEF AuthoredBefore, SettleRun
  <2>3. CalibrationTyped'
      BY <1>1, <2>1, <2>2
  <2>4. (OutcomesEarned /\ CasesInStep /\ TurnSound)'
      BY <1>1, <2>1
  <2>5. CorpusScored'
      BY <1>1, <2>1, <2>2 DEF Runs
  <2> QED BY <2>3, <2>4, <2>5
<1> QED BY <1>2, <1>3

\* The files of a case are written one after the other.
LEMMA FilesKeep ==
  ASSUME CalibrationInv, SaveWait \/ \E c \in Cases : WriteTaskFile(c) \/ WriteCaseBrief(c)
  PROVE  CalibrationInv'
<1> USE DEF CalibrationInv, CalibrationTyped, OutcomesEarned, CasesInStep, TurnSound, CorpusScored,
            Scored, TurnIs, laneVars, boardVars
<1>1. ASSUME NEW c \in Cases, WriteTaskFile(c)
      PROVE  CalibrationInv'
  <2>1. /\ turn' \in TurnRows /\ turn'.at = "brief" /\ turn'.run = turn.run
        /\ turn'.left = turn.left \ {c}
      BY <1>1, TurnTaken DEF WriteTaskFile, TurnSteps, TurnRows
  <2>2. /\ turn.at = "write" /\ c \in turn.left
        /\ UNCHANGED <<form, Runs, node, manifest, briefed, repo, attempt, reply, outcome, deaths>>
      BY <1>1 DEF WriteTaskFile, Runs
  <2>3. caseTask' = [caseTask EXCEPT ![c] = "ready"] /\ caseTask' \in [Cases -> CaseStates]
      BY <1>1 DEF WriteTaskFile, CaseStates
  <2>4. (CalibrationTyped /\ OutcomesEarned)'
      BY <2>1, <2>2, <2>3
  <2>5. (CasesInStep /\ TurnSound)'
      BY <2>1, <2>2, <2>3 DEF SettledStates
  <2>6. CorpusScored'
      BY <2>1, <2>2, <2>3 DEF SettledStates
  <2> QED BY <2>4, <2>5, <2>6
<1>2. ASSUME NEW c \in Cases, WriteCaseBrief(c)
      PROVE  CalibrationInv'
  <2>1. /\ turn' \in TurnRows /\ turn'.at \in {"wait", "write"} /\ turn'.run = turn.run
        /\ turn'.left = turn.left
      BY <1>2, TurnTaken DEF WriteCaseBrief, TurnSteps, TurnRows
  <2>2. /\ turn.at = "brief" /\ briefed' \subseteq Cases
        /\ UNCHANGED <<form, Runs, node, manifest, caseTask, repo, attempt, reply, outcome, deaths>>
      BY <1>2 DEF WriteCaseBrief, Runs
  <2> QED BY <2>1, <2>2
<1>3. CASE SaveWait
  <2>1. turn' \in TurnRows /\ turn'.at = "rest" /\ turn.run \in Runs
      BY <1>3, TurnRests DEF SaveWait, SettleRun
  <2>2. /\ node' = [node EXCEPT ![turn.run] = "review_pending"]
        /\ UNCHANGED <<form, Runs, manifest, caseTask, briefed, repo, attempt, reply, outcome, deaths>>
      BY <1>3 DEF SaveWait, SettleRun, Runs
  <2> QED BY <2>1, <2>2
<1> QED BY <1>1, <1>2, <1>3

\* The board dispatches a case's review, ends it, and the operator resolves a hold.
LEMMA CaseKeeps ==
  ASSUME CalibrationInv, NEW c \in Cases,
         DispatchCase(c) \/ CaseUnready(c) \/ CaseEnds(c) \/ OperatorResolves(c)
  PROVE  CalibrationInv'
<1> USE DEF CalibrationInv, CalibrationTyped, OutcomesEarned, CasesInStep, TurnSound, CorpusScored,
            Scored, TurnIs, laneVars, boardVars, SettledStates
<1>u. UNCHANGED <<form, Runs, node, turn, manifest, briefed, repo, outcome, deaths>>
    BY DEF DispatchCase, CaseUnready, CaseEnds, OperatorResolves, Runs
<1>1. CASE DispatchCase(c)
    BY <1>1, <1>u DEF DispatchCase, CaseStates, Active
<1>2. CASE CaseUnready(c)
    BY <1>2, <1>u DEF CaseUnready, CaseStates
<1>3. CASE CaseEnds(c)
  <2> PICK end \in {"completed", "held"}, r \in {"none", "right", "wrong"}, s \in SettledStates :
        /\ end = "completed" => r # "none"
        /\ end = "held" => s = "blocked"
        /\ attempt' = [attempt EXCEPT ![c] = end]
        /\ reply' = [reply EXCEPT ![c] = r]
        /\ caseTask' = [caseTask EXCEPT ![c] = s]
      BY <1>3 DEF CaseEnds
  <2>1. caseTask[c] = "dispatched" /\ form # "packet" /\ outcome[c] = <<>>
      BY <1>3 DEF CaseEnds
  <2>2. CalibrationTyped'
      BY <1>u DEF CaseStates, Active
  <2>3. (OutcomesEarned /\ CasesInStep)'
      BY <1>u, <2>1
  <2>4. (TurnSound /\ CorpusScored)'
      BY <1>u, <2>1
  <2> QED BY <2>2, <2>3, <2>4
<1>4. CASE OperatorResolves(c)
    BY <1>4, <1>u DEF OperatorResolves, Active
<1> QED BY <1>1, <1>2, <1>3, <1>4

\* A packet case: its repository, and the attempt the node makes itself.
LEMMA BuildCaseKeeps ==
  ASSUME CalibrationInv,
         \/ CommitBase \/ BuildRefused \/ Build
         \/ \E r \in Runs : MakeRepository(r) \/ ReuseRepository(r)
  PROVE  CalibrationInv'
<1> USE DEF CalibrationInv, CalibrationTyped, OutcomesEarned, CasesInStep, TurnSound, CorpusScored,
            Scored, TurnIs, laneVars, boardVars
<1>u. /\ form = "packet" /\ form # CorpusRun /\ Runs = Cases
      /\ UNCHANGED <<form, Runs, manifest, caseTask, briefed, deaths>>
    BY DEF CommitBase, BuildRefused, Build, MakeRepository, ReuseRepository, Runs, CorpusRun
<1>1. ASSUME NEW r \in Runs, MakeRepository(r) \/ ReuseRepository(r)
      PROVE  CalibrationInv'
  <2>1. turn' \in TurnRows /\ turn'.at \in {"init", "build"} /\ turn'.run = r
      BY <1>1, TurnTaken DEF MakeRepository, ReuseRepository, TurnSteps
  <2>2. UNCHANGED <<node, attempt, reply, outcome>> /\ repo' \in [Cases -> {"none", "empty", "based"}]
      BY <1>1 DEF MakeRepository, ReuseRepository
  <2> QED BY <1>u, <2>1, <2>2
<1>2. CASE CommitBase
  <2>1. turn' \in TurnRows /\ turn'.at = "build" /\ turn'.run \in Runs
      BY <1>2, TurnTaken DEF CommitBase, TurnSteps
  <2>2. UNCHANGED <<node, attempt, reply, outcome>> /\ repo' \in [Cases -> {"none", "empty", "based"}]
      BY <1>2 DEF CommitBase
  <2> QED BY <1>u, <2>1, <2>2
<1>3. CASE BuildRefused
  <2>1. turn' \in TurnRows /\ turn'.at = "rest" /\ turn.run \in Runs
      BY <1>3, TurnRests DEF BuildRefused, SettleRun
  <2>2. UNCHANGED <<attempt, reply, outcome, repo>> /\ node' = [node EXCEPT ![turn.run] = "ready"]
      BY <1>3 DEF BuildRefused, SettleRun
  <2> QED BY <1>u, <2>1, <2>2
<1>4. CASE Build
  <2> DEFINE c == turn.run
  <2> PICK end \in {"completed", "held"}, r \in {"none", "right", "wrong"} :
        /\ end = "completed" => repo[c] = "based" /\ r # "none"
        /\ attempt' = [attempt EXCEPT ![c] = end]
        /\ reply' = [reply EXCEPT ![c] = r]
        /\ updated' = Touched(c)
        /\ outcome' = [outcome EXCEPT ![c] = <<>>]
        /\ IF end = "completed"
           THEN Go("record", c, {c}) /\ UNCHANGED node
           ELSE SettleRun(c, "blocked")
      BY <1>4 DEF Build
  <2>1. c \in Runs /\ c \in Cases /\ UNCHANGED repo
      BY <1>4, <1>u DEF Build
  <2>2. /\ turn' \in TurnRows /\ turn'.at \in {"rest", "record"}
        /\ turn'.at # "rest" => turn'.run \in Runs
      BY <2>1, TurnTaken, TurnRests DEF SettleRun, TurnSteps
  <2>3. node' = node \/ node' = [node EXCEPT ![c] = "blocked"]
      BY DEF SettleRun
  <2>4. outcome' \in [Cases -> Seq(BOOLEAN)]
      BY <2>1
  <2>5. CalibrationTyped'
      BY <1>u, <2>1, <2>2, <2>3, <2>4 DEF Active
  <2>6. OutcomesEarned'
      BY <1>u, <2>1
  <2>7. (CasesInStep /\ TurnSound /\ CorpusScored)'
      BY <1>u, <2>2
  <2> QED BY <2>5, <2>6, <2>7
<1> QED BY <1>1, <1>2, <1>3, <1>4

\* One more outcome on an attempt that has ended, accepted only if right and completed; an
\* attempt of no case has none to add to.
LEMMA OutcomeAdded ==
  ASSUME CalibrationTyped, OutcomesEarned, NEW c, NEW accepted \in BOOLEAN,
         Recordable(c, accepted), Recorded(c, accepted), UNCHANGED <<attempt, reply>>,
         c \in Cases /\ accepted => reply[c] = "right"
  PROVE  /\ outcome' \in [Cases -> Seq(BOOLEAN)] /\ OutcomesEarned'
         /\ \A d \in Cases : outcome[d] # <<>> => outcome'[d] # <<>>
         /\ c \in Cases => outcome'[c] # <<>>
<1>1. CASE c \notin Cases
  <2>1. outcome' = outcome
      BY <1>1 DEF Recorded, CalibrationTyped
  <2> QED BY <1>1, <2>1 DEF CalibrationTyped, OutcomesEarned
<1>2. CASE c \in Cases
  <2> DEFINE more == Append(outcome[c], accepted)
  <2>1. outcome[c] \in Seq(BOOLEAN)
      BY <1>2 DEF CalibrationTyped
  <2>2. /\ more \in Seq(BOOLEAN) /\ more # <<>>
        /\ \A i \in DOMAIN more : more[i] = accepted \/ (i \in DOMAIN outcome[c] /\ more[i] = outcome[c][i])
      BY <2>1
  <2>3. outcome' = [outcome EXCEPT ![c] = more]
      BY DEF Recorded
  <2> HIDE DEF more
  <2>4. outcome' \in [Cases -> Seq(BOOLEAN)] /\ outcome'[c] = more
        /\ \A d \in Cases \ {c} : outcome'[d] = outcome[d]
      BY <1>2, <2>2, <2>3 DEF CalibrationTyped
  <2>5. OutcomesEarned'
      BY <1>2, <2>2, <2>4 DEF OutcomesEarned, Recordable
  <2> QED BY <1>2, <2>2, <2>4, <2>5
<1> QED BY <1>1, <1>2

\* Scoring begins, a corpus case is scored, a single case is, the run is saved, the tick dies.
LEMMA ScoringKeeps ==
  ASSUME CalibrationInv,
         \/ \E r \in Runs : StartScoring(r)
         \/ \E c \in Cases : RecordCase(c)
         \/ RecordSingle \/ SavePassed \/ TickDies
  PROVE  CalibrationInv'
<1> USE DEF CalibrationInv, CalibrationTyped, CasesInStep, TurnSound, CorpusScored,
            Scored, TurnIs, laneVars, boardVars, SettledStates
<1>u. UNCHANGED <<form, Runs, manifest, caseTask, briefed, repo, attempt, reply>>
    BY DEF StartScoring, RecordCase, RecordSingle, SavePassed, TickDies, Runs
<1>1. ASSUME NEW r \in Runs, StartScoring(r)
      PROVE  CalibrationInv'
  <2>1. /\ turn' \in TurnRows /\ turn'.at = "record" /\ turn'.run = r /\ turn'.left = CasesOf(r)
    <3>1. CasesOf(r) \in SUBSET Cases
        BY DEF CasesOf, Runs
    <3> QED BY <1>1, <3>1, TurnTaken DEF StartScoring, TurnSteps
  <2>2. UNCHANGED <<node, outcome, deaths>> /\ \A c \in CasesOf(r) : caseTask[c] \in SettledStates
      BY <1>1 DEF StartScoring, AllSettled
  <2>3. form = CorpusRun => CasesOf(r) = Cases
      BY DEF CasesOf
  <2> QED BY <1>u, <2>1, <2>2, <2>3 DEF OutcomesEarned
<1>2. ASSUME NEW c \in Cases, RecordCase(c)
      PROVE  CalibrationInv'
  <2>1. /\ turn.at = "record" /\ form = CorpusRun /\ c \in turn.left /\ UNCHANGED <<node, deaths>>
      BY <1>2 DEF RecordCase
  <2>2. /\ turn' \in TurnRows /\ turn'.at \in {"settle", "record"} /\ turn'.run = turn.run
        /\ turn'.left = turn.left \ {c} /\ (turn'.at = "settle" => turn.left = {c})
      BY <1>2, TurnTaken DEF RecordCase, TurnSteps, TurnRows
  <2>3. /\ outcome' \in [Cases -> Seq(BOOLEAN)] /\ OutcomesEarned'
        /\ \A d \in Cases : outcome[d] # <<>> => outcome'[d] # <<>>
        /\ caseTask[c] = "passed" => outcome'[c] # <<>>
    <3>1. CASE reply[c] # "none" /\ Recordable(c, reply[c] = "right")
      <4>1. Recorded(c, reply[c] = "right")
          BY <1>2, <3>1 DEF RecordCase
      <4> QED BY <1>u, <3>1, <4>1, OutcomeAdded
    <3>2. CASE ~(reply[c] # "none" /\ Recordable(c, reply[c] = "right"))
      <4>1. outcome' = outcome
          BY <1>2, <3>2 DEF RecordCase
      <4>2. form # "packet"
          BY <2>1 DEF CorpusRun
      <4>3. caseTask[c] # "passed"
          BY <3>2, <4>2 DEF Recordable
      <4> QED BY <1>u, <4>1, <4>3 DEF OutcomesEarned
    <3> QED BY <3>1, <3>2
  <2>4. (CalibrationTyped /\ CasesInStep /\ TurnSound)'
      BY <1>u, <2>1, <2>2, <2>3
  <2>5. CorpusScored'
      BY <1>u, <2>1, <2>2, <2>3
  <2> QED BY <2>3, <2>4, <2>5
<1>3. CASE RecordSingle
  <2> DEFINE c == turn.run
             a == AttemptOf(c)
  <2>1. /\ form # CorpusRun /\ c \in Runs /\ Runs = Cases /\ UNCHANGED deaths
      BY <1>3 DEF RecordSingle, Runs
  <2>2. /\ turn' \in TurnRows /\ turn'.at \in {"settle", "rest"} /\ (turn'.at # "rest" => turn'.run = c)
        /\ node' = node \/ node' = [node EXCEPT ![c] = "blocked"]
      BY <1>3, <2>1, TurnTaken, TurnRests DEF RecordSingle, SettleRun, TurnSteps
  <2>3. outcome' \in [Cases -> Seq(BOOLEAN)] /\ OutcomesEarned'
    <3>1. CASE outcome' = outcome
        BY <1>u, <3>1 DEF OutcomesEarned
    <3>2. CASE Recordable(a, Accepted(c)) /\ Recorded(a, Accepted(c))
      <4>1. Accepted(c) \in BOOLEAN /\ (Accepted(c) => reply[a] = "right")
          BY DEF Accepted
      <4> HIDE DEF a
      <4> QED BY <1>u, <3>2, <4>1, OutcomeAdded
    <3> QED BY <1>3, <3>1, <3>2 DEF RecordSingle
  <2>4. (CalibrationTyped /\ CasesInStep /\ TurnSound /\ CorpusScored)'
      BY <1>u, <2>1, <2>2, <2>3
  <2> QED BY <2>3, <2>4
<1>4. CASE SavePassed
  <2>1. /\ turn' \in TurnRows /\ turn'.at = "rest" /\ turn.at = "settle" /\ turn.run \in Runs
        /\ node' = [node EXCEPT ![turn.run] = "passed"] /\ UNCHANGED <<outcome, deaths>>
      BY <1>4, TurnRests DEF SavePassed, SettleRun
  <2> QED BY <1>u, <2>1 DEF OutcomesEarned, Runs
<1>5. CASE TickDies
  <2>1. turn' \in TurnRows /\ turn'.at = "rest" /\ UNCHANGED <<node, outcome>>
      BY <1>5, TurnRests DEF TickDies
  <2>2. deaths' \in 0..Falls
      BY <1>5, CalibrationAssumption DEF TickDies
  <2> QED BY <1>u, <2>1, <2>2 DEF OutcomesEarned
<1> QED BY <1>1, <1>2, <1>3, <1>4, <1>5

\* Every step of the specification keeps the invariant.
LEMMA CalibrationStepKeeps == CalibrationInv /\ [CalibrationNext]_calVars => CalibrationInv'
<1> SUFFICES ASSUME CalibrationInv, [CalibrationNext]_calVars PROVE CalibrationInv'
    OBVIOUS
<1>1. CASE UNCHANGED calVars
    BY <1>1 DEF CalibrationInv, CalibrationTyped, OutcomesEarned, CasesInStep, TurnSound,
                CorpusScored, Scored, calVars, Runs
<1>2. CASE CalibrationNext
    BY <1>2, AuthorKeeps, FilesKeep, CaseKeeps, BuildCaseKeeps, ScoringKeeps DEF CalibrationNext
<1> QED BY <1>1, <1>2

\* The case tasks, their attempts and what the tick has scored keep step in every reachable
\* state (board/calibration, runner.step_calibration_run and step_eval_case).
THEOREM CalibrationInvariant == CalibrationSpec => []CalibrationInv
<1> QED BY CalibrationBegins, CalibrationStepKeeps, PTL DEF CalibrationSpec

\* A tick that does nothing has no run in hand.
AtRest == turn.at = "rest" => turn = Resting

LEMMA AtRestNext == AtRest /\ [CalibrationNext]_calVars => AtRest'
<1> SUFFICES ASSUME AtRest, [CalibrationNext]_calVars PROVE AtRest'
    OBVIOUS
<1>1. turn' \in {turn, Resting} \/ \E step \in TurnSteps \ {"rest"} : \E r, rest : Go(step, r, rest)
    BY DEF CalibrationNext, calVars, laneVars, AuthorCases, AuthoredBefore, MakeRepository,
           ReuseRepository, StartScoring, WriteTaskFile, WriteCaseBrief, CaseUnready, RecordCase,
           SaveWait, CommitBase, BuildRefused, RecordSingle, SavePassed, TickDies, Build,
           DispatchCase, CaseEnds, OperatorResolves, SettleRun, TurnSteps
<1> QED BY <1>1 DEF AtRest, Go, TurnSteps

\* The order in which the attempts were updated: each case with an attempt once.
UpdatedOnce ==
  /\ updated \in Seq(Cases)
  /\ \A i, j \in DOMAIN updated : updated[i] = updated[j] => i = j

\* A case that is updated takes the last place and leaves the one it had.
LEMMA TouchedOnce ==
  ASSUME UpdatedOnce, NEW c \in Cases, updated' = Touched(c)
  PROVE  UpdatedOnce'
<1>0. /\ updated \in Seq(Cases) /\ Len(updated) \in Nat /\ DOMAIN updated = 1..Len(updated)
      /\ \A i, j \in 1..Len(updated) : updated[i] = updated[j] => i = j
    BY DEF UpdatedOnce
<1>1. CASE \E i \in DOMAIN updated : updated[i] = c
  <2> DEFINE k == PlaceOf(c)
             older == SubSeq(updated, 1, k - 1)
             newer == SubSeq(updated, k + 1, Len(updated))
             both == older \o newer
  <2>1. k \in 1..Len(updated) /\ updated[k] = c
      BY <1>0, <1>1 DEF PlaceOf
  <2> HIDE DEF k
  <2>2. /\ older \in Seq(Cases) /\ Len(older) = k - 1
        /\ \A i \in 1..(k - 1) : older[i] = updated[i]
    <3>1. \A i \in 1..(k - 1) : updated[i] \in Cases
        BY <1>0, <2>1
    <3>2. 1 \in Int /\ k - 1 \in Int /\ k - 1 >= 0 /\ (k - 1) - 1 + 1 = k - 1
        BY <1>0, <2>1
    <3> QED BY <3>1, <3>2, SubSeqProperties
  <2>3. /\ newer \in Seq(Cases) /\ Len(newer) = Len(updated) - k
        /\ \A i \in 1..(Len(updated) - k) : newer[i] = updated[k + i]
    <3>1. \A i \in (k + 1)..Len(updated) : updated[i] \in Cases
        BY <1>0, <2>1
    <3>2. k + 1 \in Int /\ Len(updated) \in Int /\ Len(updated) - (k + 1) + 1 = Len(updated) - k
          /\ \A i \in 1..(Len(updated) - k) : k + 1 + i - 1 = k + i
        BY <1>0, <2>1
    <3>3. Len(newer) = Len(updated) - k
      <4>1. Len(newer) = IF k + 1 <= Len(updated) THEN Len(updated) - (k + 1) + 1 ELSE 0
          BY <3>1, <3>2, SubSeqProperties
      <4>2. k \in Nat /\ Len(updated) \in Nat /\ k <= Len(updated)
          BY <1>0, <2>1
      <4> HIDE DEF newer
      <4>3. CASE k = Len(updated)
          BY <4>1, <4>2, <4>3
      <4>4. CASE k < Len(updated)
          BY <4>1, <4>2, <4>4
      <4> QED BY <4>2, <4>3, <4>4
    <3> QED BY <3>1, <3>2, <3>3, SubSeqProperties
  <2>4. updated' = both \o <<c>>
      BY <1>1 DEF Touched, k
  <2> HIDE DEF older, newer
  <2>5. /\ both \in Seq(Cases) /\ Len(both) = Len(updated) - 1
        /\ \A i \in 1..(Len(updated) - 1) :
             both[i] = IF i < k THEN updated[i] ELSE updated[i + 1]
    <3>1. /\ both \in Seq(Cases) /\ Len(both) = Len(older) + Len(newer)
          /\ \A i \in 1..(Len(older) + Len(newer)) :
               both[i] = IF i <= Len(older) THEN older[i] ELSE newer[i - Len(older)]
        BY <2>2, <2>3, ConcatProperties
    <3> HIDE DEF both
    <3>2. Len(both) = Len(updated) - 1
        BY <1>0, <2>1, <2>2, <2>3, <3>1
    <3>3. ASSUME NEW i \in 1..(Len(updated) - 1), i < k PROVE both[i] = updated[i]
        BY <1>0, <2>1, <2>2, <2>3, <3>1, <3>3
    <3>4. ASSUME NEW i \in 1..(Len(updated) - 1), ~(i < k) PROVE both[i] = updated[i + 1]
      <4>1. /\ i - (k - 1) \in 1..(Len(updated) - k) /\ k + (i - (k - 1)) = i + 1
            /\ ~(i <= k - 1) /\ i \in 1..(Len(older) + Len(newer))
          BY <1>0, <2>1, <2>2, <2>3, <3>4
      <4>2. both[i] = newer[i - (k - 1)]
          BY <2>2, <3>1, <4>1
      <4> QED BY <2>3, <4>1, <4>2
    <3> QED BY <3>1, <3>2, <3>3, <3>4
  <2> HIDE DEF both
  <2>6. /\ updated' \in Seq(Cases) /\ Len(updated') = Len(updated)
        /\ \A i \in 1..Len(updated) :
             updated'[i] = IF i < k THEN updated[i] ELSE IF i < Len(updated) THEN updated[i + 1] ELSE c
    <3>1. <<c>> \in Seq(Cases) /\ Len(<<c>>) = 1 /\ <<c>>[1] = c
        OBVIOUS
    <3>2. /\ updated' \in Seq(Cases) /\ Len(updated') = Len(both) + 1
          /\ \A i \in 1..(Len(both) + 1) :
               updated'[i] = IF i <= Len(both) THEN both[i] ELSE <<c>>[i - Len(both)]
        BY <2>4, <2>5, <3>1, ConcatProperties
    <3> QED BY <1>0, <2>1, <2>5, <3>1, <3>2
  <2>7. \A i, j \in 1..Len(updated) : updated'[i] = updated'[j] => i = j
      BY <1>0, <2>1, <2>6
  <2> QED BY <2>6, <2>7 DEF UpdatedOnce
<1>2. CASE ~\E i \in DOMAIN updated : updated[i] = c
  <2>1. updated' = Append(updated, c)
      BY <1>2 DEF Touched
  <2> QED BY <1>0, <1>2, <2>1 DEF UpdatedOnce
<1> QED BY <1>1, <1>2

\* Only a case of the corpus is updated, by the board, the operator or the node's own build.
LEMMA UpdatedOnceNext == CalibrationInv /\ UpdatedOnce /\ [CalibrationNext]_calVars => UpdatedOnce'
<1> SUFFICES ASSUME CalibrationInv, UpdatedOnce, [CalibrationNext]_calVars PROVE UpdatedOnce'
    OBVIOUS
<1>1. ASSUME NEW c \in Cases, DispatchCase(c) \/ CaseEnds(c) \/ OperatorResolves(c)
      PROVE  UpdatedOnce'
  <2>1. updated' = Touched(c)
      BY <1>1 DEF DispatchCase, CaseEnds, OperatorResolves
  <2> QED BY <2>1, TouchedOnce
<1>2. CASE Build
  <2>1. turn.run \in Cases /\ updated' = Touched(turn.run)
      BY <1>2 DEF Build, TurnIs, CalibrationInv, TurnSound, Runs, CorpusRun
  <2> QED BY <2>1, TouchedOnce
<1>3. ASSUME updated' = updated PROVE UpdatedOnce'
    BY <1>3 DEF UpdatedOnce
<1>4. \/ updated' = updated \/ Build
      \/ \E c \in Cases : DispatchCase(c) \/ CaseEnds(c) \/ OperatorResolves(c)
    BY DEF CalibrationNext, calVars, laneVars, AuthorCases, AuthoredBefore, MakeRepository,
           ReuseRepository, StartScoring, WriteTaskFile, WriteCaseBrief, CaseUnready, RecordCase,
           SaveWait, CommitBase, BuildRefused, RecordSingle, SavePassed, TickDies
<1> QED BY <1>1, <1>2, <1>3, <1>4

\* The types of the calibration runs, the order of updates among them, in every reachable state.
LEMMA CalibrationTypes == CalibrationInv /\ AtRest /\ UpdatedOnce => CalibrationTypeOK
<1> SUFFICES ASSUME CalibrationInv, AtRest, UpdatedOnce PROVE CalibrationTypeOK
    OBVIOUS
<1>1. turn.at = "rest" => turn.run = CorpusRun
    BY DEF AtRest, Resting
<1> QED BY <1>1 DEF CalibrationInv, CalibrationTyped, TurnSound, UpdatedOnce, CalibrationTypeOK, TurnRows, TurnSteps, Runs

\* No tick is under way and no attempt has been updated.
LEMMA NothingUpdated == CalibrationInit => AtRest /\ UpdatedOnce
BY DEF CalibrationInit, AtRest, UpdatedOnce

\* Type correctness of the calibration runs: a tick at rest has no run in hand, and the order in
\* which the ledger's attempts were updated names each case once.
THEOREM CalibrationTyping == CalibrationSpec => []CalibrationTypeOK
<1>1. CalibrationInit => CalibrationInv /\ AtRest /\ UpdatedOnce
    BY CalibrationBegins, NothingUpdated
<1>2. CalibrationInv /\ AtRest /\ UpdatedOnce /\ [CalibrationNext]_calVars
        => (CalibrationInv /\ AtRest /\ UpdatedOnce)'
    BY CalibrationStepKeeps, AtRestNext, UpdatedOnceNext
<1> QED BY <1>1, <1>2, CalibrationTypes, PTL DEF CalibrationSpec

\* An attempt is recorded as accepted only if its reply was right and its work completed, and a
\* corpus run that passed waited for every case and scored each whose review passed.
THEOREM EvalsAreTrue == CalibrationSpec => []EvalsTrue
<1>1. CalibrationInv => EvalsTrue
  <2> SUFFICES ASSUME CalibrationInv PROVE EvalsTrue
      OBVIOUS
  <2>1. ASSUME node = [r \in {CorpusRun} |-> "passed"]
        PROVE  form = CorpusRun /\ node[CorpusRun] = "passed"
    <3>1. DOMAIN node = {CorpusRun} /\ DOMAIN node = Runs
        BY <2>1 DEF CalibrationInv, CalibrationTyped
    <3> QED BY <2>1, <3>1, CalibrationAssumption DEF Runs
  <2>2. CASE form = CorpusRun
      BY <2>1, <2>2 DEF CalibrationInv, OutcomesEarned, CasesInStep, CorpusScored, Scored, EvalsTrue,
                        CorpusRun
  <2>3. CASE form # CorpusRun
      BY <2>1, <2>3 DEF CalibrationInv, OutcomesEarned, EvalsTrue
  <2> QED BY <2>2, <2>3
<1> QED BY <1>1, CalibrationInvariant, PTL

-----------------------------------------------------------------------------
(* Branch reviews *)

ReviewSteps == {"idle", "task", "brief", "done", "refused"}

Answered == {"idle", "done", "refused"}

\* The packet is about what its id says, of all the paths that it was asked for.
Covering(t) ==
  \A k \in BranchCommits : \A p \in Reviewable(CommitPaths(k)) :
    p \in t.filter /\ t.id \in {<<k, "">>, <<k, Dir[p]>>} => Covers(t, k, p)

\* The packet's id was taken by a request that filtered the change out or by one that died.
TakenBefore(t, k, p, over) ==
  /\ t.id \in over /\ t.id \in {<<k, "">>, <<k, Dir[p]>>}
  /\ (p \notin t.filter) \/ (t.id \notin briefs /\ died > 0)

\* What request w asks to be shown is in the packets of a plan, in a packet that has its brief, or
\* taken before.
ShownBy(w, plan, over) ==
  \A k \in BranchCommits : \A p \in Reviewable(Shown(w, k)) :
    \/ DocsOnly(w, k)
    \/ \E t \in plan : Covers(t, k, p)
    \/ \E t \in tasks : Covers(t, k, p) /\ t.id \in briefs
    \/ \E t \in tasks : TakenBefore(t, k, p, over)

\* A packet to be written has the place of its id to itself.
OwnPlace(v) == /\ v.id \notin passed_over
               /\ \A u \in left \cup tasks : u.id = v.id => u = v

ReviewInv ==
  /\ range \in Ranges
  /\ author \in [at : ReviewSteps, want : Requested \cup {NoRequest}]
  /\ died \in Nat
  /\ author.at \in Answered => left = {}
  /\ author.at = "task" => left \cap tasks = {}
  /\ author.at = "brief" => \E v \in left : left \cap tasks = {v}
  /\ \A t \in left \cup tasks : t.bytes <= Limit /\ Covering(t)
  /\ \A v \in left : OwnPlace(v)
  /\ \A t \in tasks : t.id \in briefs \/ died > 0 \/ t \in left
  /\ author.at \in {"task", "brief", "done"} => ShownBy(author.want, left, passed_over)

\* The group of a path, its directory and the paths in it.
LEMMA GroupFacts ==
  ASSUME NEW S
  PROVE  /\ \A G, H \in Groups(S) : DirOf(G) = DirOf(H) => G = H
         /\ \A p \in S : \E G \in Groups(S) : p \in G /\ DirOf(G) = Dir[p]
         /\ \A G \in Groups(S) : \E q \in S : G = {p \in S : Dir[p] = Dir[q]} /\ DirOf(G) = Dir[q]
<1>1. ASSUME NEW q \in S
      PROVE  DirOf({p \in S : Dir[p] = Dir[q]}) = Dir[q]
  <2>1. q \in {p \in S : Dir[p] = Dir[q]}
      OBVIOUS
  <2>2. (CHOOSE p \in {p \in S : Dir[p] = Dir[q]} : TRUE) \in {p \in S : Dir[p] = Dir[q]}
      BY <2>1
  <2> QED BY <2>2 DEF DirOf
<1>2. \A G \in Groups(S) : \E q \in S : G = {p \in S : Dir[p] = Dir[q]} /\ DirOf(G) = Dir[q]
    BY <1>1 DEF Groups
<1>3. \A G, H \in Groups(S) : DirOf(G) = DirOf(H) => G = H
    BY <1>2
<1>4. ASSUME NEW p \in S
      PROVE  \E G \in Groups(S) : p \in G /\ DirOf(G) = Dir[p]
    BY <1>1, <1>4 DEF Groups
<1> QED BY <1>2, <1>3, <1>4

\* A packet of a part of commit k.
LEMMA PacketFacts ==
  ASSUME NEW w, NEW k, NEW part, NEW S
  PROVE  /\ Piece(w, k, part, S).id = <<k, part>>
         /\ Piece(w, k, part, S).id[1] = k /\ Piece(w, k, part, S).id[2] = part
         /\ Piece(w, k, part, S).commits = {k} /\ Piece(w, k, part, S).filter = w.paths
         /\ Piece(w, k, part, S).paths = Reviewable(S) /\ Piece(w, k, part, S).bytes = Measure(S, k)
BY DEF Piece, ReviewPacket

\* Ids of the same commit and part.
LEMMA SameId == \A a, b, c, d : <<a, b>> = <<c, d>> => a = c /\ b = d
OBVIOUS

\* What a commit shows are paths.
LEMMA ShownPaths == \A w, k : k \in BranchCommits /\ range \in Ranges => Shown(w, k) \subseteq Paths
<1> SUFFICES ASSUME NEW w, NEW k \in BranchCommits, range \in Ranges PROVE CommitPaths(k) \subseteq Paths
    BY DEF Shown
<1> DEFINE CommitRecords == [paths: SUBSET Paths, gone: SUBSET Paths]
<1>1. range.commits \in Seq(CommitRecords)
    BY ReviewPlanAssumption
<1> HIDE DEF CommitRecords
<1>2. range.commits[k] \in CommitRecords
    BY <1>1 DEF BranchCommits
<1> USE DEF CommitRecords
<1> QED BY <1>2 DEF CommitPaths

\* The pieces of a commit: ids are told apart, and each change is in one of them.
LEMMA PiecesFacts ==
  ASSUME range \in Ranges, NEW w, NEW k \in BranchCommits
  PROVE  /\ \A t \in Pieces(w, k) : t.id[1] = k /\ Covering(t)
         /\ \A t, u \in Pieces(w, k) : t.id = u.id => t = u
         /\ \A p \in Reviewable(Shown(w, k)) : ~DocsOnly(w, k) =>
              \E t \in Pieces(w, k) : Covers(t, k, p) /\ t.id \in {<<k, "">>, <<k, Dir[p]>>}
         /\ Splittable(w, k) => \A t \in Pieces(w, k) : OnBoard(t.id) \/ t.bytes <= Limit
<1> DEFINE S == Shown(w, k)
<1>0. ASSUME k \notin w.exclude PROVE S = CommitPaths(k) \cap w.paths
    BY <1>0 DEF Shown
<1>1. CASE LeftOut(w, k)
  <2>1. ~DocsOnly(w, k) => S = {}
      BY <1>1 DEF LeftOut
  <2> HIDE DEF S
  <2>2. Pieces(w, k) = {}
      BY <1>1 DEF Pieces
  <2>3. ~DocsOnly(w, k) => Reviewable(S) = {}
      BY <2>1 DEF Reviewable
  <2> QED BY <2>2, <2>3 DEF S
<1>2. CASE ~LeftOut(w, k) /\ Fits(w, k)
  <2> DEFINE u == Piece(w, k, "", S)
  <2>1. Pieces(w, k) = {u}
      BY <1>2 DEF Pieces
  <2>2. /\ u.id = <<k, "">> /\ u.id[1] = k /\ u.commits = {k} /\ u.filter = w.paths
        /\ u.paths = Reviewable(S) /\ u.bytes = Measure(S, k)
    <3> HIDE DEF S
    <3> QED BY DEF Piece, ReviewPacket
  <2>3. Measure(S, k) <= Limit
      BY <1>2 DEF Fits
  <2>4. k \notin w.exclude
      BY <1>2 DEF LeftOut, Shown
  <2>5. S = CommitPaths(k) \cap w.paths
      BY <1>0, <2>4
  <2> HIDE DEF u, S
  <2>6. Covering(u)
    <3>1. ASSUME NEW j \in BranchCommits, NEW p \in Reviewable(CommitPaths(j)), p \in u.filter,
                 u.id \in {<<j, "">>, <<j, Dir[p]>>}
          PROVE  Covers(u, j, p)
      <4>0. <<k, "">> = <<j, "">> \/ <<k, "">> = <<j, Dir[p]>>
          BY <2>2, <3>1, Zenon
      <4>1. j = k
          BY <4>0, SameId, Zenon
      <4>2. p \in u.paths
          BY <2>2, <2>5, <3>1, <4>1 DEF Reviewable
      <4> QED BY <2>2, <4>1, <4>2 DEF Covers
    <3> QED BY <3>1 DEF Covering
  <2>7. \A t \in Pieces(w, k) : t = u
      BY <2>1
  <2>8. \A p \in Reviewable(S) : Covers(u, k, p) /\ u.id \in {<<k, "">>, <<k, Dir[p]>>}
      BY <2>2 DEF Covers
  <2> QED BY <2>1, <2>2, <2>3, <2>6, <2>7, <2>8 DEF S
<1>3. CASE ~LeftOut(w, k) /\ ~Fits(w, k)
  <2> DEFINE P(G) == Piece(w, k, DirOf(G), G)
  <2>1. Pieces(w, k) = {P(G) : G \in Groups(S)}
      BY <1>3 DEF Pieces
  <2>2. ASSUME NEW G
        PROVE  /\ P(G).id = <<k, DirOf(G)>> /\ P(G).id[1] = k /\ P(G).id[2] = DirOf(G)
               /\ P(G).commits = {k} /\ P(G).filter = w.paths /\ P(G).paths = Reviewable(G)
      BY PacketFacts
  <2>a. k \notin w.exclude
      BY <1>3 DEF LeftOut, Shown
  <2>b. S = CommitPaths(k) \cap w.paths /\ S \subseteq Paths
      BY <1>0, <2>a, ShownPaths
  <2>c. ASSUME NEW G \in Groups(S) PROVE DirOf(G) # "" /\ \A p \in S : DirOf(G) = Dir[p] => p \in G
    <3>1. PICK q \in S : G = {p \in S : Dir[p] = Dir[q]} /\ DirOf(G) = Dir[q]
        BY GroupFacts
    <3>2. Dir[q] # ""
        BY <2>b, ReviewPlanAssumption
    <3> QED BY <3>1, <3>2
  <2> HIDE DEF P, S
  <2>3. ASSUME NEW t \in Pieces(w, k) PROVE t.id[1] = k /\ Covering(t)
    <3>1. PICK G \in Groups(S) : t = P(G)
        BY <2>1, <2>3
    <3>2. ASSUME NEW j \in BranchCommits, NEW p \in Reviewable(CommitPaths(j)), p \in t.filter,
                 t.id \in {<<j, "">>, <<j, Dir[p]>>}
          PROVE  Covers(t, j, p)
      <4>0. <<k, DirOf(G)>> = <<j, "">> \/ <<k, DirOf(G)>> = <<j, Dir[p]>>
          BY <2>2, <3>1, <3>2, Zenon
      <4>1. j = k /\ DirOf(G) = Dir[p]
          BY <2>c, <4>0, SameId, Zenon
      <4>2. p \in S /\ p \notin Generated
          BY <2>2, <2>b, <3>1, <3>2, <4>1 DEF Reviewable
      <4>3. p \in G
          BY <2>c, <4>1, <4>2
      <4>4. p \in t.paths /\ t.commits = {k}
          BY <2>2, <3>1, <4>2, <4>3 DEF Reviewable
      <4> QED BY <4>1, <4>4 DEF Covers
    <3>3. Covering(t)
        BY <3>2 DEF Covering
    <3> QED BY <2>2, <3>1, <3>3
  <2>4. ASSUME NEW t \in Pieces(w, k), NEW u \in Pieces(w, k), t.id = u.id
        PROVE  t = u
    <3>1. PICK G \in Groups(S) : t = P(G)
        BY <2>1
    <3>2. PICK H \in Groups(S) : u = P(H)
        BY <2>1
    <3>3. DirOf(G) = DirOf(H)
        BY <2>2, <2>4, <3>1, <3>2
    <3> QED BY <3>1, <3>2, <3>3, GroupFacts
  <2>5. ASSUME NEW p \in Reviewable(S)
        PROVE  \E t \in Pieces(w, k) : Covers(t, k, p) /\ t.id \in {<<k, "">>, <<k, Dir[p]>>}
    <3>1. p \in S /\ p \notin Generated
        BY DEF Reviewable
    <3>2. PICK G \in Groups(S) : p \in G /\ DirOf(G) = Dir[p]
        BY <3>1, GroupFacts
    <3>3. p \in Reviewable(G)
        BY <3>1, <3>2 DEF Reviewable
    <3>4. P(G) \in Pieces(w, k)
        BY <2>1
    <3>5. Covers(P(G), k, p) /\ P(G).id = <<k, Dir[p]>>
        BY <2>2, <3>2, <3>3 DEF Covers
    <3> QED BY <3>4, <3>5
  <2>6. Splittable(w, k) => \A t \in Pieces(w, k) : OnBoard(t.id) \/ t.bytes <= Limit
      BY <1>3 DEF Splittable
  <2> QED BY <2>3, <2>4, <2>5, <2>6 DEF S
<1> QED BY <1>1, <1>2, <1>3

LEMMA PieceOf ==
  ASSUME range \in Ranges, NEW w, NEW k \in BranchCommits, NEW t \in Pieces(w, k)
  PROVE  t.id[1] = k
BY PiecesFacts

LEMMA PieceIds ==
  ASSUME range \in Ranges, NEW w, NEW k \in BranchCommits, NEW t \in Pieces(w, k), NEW u \in Pieces(w, k), t.id = u.id
  PROVE  t = u
BY PiecesFacts, Zenon

\* A packet of the whole range covers all that it was asked for.
LEMMA WholeFacts ==
  ASSUME NEW w, NEW t \in {RangePacket(w), BranchPacket(w)}
  PROVE  /\ Covering(t)
         /\ \A k \in BranchCommits : \A p \in Reviewable(Shown(w, k)) : Covers(t, k, p)
<1>1. t.commits = BranchCommits /\ t.filter = w.paths /\ t.paths = Reviewable(Whole(w))
    BY DEF RangePacket, BranchPacket, ReviewPacket
<1>2. ASSUME NEW k \in BranchCommits, NEW p \in w.paths \ Generated PROVE Covers(t, k, p)
    BY <1>1 DEF Covers, Reviewable, Whole
<1>3. Covering(t)
    BY <1>1, <1>2 DEF Covering, Reviewable
<1>4. ASSUME NEW k \in BranchCommits, NEW p \in Reviewable(Shown(w, k)) PROVE Covers(t, k, p)
    BY <1>2 DEF Shown, Reviewable
<1> QED BY <1>3, <1>4

\* At the start nothing is asked for.
LEMMA ReviewBegins == ReviewInit => ReviewInv
BY DEF ReviewInit, ReviewInv, ReviewSteps, Answered

\* The range stays, and with it what a packet and a request have to show.
LEMMA RangeStays ==
  ASSUME range' = range
  PROVE  /\ BranchCommits' = BranchCommits
         /\ \A k : CommitPaths(k)' = CommitPaths(k)
         /\ \A w, k : Shown(w, k)' = Shown(w, k) /\ (DocsOnly(w, k)' <=> DocsOnly(w, k))
         /\ \A t, k, p : Covers(t, k, p)' <=> Covers(t, k, p)
         /\ \A t : Covering(t)' <=> Covering(t)
<1>1. BranchCommits' = BranchCommits /\ Changed' = Changed
    BY DEF BranchCommits, Changed
<1>2. \A k : CommitPaths(k)' = CommitPaths(k)
    BY DEF CommitPaths
<1>3. \A w, k : Shown(w, k)' = Shown(w, k)
    BY <1>2 DEF Shown
<1>4. \A w, k : DocsOnly(w, k)' <=> DocsOnly(w, k)
    BY <1>3 DEF DocsOnly
<1>5. \A t, k, p : Covers(t, k, p)' <=> Covers(t, k, p)
    BY <1>1 DEF Covers
<1>6. ASSUME NEW t PROVE Covering(t)' <=> Covering(t)
    BY <1>1, <1>2, <1>5 DEF Covering, Reviewable
<1> QED BY <1>1, <1>2, <1>3, <1>4, <1>5, <1>6

\* As packets are written, what a request has to show stays shown.
LEMMA ShownStays ==
  ASSUME range' = range, died' = died, NEW w, NEW plan, NEW over, NEW rest,
         ShownBy(w, plan, over), tasks \subseteq tasks',
         \A t \in tasks : t.id \in briefs => t.id \in briefs',
         \A t \in tasks : t.id \in over /\ t.id \notin briefs => t.id \notin briefs',
         \A t \in plan : t \in rest \/ (t \in tasks' /\ t.id \in briefs')
  PROVE  ShownBy(w, rest, over)'
<1>1. ASSUME NEW k \in BranchCommits, NEW p \in Reviewable(Shown(w, k))
      PROVE  \/ DocsOnly(w, k)
             \/ \E t \in rest : Covers(t, k, p)
             \/ \E t \in tasks' : Covers(t, k, p) /\ t.id \in briefs'
             \/ \E t \in tasks' : TakenBefore(t, k, p, over)'
  <2>1. CASE \E t \in plan : Covers(t, k, p)
      BY <2>1
  <2>2. CASE \E t \in tasks : Covers(t, k, p) /\ t.id \in briefs
      BY <2>2
  <2>3. CASE \E t \in tasks : TakenBefore(t, k, p, over)
    <3>1. PICK t \in tasks : TakenBefore(t, k, p, over)
        BY <2>3
    <3>2. TakenBefore(t, k, p, over)'
        BY <3>1 DEF TakenBefore
    <3> QED BY <3>2
  <2> QED BY <1>1, <2>1, <2>2, <2>3 DEF ShownBy
<1> QED BY <1>1, RangeStays DEF ShownBy, Reviewable

\* A request is planned: packets that fit, with ids of their own, for every change it shows.
LEMMA RequestKeeps ==
  ASSUME ReviewInv, NEW w \in Requested, ReviewWhole(w) \/ ReviewSplit(w) \/ ReviewBranch(w)
  PROVE  ReviewInv'
<1> DEFINE skipped == {t \in SplitPlan(w) : OnBoard(t.id)}
<1>r. range \in Ranges
    BY DEF ReviewInv
<1>1. UNCHANGED <<range, tasks, briefs, died>> /\ author.at \in Answered
    BY DEF ReviewWhole, ReviewSplit, ReviewBranch, Ask, Answered
<1>2. PICK plan, over :
        /\ Write(w, plan, over)
        /\ \/ FitsWhole(w) /\ plan = {RangePacket(w)} /\ over = {}
           \/ BranchFits(w) /\ plan = {BranchPacket(w)} /\ over = {}
           \/ SplitFits(w) /\ plan = SplitPlan(w) \ skipped /\ over = {t.id : t \in skipped}
    BY DEF ReviewWhole, ReviewSplit, ReviewBranch
<1>3. /\ author'.want = w
      /\ author' \in [at : ReviewSteps, want : Requested \cup {NoRequest}]
      /\ author'.at \in {"task", "done"}
      /\ author'.at = "done" => left' = {}
    BY <1>2 DEF Write, ReviewSteps
<1>d. \A t \in tasks : t.id \in briefs \/ died > 0
    BY <1>1 DEF ReviewInv
<1>5. ASSUME \/ FitsWhole(w) /\ plan = {RangePacket(w)} /\ over = {}
             \/ BranchFits(w) /\ plan = {BranchPacket(w)} /\ over = {}
      PROVE  /\ \A t \in plan : t.bytes <= Limit /\ Covering(t) /\ ~OnBoard(t.id) /\ t.id \notin over
             /\ \A t, u \in plan : t.id = u.id => t = u
             /\ ShownBy(w, plan, over)
  <2>1. PICK t : plan = {t} /\ t \in {RangePacket(w), BranchPacket(w)}
      BY <1>5
  <2>2. t.bytes <= Limit /\ ~OnBoard(t.id)
      BY <1>5, <2>1 DEF FitsWhole, BranchFits
  <2>3. Covering(t) /\ \A k \in BranchCommits : \A p \in Reviewable(Shown(w, k)) : Covers(t, k, p)
      BY <2>1, WholeFacts
  <2>4. ShownBy(w, plan, over)
      BY <2>1, <2>3 DEF ShownBy
  <2> QED BY <1>5, <2>1, <2>2, <2>3, <2>4
<1>6. ASSUME SplitFits(w) /\ plan = SplitPlan(w) \ skipped /\ over = {t.id : t \in skipped}
      PROVE  /\ \A t \in plan : t.bytes <= Limit /\ Covering(t) /\ ~OnBoard(t.id) /\ t.id \notin over
             /\ \A t, u \in plan : t.id = u.id => t = u
             /\ ShownBy(w, plan, over)
  <2>1. \A k \in BranchCommits : Splittable(w, k)
      BY <1>6 DEF SplitFits
  <2>2. \A t \in SplitPlan(w) : \E k \in BranchCommits : t \in Pieces(w, k)
      BY DEF SplitPlan
  <2>3. \A t \in plan : t \in SplitPlan(w) /\ ~OnBoard(t.id)
      BY <1>6
  <2>o. \A id \in over : OnBoard(id)
      BY <1>6
  <2>4. ASSUME NEW t \in plan PROVE t.bytes <= Limit /\ Covering(t) /\ ~OnBoard(t.id) /\ t.id \notin over
    <3>1. PICK k \in BranchCommits : t \in Pieces(w, k)
        BY <2>2, <2>3
    <3>2. Covering(t) /\ (OnBoard(t.id) \/ t.bytes <= Limit)
        BY <1>r, <2>1, <3>1, PiecesFacts
    <3> QED BY <2>3, <2>o, <3>2
  <2>5. ASSUME NEW t \in plan, NEW u \in plan, t.id = u.id
        PROVE  t = u
    <3>1. PICK k \in BranchCommits : t \in Pieces(w, k)
        BY <2>2, <2>3
    <3>2. PICK j \in BranchCommits : u \in Pieces(w, j)
        BY <2>2, <2>3
    <3>3. t.id[1] = k /\ u.id[1] = j
        BY <1>r, <3>1, <3>2, PieceOf
    <3>4. k = j
        BY <2>5, <3>3, Zenon
    <3> QED BY <1>r, <2>5, <3>1, <3>2, <3>4, PieceIds, Zenon
  <2>6. ASSUME NEW k \in BranchCommits, NEW p \in Reviewable(Shown(w, k)), ~DocsOnly(w, k)
        PROVE  \/ \E t \in plan : Covers(t, k, p)
               \/ \E t \in tasks : Covers(t, k, p) /\ t.id \in briefs
               \/ \E t \in tasks : TakenBefore(t, k, p, over)
    <3>1. PICK u \in Pieces(w, k) : Covers(u, k, p) /\ u.id \in {<<k, "">>, <<k, Dir[p]>>}
        BY <1>r, <2>6, PiecesFacts
    <3>2. u \in SplitPlan(w)
        BY DEF SplitPlan
    <3>3. CASE OnBoard(u.id)
      <4>1. PICK t \in tasks : t.id = u.id
          BY <3>3 DEF OnBoard
      <4>2. t.id \in over /\ t.id \in {<<k, "">>, <<k, Dir[p]>>}
          BY <1>6, <3>1, <3>2, <3>3, <4>1
      <4>3. p \in Reviewable(CommitPaths(k)) /\ Covering(t)
          BY DEF ReviewInv, Shown, Reviewable
      <4>4. p \in t.filter => Covers(t, k, p)
          BY <4>2, <4>3 DEF Covering
      <4> QED BY <1>d, <4>2, <4>4 DEF TakenBefore
    <3>4. CASE ~OnBoard(u.id)
        BY <1>6, <3>1, <3>2, <3>4
    <3> QED BY <3>3, <3>4
  <2>7. ShownBy(w, plan, over)
      BY <2>6 DEF ShownBy
  <2> QED BY <2>4, <2>5, <2>7
<1>7. \A t \in plan : t.bytes <= Limit /\ Covering(t) /\ ~OnBoard(t.id) /\ t.id \notin over
    BY <1>2, <1>5, <1>6
<1>8. \A t, u \in plan : t.id = u.id => t = u
    BY <1>2, <1>5, <1>6
<1>9. ShownBy(w, plan, over)
    BY <1>2, <1>5, <1>6
<1>10. left' = plan /\ passed_over' = over /\ author'.at # "brief"
    BY <1>2, <1>3 DEF Write
<1>11. \A t \in left' \cup tasks' : t.bytes <= Limit /\ Covering(t)'
    BY <1>1, <1>7, <1>10, RangeStays DEF ReviewInv
<1>12. left' \cap tasks' = {} /\ \A v \in left' : OwnPlace(v)'
    BY <1>1, <1>7, <1>8, <1>10 DEF OwnPlace, OnBoard
<1>13. ShownBy(author.want, left, passed_over)'
  <2>1. ShownBy(w, plan, over)'
      BY <1>1, <1>9, ShownStays
  <2> QED BY <1>3, <1>10, <2>1 DEF ShownBy, TakenBefore
<1>14. \A t \in tasks' : t.id \in briefs' \/ died' > 0
    BY <1>1, <1>d
<1>15. died' \in Nat /\ (author'.at \in Answered => left' = {})
    BY <1>1, <1>3 DEF ReviewInv, Answered
<1> QED BY <1>r, <1>1, <1>3, <1>10, <1>11, <1>12, <1>13, <1>14, <1>15 DEF ReviewInv

\* The files of a packet are written, in the place that is its own.
LEMMA WritingKeeps ==
  ASSUME ReviewInv, WriteTask \/ WriteBrief
  PROVE  ReviewInv'
<1>a. UNCHANGED <<range, passed_over, died>> /\ author.at \in {"task", "brief"}
    BY DEF WriteTask, WriteBrief, AuthorAt
<1>1. /\ author' \in [at : ReviewSteps, want : Requested \cup {NoRequest}]
      /\ author'.want = author.want
      /\ author'.at \in Answered => left' = {}
    BY DEF WriteTask, WriteBrief, AuthorAt, ReviewSteps, ReviewInv, Answered
<1>2. /\ left' \subseteq left /\ tasks \subseteq tasks' /\ tasks' \subseteq tasks \cup left
      /\ author'.at = "task" => left' \cap tasks' = {}
      /\ author'.at = "brief" => \E v \in left' : left' \cap tasks' = {v}
      /\ \A t \in left : t \in left' \/ (t \in tasks' /\ t.id \in briefs')
      /\ \A t \in tasks : t.id \in briefs => t.id \in briefs'
      /\ \A t \in tasks : t.id \in passed_over /\ t.id \notin briefs => t.id \notin briefs'
      /\ \A t \in tasks' : t.id \in briefs' \/ died > 0 \/ t \in left'
  <2>1. CASE WriteTask
    <3>1. PICK v \in left : tasks' = {u \in tasks : u.id # v.id} \cup {v}
        BY <2>1 DEF WriteTask
    <3>2. /\ author.at = "task" /\ author'.at = "brief" /\ UNCHANGED <<left, briefs>>
          /\ left \cap tasks = {}
        BY <2>1 DEF WriteTask, AuthorAt, ReviewInv
    <3>3. \A u \in tasks : u.id = v.id => u = v
        BY <3>1 DEF ReviewInv, OwnPlace
    <3>4. tasks' = tasks \cup {v}
        BY <3>1, <3>3
    <3>5. left' \cap tasks' = {v} /\ v \in left'
        BY <3>1, <3>2, <3>4
    <3> QED BY <3>1, <3>2, <3>4, <3>5 DEF ReviewInv
  <2>2. CASE WriteBrief
    <3>1. PICK v \in left \cap tasks : left' = left \ {v} /\ briefs' = briefs \cup {v.id}
        BY <2>2 DEF WriteBrief
    <3>2. /\ author.at = "brief" /\ author'.at # "brief" /\ UNCHANGED tasks
        BY <2>2 DEF WriteBrief, AuthorAt
    <3>3. left \cap tasks = {v}
        BY <3>1, <3>2 DEF ReviewInv
    <3>4. left' \cap tasks' = {}
        BY <3>1, <3>2, <3>3
    <3>5. v.id \notin passed_over
        BY <3>1 DEF ReviewInv, OwnPlace
    <3> QED BY <3>1, <3>2, <3>4, <3>5 DEF ReviewInv
  <2> QED BY <2>1, <2>2
<1>3. \A t \in left' \cup tasks' : t.bytes <= Limit /\ Covering(t)'
    BY <1>a, <1>2, RangeStays DEF ReviewInv
<1>4. \A v \in left' : OwnPlace(v)'
    BY <1>a, <1>2 DEF OwnPlace, ReviewInv
<1>5. ShownBy(author.want, left, passed_over)
    BY <1>a DEF ReviewInv
<1>6. ShownBy(author.want, left, passed_over)'
  <2>1. PICK w, plan, over, rest :
          w = author.want /\ plan = left /\ over = passed_over /\ rest = left'
      OBVIOUS
  <2>2. ShownBy(w, plan, over)
      BY <1>5, <2>1
  <2>3. /\ tasks \subseteq tasks' /\ \A t \in tasks : t.id \in briefs => t.id \in briefs'
        /\ \A t \in tasks : t.id \in over /\ t.id \notin briefs => t.id \notin briefs'
        /\ \A t \in plan : t \in rest \/ (t \in tasks' /\ t.id \in briefs')
      BY <1>2, <2>1
  <2>4. ShownBy(w, rest, over)'
      BY <1>a, <2>2, <2>3, ShownStays
  <2>5. w = author'.want /\ rest = left' /\ over = passed_over'
      BY <1>1, <1>a, <2>1
  <2> QED BY <2>4, <2>5 DEF ShownBy, TakenBefore
<1>7. died' \in Nat /\ \A t \in tasks' : t.id \in briefs' \/ died' > 0 \/ t \in left'
    BY <1>a, <1>2 DEF ReviewInv
<1>8. range' \in Ranges
    BY <1>a DEF ReviewInv
<1> QED BY <1>1, <1>2, <1>3, <1>4, <1>6, <1>7, <1>8 DEF ReviewInv

\* Every step of the specification keeps the invariant.
LEMMA ReviewStepKeeps == ReviewInv /\ [ReviewNext]_planVars => ReviewInv'
<1> SUFFICES ASSUME ReviewInv, [ReviewNext]_planVars PROVE ReviewInv'
    OBVIOUS
<1>1. CASE \E w \in Requested : ReviewWhole(w) \/ ReviewSplit(w) \/ ReviewBranch(w)
    BY <1>1, RequestKeeps
<1>2. CASE (\E w \in Requested : Refuse(w)) \/ AuthorDies
  <2>1. /\ author' \in [at : ReviewSteps, want : Requested \cup {NoRequest}]
        /\ author'.at \in {"refused", "idle"} /\ left' = {} /\ UNCHANGED <<range, tasks, briefs>>
        /\ died' \in Nat /\ ((died' = died /\ left = {}) \/ died' > 0)
      BY <1>2 DEF Refuse, AuthorDies, ReviewSteps, ReviewInv, Ask, Answered
  <2>2. \A t \in tasks' : Covering(t)'
      BY <2>1, RangeStays DEF ReviewInv
  <2>3. \A t \in tasks' : t.id \in briefs' \/ died' > 0
      BY <2>1 DEF ReviewInv
  <2> QED BY <2>1, <2>2, <2>3 DEF ReviewInv
<1>3. CASE WriteTask \/ WriteBrief
    BY <1>3, WritingKeeps
<1>4. CASE MergeProved \/ UNCHANGED planVars
  <2>1. UNCHANGED <<range, author, left, passed_over, tasks, briefs, died>>
      BY <1>4 DEF MergeProved, planVars
  <2>3. author.at \in {"task", "brief", "done"} => ShownBy(author.want, left, passed_over)'
    <3>1. ASSUME author.at \in {"task", "brief", "done"} PROVE ShownBy(author.want, left, passed_over)
        BY <3>1 DEF ReviewInv
    <3>2. PICK w, plan, over : w = author.want /\ plan = left /\ over = passed_over
        OBVIOUS
    <3>3. author.at \in {"task", "brief", "done"} => ShownBy(w, plan, over)'
        BY <2>1, <3>1, <3>2, ShownStays
    <3> QED BY <2>1, <3>2, <3>3 DEF ShownBy, TakenBefore
  <2>4. \A t \in left' \cup tasks' : Covering(t)'
      BY <2>1, RangeStays DEF ReviewInv
  <2> QED BY <2>1, <2>3, <2>4 DEF ReviewInv, OwnPlace
<1> QED BY <1>1, <1>2, <1>3, <1>4 DEF ReviewNext

\* The packets still to be written and those on the board show what the author was asked for,
\* in every reachable state (branch_review.py: review_branch, _write_files).
THEOREM ReviewInvariant == ReviewSpec => []ReviewInv
<1> QED BY ReviewBegins, ReviewStepKeeps, PTL DEF ReviewSpec

\* When a request is done every reviewable change it asked for is in a packet with its brief,
\* unless its commit is documentation only, or a request that filtered the change out, or whose
\* author died before the brief, took its packet's id; no packet is over the budget.
THEOREM NothingIsUnreviewed == ReviewSpec => []NothingUnreviewed
<1>1. ReviewInv => NothingUnreviewed
    BY DEF ReviewInv, ShownBy, TakenBefore, NothingUnreviewed, AuthorAt, want, Answered
<1> QED BY <1>1, ReviewInvariant, PTL

\* Every packet, written or planned or passed over, has an id that a request can give it and
\* shows only what may be staged; the counters keep to their bounds.
ReviewTyped ==
  /\ proved \in BOOLEAN
  /\ \A t \in tasks \cup left : t.id \in ReviewIds /\ t.paths \subseteq Paths \ Generated
  /\ passed_over \cup briefs \subseteq ReviewIds
  /\ asked \in 0..Asks /\ died \in 0..AuthorFalls

\* What a piece of a commit is called, and what it shows.
LEMMA PieceTyped ==
  ASSUME range \in Ranges, NEW w \in Requested, NEW k \in BranchCommits, NEW t \in Pieces(w, k)
  PROVE  t.id \in ReviewIds /\ t.paths \subseteq Paths \ Generated
<1>1. Shown(w, k) \subseteq Paths
    BY ShownPaths
<1>2. k \in UNION {DOMAIN r.commits : r \in Ranges}
    BY DEF BranchCommits
<1>3. ASSUME NEW d \in {""} \cup {Dir[p] : p \in Paths}, NEW S \in SUBSET Paths,
             t = Piece(w, k, d, S)
      PROVE  t.id \in ReviewIds /\ t.paths \subseteq Paths \ Generated
  <2>1. t.id = <<k, d>> /\ t.paths = Reviewable(S)
      BY <1>3 DEF Piece, ReviewPacket
  <2>2. d \in {""} \cup {v.label : v \in Requested} \cup {Dir[p] : p \in Paths}
      BY <1>3
  <2>3. <<k, d>> \in (UNION {DOMAIN r.commits : r \in Ranges})
                     \X ({""} \cup {v.label : v \in Requested} \cup {Dir[p] : p \in Paths})
      BY <1>2, <2>2, Zenon
  <2>4. t.id \in ReviewIds
      BY <2>1, <2>3, Zenon DEF ReviewIds
  <2> QED BY <1>3, <2>1, <2>4 DEF Reviewable
<1>4. CASE t = Piece(w, k, "", Shown(w, k))
    BY <1>1, <1>3, <1>4
<1>5. ASSUME NEW G \in Groups(Shown(w, k)), t = Piece(w, k, DirOf(G), G)
      PROVE  t.id \in ReviewIds /\ t.paths \subseteq Paths \ Generated
  <2>1. PICK q \in Shown(w, k) : G = {p \in Shown(w, k) : Dir[p] = Dir[q]}
      BY DEF Groups
  <2>2. q \in G /\ G \subseteq Paths
      BY <1>1, <2>1
  <2>3. (CHOOSE p \in G : TRUE) \in Paths
      BY <2>2
  <2> QED BY <1>3, <1>5, <2>2, <2>3 DEF DirOf
<1>6. \/ t = Piece(w, k, "", Shown(w, k))
      \/ \E G \in Groups(Shown(w, k)) : t = Piece(w, k, DirOf(G), G)
  <2>1. CASE LeftOut(w, k)
      BY <2>1 DEF Pieces
  <2>2. CASE ~LeftOut(w, k) /\ Fits(w, k)
      BY <2>2 DEF Pieces
  <2>3. CASE ~LeftOut(w, k) /\ ~Fits(w, k)
      BY <2>3 DEF Pieces
  <2> QED BY <2>1, <2>2, <2>3
<1> QED BY <1>4, <1>5, <1>6

\* A packet of the whole range or branch.
LEMMA WholeTyped ==
  ASSUME range \in Ranges, NEW w \in Requested, NEW t \in {RangePacket(w), BranchPacket(w)}
  PROVE  t.id \in ReviewIds /\ t.paths \subseteq Paths \ Generated
<1>1. Whole(w) \subseteq Paths
    BY ReviewPlanAssumption DEF Whole
<1>2. /\ t.id = <<Tip, w.label>> \/ t.id = <<0, "branch">>
      /\ t.paths = Reviewable(Whole(w))
    BY DEF RangePacket, BranchPacket, ReviewPacket
<1>3. Tip \in DOMAIN range.commits
  <2>1. range.commits \in Seq([paths: SUBSET Paths, gone: SUBSET Paths]) /\ range.commits # <<>>
      BY ReviewPlanAssumption
  <2> QED BY <2>1 DEF Tip
<1>4. Tip \in UNION {DOMAIN r.commits : r \in Ranges}
    BY <1>3
<1>5. w.label \in {""} \cup {v.label : v \in Requested} \cup {Dir[p] : p \in Paths}
    OBVIOUS
<1>6. <<Tip, w.label>> \in (UNION {DOMAIN r.commits : r \in Ranges})
                            \X ({""} \cup {v.label : v \in Requested} \cup {Dir[p] : p \in Paths})
    BY <1>4, <1>5, Zenon
<1>7. t.id \in ReviewIds
    BY <1>2, <1>6, Zenon DEF ReviewIds
<1> QED BY <1>1, <1>2, <1>7 DEF Reviewable

\* Every step of a review's planning keeps the types of its packets.
LEMMA ReviewTypedNext == ReviewInv /\ ReviewTyped /\ [ReviewNext]_planVars => ReviewTyped'
<1> SUFFICES ASSUME ReviewInv, ReviewTyped, [ReviewNext]_planVars PROVE ReviewTyped'
    OBVIOUS
<1>0. Asks \in Nat /\ AuthorFalls \in Nat
    BY ReviewPlanAssumption
<1>1. ASSUME NEW w \in Requested, ReviewWhole(w) \/ ReviewBranch(w) PROVE ReviewTyped'
  <2>1. PICK t \in {RangePacket(w), BranchPacket(w)} : left' = {t} /\ passed_over' = {}
      BY <1>1 DEF ReviewWhole, ReviewBranch, Write
  <2>2. asked' \in 0..Asks /\ UNCHANGED <<range, proved, tasks, briefs, died>>
      BY <1>0, <1>1 DEF ReviewWhole, ReviewBranch, Ask, ReviewTyped
  <2>3. t.id \in ReviewIds /\ t.paths \subseteq Paths \ Generated
      BY WholeTyped DEF ReviewInv
  <2> QED BY <2>1, <2>2, <2>3 DEF ReviewTyped
<1>2. ASSUME NEW w \in Requested, ReviewSplit(w) PROVE ReviewTyped'
  <2>1. \A t \in left' : t \in SplitPlan(w)
      BY <1>2 DEF ReviewSplit, Write
  <2>2. \A id \in passed_over' : \E t \in SplitPlan(w) : id = t.id
      BY <1>2 DEF ReviewSplit, Write
  <2>3. asked' \in 0..Asks /\ UNCHANGED <<range, proved, tasks, briefs, died>>
      BY <1>0, <1>2 DEF ReviewSplit, Ask, ReviewTyped
  <2>4. \A t \in SplitPlan(w) : t.id \in ReviewIds /\ t.paths \subseteq Paths \ Generated
      BY PieceTyped DEF SplitPlan, ReviewInv
  <2> QED BY <2>1, <2>2, <2>3, <2>4 DEF ReviewTyped
<1>3. ASSUME NEW w \in Requested, Refuse(w) PROVE ReviewTyped'
    BY <1>0, <1>3 DEF Refuse, Ask, ReviewTyped
<1>4. CASE MergeProved
    BY <1>4 DEF MergeProved, ReviewTyped
<1>5. CASE WriteTask
    BY <1>5 DEF WriteTask, ReviewTyped
<1>6. CASE WriteBrief
    BY <1>6 DEF WriteBrief, ReviewTyped
<1>7. CASE AuthorDies
    BY <1>0, <1>7 DEF AuthorDies, ReviewTyped
<1>8. CASE UNCHANGED planVars
    BY <1>8 DEF planVars, ReviewTyped
<1> QED BY <1>1, <1>2, <1>3, <1>4, <1>5, <1>6, <1>7, <1>8 DEF ReviewNext

\* They are the type invariant.
LEMMA ReviewTypes == ReviewInv /\ ReviewTyped => ReviewTypeOK
<1>1. ReviewInv => /\ range \in Ranges
                   /\ author \in [at : {"idle", "task", "brief", "done", "refused"},
                                 want : Requested \cup {NoRequest}]
    BY DEF ReviewInv, ReviewSteps
<1>2. ReviewTyped => /\ proved \in BOOLEAN /\ passed_over \cup briefs \subseteq ReviewIds
                     /\ \A t \in tasks \cup left : /\ t.id \in ReviewIds
                                                   /\ t.paths \subseteq Paths \ Generated
                     /\ asked \in 0..Asks /\ died \in 0..AuthorFalls
    BY DEF ReviewTyped
<1> QED BY <1>1, <1>2 DEF ReviewTypeOK

\* Nothing has been planned.
LEMMA NothingPlanned == ReviewInit => ReviewTyped
<1>0. Asks \in Nat /\ AuthorFalls \in Nat
    BY ReviewPlanAssumption
<1>1. 0 \in 0..Asks /\ 0 \in 0..AuthorFalls
    BY <1>0
<1>2. FALSE \in BOOLEAN
    OBVIOUS
<1> QED BY <1>1, <1>2 DEF ReviewInit, ReviewTyped

\* Type correctness of a review's planning: whatever the range and the request, a packet has an
\* id and a scope that some request of the board can give it.
THEOREM ReviewTyping == ReviewSpec => []ReviewTypeOK
<1>1. ReviewInit => ReviewInv /\ ReviewTyped
    BY ReviewBegins, NothingPlanned
<1>2. ReviewInv /\ ReviewTyped /\ [ReviewNext]_planVars => (ReviewInv /\ ReviewTyped)'
    BY ReviewStepKeeps, ReviewTypedNext
<1> QED BY <1>1, <1>2, ReviewTypes, PTL DEF ReviewSpec
=============================================================================
