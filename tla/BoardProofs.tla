----------------------------- MODULE BoardProofs -----------------------------
(***************************************************************************)
(* Proofs about the board runner, for any board, order of files, number of  *)
(* attempts and capacity, with passes that die anywhere.                    *)
(*                                                                         *)
(* A pass decides from the board it read when it began, so every invariant  *)
(* relates the files, the ledger and the threads of now to that snapshot    *)
(* and to how far through it the pass has come.  The theorems name what     *)
(* they need of the operator: that passes do not overlap, that no task is   *)
(* retried under a living pass, and, where it matters, that no attempt is   *)
(* swept under one.                                                         *)
(***************************************************************************)
EXTENDS Board, FiniteSetTheorems, TLAPS

OnePass == \A q, r \in Passes : q = r
-----------------------------------------------------------------------------
(* The inductive invariants *)

FileStates == {"absent", "ready", "dispatched", "blocked", "passed", "landed",
               "review_pending", "accepted"}
FileRow == [state : FileStates,
            reason : {"none", "superseded", "held", "exhausted", "failed", "rejected"},
            from : BoardTasks \cup {NoTask}]
LinkRow == [attempt : AttemptIds \cup {NoAttempt}, review : BoardTasks \cup {NoTask}]
RowStates == ACTIVE \cup {"absent", "completed", "accepted", "failed", "abandoned"}
LedgerRow == [state : RowStates, of : BoardTasks \cup {NoTask}]
PassRow == [pc : {"idle", "loop", "superseding", "waiting", "marked", "starting", "landing"},
            board : [BoardTasks -> FileRow], next : Nat \ {0},
            attempt : AttemptIds \cup {NoAttempt}]
ThreadPcs == {"none", "admitted", "running", "unfinished", "refused", "error", "failover",
              "superseding", "done", "completed", "staging", "linking", "settling",
              "failing", "approved", "rejected", "accepting", "passing"}
ThreadRow == [pc : ThreadPcs, pass : Passes \cup {"none"}]

\* Type correctness of the board.
BoardTypeOK ==
  /\ file \in [BoardTasks -> FileRow]
  /\ link \in [BoardTasks -> LinkRow]
  /\ row \in [AttemptIds -> LedgerRow]
  /\ earlier \in [AttemptIds -> SUBSET AttemptIds]
  /\ pass \in [Passes -> PassRow]
  /\ thread \in [AttemptIds -> ThreadRow]
  /\ crashes \in Nat
  /\ failovers \in [BoardTasks -> Nat]

\* How far a pass has come through the board it read.
Visited(q, t) == \E i \in 1..Len(Order) : i < pass[q].next /\ Order[i] = t
Runs(a) == thread[a].pc # "none"

\* Where the loop stands, and what that says of the task it looks at.
LoopInv(q) ==
  /\ pass[q].pc \in {"superseding", "waiting", "marked", "starting"} =>
       pass[q].next <= Len(Order)
  /\ pass[q].pc \in {"waiting", "marked", "starting"} => Seen(q).state = "ready"
  /\ pass[q].pc = "superseding" => Kind[Task(q)] = "packet" /\ Seen(q).state = "blocked"
  /\ pass[q].pc = "starting" =>
       /\ pass[q].attempt \in AttemptIds /\ ~Runs(pass[q].attempt)
       /\ row[pass[q].attempt].of = Task(q) /\ row[pass[q].attempt].state = "queued"
  /\ pass[q].pc # "idle" =>
       \A t \in BoardTasks : pass[q].board[t].state # "absent" =>
         file[t].state # "absent" /\ file[t].from = pass[q].board[t].from

\* A thread belongs to a task that its pass read as ready and has passed by, alone.
ThreadInv(a) ==
  /\ thread[a].pass \in Passes /\ pass[thread[a].pass].pc \notin {"idle", "landing"}
  /\ Of(a) \in BoardTasks
  /\ Visited(thread[a].pass, Of(a)) /\ pass[thread[a].pass].board[Of(a)].state = "ready"
  /\ \A b \in AttemptIds : Runs(b) /\ Of(b) = Of(a) => b = a
  /\ thread[a].pc \in {"failover", "superseding"} => Kind[Of(a)] = "packet"
  /\ thread[a].pc \in {"staging", "linking", "settling"} => Kind[Of(a)] = "work"
  /\ thread[a].pc \in {"approved", "rejected", "accepting", "passing"} => Kind[Of(a)] = "review"

StructInv ==
  /\ BoardTypeOK
  /\ \A q \in Passes : LoopInv(q)
  /\ \A a \in AttemptIds : Runs(a) => ThreadInv(a)
  /\ \A a \in AttemptIds : ~Runs(a) => thread[a].pass = "none"
  /\ \A a \in AttemptIds : row[a].state = "absent" => row[a].of = NoTask

\* A failover that the snapshot does not show was authored by this pass: from the loop,
\* for a task it read as blocked, or by the one thread of a task it read as ready.
AuthoredHere(q, t) ==
  \/ /\ pass[q].board[t].state = "blocked"
     /\ Visited(q, t) \/ (pass[q].pc = "superseding" /\ t = Task(q))
  \/ /\ pass[q].board[t].state = "ready" /\ Visited(q, t)
     /\ \A a \in AttemptIds : Runs(a) /\ Of(a) = t => thread[a].pc \in {"superseding", "done"}

FailoverInv ==
  /\ \A t \in BoardTasks : file[t].state = "absent" => file[t].from = NoTask /\ failovers[t] = 0
  /\ \A t \in BoardTasks : failovers[t] > 0 => \E s \in BoardTasks : file[s].from = t
  /\ \A q \in Passes : pass[q].pc # "idle" =>
       \A t \in BoardTasks : failovers[t] > 0 =>
         \/ \E s \in BoardTasks : pass[q].board[s].from = t
         \/ AuthoredHere(q, t)
  /\ FailoverOnce

\* The same of a supersession that the snapshot does not show.
ClosedHere(q, t) ==
  /\ Kind[t] = "packet" /\ Visited(q, t)
  /\ \/ pass[q].board[t].state = "blocked"
     \/ /\ pass[q].board[t].state = "ready"
        /\ \A a \in AttemptIds : Runs(a) /\ Of(a) = t => thread[a].pc = "done"

\* A link is one thread's, for the review of its own task or a retry of it.
LinkInv ==
  /\ \A t \in BoardTasks : link[t] # NoLink =>
       /\ Kind[t] = "work" /\ link[t].attempt \in AttemptIds
       /\ \/ link[t].review = ReviewOf[t]
          \/ /\ link[t].review \in BoardTasks \ Range(ReviewOf)
             /\ file[link[t].review].state # "absent"
  /\ \A s, t \in BoardTasks :
       link[s] # NoLink /\ link[t] # NoLink /\ link[s].review = link[t].review => s = t

ClosureInv ==
  /\ LinkInv
  /\ \A q \in Passes : pass[q].pc # "idle" =>
       \A t \in BoardTasks : Superseded(file[t]) =>
         Superseded(pass[q].board[t]) \/ ClosedHere(q, t)
  /\ \A a \in AttemptIds : thread[a].pc = "accepting" =>
       \A t \in Sources(Of(a)) : ~Superseded(file[t])

\* An attempt that is neither failed nor abandoned may be or become the task's result.
Finished(a) == row[a].state \in {"completed", "accepted"}
Open(a) == row[a].state \in ACTIVE \/ Finished(a)
NoneOpen(t) == \A a \in AttemptIds : row[a].of = t => ~Open(a)

\* A packet whose attempt may be swept under its living thread: finish() is refused then, and
\* the thread puts the task back while the attempt is held.
Exposed == {t \in BoardTasks : SweepDuringPass /\ Kind[t] = "packet"}

\* A thread knows how far its attempt came in the ledger.
RowOfThread(a) ==
  /\ thread[a].pc = "refused" => row[a].of \in Exposed
  /\ thread[a].pc = "admitted" => row[a].state = "queued"
  /\ thread[a].pc = "running" => row[a].state = "dispatching" \/ SweepDuringPass
  /\ thread[a].pc \in {"completed", "staging", "linking", "settling", "failing", "approved",
                       "rejected", "accepting", "passing"} => Finished(a)

\* At most one attempt of a task is open, and a finished one is the newest of its task.
LedgerFlight ==
  /\ \A a, b \in AttemptIds :
       Open(a) /\ Open(b) /\ row[a].of = row[b].of /\ row[a].of \notin Exposed => a = b
  /\ \A a, b \in AttemptIds : b \in earlier[a] => a \notin earlier[b]
  /\ \A a \in AttemptIds : Finished(a) /\ row[a].of \notin Exposed =>
       \A b \in AttemptIds \ {a} : row[b].of = row[a].of => b \in earlier[a]

FlightInv ==
  /\ LedgerFlight
  /\ \A a \in AttemptIds : Runs(a) => RowOfThread(a)
  /\ \A t \in BoardTasks \ Exposed : file[t].state \in {"ready", "absent"} => NoneOpen(t)
  /\ \A q \in Passes : pass[q].pc # "idle" =>
       \A t \in BoardTasks \ Exposed :
         /\ pass[q].board[t].state = "ready" /\ ~Visited(q, t)
         /\ ~(pass[q].pc = "starting" /\ t = Task(q))
         => NoneOpen(t)
  /\ \A q \in Passes : pass[q].pc \in {"marked", "starting"} =>
       Task(q) \in Exposed \/ file[Task(q)].state \notin {"ready", "absent"}

\* A link names the one finished attempt of its task.
ResultInv ==
  /\ \A t \in BoardTasks : link[t] # NoLink =>
       /\ row[link[t].attempt].state \in {"completed", "accepted"}
       /\ row[link[t].attempt].of = t
  /\ \A a \in AttemptIds : thread[a].pc \in {"completed", "staging", "linking"} =>
       link[Of(a)].attempt # a
  /\ \A a \in AttemptIds : thread[a].pc = "accepting" =>
       /\ Sources(Of(a)) # {} \/ Of(a) \notin Range(ReviewOf)
       /\ \A t \in Sources(Of(a)) : row[link[t].attempt].state = "accepted"
  /\ AcceptedInLedger
-----------------------------------------------------------------------------
(* The order of the files, and one row at a time *)

LEMMA OrderFacts ==
  /\ Len(Order) \in Nat
  /\ \A i \in 1..Len(Order) : Order[i] \in BoardTasks
  /\ \A i, j \in 1..Len(Order) : Order[i] = Order[j] => i = j
  /\ \A t \in BoardTasks : \E i \in 1..Len(Order) : Order[i] = t
<1>1. Order \in Seq(BoardTasks) /\ DOMAIN Order = 1..Len(Order) /\ Len(Order) \in Nat
  BY OrderAssumption
<1> QED BY <1>1, OrderAssumption DEF Range, IsInjective

\* The task a pass looks at is on the board, and the pass has not passed it by.
LEMMA TaskFacts ==
  ASSUME BoardTypeOK, NEW q \in Passes, pass[q].next <= Len(Order)
  PROVE  Task(q) \in BoardTasks /\ ~Visited(q, Task(q))
<1>1. pass[q].next \in 1..Len(Order)
  BY OrderFacts DEF BoardTypeOK, PassRow
<1> QED BY <1>1, OrderFacts DEF Task, Visited

\* Pass q changes its place in the program, and nothing else of what it decides from.
StepsTo(q, pc) ==
  /\ pass' \in [Passes -> PassRow]
  /\ pass'[q].pc = pc /\ pass'[q].board = pass[q].board /\ pass'[q].next = pass[q].next
  /\ \A r \in Passes \ {q} : pass'[r] = pass[r]

\* Pass q goes on to the next task.
StepsOn(q) ==
  /\ pass' \in [Passes -> PassRow]
  /\ pass'[q].pc = "loop" /\ pass'[q].board = pass[q].board
  /\ \A t \in BoardTasks : Visited(q, t)' <=> Visited(q, t) \/ t = Task(q)
  /\ \A r \in Passes \ {q} : pass'[r] = pass[r]

LEMMA PcSteps ==
  ASSUME BoardTypeOK, NEW q \in Passes,
         NEW pc \in {"idle", "loop", "superseding", "waiting", "marked", "starting", "landing"},
         NEW x \in AttemptIds \cup {NoAttempt},
         \/ pass' = [pass EXCEPT ![q].pc = pc]
         \/ pass' = [pass EXCEPT ![q].pc = pc, ![q].attempt = x] /\ pass'[q].attempt = x
  PROVE  StepsTo(q, pc)
<1>1. pass \in [Passes -> PassRow] /\ pass[q] \in PassRow
  BY DEF BoardTypeOK
<1>2. PICK r \in PassRow : /\ r.pc = pc /\ r.board = pass[q].board /\ r.next = pass[q].next
                           /\ pass' = [pass EXCEPT ![q] = r]
  <2>1. CASE pass' = [pass EXCEPT ![q].pc = pc]
    <3> DEFINE r == [pass[q] EXCEPT !.pc = pc]
    <3>1. pass' = [pass EXCEPT ![q] = r]
      BY <1>1, <2>1
    <3>2. r \in PassRow /\ r.pc = pc /\ r.board = pass[q].board /\ r.next = pass[q].next
      BY <1>1 DEF PassRow
    <3> HIDE DEF r
    <3> QED BY <3>1, <3>2
  <2>2. CASE pass' = [pass EXCEPT ![q].pc = pc, ![q].attempt = x]
    <3> DEFINE r == [pass[q] EXCEPT !.pc = pc, !.attempt = x]
    <3>1. pass' = [pass EXCEPT ![q] = r]
      BY <1>1, <2>2
    <3>2. r \in PassRow /\ r.pc = pc /\ r.board = pass[q].board /\ r.next = pass[q].next
      BY <1>1 DEF PassRow
    <3> HIDE DEF r
    <3> QED BY <3>1, <3>2
  <2> QED BY <2>1, <2>2
<1> QED BY <1>1, <1>2 DEF StepsTo

LEMMA OnwardSteps ==
  ASSUME BoardTypeOK, NEW q \in Passes, pass[q].next <= Len(Order), Onward(q)
  PROVE  StepsOn(q)
<1>1. pass \in [Passes -> PassRow] /\ pass[q] \in PassRow
  BY DEF BoardTypeOK
<1>n. PICK n \in Nat \ {0} : n = pass[q].next + 1
  BY <1>1 DEF PassRow
<1> DEFINE r == [pass[q] EXCEPT !.pc = "loop", !.next = n, !.attempt = NoAttempt]
<1>2. pass' = [pass EXCEPT ![q] = r]
  BY <1>1, <1>n DEF Onward
<1>3. r \in PassRow /\ r.pc = "loop" /\ r.board = pass[q].board /\ r.next = n
  BY <1>1 DEF PassRow
<1> HIDE DEF r
<1>4. pass'[q] = r /\ \A p \in Passes \ {q} : pass'[p] = pass[p]
  BY <1>1, <1>2
<1>5. pass' \in [Passes -> PassRow]
  BY <1>1, <1>2, <1>3
<1>6. pass[q].next \in 1..Len(Order)
  BY <1>1, OrderFacts DEF PassRow
<1>7. pass'[q].next = pass[q].next + 1
  BY <1>3, <1>4, <1>n
<1>8. ASSUME NEW t \in BoardTasks
      PROVE  Visited(q, t)' <=> Visited(q, t) \/ t = Task(q)
  <2>1. \A i \in 1..Len(Order) : i < pass[q].next + 1 <=> i < pass[q].next \/ i = pass[q].next
    BY <1>6, OrderFacts
  <2> QED BY <1>6, <1>7, <2>1 DEF Visited, Task
<1> QED BY <1>3, <1>4, <1>5, <1>8 DEF StepsOn

\* One thread moves on.
LEMMA GotoSteps ==
  ASSUME BoardTypeOK, NEW a \in AttemptIds, NEW pc \in ThreadPcs, Goto(a, pc)
  PROVE  /\ thread' \in [AttemptIds -> ThreadRow]
         /\ thread'[a].pc = pc /\ thread'[a].pass = thread[a].pass
         /\ \A b \in AttemptIds \ {a} : thread'[b] = thread[b]
<1>1. thread \in [AttemptIds -> ThreadRow] /\ thread[a] \in ThreadRow
  BY DEF BoardTypeOK
<1> DEFINE r == [thread[a] EXCEPT !.pc = pc]
<1>2. thread' = [thread EXCEPT ![a] = r]
  BY <1>1 DEF Goto
<1>3. r \in ThreadRow /\ r.pc = pc /\ r.pass = thread[a].pass
  BY <1>1 DEF ThreadRow
<1> HIDE DEF r
<1> QED BY <1>1, <1>2, <1>3

\* One task file is saved with a new state and reason.
LEMMA SaveSteps ==
  ASSUME BoardTypeOK, NEW t \in BoardTasks, NEW s \in FileStates,
         NEW x \in {"none", "superseded", "held", "exhausted", "failed", "rejected"},
         Save(t, s, x)
  PROVE  /\ file' \in [BoardTasks -> FileRow]
         /\ file'[t].state = s /\ file'[t].reason = x /\ file'[t].from = file[t].from
         /\ \A u \in BoardTasks \ {t} : file'[u] = file[u]
<1>1. file \in [BoardTasks -> FileRow] /\ file[t] \in FileRow
  BY DEF BoardTypeOK
<1> DEFINE r == [file[t] EXCEPT !.state = s, !.reason = x]
<1>2. file' = [file EXCEPT ![t] = r]
  BY <1>1 DEF Save
<1>3. r \in FileRow /\ r.state = s /\ r.reason = x /\ r.from = file[t].from
  BY <1>1 DEF FileRow
<1> HIDE DEF r
<1> QED BY <1>1, <1>2, <1>3

\* One attempt changes state in the ledger.
LEMMA RowSteps ==
  ASSUME BoardTypeOK, NEW a \in AttemptIds, NEW s \in RowStates,
         row' = [row EXCEPT ![a].state = s]
  PROVE  /\ row' \in [AttemptIds -> LedgerRow]
         /\ row'[a].state = s /\ \A b \in AttemptIds : row'[b].of = row[b].of
         /\ \A b \in AttemptIds \ {a} : row'[b] = row[b]
<1>1. row \in [AttemptIds -> LedgerRow] /\ row[a] \in LedgerRow
  BY DEF BoardTypeOK
<1> DEFINE r == [row[a] EXCEPT !.state = s]
<1>2. row' = [row EXCEPT ![a] = r]
  BY <1>1
<1>3. r \in LedgerRow /\ r.state = s /\ r.of = row[a].of
  BY <1>1 DEF LedgerRow
<1> HIDE DEF r
<1> QED BY <1>1, <1>2, <1>3

LEMMA LatestTyped ==
  ASSUME BoardTypeOK, NEW a \in AttemptIds, Latest(a)
  PROVE  earlier' \in [AttemptIds -> SUBSET AttemptIds]
BY DEF BoardTypeOK, Latest
-----------------------------------------------------------------------------
(* What no step does to files and rows *)

\* A file never disappears, and it keeps the task it fails over from.
FilesKept ==
  /\ file' \in [BoardTasks -> FileRow]
  /\ \A t \in BoardTasks :
       /\ file[t].state # "absent" =>
            file'[t].state # "absent" /\ file'[t].from = file[t].from
       /\ file'[t].state = "absent" => file'[t] = file[t]

\* An attempt never disappears, and it keeps its task; the pass admits the new ones.
RowsKept ==
  /\ row' \in [AttemptIds -> LedgerRow]
  /\ \A a \in AttemptIds : row'[a].of = row[a].of
  /\ \A a \in AttemptIds : row[a].state = "absent" <=> row'[a].state = "absent"

OthersTyped ==
  /\ link' \in [BoardTasks -> LinkRow]
  /\ earlier' \in [AttemptIds -> SUBSET AttemptIds]
  /\ crashes' \in Nat
  /\ failovers' \in [BoardTasks -> Nat]

Kept == FilesKept /\ RowsKept /\ OthersTyped

LEMMA SaveKeeps ==
  ASSUME BoardTypeOK, NEW t \in BoardTasks, NEW s \in FileStates \ {"absent"},
         NEW x \in {"none", "superseded", "held", "exhausted", "failed", "rejected"},
         Save(t, s, x)
  PROVE  FilesKept
BY SaveSteps DEF FilesKept, FileStates

LEMMA SameFiles == ASSUME BoardTypeOK, file' = file PROVE FilesKept
BY DEF BoardTypeOK, FilesKept

LEMMA SameRows ==
  ASSUME BoardTypeOK, row' = row
  PROVE  RowsKept
BY DEF BoardTypeOK, RowsKept

LEMMA RowKeeps ==
  ASSUME BoardTypeOK, NEW a \in AttemptIds, NEW s \in RowStates \ {"absent"},
         row[a].state # "absent", row' = [row EXCEPT ![a].state = s]
  PROVE  RowsKept
BY RowSteps DEF RowsKept, RowStates

LEMMA SameOthers ==
  ASSUME BoardTypeOK, UNCHANGED <<link, earlier, failovers>>, crashes' \in Nat
  PROVE  OthersTyped
BY DEF BoardTypeOK, OthersTyped

LEMMA FreshTyped ==
  /\ Fresh \in FileRow /\ Fresh.state = "ready" /\ Fresh.reason = "none" /\ Fresh.from = NoTask
  /\ Absent \in FileRow /\ Absent.state = "absent" /\ Absent.from = NoTask
  /\ \A t \in BoardTasks \cup {NoTask} :
       /\ [Fresh EXCEPT !.from = t] \in FileRow
       /\ [Fresh EXCEPT !.from = t].state = "ready"
       /\ [Fresh EXCEPT !.from = t].reason = "none"
       /\ [Fresh EXCEPT !.from = t].from = t
BY DEF Fresh, Absent, FileRow, FileStates

LEMMA SuccessorKeeps ==
  ASSUME BoardTypeOK, NEW t \in BoardTasks, NEW s \in BoardTasks, WriteSuccessor(t, s)
  PROVE  /\ FilesKept
         /\ file[s].state = "absent" /\ file'[s].state = "ready" /\ file'[s].from = t
         /\ \A u \in BoardTasks \ {s} : file'[u] = file[u]
         /\ failovers' = [failovers EXCEPT ![t] = failovers[t] + 1]
         /\ failovers' \in [BoardTasks -> Nat] /\ link' = link
<1>1. /\ file' = [file EXCEPT ![s] = [Fresh EXCEPT !.from = t]]
      /\ file[s].state = "absent" /\ file \in [BoardTasks -> FileRow]
  BY DEF WriteSuccessor, BoardTypeOK
<1>2. FilesKept /\ file'[s].state = "ready" /\ file'[s].from = t
      /\ \A u \in BoardTasks \ {s} : file'[u] = file[u]
  BY <1>1, FreshTyped DEF FilesKept
<1>3. failovers' \in [BoardTasks -> Nat]
  BY DEF WriteSuccessor, BoardTypeOK
<1> QED BY <1>1, <1>2, <1>3 DEF WriteSuccessor

\* The review a thread creates takes the place of no file.
LEMMA ReviewKeeps ==
  ASSUME BoardTypeOK, NEW a \in AttemptIds, CreateReview(a), Of(a) \in BoardTasks,
         Kind[Of(a)] = "work"
  PROVE  /\ FilesKept
         /\ \A u \in BoardTasks : \/ file'[u] = file[u]
                                  \/ /\ u = ReviewOf[Of(a)] /\ file[u].state = "absent"
                                     /\ file'[u] = Fresh
<1>1. ReviewOf[Of(a)] \in BoardTasks
  BY ReviewAssumption
<1>2. \/ file' = file
      \/ /\ file[ReviewOf[Of(a)]].state = "absent"
         /\ file' = [file EXCEPT ![ReviewOf[Of(a)]] = Fresh]
  BY DEF CreateReview
<1>3. file \in [BoardTasks -> FileRow]
  BY DEF BoardTypeOK
<1> QED BY <1>1, <1>2, <1>3, FreshTyped DEF FilesKept

LEMMA RetryKeeps ==
  ASSUME BoardTypeOK, NEW t \in BoardTasks, NEW s \in BoardTasks, Retry(t, s)
  PROVE  /\ FilesKept
         /\ s # t /\ file[s].state = "absent" /\ file'[s].state = "ready"
         /\ file'[s].from = file[t].from
         /\ file[t].state # "absent" /\ Superseded(file'[t]) /\ file'[t].from = file[t].from
         /\ \A u \in BoardTasks \ {s, t} : file'[u] = file[u]
<1>1. file \in [BoardTasks -> FileRow] /\ file[t] \in FileRow
  BY DEF BoardTypeOK
<1>2. s # t /\ file[s].state = "absent" /\ file[t].state # "absent"
  BY DEF Retry, NextRetryId
<1> DEFINE new == [Fresh EXCEPT !.from = file[t].from]
           old == [file[t] EXCEPT !.state = "blocked", !.reason = "superseded"]
<1>3. file' = [[file EXCEPT ![s] = new] EXCEPT ![t] = old]
  BY <1>1, <1>2 DEF Retry
<1>4. new \in FileRow /\ new.state = "ready" /\ new.from = file[t].from
  BY <1>1, FreshTyped DEF FileRow
<1>5. /\ old \in FileRow /\ old.state = "blocked" /\ old.reason = "superseded"
      /\ old.from = file[t].from
  BY <1>1 DEF FileRow, FileStates
<1> HIDE DEF new, old
<1>6. file'[s] = new /\ file'[t] = old /\ \A u \in BoardTasks \ {s, t} : file'[u] = file[u]
  BY <1>1, <1>2, <1>3
<1>7. file' \in [BoardTasks -> FileRow]
  BY <1>1, <1>3, <1>4, <1>5
<1> QED BY <1>2, <1>4, <1>5, <1>6, <1>7 DEF FilesKept, Superseded
-----------------------------------------------------------------------------
(* How passes and threads move *)

\* What a step does to a pass that lives on, and to the threads.
Progress ==
  /\ \A q \in Passes : pass[q].pc # "idle" /\ pass'[q].pc # "idle" =>
       /\ pass'[q].board = pass[q].board
       /\ \A t \in BoardTasks : Visited(q, t) => Visited(q, t)'
       /\ \A t \in BoardTasks : Visited(q, t)' =>
            \/ Visited(q, t)
            \/ t = Task(q) /\ pass[q].next <= Len(Order)
       /\ pass[q].pc = "superseding" =>
            \A t \in BoardTasks : t = Task(q) =>
              (pass'[q].pc = "superseding" /\ Task(q)' = t) \/ Visited(q, t)'
  /\ \A q \in Passes : pass[q].pc = "idle" /\ pass'[q].pc # "idle" =>
       pass'[q].board = file /\ file' = file /\ failovers' = failovers
  /\ \A a \in AttemptIds : Runs(a)' =>
       \/ /\ Runs(a) /\ Of(a)' = Of(a)
          /\ thread[a].pc \in {"superseding", "done"} => thread'[a].pc \in {"superseding", "done"}
          /\ thread[a].pc = "done" => thread'[a].pc = "done"
       \/ /\ ~Runs(a) /\ thread'[a].pc \in {"admitted", "running", "unfinished"}
          /\ \E q \in Passes : /\ Of(a)' = Task(q) /\ pass[q].pc # "idle"
                               /\ pass[q].next <= Len(Order)

\* The loop goes on to the next task.
LEMMA LoopOn ==
  ASSUME StructInv, OnePass, BoardTypeOK', Kept, thread' = thread,
         NEW q \in Passes, pass[q].pc \in {"loop", "superseding", "marked"},
         pass[q].next <= Len(Order), StepsOn(q)
  PROVE  StructInv' /\ Progress
<1>1. \A r \in Passes : r = q
  BY DEF OnePass
<1>2. LoopInv(q)'
  BY DEF StructInv, LoopInv, StepsOn, Kept, FilesKept
<1>3. ASSUME NEW a \in AttemptIds, Runs(a)'
      PROVE  ThreadInv(a)'
  <2>1. Runs(a) /\ ThreadInv(a)
    BY <1>3 DEF StructInv, Runs
  <2>2. thread[a].pass = q
    BY <1>1, <2>1 DEF ThreadInv
  <2>3. \A b \in AttemptIds : Of(b)' = Of(b) /\ (Runs(b)' <=> Runs(b))
    BY DEF Kept, RowsKept, Of, Runs
  <2>4. Visited(q, Of(a))'
    BY <2>1, <2>2, <2>3 DEF ThreadInv, StepsOn
  <2> QED BY <2>1, <2>2, <2>3, <2>4 DEF ThreadInv, StepsOn
<1>4. \A a \in AttemptIds : row'[a].state = "absent" => row'[a].of = NoTask
  BY DEF StructInv, Kept, RowsKept
<1>5. StructInv'
  BY <1>1, <1>2, <1>3, <1>4 DEF StructInv, Runs
<1>6. Progress
  <2>2. \A t \in BoardTasks : t = Task(q) => Visited(q, t)'
    BY DEF StepsOn
  <2>3. \A a \in AttemptIds :
          thread'[a] = thread[a] /\ (Runs(a)' <=> Runs(a)) /\ Of(a)' = Of(a)
    BY DEF Runs, Kept, RowsKept, Of
  <2>4. /\ pass'[q].board = pass[q].board
        /\ \A t \in BoardTasks : Visited(q, t) => Visited(q, t)'
        /\ \A t \in BoardTasks : Visited(q, t)' =>
             Visited(q, t) \/ (t = Task(q) /\ pass[q].next <= Len(Order))
    BY DEF StepsOn
  <2> QED BY <1>1, <2>2, <2>3, <2>4 DEF Progress
<1> QED BY <1>5, <1>6

\* The loop turns to another place for the same task.
LEMMA LoopAt ==
  ASSUME StructInv, OnePass, BoardTypeOK', Kept, thread' = thread,
         NEW q \in Passes, pass[q].pc \in {"loop", "waiting"},
         pass[q].next <= Len(Order),
         NEW pc \in {"loop", "superseding", "waiting", "marked"}, StepsTo(q, pc),
         pc \in {"waiting", "marked"} => Seen(q).state = "ready",
         pc = "superseding" => Kind[Task(q)] = "packet" /\ Seen(q).state = "blocked"
  PROVE  StructInv' /\ Progress
<1>1. \A r \in Passes : r = q
  BY DEF OnePass
<1>2. Task(q)' = Task(q) /\ Seen(q)' = Seen(q)
      /\ \A t \in BoardTasks : Visited(q, t)' <=> Visited(q, t)
  BY DEF StepsTo, Task, Seen, Visited
<1>3. LoopInv(q)'
  BY <1>2 DEF StructInv, LoopInv, StepsTo, Kept, FilesKept
<1>4. ASSUME NEW a \in AttemptIds, Runs(a)'
      PROVE  ThreadInv(a)'
  <2>1. Runs(a) /\ ThreadInv(a)
    BY <1>4 DEF StructInv, Runs
  <2>2. thread[a].pass = q
    BY <1>1, <2>1 DEF ThreadInv
  <2>3. \A b \in AttemptIds : Of(b)' = Of(b) /\ (Runs(b)' <=> Runs(b))
    BY DEF Kept, RowsKept, Of, Runs
  <2>4. Visited(q, Of(a))'
    BY <1>2, <2>1, <2>2, <2>3 DEF ThreadInv
  <2> QED BY <2>1, <2>2, <2>3, <2>4 DEF ThreadInv, StepsTo
<1>5. \A a \in AttemptIds : row'[a].state = "absent" => row'[a].of = NoTask
  BY DEF StructInv, Kept, RowsKept
<1>6. StructInv'
  BY <1>1, <1>3, <1>4, <1>5 DEF StructInv, Runs
<1>7. Progress
  <2>1. \A a \in AttemptIds : Of(a)' = Of(a)
    BY DEF Kept, RowsKept, Of
  <2> QED BY <1>1, <1>2, <2>1 DEF Progress, StepsTo, Runs
<1> QED BY <1>6, <1>7

\* No pass and no thread moves.
LEMMA StandStill ==
  ASSUME StructInv, OnePass, BoardTypeOK', Kept, thread' = thread, pass' = pass,
         \A q \in Passes : pass[q].pc = "starting" => row'[pass[q].attempt] = row[pass[q].attempt]
  PROVE  StructInv' /\ Progress
<1>1. \A q \in Passes : Task(q)' = Task(q) /\ Seen(q)' = Seen(q)
      /\ \A t \in BoardTasks : Visited(q, t)' <=> Visited(q, t)
  BY DEF Task, Seen, Visited
<1>2. ASSUME NEW q \in Passes
      PROVE  LoopInv(q)'
  <2>1. LoopInv(q)
    BY DEF StructInv
  <2>2. \A a \in AttemptIds : Runs(a)' <=> Runs(a)
    BY DEF Runs
  <2> QED BY <1>1, <2>1, <2>2 DEF LoopInv, Kept, FilesKept
<1>3. ASSUME NEW a \in AttemptIds, Runs(a)'
      PROVE  ThreadInv(a)'
  <2>1. Runs(a) /\ ThreadInv(a)
    BY <1>3 DEF StructInv, Runs
  <2>2. \A b \in AttemptIds : Of(b)' = Of(b) /\ (Runs(b)' <=> Runs(b))
    BY DEF Kept, RowsKept, Of, Runs
  <2> QED BY <1>1, <2>1, <2>2 DEF ThreadInv
<1>4. \A a \in AttemptIds : row'[a].state = "absent" => row'[a].of = NoTask
  BY DEF StructInv, Kept, RowsKept
<1>5. StructInv'
  BY <1>2, <1>3, <1>4 DEF StructInv, Runs
<1>6. Progress
  <2>1. \A a \in AttemptIds : Of(a)' = Of(a)
    BY DEF Kept, RowsKept, Of
  <2> QED BY <1>1, <2>1 DEF Progress, Runs
<1> QED BY <1>5, <1>6

\* One thread moves.
LEMMA ThreadMoves ==
  ASSUME StructInv, OnePass, BoardTypeOK', Kept, pass' = pass,
         NEW a \in AttemptIds, Runs(a), NEW pc \in ThreadPcs \ {"none"}, Goto(a, pc),
         \A q \in Passes : pass[q].pc = "starting" =>
           row'[pass[q].attempt] = row[pass[q].attempt],
         thread[a].pc \in {"superseding", "done"} => pc = "done",
         pc \in {"failover", "superseding"} => Kind[Of(a)] = "packet",
         pc \in {"staging", "linking", "settling"} => Kind[Of(a)] = "work",
         pc \in {"approved", "rejected", "accepting", "passing"} => Kind[Of(a)] = "review"
  PROVE  StructInv' /\ Progress
<1>1. \A q \in Passes : Task(q)' = Task(q) /\ Seen(q)' = Seen(q)
      /\ \A t \in BoardTasks : Visited(q, t)' <=> Visited(q, t)
  BY DEF Task, Seen, Visited
<1>2. /\ thread'[a].pc = pc /\ thread'[a].pass = thread[a].pass
      /\ \A b \in AttemptIds \ {a} : thread'[b] = thread[b]
  BY GotoSteps DEF StructInv
<1>3. \A b \in AttemptIds : Of(b)' = Of(b) /\ (Runs(b)' <=> Runs(b))
  BY <1>2 DEF Kept, RowsKept, Of, Runs
<1>4. ASSUME NEW q \in Passes
      PROVE  LoopInv(q)'
  <2>1. LoopInv(q)
    BY DEF StructInv
  <2> QED BY <1>1, <1>3, <2>1 DEF LoopInv, Kept, FilesKept
<1>5. ASSUME NEW b \in AttemptIds, Runs(b)'
      PROVE  ThreadInv(b)'
  <2>1. Runs(b) /\ ThreadInv(b)
    BY <1>3, <1>5 DEF StructInv
  <2>2. thread'[b].pass = thread[b].pass
    BY <1>2
  <2>3. \A x \in AttemptIds : Runs(x)' /\ Of(x)' = Of(b)' => x = b
    BY <1>3, <2>1 DEF ThreadInv
  <2>4. /\ thread'[b].pc \in {"failover", "superseding"} => Kind[Of(b)]' = "packet"
        /\ thread'[b].pc \in {"staging", "linking", "settling"} => Kind[Of(b)]' = "work"
        /\ thread'[b].pc \in {"approved", "rejected", "accepting", "passing"} =>
             Kind[Of(b)]' = "review"
    <3>1. CASE b = a
      BY <1>2, <1>3, <3>1
    <3>2. CASE b # a
      BY <1>2, <1>3, <2>1, <3>2 DEF ThreadInv
    <3> QED BY <3>1, <3>2
  <2>5. /\ thread'[b].pass \in Passes /\ pass'[thread'[b].pass].pc \notin {"idle", "landing"}
        /\ Of(b)' \in BoardTasks
        /\ Visited(thread[b].pass, Of(b))'
        /\ pass'[thread'[b].pass].board[Of(b)'].state = "ready"
    BY <1>1, <1>3, <2>1, <2>2 DEF ThreadInv
  <2> QED BY <2>3, <2>4, <2>5 DEF ThreadInv
<1>6. \A b \in AttemptIds : row'[b].state = "absent" => row'[b].of = NoTask
  BY DEF StructInv, Kept, RowsKept
<1>7. \A b \in AttemptIds : ~Runs(b)' => thread'[b].pass = "none"
  BY <1>2, <1>3 DEF StructInv
<1>8. StructInv'
  BY <1>4, <1>5, <1>6, <1>7 DEF StructInv
<1>9. Progress
  BY <1>1, <1>2, <1>3 DEF Progress, Runs
<1> QED BY <1>8, <1>9

\* No thread is left.
LEMMA ThreadsGone ==
  ASSUME StructInv, OnePass, BoardTypeOK', Kept, NEW q \in Passes, pass[q].pc # "idle",
         pass'[q].pc \in {"idle", "landing"},
         pass'[q].pc = "landing" => StepsTo(q, "landing"),
         pass[q].pc # "superseding" \/ pass'[q].pc = "idle",
         \A a \in AttemptIds : ~Runs(a)' /\ thread'[a].pass = "none"
  PROVE  StructInv' /\ Progress
<1>1. \A r \in Passes : r = q
  BY DEF OnePass
<1>2. pass'[q].pc = "landing" =>
        \A t \in BoardTasks : Visited(q, t)' <=> Visited(q, t)
  BY DEF StepsTo, Visited
<1>3. LoopInv(q)'
  <2>1. LoopInv(q)
    BY DEF StructInv
  <2> QED BY <2>1 DEF LoopInv, StepsTo, Kept, FilesKept
<1>4. \A b \in AttemptIds : row'[b].state = "absent" => row'[b].of = NoTask
  BY DEF StructInv, Kept, RowsKept
<1>5. StructInv'
  BY <1>1, <1>3, <1>4 DEF StructInv
<1>6. Progress
  BY <1>1, <1>2 DEF Progress, StepsTo
<1> QED BY <1>5, <1>6

\* A pass begins: it reads the board, and no thread of an earlier one is left.
LEMMA PassBegins ==
  ASSUME StructInv, OnePass, BoardTypeOK', Kept, thread' = thread, file' = file,
         failovers' = failovers, NEW q \in Passes, pass[q].pc = "idle",
         pass'[q].pc = "loop", pass'[q].board = file
  PROVE  StructInv' /\ Progress
<1>1. \A r \in Passes : r = q
  BY DEF OnePass
<1>2. \A a \in AttemptIds : ~Runs(a)
  BY <1>1 DEF StructInv, ThreadInv
<1>3. LoopInv(q)'
  BY DEF LoopInv
<1>4. \A b \in AttemptIds : row'[b].state = "absent" => row'[b].of = NoTask
  BY DEF StructInv, Kept, RowsKept
<1>5. StructInv'
  BY <1>1, <1>2, <1>3, <1>4 DEF StructInv, Runs
<1>6. Progress
  BY <1>1, <1>2 DEF Progress, Runs
<1> QED BY <1>5, <1>6

\* The row of a newly admitted attempt, and nothing else in the ledger.
AdmitsRow(q, a) ==
  /\ a \in AttemptIds /\ row[a].state = "absent"
  /\ row'[a].state = "queued" /\ row'[a].of = Task(q)
  /\ \A b \in AttemptIds \ {a} : row'[b] = row[b]

LEMMA PacketAdmitted ==
  ASSUME StructInv, OnePass, BoardTypeOK', FilesKept, thread' = thread,
         NEW q \in Passes, pass[q].pc = "marked",
         NEW a \in AttemptIds, AdmitsRow(q, a), StepsTo(q, "starting"), pass'[q].attempt = a
  PROVE  StructInv' /\ Progress
<1>0. \A r \in Passes : r = q
  BY DEF OnePass
<1>1. LoopInv(q) /\ pass[q].next <= Len(Order) /\ Seen(q).state = "ready"
  BY DEF StructInv, LoopInv
<1>2. Task(q)' = Task(q) /\ Seen(q)' = Seen(q)
      /\ \A t \in BoardTasks : Visited(q, t)' <=> Visited(q, t)
  BY DEF StepsTo, Task, Seen, Visited
<1>3. ~Runs(a) /\ Task(q) \in BoardTasks /\ ~Visited(q, Task(q))
  <2>1. row[a].of = NoTask
    BY DEF AdmitsRow, StructInv
  <2> QED BY <1>1, <2>1, TaskFacts, SentinelAssumption DEF StructInv, ThreadInv, Of
<1>4. LoopInv(q)'
  <2>1. ~Runs(a)'
    BY <1>3 DEF Runs
  <2> QED BY <1>1, <1>2, <2>1 DEF LoopInv, StepsTo, FilesKept, AdmitsRow
<1>5. ASSUME NEW b \in AttemptIds, Runs(b)'
      PROVE  ThreadInv(b)'
  <2>1. Runs(b) /\ ThreadInv(b) /\ b # a
    BY <1>3, <1>5 DEF StructInv, Runs
  <2>2. thread[b].pass = q
    BY <1>0, <2>1 DEF ThreadInv
  <2>3. \A c \in AttemptIds : Runs(c)' => Runs(c) /\ Of(c)' = Of(c)
    BY <1>3 DEF AdmitsRow, Of, Runs
  <2>4. Of(b)' = Of(b) /\ Visited(q, Of(b))'
    BY <1>2, <1>5, <2>1, <2>2, <2>3 DEF ThreadInv
  <2> QED BY <2>1, <2>2, <2>3, <2>4 DEF ThreadInv, StepsTo
<1>6. \A b \in AttemptIds : row'[b].state = "absent" => row'[b].of = NoTask
  BY DEF StructInv, AdmitsRow
<1>7. StructInv'
  BY <1>0, <1>4, <1>5, <1>6 DEF StructInv, Runs
<1>8. Progress
  <2>1. \A b \in AttemptIds : Runs(b)' => Runs(b) /\ Of(b)' = Of(b)
    BY <1>3 DEF AdmitsRow, Of, Runs
  <2> QED BY <1>0, <1>1, <1>2, <2>1 DEF Progress, StepsTo
<1> QED BY <1>7, <1>8

\* A thread is born, for the task the loop goes on from.
LEMMA ThreadBorn ==
  ASSUME StructInv, OnePass, BoardTypeOK', FilesKept,
         NEW q \in Passes, pass[q].pc \in {"marked", "starting"}, StepsOn(q),
         NEW a \in AttemptIds, ~Runs(a), row'[a].of = Task(q), row'[a].state # "absent",
         \A b \in AttemptIds \ {a} : row'[b] = row[b],
         thread'[a].pass = q, thread'[a].pc \in {"admitted", "running", "unfinished"},
         \A b \in AttemptIds \ {a} : thread'[b] = thread[b]
  PROVE  StructInv' /\ Progress
<1>0. \A r \in Passes : r = q
  BY DEF OnePass
<1>1. LoopInv(q) /\ pass[q].next <= Len(Order) /\ Seen(q).state = "ready"
  BY DEF StructInv, LoopInv
<1>2. Task(q) \in BoardTasks /\ ~Visited(q, Task(q))
  BY <1>1, TaskFacts DEF StructInv
<1>3. LoopInv(q)'
  BY <1>1 DEF LoopInv, StepsOn, FilesKept
<1>4. \A b \in AttemptIds \ {a} : Of(b)' = Of(b) /\ (Runs(b)' <=> Runs(b))
  BY DEF Of, Runs
<1>5. ASSUME NEW b \in AttemptIds, Runs(b), b # a
      PROVE  ThreadInv(b) /\ thread[b].pass = q /\ Of(b) # Task(q)
  <2>1. ThreadInv(b)
    BY <1>5 DEF StructInv
  <2>2. thread[b].pass = q
    BY <1>0, <2>1 DEF ThreadInv
  <2> QED BY <1>2, <2>1, <2>2 DEF ThreadInv
<1>6. ThreadInv(a)'
  <2>1. Of(a)' = Task(q) /\ Visited(q, Of(a))'
    BY <1>2 DEF Of, StepsOn
  <2>2. \A b \in AttemptIds : Runs(b)' /\ Of(b)' = Of(a)' => b = a
    BY <1>4, <1>5, <2>1
  <2>3. pass'[q].board[Task(q)].state = "ready"
    BY <1>1 DEF Seen, StepsOn
  <2> QED BY <1>2, <2>1, <2>2, <2>3 DEF ThreadInv, StepsOn
<1>7. ASSUME NEW b \in AttemptIds, Runs(b)', b # a
      PROVE  ThreadInv(b)'
  <2>1. Runs(b) /\ ThreadInv(b) /\ thread[b].pass = q /\ Of(b) # Task(q) /\ Of(b)' = Of(b)
    BY <1>4, <1>5, <1>7
  <2>2. \A c \in AttemptIds : Runs(c)' /\ Of(c)' = Of(b)' => c = b
    BY <1>4, <2>1 DEF ThreadInv, Of
  <2>3. Visited(q, Of(b))'
    BY <2>1 DEF ThreadInv, StepsOn
  <2>4. thread'[b] = thread[b] /\ pass'[q].pc = "loop" /\ pass'[q].board = pass[q].board
    BY <1>7 DEF StepsOn
  <2> QED BY <2>1, <2>2, <2>3, <2>4 DEF ThreadInv
<1>8. \A b \in AttemptIds : row'[b].state = "absent" => row'[b].of = NoTask
  BY DEF StructInv
<1>9. StructInv'
  BY <1>0, <1>3, <1>6, <1>7, <1>8 DEF StructInv, Runs
<1>10. Progress
  <2>1. /\ pass[q].pc # "superseding" /\ pass[q].pc # "idle"
        /\ pass'[q].board = pass[q].board
        /\ \A t \in BoardTasks : Visited(q, t) => Visited(q, t)'
        /\ \A t \in BoardTasks : Visited(q, t)' => Visited(q, t) \/ t = Task(q)
    BY DEF StepsOn
  <2>2. \A b \in AttemptIds \ {a} :
          thread'[b] = thread[b] /\ (Runs(b)' <=> Runs(b)) /\ Of(b)' = Of(b)
    BY <1>4
  <2>3. Of(a)' = Task(q)
    BY DEF Of
  <2> QED BY <1>0, <1>1, <2>1, <2>2, <2>3 DEF Progress
<1> QED BY <1>9, <1>10
-----------------------------------------------------------------------------
(* Every step keeps the structure *)

LEMMA TypesTogether ==
  ASSUME Kept, pass' \in [Passes -> PassRow], thread' \in [AttemptIds -> ThreadRow]
  PROVE  BoardTypeOK'
BY DEF Kept, FilesKept, RowsKept, OthersTyped, BoardTypeOK

\* What every thread step of attempt a may use.
LEMMA ThreadFacts ==
  ASSUME StructInv, NEW a \in AttemptIds, thread[a].pc # "none"
  PROVE  /\ Runs(a) /\ ThreadInv(a) /\ Of(a) \in BoardTasks /\ row[a].state # "absent"
         /\ thread[a].pass \in Passes
<1>1. Runs(a) /\ ThreadInv(a)
  BY DEF StructInv, Runs
<1>2. row[a].state # "absent"
  BY <1>1, SentinelAssumption DEF StructInv, ThreadInv, Of
<1> QED BY <1>1, <1>2 DEF ThreadInv

\* A thread step that keeps files and rows moves along.
LEMMA ThreadStruct ==
  ASSUME StructInv, OnePass, Kept, pass' = pass,
         NEW a \in AttemptIds, thread[a].pc # "none",
         NEW pc \in ThreadPcs \ {"none"}, Goto(a, pc),
         \A q \in Passes : pass[q].pc = "starting" =>
           row'[pass[q].attempt] = row[pass[q].attempt],
         thread[a].pc \in {"superseding", "done"} => pc = "done",
         pc \in {"failover", "superseding"} => Kind[Of(a)] = "packet",
         pc \in {"staging", "linking", "settling"} => Kind[Of(a)] = "work",
         pc \in {"approved", "rejected", "accepting", "passing"} => Kind[Of(a)] = "review"
  PROVE  StructInv' /\ Progress
<1>1. BoardTypeOK /\ pass' \in [Passes -> PassRow]
  BY DEF StructInv, BoardTypeOK
<1>2. thread' \in [AttemptIds -> ThreadRow]
  BY <1>1, GotoSteps
<1>3. BoardTypeOK' /\ Runs(a)
  BY <1>1, <1>2, TypesTogether DEF Runs
<1> QED BY <1>3, ThreadMoves

\* It writes its task's file and nothing else.
LEMMA SettlingStruct ==
  ASSUME StructInv, OnePass, OwnWrite, NEW a \in AttemptIds, thread[a].pc # "none",
         NEW t \in BoardTasks, NEW s \in FileStates \ {"absent"},
         NEW x \in {"none", "superseded", "held", "exhausted", "failed", "rejected"},
         Save(t, s, x), NEW pc \in {"done", "failover", "passing"}, Goto(a, pc),
         thread[a].pc \in {"superseding", "done"} => pc = "done",
         pc = "failover" => Kind[Of(a)] = "packet",
         pc = "passing" => Kind[Of(a)] = "review"
  PROVE  StructInv' /\ Progress /\ Kept
<1>1. BoardTypeOK
  BY DEF StructInv
<1>2. Kept
  BY <1>1, SaveKeeps, SameRows, SameOthers DEF Kept, OwnWrite, ledgerVars, BoardTypeOK
<1>3. pc \in ThreadPcs \ {"none"}
  BY DEF ThreadPcs
<1>4. pass' = pass /\ row' = row
  BY DEF OwnWrite, ledgerVars
<1> QED BY <1>2, <1>3, <1>4, ThreadStruct

\* It changes its attempt's row and nothing else.
LEMMA OwnStepStruct ==
  ASSUME StructInv, OnePass, OwnStep, NEW a \in AttemptIds, thread[a].pc # "none",
         \/ row' = row
         \/ \E s \in RowStates \ {"absent"} : row' = [row EXCEPT ![a].state = s],
         earlier' = earlier \/ Latest(a),
         NEW pc \in ThreadPcs \ {"none", "failover", "superseding", "linking", "settling",
                                 "accepting", "passing"},
         Goto(a, pc),
         thread[a].pc \notin {"superseding", "done"},
         pc = "staging" => Kind[Of(a)] = "work",
         pc \in {"approved", "rejected"} => Kind[Of(a)] = "review"
  PROVE  StructInv' /\ Progress /\ Kept
<1>1. BoardTypeOK /\ row[a].state # "absent"
  BY ThreadFacts DEF StructInv
<1>2. RowsKept /\ \A b \in AttemptIds \ {a} : row'[b] = row[b]
  <2>1. CASE row' = row
    BY <1>1, <2>1, SameRows
  <2>2. CASE \E s \in RowStates \ {"absent"} : row' = [row EXCEPT ![a].state = s]
    BY <1>1, <2>2, RowKeeps, RowSteps
  <2> QED BY <2>1, <2>2
<1>3. OthersTyped /\ FilesKept /\ pass' = pass
  BY <1>1, LatestTyped, SameFiles DEF OwnStep, boardVars, OthersTyped, BoardTypeOK
<1>4. Kept
  BY <1>2, <1>3 DEF Kept
<1>5. pc \in ThreadPcs \ {"none"}
  OBVIOUS
<1>6. \A q \in Passes : pass[q].pc = "starting" =>
        pass[q].attempt \in AttemptIds /\ pass[q].attempt # a
  BY DEF StructInv, LoopInv, Runs
<1> QED BY <1>2, <1>3, <1>4, <1>5, <1>6, ThreadStruct

LEMMA ThreadStepStruct ==
  ASSUME StructInv, OnePass, NEW a \in AttemptIds, ThreadStep(a)
  PROVE  StructInv' /\ Progress /\ Kept
<1>0. BoardTypeOK
  BY DEF StructInv
<1>f. ASSUME thread[a].pc # "none"
      PROVE  /\ Runs(a) /\ ThreadInv(a) /\ Of(a) \in BoardTasks /\ row[a].state # "absent"
             /\ thread[a].pass \in Passes
  BY <1>f, ThreadFacts
<1>1. CASE StartAttempt(a)
  <2>1. \E pc \in {"running", "unfinished"} : Goto(a, pc)
    BY <1>1 DEF StartAttempt
  <2>2. \E s \in {"dispatching", "held"} : row' = [row EXCEPT ![a].state = s]
    BY <1>1 DEF StartAttempt, Move
  <2>3. OwnStep /\ (earlier' = earlier \/ Latest(a)) /\ thread[a].pc = "admitted"
    BY <1>1 DEF StartAttempt, Move, At
  <2>4. {"dispatching", "held"} \subseteq RowStates \ {"absent"}
    BY DEF RowStates, ACTIVE
  <2>5. {"running", "unfinished"} \subseteq
          ThreadPcs \ {"none", "failover", "superseding", "linking", "settling", "accepting",
                       "passing"}
    BY DEF ThreadPcs
  <2> QED BY <2>1, <2>2, <2>3, <2>4, <2>5, OwnStepStruct
<1>2. CASE Completes(a)
  <2>1. /\ row' = [row EXCEPT ![a].state = "completed"] /\ Latest(a)
        /\ OwnStep /\ thread[a].pc = "running" /\ Goto(a, "completed")
    BY <1>2 DEF Completes, Move, At
  <2>2. "completed" \in RowStates \ {"absent"} /\ "completed" \in ThreadPcs
    BY DEF RowStates, ThreadPcs
  <2> QED BY <2>1, <2>2, OwnStepStruct
<1>3. CASE Fails(a)
  <2>1. /\ row' = [row EXCEPT ![a].state = "held"] \/ row' = row
        /\ Latest(a) \/ earlier' = earlier
        /\ OwnStep /\ thread[a].pc = "running" /\ Goto(a, "unfinished")
    BY <1>3 DEF Fails, Move, At, ledgerVars
  <2>2. "held" \in RowStates \ {"absent"} /\ "unfinished" \in ThreadPcs
    BY DEF RowStates, ACTIVE, ThreadPcs
  <2> QED BY <2>1, <2>2, OwnStepStruct
<1>4. CASE FinishRefused(a)
  <2>1. /\ row' = row /\ earlier' = earlier
        /\ OwnStep /\ thread[a].pc = "running" /\ Goto(a, "refused")
    BY <1>4 DEF FinishRefused, At, ledgerVars
  <2>2. "refused" \in ThreadPcs
    BY DEF ThreadPcs
  <2> QED BY <2>1, <2>2, OwnStepStruct
<1>5. CASE ThreadFails(a)
  <2>1. /\ row' = row /\ earlier' = earlier
        /\ OwnStep /\ thread[a].pc \in {"running", "staging"} /\ Goto(a, "error")
    BY <1>5 DEF ThreadFails, At, ledgerVars
  <2>2. "error" \in ThreadPcs
    BY DEF ThreadPcs
  <2> QED BY <2>1, <2>2, OwnStepStruct
<1>6. CASE Judge(a)
  <2>1. /\ row' = row /\ earlier' = earlier
        /\ OwnStep /\ thread[a].pc = "completed" /\ Kind[Of(a)] # "packet"
    BY <1>6 DEF Judge, At, ledgerVars
  <2>2. PICK pc \in IF Kind[Of(a)] = "work" THEN {"staging", "failing"}
                                            ELSE {"approved", "rejected", "failing"} :
          Goto(a, pc)
    BY <1>6 DEF Judge
  <2>3. Kind[Of(a)] \in {"work", "review"}
    BY <1>f, <2>1, ReviewAssumption
  <2>4. pc \in ThreadPcs \ {"none", "failover", "superseding", "linking", "settling",
                            "accepting", "passing"}
    BY <2>2 DEF ThreadPcs
  <2> QED BY <2>1, <2>2, <2>3, <2>4, OwnStepStruct
<1>7. CASE SettleRefused(a)
  BY <1>f, <1>7, SettlingStruct DEF SettleRefused, At, FileStates
<1>8. CASE SettleHeld(a)
  <2>1. CASE Save(Of(a), "blocked", "held") /\ Goto(a, "done")
    BY <1>f, <1>8, <2>1, SettlingStruct DEF SettleHeld, At, FileStates
  <2>2. CASE Kind[Of(a)] = "packet" /\ Save(Of(a), "blocked", "exhausted") /\ Goto(a, "failover")
    BY <1>f, <1>8, <2>2, SettlingStruct DEF SettleHeld, At, FileStates
  <2> QED BY <1>8, <2>1, <2>2 DEF SettleHeld
<1>9. CASE SupersedeFromThread(a)
  BY <1>f, <1>9, SettlingStruct DEF SupersedeFromThread, At, FileStates
<1>10. CASE SettlePacket(a)
  BY <1>f, <1>10, SettlingStruct DEF SettlePacket, At, FileStates
<1>11. CASE SettleFailed(a)
  BY <1>f, <1>11, SettlingStruct DEF SettleFailed, At, FileStates
<1>12. CASE SettleReviewPending(a)
  BY <1>f, <1>12, SettlingStruct DEF SettleReviewPending, At, FileStates
<1>13. CASE SettleReview(a)
  BY <1>f, <1>13, SettlingStruct DEF SettleReview, At, FileStates
<1>14. CASE SettleAccepted(a)
  <2>1. PICK w \in Sources(Of(a)) : Save(w, "accepted", "none")
    BY <1>14 DEF SettleAccepted
  <2>2. w \in BoardTasks /\ Kind[Of(a)] = "review"
    BY <1>f, <1>14 DEF Sources, SettleAccepted, At, ThreadInv
  <2> QED BY <1>14, <2>1, <2>2, SettlingStruct DEF SettleAccepted, At, FileStates
<1>15. CASE FailoverFromThread(a)
  <2>1. thread[a].pc = "failover" /\ Kind[Of(a)] = "packet"
        /\ UNCHANGED <<ledgerVars, pass, crashes>>
    BY <1>f, <1>15 DEF FailoverFromThread, At, ThreadInv
  <2>2. row' = row /\ earlier' = earlier /\ pass' = pass /\ crashes' = crashes
    BY <2>1 DEF ledgerVars
  <2>3. RowsKept
    BY <1>0, <2>2, SameRows
  <2>4. CASE Goto(a, "done") /\ UNCHANGED boardVars
    <3>1. Kept
      BY <1>0, <2>2, <2>3, <2>4, SameFiles DEF Kept, OthersTyped, boardVars, BoardTypeOK
    <3>2. "done" \in ThreadPcs \ {"none"}
      BY DEF ThreadPcs
    <3> QED BY <2>1, <2>2, <2>4, <3>1, <3>2, ThreadStruct
  <2>5. ASSUME NEW s \in BoardTasks, WriteSuccessor(Of(a), s), Goto(a, "superseding")
        PROVE  StructInv' /\ Progress /\ Kept
    <3>1. Kept
      BY <1>0, <1>f, <2>1, <2>2, <2>3, <2>5, SuccessorKeeps
      DEF Kept, OthersTyped, BoardTypeOK
    <3>2. "superseding" \in ThreadPcs \ {"none"}
      BY DEF ThreadPcs
    <3> QED BY <2>1, <2>2, <2>5, <3>1, <3>2, ThreadStruct
  <2> QED BY <1>15, <2>4, <2>5 DEF FailoverFromThread
<1>16. CASE CreateReview(a)
  <2>1. thread[a].pc = "staging" /\ Kind[Of(a)] = "work" /\ OwnWrite /\ Goto(a, "linking")
    BY <1>f, <1>16 DEF CreateReview, At, ThreadInv
  <2>2. Kept
    BY <1>0, <1>f, <1>16, <2>1, ReviewKeeps, SameRows, SameOthers
    DEF Kept, OwnWrite, ledgerVars, BoardTypeOK
  <2>3. "linking" \in ThreadPcs \ {"none"}
    BY DEF ThreadPcs
  <2>4. pass' = pass /\ row' = row
    BY <2>1 DEF OwnWrite, ledgerVars
  <2> QED BY <2>1, <2>2, <2>3, <2>4, ThreadStruct
<1>17. CASE WriteLink(a)
  <2>1. /\ thread[a].pc = "linking" /\ Kind[Of(a)] = "work" /\ Goto(a, "settling")
        /\ UNCHANGED <<file, failovers, ledgerVars, pass, crashes>>
        /\ link' = [link EXCEPT ![Of(a)] = [attempt |-> a, review |-> ReviewOf[Of(a)]]]
    BY <1>f, <1>17 DEF WriteLink, At, ThreadInv
  <2>2. ReviewOf[Of(a)] \in BoardTasks
    BY <1>f, <2>1, ReviewAssumption
  <2>3. [attempt |-> a, review |-> ReviewOf[Of(a)]] \in LinkRow
    BY <2>2 DEF LinkRow
  <2>4. row' = row /\ earlier' = earlier /\ pass' = pass
    BY <2>1 DEF ledgerVars
  <2>5. Kept
    BY <1>0, <2>1, <2>3, <2>4, SameRows, SameFiles DEF Kept, OthersTyped, BoardTypeOK
  <2>6. "settling" \in ThreadPcs \ {"none"}
    BY DEF ThreadPcs
  <2> QED BY <2>1, <2>4, <2>5, <2>6, ThreadStruct
<1>18. CASE AcceptSource(a)
  <2>1. /\ thread[a].pc = "approved" /\ Kind[Of(a)] = "review"
        /\ earlier' = earlier /\ UNCHANGED boardVars /\ pass' = pass /\ crashes' = crashes
    BY <1>f, <1>18 DEF AcceptSource, At, ThreadInv
  <2>2. RowsKept
    <3>1. CASE row' = row
      BY <1>0, <3>1, SameRows
    <3>2. ASSUME NEW w \in Sources(Of(a)), Acceptable(w),
                 row' = [row EXCEPT ![link[w].attempt].state = "accepted"]
          PROVE  RowsKept
      <4>1. CASE link[w].attempt \in AttemptIds
        <5>1. row[link[w].attempt].state # "absent" /\ "accepted" \in RowStates \ {"absent"}
          BY <3>2 DEF Acceptable, RowStates
        <5> QED BY <1>0, <3>2, <4>1, <5>1, RowKeeps
      <4>2. CASE link[w].attempt \notin AttemptIds
        <5>1. row' = row
          BY <1>0, <3>2, <4>2 DEF BoardTypeOK
        <5> QED BY <1>0, <5>1, SameRows
      <4> QED BY <4>1, <4>2
    <3> QED BY <1>18, <3>1, <3>2 DEF AcceptSource
  <2>3. Kept
    BY <1>0, <2>1, <2>2, SameFiles DEF Kept, OthersTyped, boardVars, BoardTypeOK
  <2>4. \E pc \in {"accepting", "passing"} : Goto(a, pc)
    BY <1>18 DEF AcceptSource
  <2>5. {"accepting", "passing"} \subseteq ThreadPcs \ {"none"}
    BY DEF ThreadPcs
  <2>6. \A q \in Passes : pass[q].pc = "starting" =>
          row'[pass[q].attempt] = row[pass[q].attempt]
    BY <1>0, <1>18 DEF AcceptSource, Acceptable, StructInv, LoopInv, BoardTypeOK
  <2> QED BY <2>1, <2>3, <2>4, <2>5, <2>6, ThreadStruct
<1>19. CASE PropagateRejection(a)
  <2>1. /\ thread[a].pc = "rejected" /\ OwnWrite /\ Goto(a, "failing")
    BY <1>19 DEF PropagateRejection, At
  <2>2. FilesKept
    <3>1. CASE file' = file
      BY <1>0, <3>1, SameFiles
    <3>2. ASSUME NEW t \in Sources(Of(a)), Save(t, "blocked", "rejected")
          PROVE  FilesKept
      BY <1>0, <3>2, SaveKeeps DEF Sources, FileStates
    <3> QED BY <1>19, <3>1, <3>2 DEF PropagateRejection
  <2>3. Kept
    BY <1>0, <2>1, <2>2, SameRows, SameOthers DEF Kept, OwnWrite, ledgerVars, BoardTypeOK
  <2>4. "failing" \in ThreadPcs \ {"none"}
    BY DEF ThreadPcs
  <2>5. pass' = pass /\ row' = row
    BY <2>1 DEF OwnWrite, ledgerVars
  <2> QED BY <2>1, <2>3, <2>4, <2>5, ThreadStruct
<1> QED BY <1>1, <1>2, <1>3, <1>4, <1>5, <1>6, <1>7, <1>8, <1>9, <1>10, <1>11, <1>12, <1>13,
           <1>14, <1>15, <1>16, <1>17, <1>18, <1>19 DEF ThreadStep

\* The operator changes files or the ledger, and moves nobody.
LEMMA OperatorStruct ==
  ASSUME StructInv, OnePass, OperatorStep
  PROVE  StructInv' /\ Progress /\ FilesKept
<1>0. BoardTypeOK
  BY DEF StructInv
<1>s. \A q \in Passes : pass[q].pc = "starting" =>
        pass[q].attempt \in AttemptIds /\ row[pass[q].attempt].state = "queued"
  BY DEF StructInv, LoopInv
<1>1. ASSUME NEW a \in AttemptIds, NEW s \in RowStates \ {"absent"}, Move(a, s),
             row[a].state \in {"held", "dispatching"}, UNCHANGED <<boardVars, runnerVars>>
      PROVE  StructInv' /\ Progress /\ FilesKept
  <2>1. pass' = pass /\ thread' = thread
    BY <1>1 DEF runnerVars
  <2>2. Kept
    BY <1>0, <1>1, RowKeeps, LatestTyped, SameFiles
    DEF Kept, OthersTyped, Move, boardVars, runnerVars, BoardTypeOK
  <2>3. BoardTypeOK'
    BY <1>0, <2>1, <2>2, TypesTogether DEF BoardTypeOK
  <2>4. \A q \in Passes : pass[q].pc = "starting" =>
          row'[pass[q].attempt] = row[pass[q].attempt]
    BY <1>0, <1>1, <1>s, RowSteps DEF Move
  <2> QED BY <2>1, <2>2, <2>3, <2>4, StandStill DEF Kept
<1>2. CASE \E a \in AttemptIds : ResolveHeld(a) \/ HoldAbandoned(a)
  <2>1. {"failed", "abandoned", "held"} \subseteq RowStates \ {"absent"}
    BY DEF RowStates, ACTIVE
  <2> QED BY <1>1, <1>2, <2>1 DEF ResolveHeld, HoldAbandoned
<1>3. ASSUME NEW t \in BoardTasks, NEW s \in BoardTasks, Retry(t, s)
      PROVE  StructInv' /\ Progress /\ FilesKept
  <2>1. pass' = pass /\ thread' = thread /\ row' = row /\ earlier' = earlier
        /\ failovers' = failovers /\ crashes' = crashes
    BY <1>3 DEF Retry, ledgerVars, runnerVars
  <2>2. link' \in [BoardTasks -> LinkRow]
    <3>1. \A w \in BoardTasks : link[w] \in LinkRow /\ [link[w] EXCEPT !.review = s] \in LinkRow
      BY <1>0 DEF BoardTypeOK, LinkRow
    <3> QED BY <1>3, <3>1 DEF Retry
  <2>3. Kept
    BY <1>0, <1>3, <2>1, <2>2, RetryKeeps, SameRows DEF Kept, OthersTyped, BoardTypeOK
  <2>4. BoardTypeOK'
    BY <1>0, <2>1, <2>3, TypesTogether DEF BoardTypeOK
  <2> QED BY <2>1, <2>3, <2>4, StandStill DEF Kept
<1> QED BY <1>2, <1>3 DEF OperatorStep

\* The pass dies or ends, or its loop lands what passed, with no thread left.
LEMMA EndStruct ==
  ASSUME StructInv, OnePass, NEW q \in Passes,
         EndLoop(q) \/ EndPass(q) \/ RaiseError(q) \/ Crash(q)
  PROVE  StructInv' /\ Progress /\ FilesKept
<1>0. BoardTypeOK /\ \A r \in Passes : r = q
  BY DEF StructInv, OnePass
<1>1. \A a \in AttemptIds : thread[a].pass \in Passes \cup {"none"}
  BY <1>0 DEF BoardTypeOK, ThreadRow
<1>2. Kept /\ UNCHANGED <<boardVars, ledgerVars>>
  <2>1. UNCHANGED <<boardVars, ledgerVars>> /\ crashes' \in {crashes, crashes + 1}
    BY DEF EndLoop, EndPass, RaiseError, Crash, PassGone
  <2>2. UNCHANGED <<file, link, row, earlier, failovers>> /\ crashes' \in Nat
    BY <1>0, <2>1 DEF boardVars, ledgerVars, BoardTypeOK
  <2> QED BY <1>0, <2>1, <2>2, SameFiles, SameRows, SameOthers DEF Kept
<1>3. pass[q].pc # "idle"
  BY DEF EndLoop, EndPass, RaiseError, Crash
<1>4. /\ thread' \in [AttemptIds -> ThreadRow]
      /\ \A a \in AttemptIds : ~Runs(a)' /\ thread'[a].pass = "none"
  <2>n. NoThread \in ThreadRow /\ NoThread.pc = "none" /\ NoThread.pass = "none"
    BY DEF NoThread, ThreadRow, ThreadPcs
  <2>1. CASE thread' = [a \in AttemptIds |-> IF a \in Mine(q) THEN NoThread ELSE thread[a]]
    <3>1. \A a \in AttemptIds : a \notin Mine(q) => ~Runs(a) /\ thread[a].pass = "none"
      BY <1>0 DEF Mine, StructInv, ThreadInv
    <3> QED BY <1>0, <2>1, <2>n, <3>1 DEF BoardTypeOK, Runs
  <2>2. CASE EndPass(q)
    <3>1. thread' = thread /\ pass[q].pc = "landing"
      BY <2>2 DEF EndPass
    <3> QED BY <1>0, <3>1 DEF StructInv, ThreadInv, BoardTypeOK, Runs
  <2> QED BY <2>1, <2>2 DEF EndLoop, RaiseError, Crash, PassGone
<1>5. /\ pass' \in [Passes -> PassRow]
      /\ pass'[q].pc \in {"idle", "landing"}
      /\ pass'[q].pc = "landing" => StepsTo(q, "landing") /\ pass[q].pc # "superseding"
  <2>1. CASE EndLoop(q)
    <3>1. StepsTo(q, "landing")
      BY <1>0, <2>1, PcSteps DEF EndLoop
    <3> QED BY <2>1, <3>1 DEF StepsTo, EndLoop
  <2>2. CASE pass' = [pass EXCEPT ![q] = IdlePass]
    <3>1. IdlePass \in PassRow /\ IdlePass.pc = "idle"
      BY FreshTyped DEF IdlePass, PassRow
    <3> QED BY <1>0, <2>2, <3>1 DEF BoardTypeOK
  <2> QED BY <2>1, <2>2 DEF EndPass, RaiseError, Crash, PassGone
<1>6. BoardTypeOK'
  BY <1>2, <1>4, <1>5, TypesTogether
<1>7. FilesKept
  BY <1>2 DEF Kept
<1> QED BY <1>2, <1>3, <1>4, <1>5, <1>6, <1>7, ThreadsGone

\* The loop's own steps: it writes a task file and goes on or turns to it.
LEMMA LoopStruct ==
  ASSUME StructInv, OnePass, NEW q \in Passes,
         \/ SkipTask(q) \/ FailoverFromLoop(q) \/ SupersedeFromLoop(q) \/ RequeueDead(q)
         \/ NotRouted(q) \/ Collides(q) \/ AwaitVictim(q) \/ VictimJoined(q) \/ MarkDispatched(q)
         \/ AdmitRefused(q)
  PROVE  StructInv' /\ Progress /\ FilesKept
<1>0. BoardTypeOK /\ LoopInv(q)
  BY DEF StructInv
<1>1. /\ thread' = thread /\ row' = row /\ earlier' = earlier /\ crashes' = crashes
      /\ pass[q].pc \in {"loop", "superseding", "marked", "waiting"}
      /\ pass[q].next <= Len(Order)
  BY <1>0 DEF SkipTask, FailoverFromLoop, SupersedeFromLoop, RequeueDead, NotRouted, Collides,
     AwaitVictim, VictimJoined, MarkDispatched, AdmitRefused, InLoop, LoopInv, ledgerVars
<1>2. Task(q) \in BoardTasks
  BY <1>0, <1>1, TaskFacts
<1>3. Kept
  <2>1. CASE \E s \in BoardTasks : WriteSuccessor(Task(q), s)
    BY <1>0, <1>1, <1>2, <2>1, SuccessorKeeps, SameRows DEF Kept, OthersTyped, BoardTypeOK
  <2>2. CASE FilesKept /\ UNCHANGED <<link, failovers>>
    BY <1>0, <1>1, <2>2, SameRows, SameOthers DEF Kept, BoardTypeOK
  <2>3. CASE UNCHANGED boardVars
    BY <1>0, <2>2, <2>3, SameFiles DEF boardVars
  <2>4. ASSUME NEW s \in {"blocked", "ready", "dispatched"},
               NEW x \in {"none", "superseded", "failed"}, Save(Task(q), s, x)
        PROVE  FilesKept
    BY <1>0, <1>2, <2>4, SaveKeeps DEF FileStates
  <2> QED BY <1>0, <2>1, <2>2, <2>3, <2>4, SameFiles
      DEF SkipTask, FailoverFromLoop, SupersedeFromLoop, RequeueDead, NotRouted, Collides,
     AwaitVictim, VictimJoined, MarkDispatched, AdmitRefused
<1>4. ASSUME Onward(q), pass[q].pc # "waiting"
      PROVE  StructInv' /\ Progress
  <2>1. StepsOn(q)
    BY <1>0, <1>1, <1>4, OnwardSteps
  <2>2. BoardTypeOK'
    BY <1>0, <1>1, <1>3, <2>1, TypesTogether DEF StepsOn, BoardTypeOK
  <2> QED BY <1>1, <1>3, <1>4, <2>1, <2>2, LoopOn
<1>5. ASSUME NEW pc \in {"loop", "superseding", "waiting", "marked"}, StepsTo(q, pc),
             pass[q].pc \in {"loop", "waiting"},
             pc \in {"waiting", "marked"} => Seen(q).state = "ready",
             pc = "superseding" => Kind[Task(q)] = "packet" /\ Seen(q).state = "blocked"
      PROVE  StructInv' /\ Progress
  <2>2. BoardTypeOK'
    BY <1>0, <1>1, <1>3, <1>5, TypesTogether DEF StepsTo, BoardTypeOK
  <2> QED BY <1>1, <1>3, <1>5, <2>2, LoopAt
<1>6. CASE SkipTask(q) \/ SupersedeFromLoop(q) \/ RequeueDead(q) \/ NotRouted(q) \/ Collides(q) \/ AdmitRefused(q)
  BY <1>3, <1>4, <1>6 DEF SkipTask, SupersedeFromLoop, RequeueDead, NotRouted, Collides, AdmitRefused,
     InLoop, Kept
<1>7. CASE FailoverFromLoop(q)
  <2>1. CASE Onward(q)
    BY <1>3, <1>4, <1>7, <2>1 DEF FailoverFromLoop, InLoop, Kept
  <2>2. CASE pass' = [pass EXCEPT ![q].pc = "superseding"]
    <3>1. StepsTo(q, "superseding")
      BY <1>0, <2>2, PcSteps
    <3>2. pass[q].pc = "loop" /\ Kind[Task(q)] = "packet" /\ Seen(q).state = "blocked"
      BY <1>7 DEF FailoverFromLoop, FailoverDue, InLoop
    <3> QED BY <1>3, <1>5, <3>1, <3>2 DEF Kept
  <2> QED BY <1>7, <2>1, <2>2 DEF FailoverFromLoop
<1>8. CASE AwaitVictim(q)
  <2>1. PICK a \in AttemptIds : pass' = [pass EXCEPT ![q].pc = "waiting", ![q].attempt = a]
    BY <1>8 DEF AwaitVictim, Mine
  <2>2. pass'[q].attempt = a
    BY <1>0, <2>1 DEF BoardTypeOK, PassRow
  <2>3. StepsTo(q, "waiting")
    BY <1>0, <2>1, <2>2, PcSteps
  <2> QED BY <1>3, <1>5, <1>8, <2>3 DEF AwaitVictim, InLoop, Kept
<1>9. CASE VictimJoined(q)
  <2>1. pass' = [pass EXCEPT ![q].pc = "loop", ![q].attempt = NoAttempt]
        /\ pass[q].pc = "waiting"
    BY <1>9 DEF VictimJoined
  <2>2. pass'[q].attempt = NoAttempt
    BY <1>0, <2>1 DEF BoardTypeOK, PassRow
  <2>3. StepsTo(q, "loop")
    BY <1>0, <2>1, <2>2, PcSteps
  <2> QED BY <1>3, <1>5, <2>1, <2>3 DEF Kept
<1>10. CASE MarkDispatched(q)
  <2>1. StepsTo(q, "marked")
    BY <1>0, <1>10, PcSteps DEF MarkDispatched
  <2> QED BY <1>3, <1>5, <1>10, <2>1 DEF MarkDispatched, InLoop, Kept
<1> QED BY <1>6, <1>7, <1>8, <1>9, <1>10

\* The pass begins, lands a packet, admits or starts an attempt.
LEMMA AdmitStruct ==
  ASSUME StructInv, OnePass, NEW q \in Passes, Admit(q)
  PROVE  /\ StructInv' /\ Progress /\ FilesKept
         /\ \E a \in AttemptIds : AdmitsRow(q, a) /\ Latest(a)
<1>0. BoardTypeOK /\ LoopInv(q)
  BY DEF StructInv
<1>1. PICK a \in AttemptIds :
        /\ row[a].state = "absent"
        /\ row' = [row EXCEPT ![a] = [state |-> "queued", of |-> Task(q)]]
        /\ Latest(a)
        /\ IF Kind[Task(q)] = "packet"
           THEN /\ pass' = [pass EXCEPT ![q].pc = "starting", ![q].attempt = a]
                /\ UNCHANGED thread
           ELSE /\ thread' = [thread EXCEPT ![a] = [pc |-> "admitted", pass |-> q]]
                /\ Onward(q)
  BY DEF Admit
<1>2. pass[q].pc = "marked" /\ pass[q].next <= Len(Order) /\ Task(q) \in BoardTasks
  BY <1>0, TaskFacts DEF Admit, LoopInv
<1>3. AdmitsRow(q, a) /\ row' \in [AttemptIds -> LedgerRow]
  <2> DEFINE r == [state |-> "queued", of |-> Task(q)]
  <2>1. r \in LedgerRow /\ r.state = "queued" /\ r.of = Task(q)
    BY <1>2 DEF LedgerRow, RowStates, ACTIVE
  <2>2. row' = [row EXCEPT ![a] = r]
    BY <1>1
  <2> HIDE DEF r
  <2> QED BY <1>0, <1>1, <2>1, <2>2 DEF AdmitsRow, BoardTypeOK
<1>4. FilesKept /\ OthersTyped
  <2>1. file' = file /\ link' = link /\ failovers' = failovers /\ crashes' = crashes
    BY DEF Admit, boardVars
  <2> QED BY <1>0, <1>1, <2>1, SameFiles, LatestTyped DEF OthersTyped, BoardTypeOK
<1>5. ASSUME pass' \in [Passes -> PassRow], thread' \in [AttemptIds -> ThreadRow]
      PROVE  BoardTypeOK'
  BY <1>3, <1>4, <1>5 DEF FilesKept, OthersTyped, BoardTypeOK
<1>6. CASE Kind[Task(q)] = "packet"
  <2>1. pass' = [pass EXCEPT ![q].pc = "starting", ![q].attempt = a] /\ thread' = thread
    BY <1>1, <1>6
  <2>2. pass'[q].attempt = a
    BY <1>0, <2>1 DEF BoardTypeOK, PassRow
  <2>3. StepsTo(q, "starting")
    BY <1>0, <2>1, <2>2, PcSteps
  <2>4. BoardTypeOK'
    BY <1>0, <1>5, <2>1, <2>3 DEF StepsTo, BoardTypeOK
  <2> QED BY <1>1, <1>2, <1>3, <1>4, <2>1, <2>2, <2>3, <2>4, PacketAdmitted
<1>7. CASE Kind[Task(q)] # "packet"
  <2>1. thread' = [thread EXCEPT ![a] = [pc |-> "admitted", pass |-> q]] /\ Onward(q)
    BY <1>1, <1>7
  <2> DEFINE r == [pc |-> "admitted", pass |-> q]
  <2>2. r \in ThreadRow /\ r.pc = "admitted" /\ r.pass = q
    BY DEF ThreadRow, ThreadPcs
  <2> HIDE DEF r
  <2>3. /\ thread' \in [AttemptIds -> ThreadRow] /\ thread'[a] = r
        /\ \A b \in AttemptIds \ {a} : thread'[b] = thread[b]
    <3>1. thread' = [thread EXCEPT ![a] = r]
      BY <2>1 DEF r
    <3> QED BY <1>0, <2>2, <3>1 DEF BoardTypeOK
  <2>4. StepsOn(q)
    BY <1>0, <1>2, <2>1, OnwardSteps
  <2>5. BoardTypeOK'
    BY <1>5, <2>3, <2>4 DEF StepsOn
  <2>6. ~Runs(a)
    <3>1. row[a].of = NoTask
      BY <1>1 DEF StructInv
    <3> QED BY <3>1, SentinelAssumption DEF StructInv, ThreadInv, Of
  <2> QED BY <1>1, <1>2, <1>3, <1>4, <2>2, <2>3, <2>4, <2>5, <2>6, ThreadBorn DEF AdmitsRow
<1> QED BY <1>6, <1>7

LEMMA StartStruct ==
  ASSUME StructInv, OnePass, NEW q \in Passes, StartPacket(q)
  PROVE  StructInv' /\ Progress /\ FilesKept
<1>0. BoardTypeOK /\ LoopInv(q)
  BY DEF StructInv
<1>1. /\ pass[q].pc = "starting" /\ pass[q].next <= Len(Order) /\ Task(q) \in BoardTasks
      /\ pass[q].attempt \in AttemptIds /\ ~Runs(pass[q].attempt)
      /\ row[pass[q].attempt].of = Task(q) /\ row[pass[q].attempt].state = "queued"
  BY <1>0, TaskFacts DEF StartPacket, LoopInv
<1>2. PICK a \in AttemptIds : a = pass[q].attempt
  BY <1>1
<1>3. PICK s \in {"dispatching", "held"}, pc \in {"running", "unfinished"} :
        /\ row' = [row EXCEPT ![a].state = s]
        /\ thread' = [thread EXCEPT ![a] = [pc |-> pc, pass |-> q]]
        /\ Latest(a) \/ earlier' = earlier
  BY <1>2 DEF StartPacket, Move
<1>4. s \in RowStates \ {"absent"}
  BY DEF RowStates, ACTIVE
<1>5. Kept
  <2>1. file' = file /\ link' = link /\ failovers' = failovers /\ crashes' = crashes
    BY DEF StartPacket, boardVars
  <2>2. RowsKept
    BY <1>0, <1>1, <1>2, <1>3, <1>4, RowKeeps
  <2> QED BY <1>0, <1>3, <2>1, <2>2, SameFiles, LatestTyped DEF Kept, OthersTyped, BoardTypeOK
<1>6. /\ row'[a].of = Task(q) /\ row'[a].state # "absent"
      /\ \A b \in AttemptIds \ {a} : row'[b] = row[b]
  BY <1>0, <1>1, <1>2, <1>3, <1>4, RowSteps
<1>7. /\ thread' \in [AttemptIds -> ThreadRow] /\ thread'[a].pc = pc /\ thread'[a].pass = q
      /\ \A b \in AttemptIds \ {a} : thread'[b] = thread[b]
  <2> DEFINE r == [pc |-> pc, pass |-> q]
  <2>1. r \in ThreadRow /\ r.pc = pc /\ r.pass = q
    BY DEF ThreadRow, ThreadPcs
  <2>2. thread' = [thread EXCEPT ![a] = r]
    BY <1>3
  <2> HIDE DEF r
  <2> QED BY <1>0, <2>1, <2>2 DEF BoardTypeOK
<1>8. StepsOn(q)
  BY <1>0, <1>1, OnwardSteps DEF StartPacket
<1>9. BoardTypeOK'
  BY <1>5, <1>7, <1>8, TypesTogether DEF StepsOn
<1> QED BY <1>1, <1>2, <1>5, <1>6, <1>7, <1>8, <1>9, ThreadBorn DEF Kept

LEMMA BeginStruct ==
  ASSUME StructInv, OnePass, NEW q \in Passes,
         BeginPass(q) \/ \E t \in BoardTasks : LandPacket(q, t)
  PROVE  StructInv' /\ Progress /\ FilesKept
<1>0. BoardTypeOK
  BY DEF StructInv
<1>1. row' = row /\ earlier' = earlier /\ link' = link /\ failovers' = failovers
      /\ crashes' = crashes /\ thread' = thread
  BY DEF BeginPass, LandPacket, boardVars, ledgerVars, runnerVars
<1>2. CASE BeginPass(q)
  <2>1. file' = file
    BY <1>2 DEF BeginPass, boardVars
  <2>2. Kept
    BY <1>0, <1>1, <2>1, SameFiles, SameRows, SameOthers DEF Kept, BoardTypeOK
  <2> DEFINE r == [IdlePass EXCEPT !.pc = "loop", !.board = file]
  <2>3. r \in PassRow /\ r.pc = "loop" /\ r.board = file
    <3>1. IdlePass \in PassRow
      BY FreshTyped DEF IdlePass, PassRow
    <3>2. file \in [BoardTasks -> FileRow]
      BY <1>0 DEF BoardTypeOK
    <3> QED BY <3>1, <3>2 DEF PassRow
  <2>4. pass' = [pass EXCEPT ![q] = r] /\ pass[q].pc = "idle"
    BY <1>2 DEF BeginPass
  <2> HIDE DEF r
  <2>5. pass' \in [Passes -> PassRow] /\ pass'[q] = r
    BY <1>0, <2>3, <2>4 DEF BoardTypeOK
  <2>6. BoardTypeOK'
    BY <1>0, <1>1, <2>2, <2>5, TypesTogether DEF BoardTypeOK
  <2> QED BY <1>1, <2>1, <2>2, <2>3, <2>4, <2>5, <2>6, PassBegins DEF Kept
<1>3. ASSUME NEW t \in BoardTasks, LandPacket(q, t)
      PROVE  StructInv' /\ Progress /\ FilesKept
  <2>1. pass' = pass
    BY <1>3 DEF LandPacket, runnerVars
  <2>2. FilesKept
    BY <1>0, <1>3, SaveKeeps DEF LandPacket, FileStates
  <2>3. Kept
    BY <1>0, <1>1, <2>2, SameRows, SameOthers DEF Kept, BoardTypeOK
  <2>4. BoardTypeOK'
    BY <1>0, <1>1, <2>1, <2>3, TypesTogether DEF BoardTypeOK
  <2> QED BY <1>1, <2>1, <2>2, <2>3, <2>4, StandStill
<1> QED BY <1>2, <1>3

LEMMA StepStruct ==
  ASSUME StructInv, OnePass, [Next]_vars
  PROVE  StructInv' /\ Progress /\ FilesKept
<1>0. BoardTypeOK
  BY DEF StructInv
<1>1. ASSUME NEW q \in Passes, PassStep(q) \/ Crash(q)
      PROVE  StructInv' /\ Progress /\ FilesKept
  BY <1>1, LoopStruct, AdmitStruct, StartStruct, BeginStruct, EndStruct DEF PassStep
<1>2. ASSUME NEW a \in AttemptIds, ThreadStep(a)
      PROVE  StructInv' /\ Progress /\ FilesKept
  BY <1>2, ThreadStepStruct DEF Kept
<1>3. CASE UNCHANGED vars
  <2>1. /\ file' = file /\ link' = link /\ row' = row /\ earlier' = earlier /\ pass' = pass
        /\ thread' = thread /\ crashes' = crashes /\ failovers' = failovers
    BY <1>3 DEF vars
  <2>2. Kept /\ BoardTypeOK'
    BY <1>0, <2>1, SameFiles, SameRows, SameOthers, TypesTogether DEF Kept, BoardTypeOK
  <2> QED BY <2>1, <2>2, StandStill DEF Kept
<1> QED BY <1>1, <1>2, <1>3, OperatorStruct DEF Next

LEMMA InitStruct == Init => StructInv
<1> SUFFICES ASSUME Init PROVE StructInv
  OBVIOUS
<1>1. BoardTypeOK
  BY FreshTyped DEF Init, BoardTypeOK, NoLink, LinkRow, NoRow, LedgerRow, RowStates,
     IdlePass, PassRow, NoThread, ThreadRow, ThreadPcs
<1> QED BY <1>1 DEF Init, StructInv, LoopInv, Runs, NoRow, IdlePass, NoThread

\* A pass is where its program counter says, its threads are its own and stand for tasks
\* it has passed by, and no file or attempt ever disappears: the invariant on which
\* everything about the board's stale reads rests.
THEOREM BoardInvariant == OnePass => (Spec => []StructInv)
<1> SUFFICES ASSUME OnePass PROVE Spec => []StructInv
  OBVIOUS
<1>1. StructInv /\ [Next]_vars => StructInv'
  BY StepStruct
<1> QED BY <1>1, InitStruct, PTL DEF Spec
-----------------------------------------------------------------------------
(* One failover a task *)

\* What this pass authored stays its own while it lives.
LEMMA AuthoredStays ==
  ASSUME StructInv, OnePass, Progress, NEW q \in Passes, NEW t \in BoardTasks,
         pass[q].pc # "idle", pass'[q].pc # "idle", AuthoredHere(q, t)
  PROVE  AuthoredHere(q, t)'
<1>1. /\ pass'[q].board = pass[q].board
      /\ Visited(q, t) => Visited(q, t)'
      /\ pass[q].pc = "superseding" /\ t = Task(q) =>
           (pass'[q].pc = "superseding" /\ Task(q)' = t) \/ Visited(q, t)'
  BY DEF Progress
<1>2. CASE pass[q].board[t].state = "blocked"
  BY <1>1, <1>2 DEF AuthoredHere
<1>3. CASE /\ pass[q].board[t].state = "ready" /\ Visited(q, t)
           /\ \A a \in AttemptIds : Runs(a) /\ Of(a) = t => thread[a].pc \in {"superseding", "done"}
  <2>1. ASSUME NEW a \in AttemptIds, Runs(a)', Of(a)' = t
        PROVE  thread'[a].pc \in {"superseding", "done"}
    <3>1. CASE Runs(a) /\ Of(a)' = Of(a)
      BY <1>3, <2>1, <3>1 DEF Progress
    <3>2. CASE \E r \in Passes : Of(a)' = Task(r) /\ pass[r].next <= Len(Order)
      <4>1. Of(a)' = Task(q) /\ pass[q].next <= Len(Order)
        BY <3>2 DEF OnePass
      <4> QED BY <1>3, <2>1, <4>1, TaskFacts DEF StructInv
    <3> QED BY <2>1, <3>1, <3>2 DEF Progress
  <2> QED BY <1>1, <1>3, <2>1 DEF AuthoredHere
<1> QED BY <1>2, <1>3 DEF AuthoredHere

\* A step that authors no failover.
LEMMA NoFailover ==
  ASSUME StructInv, FailoverInv, OnePass, Progress, FilesKept, failovers' = failovers
  PROVE  FailoverInv'
<1>1. \A t \in BoardTasks : file'[t].state = "absent" => file'[t].from = NoTask /\ failovers'[t] = 0
  BY DEF FailoverInv, FilesKept
<1>2. ASSUME NEW t \in BoardTasks, failovers'[t] > 0
      PROVE  \E s \in BoardTasks : file'[s].from = t
  <2>1. PICK s \in BoardTasks : file[s].from = t
    BY <1>2 DEF FailoverInv
  <2> QED BY <2>1, SentinelAssumption DEF FailoverInv, FilesKept
<1>3. ASSUME NEW q \in Passes, pass'[q].pc # "idle", NEW t \in BoardTasks, failovers'[t] > 0
      PROVE  (\E s \in BoardTasks : pass'[q].board[s].from = t) \/ AuthoredHere(q, t)'
  <2>1. CASE pass[q].pc = "idle"
    BY <1>3, <2>1 DEF Progress, FailoverInv
  <2>2. CASE pass[q].pc # "idle"
    <3>1. pass'[q].board = pass[q].board
      BY <1>3, <2>2 DEF Progress
    <3> QED BY <1>3, <2>2, <3>1, AuthoredStays DEF FailoverInv
  <2> QED BY <2>1, <2>2
<1>4. FailoverOnce'
  BY DEF FailoverInv, FailoverOnce, FilesKept
<1> QED BY <1>1, <1>2, <1>3, <1>4 DEF FailoverInv

\* A step that authors one, for a task with none so far that is itself no failover.
LEMMA OneFailover ==
  ASSUME StructInv, FailoverInv, OnePass, Progress,
         NEW q \in Passes, pass[q].pc # "idle", pass'[q].pc # "idle",
         NEW t \in BoardTasks, NEW s \in BoardTasks, WriteSuccessor(t, s),
         failovers[t] = 0, file[t].from = NoTask, file[t].state # "absent", AuthoredHere(q, t)'
  PROVE  FailoverInv'
<1>0. BoardTypeOK /\ \A r \in Passes : r = q
  BY DEF StructInv, OnePass
<1>1. /\ FilesKept
      /\ file[s].state = "absent" /\ file'[s].state = "ready" /\ file'[s].from = t
      /\ \A u \in BoardTasks \ {s} : file'[u] = file[u]
      /\ failovers' = [failovers EXCEPT ![t] = failovers[t] + 1]
  BY <1>0, SuccessorKeeps
<1>2. /\ failovers'[t] = 1 /\ s # t
      /\ \A u \in BoardTasks \ {t} : failovers'[u] = failovers[u]
  BY <1>0, <1>1 DEF BoardTypeOK
<1>3. \A u \in BoardTasks : file'[u].state = "absent" => file'[u].from = NoTask /\ failovers'[u] = 0
  BY <1>1, <1>2 DEF FailoverInv
<1>4. ASSUME NEW u \in BoardTasks, failovers'[u] > 0
      PROVE  \E x \in BoardTasks : file'[x].from = u
  <2>1. CASE u = t
    BY <1>1, <2>1
  <2>2. CASE u # t
    <3>1. PICK x \in BoardTasks : file[x].from = u
      BY <1>2, <1>4, <2>2 DEF FailoverInv
    <3> QED BY <1>1, <3>1, SentinelAssumption DEF FailoverInv
  <2> QED BY <2>1, <2>2
<1>5. ASSUME NEW u \in BoardTasks, failovers'[u] > 0
      PROVE  (\E x \in BoardTasks : pass'[q].board[x].from = u) \/ AuthoredHere(q, u)'
  <2>1. CASE u = t
    BY <2>1
  <2>2. CASE u # t
    <3>1. pass'[q].board = pass[q].board /\ failovers[u] > 0
      BY <1>2, <1>5, <2>2 DEF Progress
    <3> QED BY <3>1, AuthoredStays DEF FailoverInv
  <2> QED BY <2>1, <2>2
<1>6. FailoverOnce'
  <2>1. \A u \in BoardTasks : failovers'[u] <= 1
    BY <1>2 DEF FailoverInv, FailoverOnce
  <2>2. failovers'[s] = 0
    BY <1>1, <1>2 DEF FailoverInv
  <2>3. \A u \in BoardTasks : file'[u].from # NoTask => failovers'[u] = 0
    BY <1>1, <1>2, <2>2 DEF FailoverInv, FailoverOnce
  <2> QED BY <2>1, <2>3 DEF FailoverOnce
<1> QED BY <1>0, <1>3, <1>4, <1>5, <1>6 DEF FailoverInv

LEMMA StepFailover ==
  ASSUME StructInv, FailoverInv, OnePass, [Next]_vars
  PROVE  FailoverInv'
<1>0. BoardTypeOK /\ StructInv' /\ Progress /\ FilesKept
  BY StepStruct DEF StructInv
<1>1. CASE failovers' = failovers
  BY <1>0, <1>1, NoFailover
<1>2. ASSUME NEW q \in Passes, FailoverFromLoop(q)
      PROVE  FailoverInv'
  <2>1. CASE UNCHANGED boardVars
    BY <1>1, <2>1 DEF boardVars
  <2>2. ASSUME NEW s \in BoardTasks, WriteSuccessor(Task(q), s),
               pass' = [pass EXCEPT ![q].pc = "superseding"]
        PROVE  FailoverInv'
    <3>1. /\ pass[q].pc = "loop" /\ pass[q].next <= Len(Order) /\ LoopInv(q)
          /\ FailoverDue(q, Task(q), Seen(q))
      BY <1>2 DEF FailoverFromLoop, InLoop, StructInv
    <3>2. Task(q) \in BoardTasks /\ ~Visited(q, Task(q))
      BY <1>0, <3>1, TaskFacts
    <3>3. StepsTo(q, "superseding")
      BY <1>0, <2>2, PcSteps
    <3>4. pass[q].board[Task(q)].state = "blocked" /\ pass[q].board[Task(q)].from = NoTask
          /\ \A o \in BoardTasks : pass[q].board[o].from # Task(q)
      BY <3>1 DEF FailoverDue, Seen
    <3>5. failovers[Task(q)] = 0
      <4>1. ~AuthoredHere(q, Task(q))
        BY <3>1, <3>2, <3>4 DEF AuthoredHere
      <4>2. ~(failovers[Task(q)] > 0)
        BY <3>1, <3>2, <3>4, <4>1 DEF FailoverInv
      <4> QED BY <1>0, <3>2, <4>2 DEF BoardTypeOK
    <3>6. file[Task(q)].from = NoTask /\ file[Task(q)].state # "absent"
      BY <3>1, <3>2, <3>4 DEF LoopInv
    <3>7. \A t \in BoardTasks : t = Task(q) => AuthoredHere(q, t)'
      BY <3>3, <3>4 DEF AuthoredHere, StepsTo, Task
    <3>8. PICK t \in BoardTasks : t = Task(q)
      BY <3>2
    <3>9. WriteSuccessor(t, s) /\ failovers[t] = 0 /\ file[t].from = NoTask
          /\ file[t].state # "absent" /\ AuthoredHere(q, t)' /\ pass'[q].pc # "idle"
      BY <2>2, <3>3, <3>5, <3>6, <3>7, <3>8 DEF StepsTo
    <3> QED BY <1>0, <3>1, <3>9, OneFailover
  <2> QED BY <1>2, <2>1, <2>2 DEF FailoverFromLoop
<1>3. ASSUME NEW a \in AttemptIds, FailoverFromThread(a)
      PROVE  FailoverInv'
  <2> DEFINE settled == [file[Of(a)] EXCEPT !.state = "blocked", !.reason = "exhausted"]
  <2>1. CASE UNCHANGED boardVars
    BY <1>1, <2>1 DEF boardVars
  <2>2. ASSUME NEW s \in BoardTasks, WriteSuccessor(Of(a), s), Goto(a, "superseding"),
               FailoverDue(thread[a].pass, Of(a), settled)
        PROVE  FailoverInv'
    <3>1. thread[a].pc = "failover" /\ pass' = pass /\ row' = row
      BY <1>3 DEF FailoverFromThread, At, ledgerVars
    <3>2. Runs(a) /\ ThreadInv(a) /\ Of(a) \in BoardTasks
      BY <3>1, ThreadFacts
    <3>3. PICK q \in Passes : q = thread[a].pass
      BY <3>2 DEF ThreadInv
    <3>4. PICK t \in BoardTasks : t = Of(a)
      BY <3>2
    <3>5. settled.from = file[t].from
      BY <1>0, <3>4 DEF BoardTypeOK, FileRow
    <3>6. file[t].from = NoTask /\ \A o \in BoardTasks : pass[q].board[o].from # t
      BY <2>2, <3>3, <3>4, <3>5 DEF FailoverDue
    <3>7. pass[q].pc # "idle" /\ pass[q].board[t].state = "ready" /\ Visited(q, t)
      BY <3>2, <3>3, <3>4 DEF ThreadInv
    <3>8. failovers[t] = 0
      <4>1. ~AuthoredHere(q, t)
        BY <3>1, <3>2, <3>4, <3>7 DEF AuthoredHere
      <4>2. ~(failovers[t] > 0)
        BY <3>6, <3>7, <4>1 DEF FailoverInv
      <4> QED BY <1>0, <4>2 DEF BoardTypeOK
    <3>9. file[t].state # "absent"
      BY <3>7 DEF StructInv, LoopInv
    <3>10. "superseding" \in ThreadPcs
      BY DEF ThreadPcs
    <3>11. thread'[a].pc = "superseding" /\ \A b \in AttemptIds \ {a} : thread'[b] = thread[b]
      BY <1>0, <2>2, <3>10, GotoSteps
    <3>12. \A b \in AttemptIds : Runs(b)' /\ Of(b)' = t => b = a
      BY <3>1, <3>2, <3>4, <3>11 DEF ThreadInv, Runs, Of
    <3>13. AuthoredHere(q, t)'
      BY <3>1, <3>7, <3>11, <3>12 DEF AuthoredHere, Visited
    <3>14. WriteSuccessor(t, s) /\ pass'[q].pc # "idle"
      BY <2>2, <3>1, <3>4, <3>7
    <3> QED BY <1>0, <3>6, <3>7, <3>8, <3>9, <3>13, <3>14, OneFailover
  <2> QED BY <1>3, <2>1, <2>2 DEF FailoverFromThread
<1>4. ASSUME NEW q \in Passes, PassStep(q) \/ Crash(q), ~FailoverFromLoop(q)
      PROVE  failovers' = failovers
  BY <1>4 DEF PassStep, BeginPass, SkipTask, SupersedeFromLoop, RequeueDead, NotRouted, Collides,
     AwaitVictim, VictimJoined, MarkDispatched, Admit, StartPacket, AdmitRefused, EndLoop,
     RaiseError, LandPacket, EndPass, Crash, PassGone, boardVars
<1>5. ASSUME NEW a \in AttemptIds, ThreadStep(a), ~FailoverFromThread(a)
      PROVE  failovers' = failovers
  BY <1>5 DEF ThreadStep, StartAttempt, Completes, Fails, FinishRefused, ThreadFails,
     SettleRefused, SettleHeld, SupersedeFromThread, SettlePacket, Judge, SettleFailed,
     CreateReview, WriteLink, SettleReviewPending, AcceptSource, SettleAccepted, SettleReview,
     PropagateRejection, OwnStep, OwnWrite, boardVars
<1>6. OperatorStep => failovers' = failovers
  BY DEF OperatorStep, ResolveHeld, HoldAbandoned, Retry, boardVars
<1> QED BY <1>1, <1>2, <1>3, <1>4, <1>5, <1>6 DEF Next, vars

\* The runner authors at most one failover for a task, from its loop or its threads, also
\* when it dies between the successor and the supersession, and a failover never fails
\* over: whatever the operator retries, resolves or sweeps, as long as passes do not overlap.
THEOREM FailoverIsOnce == OnePass => (Spec => []FailoverOnce)
<1> SUFFICES ASSUME OnePass PROVE Spec => []FailoverOnce
  OBVIOUS
<1>1. Init => StructInv /\ FailoverInv
  <2>1. Init => FailoverInv
    BY FreshTyped DEF Init, FailoverInv, FailoverOnce, IdlePass
  <2> QED BY <2>1, InitStruct
<1>2. StructInv /\ FailoverInv /\ [Next]_vars => (StructInv /\ FailoverInv)'
  BY StepStruct, StepFailover
<1>3. FailoverInv => FailoverOnce
  BY DEF FailoverInv
<1> QED BY <1>1, <1>2, <1>3, PTL DEF Spec
-----------------------------------------------------------------------------
(* A closed task stays closed *)

\* A review judges one source, and that is a work task somebody linked.
LEMMA SourcesUnique ==
  ASSUME BoardTypeOK, LinkInv, NEW r \in BoardTasks
  PROVE  /\ \A s \in Sources(r) : s \in BoardTasks /\ Kind[s] = "work" /\ link[s] # NoLink
         /\ \A s, t \in Sources(r) : s = t
<1>1. NoLink.review # r
  BY SentinelAssumption DEF NoLink
<1>2. \A s \in Sources(r) : s \in BoardTasks /\ link[s] # NoLink
                            /\ (link[s].review = r \/ (Kind[s] = "work" /\ ReviewOf[s] = r))
  BY <1>1 DEF Sources
<1>3. \A s \in Sources(r) : Kind[s] = "work"
  BY <1>2 DEF LinkInv
<1>4. ASSUME NEW s \in Sources(r), NEW t \in Sources(r) PROVE s = t
  <2> DEFINE named == {w \in BoardTasks : link[w].review = r}
  <2>1. CASE named # {}
    <3>1. s \in named /\ t \in named
      BY <2>1 DEF Sources
    <3> QED BY <1>2, <3>1 DEF LinkInv
  <2>2. CASE named = {}
    <3>1. ReviewOf[s] = r /\ ReviewOf[t] = r /\ s \in {w \in BoardTasks : Kind[w] = "work"}
          /\ t \in {w \in BoardTasks : Kind[w] = "work"}
      BY <1>2, <1>3, <2>2 DEF Sources
    <3> QED BY <3>1, ReviewAssumption DEF IsInjective
  <2> QED BY <2>1, <2>2
<1> QED BY <1>2, <1>3, <1>4

\* The task of a thread that has not settled is open, and so is the one the loop turns to.
LEMMA OwnOpen ==
  ASSUME StructInv, ClosureInv, NEW a \in AttemptIds, thread[a].pc \notin {"none", "done"}
  PROVE  ~Superseded(file[Of(a)])
<1>1. Runs(a) /\ ThreadInv(a)
  BY ThreadFacts
<1> QED BY <1>1 DEF ThreadInv, ClosureInv, ClosedHere, Superseded

LEMMA LoopOpen ==
  ASSUME StructInv, ClosureInv, NEW q \in Passes, pass[q].pc # "idle",
         pass[q].next <= Len(Order), Seen(q).state # "blocked"
  PROVE  ~Superseded(file[Task(q)])
<1>1. Task(q) \in BoardTasks /\ ~Visited(q, Task(q))
  BY TaskFacts DEF StructInv
<1> QED BY <1>1 DEF ClosureInv, ClosedHere, Superseded, Seen

StaysClosed == \A t \in BoardTasks : Superseded(file[t]) => Superseded(file'[t])
StaysOpen == \A t \in BoardTasks : Superseded(file'[t]) => Superseded(file[t])

LEMMA SaveStays ==
  ASSUME BoardTypeOK, NEW t \in BoardTasks, NEW s \in FileStates,
         NEW x \in {"none", "held", "exhausted", "failed", "rejected"},
         Save(t, s, x), ~Superseded(file[t])
  PROVE  StaysClosed /\ StaysOpen
<1>1. /\ file'[t].state = s /\ file'[t].reason = x
      /\ \A u \in BoardTasks \ {t} : file'[u] = file[u]
  BY SaveSteps
<1>2. \A u \in BoardTasks \ {t} : Superseded(file'[u]) <=> Superseded(file[u])
  BY <1>1 DEF Superseded
<1>3. ~Superseded(file'[t])
  BY <1>1 DEF Superseded
<1> QED BY <1>2, <1>3 DEF StaysClosed, StaysOpen

LEMMA SaveCloses ==
  ASSUME BoardTypeOK, NEW t \in BoardTasks, Save(t, "blocked", "superseded")
  PROVE  StaysClosed /\ \A u \in BoardTasks \ {t} : Superseded(file'[u]) => Superseded(file[u])
<1>1. /\ file'[t].state = "blocked" /\ file'[t].reason = "superseded"
      /\ \A u \in BoardTasks \ {t} : file'[u] = file[u]
  BY SaveSteps DEF FileStates
<1>2. \A u \in BoardTasks \ {t} : Superseded(file'[u]) <=> Superseded(file[u])
  BY <1>1 DEF Superseded
<1>3. Superseded(file'[t])
  BY <1>1 DEF Superseded
<1> QED BY <1>2, <1>3 DEF StaysClosed

LEMMA FreshStays ==
  ASSUME BoardTypeOK, NEW s \in BoardTasks, file[s].state = "absent", file'[s].state = "ready",
         \A u \in BoardTasks \ {s} : file'[u] = file[u]
  PROVE  StaysClosed /\ StaysOpen
<1>1. \A u \in BoardTasks \ {s} : Superseded(file'[u]) <=> Superseded(file[u])
  BY DEF Superseded
<1>2. ~Superseded(file'[s]) /\ ~Superseded(file[s])
  BY DEF Superseded
<1> QED BY <1>1, <1>2 DEF StaysClosed, StaysOpen

LEMMA SameStays == ASSUME file' = file PROVE StaysClosed /\ StaysOpen
BY DEF StaysClosed, StaysOpen

\* What this pass closed stays its own while it lives.
LEMMA ClosedStays ==
  ASSUME StructInv, OnePass, Progress, NEW q \in Passes, NEW t \in BoardTasks,
         pass[q].pc # "idle", pass'[q].pc # "idle", ClosedHere(q, t)
  PROVE  ClosedHere(q, t)'
<1>1. pass'[q].board = pass[q].board /\ Visited(q, t)'
  BY DEF Progress, ClosedHere
<1>2. ASSUME NEW a \in AttemptIds, Runs(a)', Of(a)' = t, pass[q].board[t].state = "ready"
      PROVE  thread'[a].pc = "done"
  <2>1. CASE Runs(a) /\ Of(a)' = Of(a)
    BY <1>2, <2>1 DEF Progress, ClosedHere
  <2>2. CASE \E r \in Passes : Of(a)' = Task(r) /\ pass[r].next <= Len(Order)
    <3>1. Of(a)' = Task(q) /\ pass[q].next <= Len(Order)
      BY <2>2 DEF OnePass
    <3> QED BY <1>2, <3>1, TaskFacts DEF StructInv, ClosedHere
  <2> QED BY <1>2, <2>1, <2>2 DEF Progress
<1> QED BY <1>1, <1>2 DEF ClosedHere

\* What a step must show so that every supersession is known to the living pass.
Known ==
  \A t \in BoardTasks : Superseded(file'[t]) =>
    \/ Superseded(file[t])
    \/ \A q \in Passes : pass[q].pc # "idle" /\ pass'[q].pc # "idle" => ClosedHere(q, t)'

LEMMA StaysKnown ==
  ASSUME StructInv, ClosureInv, OnePass, Progress, Known
  PROVE  \A q \in Passes : pass'[q].pc # "idle" =>
           \A t \in BoardTasks : Superseded(file'[t]) =>
             Superseded(pass'[q].board[t]) \/ ClosedHere(q, t)'
<1> SUFFICES ASSUME NEW q \in Passes, pass'[q].pc # "idle", NEW t \in BoardTasks,
                    Superseded(file'[t])
             PROVE  Superseded(pass'[q].board[t]) \/ ClosedHere(q, t)'
  OBVIOUS
<1>1. CASE pass[q].pc = "idle"
  BY <1>1 DEF Progress
<1>2. CASE pass[q].pc # "idle"
  <2>1. pass'[q].board = pass[q].board
    BY <1>2 DEF Progress
  <2>2. CASE Superseded(file[t])
    BY <1>2, <2>1, <2>2, ClosedStays DEF ClosureInv
  <2> QED BY <1>2, <2>2 DEF Known
<1> QED BY <1>1, <1>2

\* A pass leaves its threads where they are, starts one, or takes all of them along.
LEMMA PassThreads ==
  ASSUME StructInv, NEW q \in Passes, PassStep(q) \/ Crash(q)
  PROVE  \A a \in AttemptIds :
           thread'[a] = thread[a] \/ thread'[a].pc \in {"none", "admitted", "running", "unfinished"}
<1>0. thread \in [AttemptIds -> ThreadRow]
  BY DEF StructInv, BoardTypeOK
<1>1. CASE thread' = thread
  BY <1>1
<1>2. CASE thread' = [a \in AttemptIds |-> IF a \in Mine(q) THEN NoThread ELSE thread[a]]
  BY <1>2 DEF NoThread
<1>3. ASSUME NEW b, NEW pc \in {"admitted", "running", "unfinished"},
             thread' = [thread EXCEPT ![b] = [pc |-> pc, pass |-> q]]
      PROVE  \A a \in AttemptIds : thread'[a] = thread[a] \/ thread'[a].pc = pc
  BY <1>0, <1>3
<1>4. ASSUME Admit(q) \/ StartPacket(q)
      PROVE  \/ thread' = thread
             \/ \E b, pc : /\ pc \in {"admitted", "running", "unfinished"}
                           /\ thread' = [thread EXCEPT ![b] = [pc |-> pc, pass |-> q]]
  BY <1>4 DEF Admit, StartPacket
<1> QED BY <1>1, <1>2, <1>3, <1>4
    DEF PassStep, BeginPass, SkipTask, FailoverFromLoop, SupersedeFromLoop, RequeueDead, NotRouted, Collides,
     AwaitVictim, VictimJoined, MarkDispatched, AdmitRefused, EndLoop,
     RaiseError, LandPacket, EndPass, Crash, PassGone, runnerVars

\* The loop closes the one task it authored a failover for, and opens no closed one.
LEMMA PassCloses ==
  ASSUME StructInv, ClosureInv, OnePass, NEW q \in Passes, PassStep(q) \/ Crash(q)
  PROVE  StaysClosed /\ Known /\ link' = link
<1>0. BoardTypeOK /\ LoopInv(q)
  BY DEF StructInv
<1>1. StaysOpen => Known
  BY DEF StaysOpen, Known
<1>2. link' = link
  BY DEF PassStep, BeginPass, SkipTask, FailoverFromLoop, WriteSuccessor, SupersedeFromLoop,
     RequeueDead, NotRouted, Collides, AwaitVictim, VictimJoined, MarkDispatched, Admit, StartPacket,
     AdmitRefused, EndLoop, RaiseError, LandPacket, EndPass, Crash, PassGone, boardVars
<1>3. CASE file' = file
  BY <1>1, <1>2, <1>3, SameStays
<1>4. CASE FailoverFromLoop(q)
  <2>1. CASE UNCHANGED boardVars
    BY <1>3, <2>1 DEF boardVars
  <2>2. ASSUME NEW s \in BoardTasks, WriteSuccessor(Task(q), s)
        PROVE  StaysClosed /\ StaysOpen
    <3>1. Task(q) \in BoardTasks
      BY <1>0, <1>4, TaskFacts DEF FailoverFromLoop, InLoop
    <3> QED BY <1>0, <2>2, <3>1, SuccessorKeeps, FreshStays
  <2> QED BY <1>1, <1>2, <1>4, <2>1, <2>2 DEF FailoverFromLoop
<1>5. CASE SupersedeFromLoop(q)
  <2>1. /\ pass[q].pc = "superseding" /\ Save(Task(q), "blocked", "superseded") /\ Onward(q)
        /\ pass[q].next <= Len(Order) /\ Kind[Task(q)] = "packet" /\ Seen(q).state = "blocked"
    BY <1>0, <1>5 DEF SupersedeFromLoop, LoopInv
  <2>2. PICK t \in BoardTasks : t = Task(q)
    BY <1>0, <2>1, TaskFacts
  <2>3. StepsOn(q)
    BY <1>0, <2>1, OnwardSteps
  <2>4. ClosedHere(q, t)'
    BY <2>1, <2>2, <2>3 DEF StepsOn, ClosedHere, Seen
  <2>5. StaysClosed /\ \A u \in BoardTasks \ {t} : Superseded(file'[u]) => Superseded(file[u])
    BY <1>0, <2>1, <2>2, SaveCloses
  <2>6. Known
    BY <2>4, <2>5 DEF Known, OnePass
  <2> QED BY <1>2, <2>5, <2>6
<1>6. CASE RequeueDead(q) \/ Collides(q) \/ MarkDispatched(q) \/ AdmitRefused(q)
  <2>1. pass[q].pc # "idle" /\ pass[q].next <= Len(Order) /\ Seen(q).state # "blocked"
    BY <1>0, <1>6 DEF RequeueDead, Collides, MarkDispatched, AdmitRefused, InLoop, LoopInv
  <2>2. ~Superseded(file[Task(q)]) /\ Task(q) \in BoardTasks
    BY <1>0, <2>1, LoopOpen, TaskFacts
  <2>3. \/ file' = file
        \/ \E s \in {"blocked", "ready", "dispatched"}, x \in {"failed", "none"} :
             Save(Task(q), s, x)
    BY <1>6 DEF RequeueDead, Collides, MarkDispatched, AdmitRefused
  <2>4. {"blocked", "ready", "dispatched"} \subseteq FileStates
    BY DEF FileStates
  <2> QED BY <1>0, <1>1, <1>2, <2>2, <2>3, <2>4, SameStays, SaveStays
<1>7. ASSUME NEW t \in BoardTasks, LandPacket(q, t)
      PROVE  StaysClosed /\ Known /\ link' = link
  <2>1. ~Superseded(file[t])
    BY <1>7 DEF LandPacket, Superseded
  <2>2. \E s \in {"landed", "blocked"}, x \in {"failed", "none"} : Save(t, s, x)
    BY <1>7 DEF LandPacket
  <2>3. {"landed", "blocked"} \subseteq FileStates
    BY DEF FileStates
  <2> QED BY <1>0, <1>1, <1>2, <2>1, <2>2, <2>3, SaveStays
<1> QED BY <1>3, <1>4, <1>5, <1>6, <1>7
    DEF PassStep, BeginPass, SkipTask, NotRouted, AwaitVictim, VictimJoined, Admit, StartPacket,
     EndLoop, RaiseError, EndPass, Crash, PassGone, boardVars

\* A thread closes its own packet's task, and opens no closed one.
LEMMA ThreadCloses ==
  ASSUME StructInv, ClosureInv, OnePass, NEW a \in AttemptIds, ThreadStep(a)
  PROVE  StaysClosed /\ Known /\ (~SupersedeFromThread(a) => StaysOpen)
<1>0. BoardTypeOK
  BY DEF StructInv
<1>1. StaysOpen => Known
  BY DEF StaysOpen, Known
<1>f. ASSUME thread[a].pc \notin {"none", "done"}
      PROVE  ThreadInv(a) /\ Of(a) \in BoardTasks /\ ~Superseded(file[Of(a)])
  BY <1>f, ThreadFacts, OwnOpen
<1>2. ASSUME thread[a].pc \notin {"none", "done"}, NEW s \in FileStates,
             NEW x \in {"none", "held", "exhausted", "failed", "rejected"}, Save(Of(a), s, x)
      PROVE  StaysClosed /\ StaysOpen
  BY <1>0, <1>2, <1>f, SaveStays
<1>3. CASE file' = file
  BY <1>1, <1>3, SameStays
<1>4. CASE \/ SettleRefused(a) \/ SettleHeld(a) \/ SettlePacket(a) \/ SettleFailed(a)
           \/ SettleReviewPending(a) \/ SettleReview(a)
  <2>1. thread[a].pc \notin {"none", "done"}
    BY <1>4 DEF SettleRefused, SettleHeld, SettlePacket, SettleFailed, SettleReviewPending,
       SettleReview, At
  <2>2. \E s \in {"ready", "blocked", "passed", "review_pending"},
           x \in {"none", "held", "exhausted", "failed"} : Save(Of(a), s, x)
    BY <1>4 DEF SettleRefused, SettleHeld, SettlePacket, SettleFailed, SettleReviewPending,
       SettleReview
  <2>3. {"ready", "blocked", "passed", "review_pending"} \subseteq FileStates
    BY DEF FileStates
  <2> QED BY <1>1, <1>2, <2>1, <2>2, <2>3
<1>5. CASE SupersedeFromThread(a)
  <2>1. thread[a].pc = "superseding" /\ Save(Of(a), "blocked", "superseded") /\ Goto(a, "done")
        /\ pass' = pass /\ row' = row
    BY <1>5 DEF SupersedeFromThread, At, OwnWrite, ledgerVars
  <2>2. Runs(a) /\ ThreadInv(a) /\ Of(a) \in BoardTasks
    BY <2>1, ThreadFacts
  <2>3. PICK t \in BoardTasks : t = Of(a)
    BY <2>2
  <2>4. PICK q \in Passes : q = thread[a].pass
    BY <2>2 DEF ThreadInv
  <2>5. thread'[a].pc = "done" /\ \A b \in AttemptIds \ {a} : thread'[b] = thread[b]
    BY <1>0, <2>1, GotoSteps DEF ThreadPcs
  <2>6. \A b \in AttemptIds : Runs(b)' /\ Of(b)' = t => b = a
    BY <2>1, <2>2, <2>3, <2>5 DEF ThreadInv, Runs, Of
  <2>7. Kind[t] = "packet" /\ Visited(q, t)' /\ pass'[q].board[t].state = "ready"
    BY <2>1, <2>2, <2>3, <2>4 DEF ThreadInv, Visited
  <2>8. ClosedHere(q, t)'
    BY <2>5, <2>6, <2>7 DEF ClosedHere
  <2>9. StaysClosed /\ \A u \in BoardTasks \ {t} : Superseded(file'[u]) => Superseded(file[u])
    BY <1>0, <2>1, <2>3, SaveCloses
  <2>10. Known
    BY <2>8, <2>9 DEF Known, OnePass
  <2> QED BY <1>5, <2>9, <2>10
<1>6. CASE FailoverFromThread(a)
  <2>1. Of(a) \in BoardTasks
    BY <1>6, <1>f DEF FailoverFromThread, At
  <2>2. file' = file \/ \E s \in BoardTasks : WriteSuccessor(Of(a), s)
    BY <1>6 DEF FailoverFromThread, boardVars
  <2> QED BY <1>0, <1>1, <1>3, <2>1, <2>2, SuccessorKeeps, FreshStays
<1>7. CASE CreateReview(a)
  <2>1. Of(a) \in BoardTasks /\ Kind[Of(a)] = "work"
    BY <1>7, <1>f DEF CreateReview, At, ThreadInv
  <2>2. ReviewOf[Of(a)] \in BoardTasks
    BY <2>1, ReviewAssumption
  <2>3. \/ file' = file
        \/ /\ file[ReviewOf[Of(a)]].state = "absent"
           /\ file'[ReviewOf[Of(a)]].state = "ready"
           /\ \A u \in BoardTasks \ {ReviewOf[Of(a)]} : file'[u] = file[u]
    BY <1>0, <1>7, <2>2, FreshTyped DEF CreateReview, BoardTypeOK
  <2> QED BY <1>0, <1>1, <1>3, <2>2, <2>3, FreshStays
<1>8. CASE SettleAccepted(a)
  <2>1. thread[a].pc = "accepting"
    BY <1>8 DEF SettleAccepted, At
  <2>2. PICK w \in Sources(Of(a)) : Save(w, "accepted", "none")
    BY <1>8 DEF SettleAccepted
  <2>3. w \in BoardTasks /\ ~Superseded(file[w])
    BY <2>1, <2>2 DEF Sources, ClosureInv
  <2> QED BY <1>0, <1>1, <2>2, <2>3, SaveStays DEF FileStates
<1>9. CASE PropagateRejection(a)
  <2>1. thread[a].pc = "rejected"
    BY <1>9 DEF PropagateRejection, At
  <2>2. ThreadInv(a) /\ Of(a) \in BoardTasks
    BY <1>f, <2>1
  <2>3. ASSUME NEW t \in Sources(Of(a)), Save(t, "blocked", "rejected"),
               pass[thread[a].pass].board[t].state = "review_pending"
        PROVE  StaysClosed /\ StaysOpen
    <3>1. t \in BoardTasks /\ Kind[t] = "work"
      BY <1>0, <2>2, <2>3, SourcesUnique DEF ClosureInv
    <3>2. ~Superseded(file[t])
      BY <2>2, <2>3, <3>1 DEF ThreadInv, ClosureInv, ClosedHere, Superseded
    <3> QED BY <1>0, <2>3, <3>1, <3>2, SaveStays DEF FileStates
  <2> QED BY <1>1, <1>3, <1>9, <2>3 DEF PropagateRejection
<1> QED BY <1>3, <1>4, <1>5, <1>6, <1>7, <1>8, <1>9
    DEF ThreadStep, StartAttempt, Completes, Fails, FinishRefused, ThreadFails, Judge, WriteLink,
        AcceptSource, OwnStep, boardVars

\* A thread writes the link of its own task, which no other link shares its review with.
LEMMA WriteLinkKeeps ==
  ASSUME StructInv, LinkInv, NEW a \in AttemptIds, WriteLink(a)
  PROVE  /\ LinkInv' /\ Kind[Of(a)] = "work" /\ Of(a) \in BoardTasks
         /\ link'[Of(a)].attempt = a /\ link'[Of(a)].review = ReviewOf[Of(a)]
         /\ \A t \in BoardTasks \ {Of(a)} : link'[t] = link[t]
<1>0. BoardTypeOK
  BY DEF StructInv
<1>1. /\ thread[a].pc = "linking" /\ file' = file
      /\ link' = [link EXCEPT ![Of(a)] = [attempt |-> a, review |-> ReviewOf[Of(a)]]]
  BY DEF WriteLink, At
<1>2. Kind[Of(a)] = "work" /\ Of(a) \in BoardTasks
  BY <1>1, ThreadFacts DEF ThreadInv
<1>3. PICK t \in BoardTasks : t = Of(a)
  BY <1>2
<1>4. /\ link'[t].attempt = a /\ link'[t].review = ReviewOf[t]
      /\ \A u \in BoardTasks \ {t} : link'[u] = link[u]
  BY <1>0, <1>1, <1>3 DEF BoardTypeOK
<1>5. ReviewOf[t] \in Range(ReviewOf)
  BY <1>2, <1>3, ReviewAssumption DEF Range
<1>6. \A u \in BoardTasks \ {t} : link[u] # NoLink => link[u].review # ReviewOf[t]
  BY <1>2, <1>3, <1>5, ReviewAssumption DEF LinkInv, IsInjective
<1>7. \A u \in BoardTasks : link'[u] # NoLink =>
        /\ Kind[u] = "work" /\ link'[u].attempt \in AttemptIds
        /\ \/ link'[u].review = ReviewOf[u]
           \/ /\ link'[u].review \in BoardTasks \ Range(ReviewOf)
              /\ file'[link'[u].review].state # "absent"
  BY <1>1, <1>2, <1>3, <1>4 DEF LinkInv
<1>8. ASSUME NEW u \in BoardTasks, NEW v \in BoardTasks, link'[u] # NoLink, link'[v] # NoLink,
             link'[u].review = link'[v].review
      PROVE  u = v
  BY <1>4, <1>6, <1>8 DEF LinkInv
<1>9. LinkInv'
  BY <1>7, <1>8 DEF LinkInv
<1> QED BY <1>2, <1>3, <1>4, <1>9

\* A retry moves the one link that names the old review to the new one.
LEMMA RetryLinkKeeps ==
  ASSUME StructInv, LinkInv, NEW t \in BoardTasks, NEW s \in BoardTasks, Retry(t, s)
  PROVE  LinkInv'
<1>0. BoardTypeOK
  BY DEF StructInv
<1>1. /\ link' = [w \in BoardTasks |-> IF Kind[t] = "review" /\ w \in Sources(t)
                                       THEN [link[w] EXCEPT !.review = s] ELSE link[w]]
      /\ file[s].state = "absent" /\ s \notin Range(ReviewOf)
  BY DEF Retry, NextRetryId
<1>2. FilesKept /\ file'[s].state # "absent"
  BY <1>0, RetryKeeps
<1>3. ASSUME NEW w \in BoardTasks
      PROVE  \/ link'[w] = link[w]
             \/ /\ w \in Sources(t) /\ link'[w].review = s
                /\ link'[w].attempt = link[w].attempt
  BY <1>0, <1>1 DEF BoardTypeOK, LinkRow
<1>4. \A w \in Sources(t) : w \in BoardTasks /\ Kind[w] = "work" /\ link[w] # NoLink
  BY <1>0, SourcesUnique
<1>5. \A w, u \in Sources(t) : w = u
  BY <1>0, SourcesUnique
<1>6. \A w \in BoardTasks : link[w] # NoLink => link[w].review # s
  BY <1>1, ReviewAssumption DEF LinkInv, Range
<1>7. ASSUME NEW w \in BoardTasks, link'[w] # NoLink
      PROVE  /\ Kind[w] = "work" /\ link'[w].attempt \in AttemptIds /\ link[w] # NoLink
             /\ \/ link'[w].review = ReviewOf[w]
                \/ /\ link'[w].review \in BoardTasks \ Range(ReviewOf)
                   /\ file'[link'[w].review].state # "absent"
  <2>1. CASE link'[w] = link[w]
    BY <1>2, <1>7, <2>1 DEF LinkInv, FilesKept
  <2>2. CASE w \in Sources(t) /\ link'[w].review = s /\ link'[w].attempt = link[w].attempt
    BY <1>1, <1>2, <1>4, <2>2 DEF LinkInv
  <2> QED BY <1>3, <2>1, <2>2
<1>8. ASSUME NEW u \in BoardTasks, NEW v \in BoardTasks, link'[u] # NoLink, link'[v] # NoLink,
             link'[u].review = link'[v].review
      PROVE  u = v
  <2>1. link[u] # NoLink /\ link[v] # NoLink
    BY <1>7, <1>8
  <2>2. CASE link'[u] = link[u] /\ link'[v] = link[v]
    BY <1>8, <2>1, <2>2 DEF LinkInv
  <2>3. CASE u \in Sources(t) /\ v \in Sources(t)
    BY <1>5, <2>3
  <2>4. CASE link'[u].review = s /\ link'[v] = link[v]
    BY <1>6, <1>8, <2>1, <2>4
  <2>5. CASE link'[v].review = s /\ link'[u] = link[u]
    BY <1>6, <1>8, <2>1, <2>5
  <2> QED BY <1>3, <2>2, <2>3, <2>4, <2>5
<1> QED BY <1>7, <1>8 DEF LinkInv

LEMMA LinkSteps ==
  ASSUME StructInv, LinkInv, OnePass, [Next]_vars
  PROVE  LinkInv'
<1>0. FilesKept
  BY StepStruct
<1>1. CASE link' = link
  BY <1>0, <1>1 DEF LinkInv, FilesKept
<1>2. CASE \E a \in AttemptIds : WriteLink(a)
  BY <1>2, WriteLinkKeeps
<1>3. CASE \E t, s \in BoardTasks : Retry(t, s)
  BY <1>3, RetryLinkKeeps
<1>4. ASSUME NEW q \in Passes, PassStep(q) \/ Crash(q)
      PROVE  link' = link
  BY <1>4 DEF PassStep, BeginPass, SkipTask, FailoverFromLoop, WriteSuccessor, SupersedeFromLoop,
     RequeueDead, NotRouted, Collides, AwaitVictim, VictimJoined, MarkDispatched, Admit, StartPacket,
     AdmitRefused, EndLoop, RaiseError, LandPacket, EndPass, Crash, PassGone, boardVars
<1>5. ASSUME NEW a \in AttemptIds, ThreadStep(a), ~WriteLink(a)
      PROVE  link' = link
  BY <1>5 DEF ThreadStep, StartAttempt, Completes, Fails, FinishRefused, ThreadFails,
     SettleRefused, SettleHeld, FailoverFromThread, WriteSuccessor, SupersedeFromThread,
     SettlePacket, Judge, SettleFailed, CreateReview, SettleReviewPending, AcceptSource,
     SettleAccepted, SettleReview, PropagateRejection, OwnStep, OwnWrite, boardVars
<1>6. ASSUME NEW a \in AttemptIds, ResolveHeld(a) \/ HoldAbandoned(a)
      PROVE  link' = link
  BY <1>6 DEF ResolveHeld, HoldAbandoned, boardVars
<1> QED BY <1>1, <1>2, <1>3, <1>4, <1>5, <1>6 DEF Next, OperatorStep, vars

\* A new link is the only way for a task to become the source of a review.
LEMMA NewSource ==
  ASSUME StructInv, LinkInv, NEW a \in AttemptIds, WriteLink(a), NEW r \in BoardTasks,
         NEW t \in BoardTasks, t \in Sources(r)', t # Of(a)
  PROVE  t \in Sources(r)
<1>0. BoardTypeOK
  BY DEF StructInv
<1>1. \A u \in BoardTasks \ {Of(a)} : link'[u] = link[u]
  BY WriteLinkKeeps
<1>2. NoLink.review # r
  BY SentinelAssumption DEF NoLink
<1>3. CASE link'[t].review = r
  BY <1>1, <1>3 DEF Sources
<1>4. CASE /\ {u \in BoardTasks : link'[u].review = r} = {}
           /\ Kind[t] = "work" /\ ReviewOf[t] = r /\ link'[t] # NoLink
  <2>1. ASSUME NEW u \in BoardTasks, link[u].review = r PROVE FALSE
    <3>1. u = Of(a)
      BY <1>1, <1>4, <2>1
    <3>2. r \in Range(ReviewOf)
      BY <1>4, ReviewAssumption DEF Range
    <3>3. link[u] # NoLink
      BY <1>2, <2>1
    <3>4. Kind[u] = "work" /\ ReviewOf[u] = r
      BY <2>1, <3>2, <3>3 DEF LinkInv
    <3> QED BY <1>4, <3>1, <3>4, ReviewAssumption DEF IsInjective
  <2> QED BY <1>1, <1>4, <2>1 DEF Sources
<1> QED BY <1>3, <1>4 DEF Sources

\* While a review is being accepted, its source stays open.
LEMMA AcceptingStays ==
  ASSUME StructInv, StructInv', ClosureInv, LinkInv', OnePass, Progress, Known,
         NEW a \in AttemptIds, thread'[a].pc = "accepting",
         NEW r \in BoardTasks, r = Of(a)', NEW t \in BoardTasks, t \in Sources(r)',
         ~Superseded(file[t])
  PROVE  ~Superseded(file'[t])
<1>1. NoLink.review # r
  BY SentinelAssumption DEF NoLink
<1>2. link'[t] # NoLink
  BY <1>1 DEF Sources
<1>3. Kind[t] = "work"
  BY <1>2 DEF LinkInv
<1>4. Runs(a)'
  BY DEF Runs
<1>5. Runs(a)
  BY <1>4 DEF Progress
<1>6. thread[a].pass \in Passes /\ pass[thread[a].pass].pc # "idle"
  BY <1>5 DEF StructInv, ThreadInv
<1>7. thread'[a].pass \in Passes /\ pass'[thread'[a].pass].pc # "idle"
  BY <1>4 DEF StructInv, ThreadInv
<1>8. \A q \in Passes : pass[q].pc # "idle" /\ pass'[q].pc # "idle"
  BY <1>6, <1>7 DEF OnePass
<1>9. \A q \in Passes : ~ClosedHere(q, t)'
  BY <1>3 DEF ClosedHere
<1> QED BY <1>6, <1>8, <1>9 DEF Known

LEMMA StepClosure ==
  ASSUME StructInv, ClosureInv, OnePass, ~RetryDuringPass, [Next]_vars
  PROVE  ClosureInv' /\ StaysClosed
<1>0. BoardTypeOK /\ LinkInv
  BY DEF StructInv, ClosureInv
<1>1. StructInv' /\ Progress /\ FilesKept /\ LinkInv'
  BY <1>0, StepStruct, LinkSteps
<1>2. ASSUME NEW q \in Passes, PassStep(q) \/ Crash(q)
      PROVE  ClosureInv' /\ StaysClosed
  <2>1. StaysClosed /\ Known /\ link' = link
    BY <1>2, PassCloses
  <2>2. ASSUME NEW a \in AttemptIds, thread'[a].pc = "accepting", NEW t \in Sources(Of(a))'
        PROVE  ~Superseded(file'[t])
    <3>1. thread[a].pc = "accepting"
      BY <1>2, <2>2, PassThreads
    <3>2. Of(a)' = Of(a) /\ Of(a) \in BoardTasks
      BY <1>1, <2>2, <3>1, ThreadFacts DEF Progress, Runs
    <3>3. PICK r \in BoardTasks : r = Of(a)
      BY <3>2
    <3>4. t \in Sources(r)' /\ Sources(r)' = Sources(r) /\ t \in BoardTasks
      BY <2>1, <2>2, <3>2, <3>3 DEF Sources
    <3>5. ~Superseded(file[t])
      BY <3>1, <3>3, <3>4 DEF ClosureInv
    <3> QED BY <1>1, <2>1, <2>2, <3>2, <3>3, <3>4, <3>5, AcceptingStays
  <2> QED BY <1>1, <2>1, <2>2, StaysKnown DEF ClosureInv
<1>3. ASSUME NEW a \in AttemptIds, ThreadStep(a)
      PROVE  ClosureInv' /\ StaysClosed
  <2>1. StaysClosed /\ Known /\ (~SupersedeFromThread(a) => StaysOpen)
    BY <1>3, ThreadCloses
  <2>2. ASSUME NEW b \in AttemptIds, thread'[b].pc = "accepting", NEW t \in Sources(Of(b))'
        PROVE  ~Superseded(file'[t])
    <3>r. Of(b)' = Of(b) /\ Of(b) \in BoardTasks /\ t \in BoardTasks
      <4>1. Runs(b)' /\ Runs(b) /\ Of(b)' = Of(b)
        BY <1>1, <2>2 DEF Progress, Runs
      <4>2. Of(b) \in BoardTasks
        BY <4>1 DEF StructInv, ThreadInv
      <4> QED BY <2>2, <4>1, <4>2 DEF Sources
    <3>q. PICK r \in BoardTasks : r = Of(b)
      BY <3>r
    <3>1. CASE thread[b].pc = "accepting"
      <4>1. CASE t \in Sources(r)
        <5>1. ~Superseded(file[t])
          BY <3>1, <3>q, <4>1 DEF ClosureInv
        <5> QED BY <1>1, <2>1, <2>2, <3>r, <3>q, <5>1, AcceptingStays
      <4>2. CASE t \notin Sources(r)
        <5>1. link' # link
          BY <2>2, <3>r, <3>q, <4>2 DEF Sources
        <5>2. WriteLink(a)
          BY <1>3, <5>1 DEF ThreadStep, StartAttempt, Completes, Fails, FinishRefused, ThreadFails,
     SettleRefused, SettleHeld, FailoverFromThread, WriteSuccessor, SupersedeFromThread,
     SettlePacket, Judge, SettleFailed, CreateReview, SettleReviewPending, AcceptSource,
     SettleAccepted, SettleReview, PropagateRejection, OwnStep, OwnWrite, boardVars
        <5>3. t = Of(a)
          BY <1>0, <2>2, <3>r, <3>q, <4>2, <5>2, NewSource
        <5>4. thread[a].pc = "linking"
          BY <5>2 DEF WriteLink, At
        <5>5. ~Superseded(file[t])
          BY <5>3, <5>4, OwnOpen
        <5> QED BY <1>1, <2>1, <2>2, <3>r, <3>q, <5>5, AcceptingStays
      <4> QED BY <4>1, <4>2
    <3>2. CASE thread[b].pc # "accepting"
      <4>1. AcceptSource(b)
        <5>1. thread'[b] # thread[b]
          BY <2>2, <3>2
        <5>2. \A pc \in ThreadPcs, c \in AttemptIds : Goto(c, pc) => (c = b /\ pc = "accepting")
          <6>1. ASSUME NEW pc \in ThreadPcs, NEW c \in AttemptIds, Goto(c, pc)
                PROVE  c = b /\ pc = "accepting"
            BY <1>0, <2>2, <5>1, <6>1, GotoSteps
          <6> QED BY <6>1
        <5>3. {"running", "unfinished", "completed", "refused", "error", "done", "failover",
               "superseding", "staging", "failing", "approved", "rejected", "linking",
               "settling", "accepting", "passing"} \subseteq ThreadPcs
          BY DEF ThreadPcs
        <5>4. AcceptSource(a)
          BY <1>3, <5>2, <5>3 DEF ThreadStep, StartAttempt, Completes, Fails, FinishRefused,
     ThreadFails, SettleRefused, SettleHeld, FailoverFromThread, SupersedeFromThread,
     SettlePacket, Judge, SettleFailed, CreateReview, WriteLink, SettleReviewPending,
     SettleAccepted, SettleReview, PropagateRejection
        <5> QED BY <5>2, <5>3, <5>4 DEF AcceptSource
      <4>2. link' = link /\ file' = file
        BY <4>1 DEF AcceptSource, boardVars
      <4>3. Goto(b, "accepting") \/ Goto(b, "passing")
        BY <4>1 DEF AcceptSource
      <4>4. ~Goto(b, "passing")
        BY <1>0, <2>2, GotoSteps DEF ThreadPcs
      <4>5. PICK w \in Sources(r) : Acceptable(w)
        BY <3>q, <4>1, <4>3, <4>4 DEF AcceptSource
      <4>6. t \in Sources(r)
        BY <2>2, <3>r, <3>q, <4>2 DEF Sources
      <4>7. w = t
        BY <1>0, <4>5, <4>6, SourcesUnique
      <4> QED BY <4>2, <4>5, <4>7 DEF Acceptable
    <3> QED BY <3>1, <3>2
  <2> QED BY <1>1, <2>1, <2>2, StaysKnown DEF ClosureInv
<1>4. ASSUME OperatorStep PROVE ClosureInv' /\ StaysClosed
  <2>1. pass' = pass /\ thread' = thread
    BY <1>4 DEF OperatorStep, ResolveHeld, HoldAbandoned, Retry, runnerVars
  <2>2. ASSUME NEW t \in BoardTasks, NEW s \in BoardTasks, Retry(t, s)
        PROVE  ClosureInv' /\ StaysClosed
    <3>1. \A q \in Passes : pass[q].pc = "idle"
      BY <2>2 DEF Retry
    <3>2. \A a \in AttemptIds : thread'[a].pc # "accepting"
      BY <2>1, <3>1 DEF StructInv, ThreadInv, Runs
    <3>3. StaysClosed
      <4>1. /\ file[s].state = "absent" /\ Superseded(file'[t])
            /\ \A u \in BoardTasks \ {s, t} : file'[u] = file[u]
        BY <1>0, <2>2, RetryKeeps
      <4> QED BY <4>1 DEF StaysClosed, Superseded
    <3> QED BY <1>1, <2>1, <3>1, <3>2, <3>3 DEF ClosureInv
  <2>3. ASSUME NEW a \in AttemptIds, ResolveHeld(a) \/ HoldAbandoned(a)
        PROVE  ClosureInv' /\ StaysClosed
    <3>1. file' = file /\ link' = link
      BY <2>3 DEF ResolveHeld, HoldAbandoned, boardVars
    <3>2. Known /\ StaysClosed
      BY <3>1, SameStays DEF Known
    <3>3. ASSUME NEW b \in AttemptIds, thread'[b].pc = "accepting", NEW t \in Sources(Of(b))'
          PROVE  ~Superseded(file'[t])
      <4>1. Of(b)' = Of(b)
        BY <1>1, <2>1, <3>3 DEF Progress, Runs
      <4>2. t \in Sources(Of(b))
        BY <3>1, <3>3, <4>1 DEF Sources
      <4> QED BY <2>1, <3>1, <3>3, <4>2 DEF ClosureInv
    <3> QED BY <1>1, <3>2, <3>3, StaysKnown DEF ClosureInv
  <2> QED BY <1>4, <2>2, <2>3 DEF OperatorStep
<1>5. CASE UNCHANGED vars
  <2>1. file' = file /\ link' = link /\ pass' = pass /\ thread' = thread /\ row' = row
    BY <1>5 DEF vars
  <2>2. \A t \in BoardTasks : Sources(t)' = Sources(t)
    BY <2>1 DEF Sources
  <2>3. ASSUME NEW b \in AttemptIds, thread'[b].pc = "accepting", NEW t \in Sources(Of(b))'
        PROVE  ~Superseded(file'[t])
    <3>1. t \in Sources(Of(b))
      BY <2>1, <2>3 DEF Sources, Of
    <3> QED BY <2>1, <2>3, <3>1 DEF ClosureInv
  <2>4. Known /\ StaysClosed
    BY <2>1, SameStays DEF Known
  <2> QED BY <1>1, <2>3, <2>4, StaysKnown DEF ClosureInv
<1> QED BY <1>2, <1>3, <1>4, <1>5 DEF Next

\* Once a retry or a failover closed a task file it stays closed, although passes write
\* from the board as they read it, threads settle late and reviews come after: as long as
\* passes do not overlap and no task is retried under a living pass.
THEOREM ClosedForGood ==
  OnePass /\ ~RetryDuringPass => (Spec => SupersededStays)
<1> SUFFICES ASSUME OnePass, ~RetryDuringPass PROVE Spec => SupersededStays
  OBVIOUS
<1>1. Init => StructInv /\ ClosureInv
  <2>1. Init => ClosureInv
    BY FreshTyped DEF Init, ClosureInv, LinkInv, NoThread, IdlePass
  <2> QED BY <2>1, InitStruct
<1>2. StructInv /\ ClosureInv /\ [Next]_vars => (StructInv /\ ClosureInv)'
  BY StepStruct, StepClosure
<1>3. StructInv /\ ClosureInv /\ [Next]_vars =>
        [\A t \in BoardTasks : Superseded(file[t]) => Superseded(file'[t])]_vars
  BY StepClosure DEF StaysClosed
<1> QED BY <1>1, <1>2, <1>3, PTL DEF Spec, SupersededStays
-----------------------------------------------------------------------------
(* One attempt of a task in flight *)

LEMMA ExposedFixed == Exposed' = Exposed
BY DEF Exposed

\* No attempt of a task becomes open.
NoneOpens == \A t \in BoardTasks : NoneOpen(t) => NoneOpen(t)'

LEMMA SameFlight ==
  ASSUME FlightInv, row' = row, earlier' = earlier
  PROVE  LedgerFlight' /\ NoneOpens
BY DEF FlightInv, LedgerFlight, NoneOpens, NoneOpen, Open, Finished

LEMMA LatestFacts ==
  ASSUME BoardTypeOK, NEW a \in AttemptIds, Latest(a)
  PROVE  /\ earlier'[a] = {c \in AttemptIds \ {a} : row[c].state # "absent"}
         /\ \A b \in AttemptIds \ {a} : earlier'[b] = earlier[b] \ {a}
BY DEF Latest, BoardTypeOK

\* An open attempt moves on; when it finishes it is the newest of its task.
LEMMA MoveFlight ==
  ASSUME StructInv, FlightInv, NEW a \in AttemptIds, NEW s \in RowStates \ {"absent"},
         row' = [row EXCEPT ![a].state = s], Open(a),
         Latest(a) \/ earlier' = earlier,
         s \in {"completed", "accepted"} =>
           \/ Latest(a) /\ row[a].of \in BoardTasks
           \/ earlier' = earlier /\ Finished(a)
  PROVE  LedgerFlight' /\ NoneOpens
<1>0. BoardTypeOK
  BY DEF StructInv
<1>1. /\ row'[a].state = s /\ \A b \in AttemptIds : row'[b].of = row[b].of
      /\ \A b \in AttemptIds \ {a} : row'[b] = row[b]
  BY <1>0, RowSteps
<1>2. \A b \in AttemptIds : Open(b)' => Open(b)
  BY <1>1 DEF Open, Finished
<1>3. \A b, c \in AttemptIds :
        Open(b)' /\ Open(c)' /\ row'[b].of = row'[c].of /\ row'[b].of \notin Exposed => b = c
  BY <1>1, <1>2 DEF FlightInv, LedgerFlight
<1>4. \A b, c \in AttemptIds : c \in earlier'[b] => b \notin earlier'[c]
  <2>1. CASE earlier' = earlier
    BY <2>1 DEF FlightInv, LedgerFlight
  <2>2. CASE Latest(a)
    <3>1. \A b \in AttemptIds : a \notin earlier'[b]
      BY <1>0, <2>2, LatestFacts
    <3>2. \A b, c \in AttemptIds \ {a} : c \in earlier'[b] => c \in earlier[b]
      BY <1>0, <2>2, LatestFacts
    <3> QED BY <3>1, <3>2 DEF FlightInv, LedgerFlight
  <2> QED BY <2>1, <2>2
<1>5. ASSUME NEW b \in AttemptIds, Finished(b)', NEW c \in AttemptIds \ {b},
             row'[c].of = row'[b].of, row'[b].of \notin Exposed
      PROVE  c \in earlier'[b]
  <2>1. row[c].of = row[b].of /\ row[b].of \notin Exposed
    BY <1>1, <1>5
  <2>2. CASE b = a /\ Latest(a) /\ row[a].of \in BoardTasks
    <3>1. row[c].state # "absent"
      BY <2>1, <2>2, SentinelAssumption DEF StructInv
    <3> QED BY <1>0, <1>5, <2>2, <3>1, LatestFacts
  <2>3. CASE b = a /\ earlier' = earlier /\ Finished(a)
    BY <1>5, <2>1, <2>3 DEF FlightInv, LedgerFlight
  <2>4. CASE b # a
    <3>1. Finished(b) /\ Open(b)
      BY <1>1, <1>5, <2>4 DEF Finished, Open
    <3>2. c \in earlier[b]
      BY <1>5, <2>1, <3>1 DEF FlightInv, LedgerFlight
    <3>3. c # a
      BY <2>1, <2>4, <3>1 DEF FlightInv, LedgerFlight
    <3> QED BY <1>0, <2>4, <3>2, <3>3, LatestFacts
  <2>5. s \in {"completed", "accepted"} \/ b # a
    BY <1>1, <1>5 DEF Finished
  <2> QED BY <2>2, <2>3, <2>4, <2>5
<1>6. NoneOpens
  BY <1>1, <1>2 DEF NoneOpens, NoneOpen
<1> QED BY <1>3, <1>4, <1>5, <1>6, ExposedFixed DEF LedgerFlight

\* What a step that admits nothing must show.
LEMMA FlightKept ==
  ASSUME StructInv, OnePass, FlightInv, Progress, LedgerFlight', NoneOpens,
         \A a \in AttemptIds : Runs(a)' => RowOfThread(a)',
         \A t \in BoardTasks \ Exposed : file'[t].state \in {"ready", "absent"} => NoneOpen(t),
         \A q \in Passes : pass'[q].pc \in {"marked", "starting"} =>
           Task(q)' \in Exposed \/ file'[Task(q)'].state \notin {"ready", "absent"},
         \A q \in Passes : pass[q].pc = "starting" =>
           pass'[q] = pass[q] \/ pass'[q].pc = "idle" \/ StepsOn(q)
  PROVE  FlightInv'
<1>1. \A t \in BoardTasks \ Exposed : file'[t].state \in {"ready", "absent"} => NoneOpen(t)'
  BY DEF NoneOpens
<1>2. ASSUME NEW q \in Passes, pass'[q].pc # "idle", NEW t \in BoardTasks \ Exposed,
             pass'[q].board[t].state = "ready", ~Visited(q, t)',
             ~(pass'[q].pc = "starting" /\ t = Task(q)')
      PROVE  NoneOpen(t)'
  <2>1. CASE pass[q].pc = "idle"
    BY <1>1, <1>2, <2>1 DEF Progress
  <2>2. CASE pass[q].pc # "idle"
    <3>1. pass[q].board[t].state = "ready" /\ ~Visited(q, t)
      BY <1>2, <2>2 DEF Progress
    <3>2. ~(pass[q].pc = "starting" /\ t = Task(q))
      <4>1. CASE pass[q].pc = "starting" /\ pass'[q] = pass[q]
        BY <1>2, <4>1 DEF Task
      <4>2. CASE pass[q].pc = "starting" /\ StepsOn(q)
        BY <1>2, <4>2 DEF StepsOn
      <4> QED BY <1>2, <4>1, <4>2
    <3> QED BY <2>2, <3>1, <3>2 DEF FlightInv, NoneOpens
  <2> QED BY <2>1, <2>2
<1> QED BY <1>1, <1>2, ExposedFixed DEF FlightInv

\* No task file is opened or disappears.
NotReopened ==
  \A t \in BoardTasks \ Exposed : file'[t].state \in {"ready", "absent"} => file[t].state \in {"ready", "absent"}

\* Files and the ledger change, but no pass moves.
LEMMA StillFlight ==
  ASSUME StructInv, OnePass, FlightInv, Progress, LedgerFlight', NoneOpens,
         \A a \in AttemptIds : Runs(a)' => RowOfThread(a)',
         NotReopened, pass' = pass
  PROVE  FlightInv'
<1>1. \A t \in BoardTasks \ Exposed : file'[t].state \in {"ready", "absent"} => NoneOpen(t)
  BY DEF FlightInv, NotReopened
<1>2. ASSUME NEW q \in Passes, pass'[q].pc \in {"marked", "starting"}
      PROVE  Task(q)' \in Exposed \/ file'[Task(q)'].state \notin {"ready", "absent"}
  <2>1. Task(q)' = Task(q) /\ Task(q) \in BoardTasks
    <3>1. pass[q].next <= Len(Order)
      BY <1>2 DEF StructInv, LoopInv
    <3> QED BY <3>1, TaskFacts DEF Task, StructInv
  <2> QED BY <1>2, <2>1 DEF FlightInv, NotReopened
<1> QED BY <1>1, <1>2, FlightKept

\* The ledger stands still and so do the threads, but for those that end.
LEMMA SameThreads ==
  ASSUME FlightInv, row' = row,
         \A a \in AttemptIds : thread'[a] = thread[a] \/ ~Runs(a)'
  PROVE  \A a \in AttemptIds : Runs(a)' => RowOfThread(a)'
BY ExposedFixed DEF FlightInv, Runs, RowOfThread, Finished

\* A task is requeued over its newest attempt only when no attempt of it is open: a finished
\* one would be the newest.
LEMMA DeadNoneOpen ==
  ASSUME StructInv, FlightInv, NEW t \in BoardTasks \ Exposed, Dead(t)
  PROVE  NoneOpen(t)
<1>1. \A a \in AttemptIds : row[a].of = t => row[a].state \notin ACTIVE
  BY DEF Dead, Rows, ActiveRows
<1>2. ASSUME NEW a \in AttemptIds, row[a].of = t, Finished(a)
      PROVE  FALSE
  <2> DEFINE P(n) == n \in Rows(t) /\ Rows(t) \ {n} \subseteq earlier[n]
  <2>1. P(a)
    BY <1>2 DEF FlightInv, LedgerFlight, Rows
  <2>2. P(Newest(t))
    BY <2>1 DEF Newest
  <2>3. Newest(t) \in AttemptIds /\ row[Newest(t)].of = t
        /\ row[Newest(t)].state \in {"failed", "abandoned"}
    BY <2>2 DEF Dead, Rows
  <2>4. Newest(t) # a
    BY <1>2, <2>3 DEF Finished
  <2>5. a \in earlier[Newest(t)] /\ Newest(t) \in earlier[a]
    BY <1>2, <2>1, <2>2, <2>3, <2>4 DEF Rows
  <2> QED BY <2>3, <2>5 DEF FlightInv, LedgerFlight
<1> QED BY <1>1, <1>2 DEF NoneOpen, Open

LEMMA SaveReopens ==
  ASSUME BoardTypeOK, NEW t \in BoardTasks, NEW s \in FileStates \ {"absent"},
         NEW x \in {"none", "superseded", "held", "exhausted", "failed", "rejected"},
         Save(t, s, x)
  PROVE  /\ s # "ready" => NotReopened
         /\ \A u \in BoardTasks : file'[u].state \in {"ready", "absent"} =>
              (u = t /\ s = "ready") \/ file[u].state \in {"ready", "absent"}
         /\ t \in Exposed => NotReopened
         /\ file'[t].state = s
BY SaveSteps DEF NotReopened

LEMMA FreshReopens ==
  ASSUME NEW s \in BoardTasks, file[s].state = "absent",
         \A u \in BoardTasks \ {s} : file'[u] = file[u]
  PROVE  NotReopened
BY DEF NotReopened

\* Where the loop goes.
LEMMA LoopGoes ==
  ASSUME StructInv, OnePass, NEW q \in Passes, PassStep(q) \/ Crash(q)
  PROVE  \/ MarkDispatched(q) \/ Admit(q) \/ StartPacket(q)
         \/ \A r \in Passes : /\ pass'[r].pc \notin {"marked", "starting"}
                              /\ pass[r].pc # "starting" \/ pass'[r].pc = "idle"
<1>0. BoardTypeOK /\ LoopInv(q) /\ \A r \in Passes : r = q
  BY DEF StructInv, OnePass
<1>1. CASE \/ SkipTask(q) \/ SupersedeFromLoop(q) \/ RequeueDead(q) \/ NotRouted(q) \/ Collides(q)
           \/ AdmitRefused(q)
  <2>1. Onward(q) /\ pass[q].next <= Len(Order) /\ pass[q].pc # "starting"
    BY <1>0, <1>1 DEF SkipTask, SupersedeFromLoop, RequeueDead, NotRouted, Collides, AdmitRefused,
       InLoop, LoopInv
  <2>2. StepsOn(q)
    BY <1>0, <2>1, OnwardSteps
  <2> QED BY <1>0, <2>1, <2>2 DEF StepsOn
<1>2. CASE FailoverFromLoop(q)
  <2>1. pass[q].pc = "loop" /\ pass[q].next <= Len(Order)
    BY <1>2 DEF FailoverFromLoop, InLoop
  <2>2. CASE Onward(q)
    <3>1. StepsOn(q)
      BY <1>0, <2>1, <2>2, OnwardSteps
    <3> QED BY <1>0, <2>1, <3>1 DEF StepsOn
  <2>3. CASE pass' = [pass EXCEPT ![q].pc = "superseding"]
    <3>1. StepsTo(q, "superseding")
      BY <1>0, <2>3, PcSteps
    <3> QED BY <1>0, <2>1, <3>1 DEF StepsTo
  <2> QED BY <1>2, <2>2, <2>3 DEF FailoverFromLoop
<1>3. CASE AwaitVictim(q) \/ VictimJoined(q)
  <2>1. pass[q].pc # "starting"
    BY <1>3 DEF AwaitVictim, VictimJoined, InLoop
  <2>2. \E pc \in {"loop", "waiting"}, a \in AttemptIds \cup {NoAttempt} :
          pass' = [pass EXCEPT ![q].pc = pc, ![q].attempt = a]
    BY <1>3 DEF AwaitVictim, VictimJoined, Mine
  <2>3. pass'[q].pc \in {"loop", "waiting"}
    BY <1>0, <2>2 DEF BoardTypeOK, PassRow
  <2> QED BY <1>0, <2>1, <2>3
<1>4. CASE EndLoop(q)
  <2>1. StepsTo(q, "landing")
    BY <1>0, <1>4, PcSteps DEF EndLoop
  <2> QED BY <1>0, <1>4, <2>1 DEF StepsTo, EndLoop
<1>5. CASE EndPass(q) \/ RaiseError(q) \/ Crash(q)
  <2>1. pass' = [pass EXCEPT ![q] = IdlePass]
    BY <1>5 DEF EndPass, RaiseError, Crash, PassGone
  <2>2. pass'[q].pc = "idle"
    BY <1>0, <2>1 DEF BoardTypeOK, IdlePass
  <2> QED BY <1>0, <2>2
<1>6. CASE BeginPass(q)
  <2>1. pass' = [pass EXCEPT ![q] = [IdlePass EXCEPT !.pc = "loop", !.board = file]]
        /\ pass[q].pc = "idle"
    BY <1>6 DEF BeginPass
  <2>2. pass'[q].pc = "loop"
    BY <1>0, <2>1 DEF BoardTypeOK, IdlePass
  <2> QED BY <1>0, <2>1, <2>2
<1>7. CASE \E t \in BoardTasks : LandPacket(q, t)
  BY <1>0, <1>7 DEF LandPacket, runnerVars
<1> QED BY <1>1, <1>2, <1>3, <1>4, <1>5, <1>6, <1>7 DEF PassStep

LEMMA LoopFlight ==
  ASSUME StructInv, FlightInv, OnePass, NEW q \in Passes, PassStep(q) \/ Crash(q),
         ~Admit(q), ~StartPacket(q)
  PROVE  FlightInv'
<1>0. BoardTypeOK /\ LoopInv(q) /\ Progress /\ [Next]_vars /\ \A r \in Passes : r = q
  <2>1. [Next]_vars
    BY DEF Next
  <2> QED BY <2>1, StepStruct DEF StructInv, OnePass
<1>1. row' = row /\ earlier' = earlier
  BY DEF PassStep, BeginPass, SkipTask, FailoverFromLoop, SupersedeFromLoop,
     RequeueDead, NotRouted, Collides, AwaitVictim, VictimJoined, MarkDispatched,
     AdmitRefused, EndLoop, RaiseError, LandPacket, EndPass, Crash, PassGone, ledgerVars
<1>2. LedgerFlight' /\ NoneOpens
  BY <1>1, SameFlight
<1>3. \A a \in AttemptIds : Runs(a)' => RowOfThread(a)'
  <2>1. CASE thread' = thread
    BY <1>1, <2>1, SameThreads
  <2>2. CASE thread' = [a \in AttemptIds |-> IF a \in Mine(q) THEN NoThread ELSE thread[a]]
    BY <1>1, <2>2, SameThreads DEF NoThread, Runs
  <2> QED BY <2>1, <2>2 DEF PassStep, BeginPass, SkipTask, FailoverFromLoop, SupersedeFromLoop,
     RequeueDead, NotRouted, Collides, AwaitVictim, VictimJoined, MarkDispatched,
     AdmitRefused, EndLoop, RaiseError, LandPacket, EndPass, Crash, PassGone, runnerVars
<1>4. ASSUME NEW t \in BoardTasks \ Exposed, file'[t].state \in {"ready", "absent"}
      PROVE  NoneOpen(t)
  <2>1. CASE NotReopened
    BY <1>4, <2>1 DEF NotReopened, FlightInv
  <2>2. CASE file' = file
    BY <2>1, <2>2 DEF NotReopened
  <2>3. CASE FailoverFromLoop(q)
    <3>1. Task(q) \in BoardTasks
      BY <1>0, <2>3, TaskFacts DEF FailoverFromLoop, InLoop
    <3>2. ASSUME NEW s \in BoardTasks, WriteSuccessor(Task(q), s) PROVE NotReopened
      BY <1>0, <3>1, <3>2, SuccessorKeeps, FreshReopens
    <3> QED BY <2>1, <2>2, <2>3, <3>2 DEF FailoverFromLoop, boardVars
  <2>4. CASE SupersedeFromLoop(q) \/ Collides(q) \/ MarkDispatched(q)
    <3>1. Task(q) \in BoardTasks
      BY <1>0, <2>4, TaskFacts DEF SupersedeFromLoop, Collides, MarkDispatched, InLoop, LoopInv
    <3>2. \E s \in {"blocked", "dispatched"}, x \in {"none", "superseded", "failed"} :
            Save(Task(q), s, x)
      BY <2>4 DEF SupersedeFromLoop, Collides, MarkDispatched
    <3>3. {"blocked", "dispatched"} \subseteq FileStates \ {"absent"}
      BY DEF FileStates
    <3> QED BY <1>0, <2>1, <3>1, <3>2, <3>3, SaveReopens
  <2>5. CASE \E u \in BoardTasks : LandPacket(q, u)
    <3>1. \E u \in BoardTasks, s \in {"landed", "blocked"}, x \in {"failed", "none"} : Save(u, s, x)
      BY <2>5 DEF LandPacket
    <3>2. {"landed", "blocked"} \subseteq FileStates \ {"absent"}
      BY DEF FileStates
    <3> QED BY <1>0, <2>1, <3>1, <3>2, SaveReopens
  <2>6. CASE RequeueDead(q)
    <3>1. Task(q) \in BoardTasks
      BY <1>0, <2>6, TaskFacts DEF RequeueDead, InLoop
    <3>2. CASE Dead(Task(q)) /\ Save(Task(q), "ready", "none")
      <4>1. t = Task(q) \/ file[t].state \in {"ready", "absent"}
        BY <1>0, <1>4, <3>1, <3>2, SaveReopens DEF FileStates
      <4> QED BY <1>4, <3>1, <3>2, <4>1, DeadNoneOpen DEF FlightInv
    <3> QED BY <2>2, <2>6, <3>2 DEF RequeueDead
  <2>7. CASE AdmitRefused(q)
    <3>1. pass[q].pc = "marked" /\ pass[q].next <= Len(Order) /\ Seen(q).state = "ready"
          /\ Save(Task(q), "ready", "none")
      BY <1>0, <2>7 DEF AdmitRefused, LoopInv
    <3>2. Task(q) \in BoardTasks /\ ~Visited(q, Task(q))
      BY <1>0, <3>1, TaskFacts
    <3>3. Task(q) \in Exposed \/ NoneOpen(Task(q))
      BY <3>1, <3>2 DEF FlightInv, Seen
    <3>4. t = Task(q) \/ file[t].state \in {"ready", "absent"}
      BY <1>0, <1>4, <3>1, <3>2, SaveReopens DEF FileStates
    <3> QED BY <1>4, <3>3, <3>4 DEF FlightInv
  <2> QED BY <2>2, <2>3, <2>4, <2>5, <2>6, <2>7
      DEF PassStep, BeginPass, SkipTask, NotRouted, AwaitVictim, VictimJoined,
          EndLoop, RaiseError, EndPass, Crash, PassGone, boardVars
<1>5. CASE \A r \in Passes : /\ pass'[r].pc \notin {"marked", "starting"}
                             /\ pass[r].pc # "starting" \/ pass'[r].pc = "idle"
  BY <1>0, <1>2, <1>3, <1>4, <1>5, FlightKept
<1>6. CASE MarkDispatched(q)
  <2>1. StepsTo(q, "marked") /\ Save(Task(q), "dispatched", "none") /\ pass[q].pc = "loop"
        /\ Task(q) \in BoardTasks
    BY <1>0, <1>6, PcSteps, TaskFacts DEF MarkDispatched, InLoop
  <2>2. file'[Task(q)].state = "dispatched"
    BY <1>0, <2>1, SaveReopens DEF FileStates
  <2>3. Task(q)' = Task(q)
    BY <2>1 DEF StepsTo, Task
  <2>4. \A r \in Passes : file'[Task(r)'].state = "dispatched" /\ pass[r].pc # "starting"
    BY <1>0, <2>1, <2>2, <2>3
  <2> QED BY <1>0, <1>2, <1>3, <1>4, <2>4, FlightKept
<1> QED BY <1>5, <1>6, LoopGoes

\* A task is admitted only while none of its attempts is open.
LEMMA AdmitFlight ==
  ASSUME StructInv, FlightInv, OnePass, NEW q \in Passes, Admit(q)
  PROVE  FlightInv'
<1>0. BoardTypeOK /\ LoopInv(q) /\ \A r \in Passes : r = q
  BY DEF StructInv, OnePass
<1>1. PICK a \in AttemptIds :
        /\ row[a].state = "absent"
        /\ row' = [row EXCEPT ![a] = [state |-> "queued", of |-> Task(q)]]
        /\ Latest(a)
        /\ IF Kind[Task(q)] = "packet"
           THEN /\ pass' = [pass EXCEPT ![q].pc = "starting", ![q].attempt = a]
                /\ UNCHANGED thread
           ELSE /\ thread' = [thread EXCEPT ![a] = [pc |-> "admitted", pass |-> q]]
                /\ Onward(q)
  BY DEF Admit
<1>2. /\ pass[q].pc = "marked" /\ pass[q].next <= Len(Order) /\ Task(q) \in BoardTasks
      /\ ~Visited(q, Task(q)) /\ Seen(q).state = "ready" /\ file' = file
  BY <1>0, TaskFacts DEF Admit, LoopInv, boardVars
<1>3. PICK t \in BoardTasks : t = Task(q)
  BY <1>2
<1>4. t \in Exposed \/ (NoneOpen(t) /\ file[t].state \notin {"ready", "absent"})
  BY <1>2, <1>3 DEF FlightInv, Seen
<1>5. /\ row'[a].state = "queued" /\ row'[a].of = t /\ row[a].of = NoTask
      /\ \A b \in AttemptIds \ {a} : row'[b] = row[b]
  <2> DEFINE r == [state |-> "queued", of |-> Task(q)]
  <2>1. row' = [row EXCEPT ![a] = r] /\ r.state = "queued" /\ r.of = t
    BY <1>1, <1>3
  <2> HIDE DEF r
  <2> QED BY <1>0, <1>1, <2>1 DEF BoardTypeOK, StructInv
<1>6. LedgerFlight'
  <2>1. ~Finished(a)' /\ Open(a)'
    BY <1>5 DEF Finished, Open, ACTIVE
  <2>2. \A b \in AttemptIds \ {a} :
          (Open(b)' <=> Open(b)) /\ (Finished(b)' <=> Finished(b)) /\ (Finished(b) => Open(b))
    BY <1>5 DEF Finished, Open
  <2>3. \A b \in AttemptIds \ {a} : Open(b) /\ row[b].of \notin Exposed => row[b].of # t
    BY <1>4 DEF NoneOpen
  <2>4. \A b, c \in AttemptIds :
          Open(b)' /\ Open(c)' /\ row'[b].of = row'[c].of /\ row'[b].of \notin Exposed => b = c
    BY <1>5, <2>1, <2>2, <2>3 DEF FlightInv, LedgerFlight
  <2>5. /\ \A b \in AttemptIds : a \notin earlier'[b]
        /\ \A b \in AttemptIds \ {a} : earlier'[b] = earlier[b] \ {a}
    BY <1>0, <1>1, LatestFacts
  <2>6. \A b, c \in AttemptIds : c \in earlier'[b] => b \notin earlier'[c]
    BY <2>5 DEF FlightInv, LedgerFlight
  <2>7. ASSUME NEW b \in AttemptIds, Finished(b)', NEW c \in AttemptIds \ {b},
               row'[c].of = row'[b].of, row'[b].of \notin Exposed
        PROVE  c \in earlier'[b]
    <3>1. b # a /\ Finished(b) /\ row[b].of # t /\ row'[b].of = row[b].of
      BY <1>5, <2>1, <2>2, <2>3, <2>7
    <3>2. c # a /\ row[c].of = row[b].of
      BY <1>5, <2>7, <3>1
    <3>3. c \in earlier[b]
      BY <2>7, <3>1, <3>2 DEF FlightInv, LedgerFlight
    <3> QED BY <2>5, <3>1, <3>2, <3>3
  <2> QED BY <2>4, <2>6, <2>7, ExposedFixed DEF LedgerFlight
<1>7. \A u \in BoardTasks \ {t} : NoneOpen(u) => NoneOpen(u)'
  BY <1>5 DEF NoneOpen, Open, Finished
<1>8. \A u \in BoardTasks \ Exposed : file'[u].state \in {"ready", "absent"} => NoneOpen(u)'
  BY <1>2, <1>4, <1>7 DEF FlightInv
<1>9. CASE Kind[Task(q)] = "packet"
  <2>1. pass' = [pass EXCEPT ![q].pc = "starting", ![q].attempt = a] /\ thread' = thread
    BY <1>1, <1>9
  <2>2. pass'[q].attempt = a
    BY <1>0, <2>1 DEF BoardTypeOK, PassRow
  <2>3. StepsTo(q, "starting")
    BY <1>0, <2>1, <2>2, PcSteps
  <2>4. Task(q)' = t /\ pass'[q].pc = "starting" /\ pass'[q].board = pass[q].board
        /\ \A u \in BoardTasks : Visited(q, u)' <=> Visited(q, u)
    BY <1>3, <2>3 DEF StepsTo, Task, Visited
  <2>5. ASSUME NEW b \in AttemptIds, Runs(b)' PROVE RowOfThread(b)'
    <3>1. Runs(b) /\ b # a
      BY <1>5, <2>1, <2>5, SentinelAssumption DEF Runs, StructInv, ThreadInv, Of
    <3> QED BY <1>5, <2>1, <3>1, ExposedFixed DEF FlightInv, RowOfThread, Finished
  <2>6. \A u \in BoardTasks \ Exposed :
          pass'[q].board[u].state = "ready" /\ ~Visited(q, u)' /\ u # t => NoneOpen(u)'
    BY <1>2, <1>7, <2>4 DEF FlightInv
  <2> QED BY <1>0, <1>2, <1>4, ExposedFixed, <1>6, <1>8, <2>4, <2>5, <2>6 DEF FlightInv
<1>10. CASE Kind[Task(q)] # "packet"
  <2>1. thread' = [thread EXCEPT ![a] = [pc |-> "admitted", pass |-> q]] /\ Onward(q)
    BY <1>1, <1>10
  <2>2. StepsOn(q)
    BY <1>0, <1>2, <2>1, OnwardSteps
  <2>3. pass'[q].pc = "loop" /\ pass'[q].board = pass[q].board
        /\ \A u \in BoardTasks : Visited(q, u)' <=> Visited(q, u) \/ u = t
    BY <1>3, <2>2 DEF StepsOn
  <2>4. thread'[a].pc = "admitted" /\ \A b \in AttemptIds \ {a} : thread'[b] = thread[b]
    BY <1>0, <2>1 DEF BoardTypeOK
  <2>5. ASSUME NEW b \in AttemptIds, Runs(b)' PROVE RowOfThread(b)'
    <3>1. CASE b = a
      BY <1>5, <2>4, <3>1 DEF RowOfThread
    <3>2. CASE b # a
      BY <1>5, <2>4, <2>5, <3>2, ExposedFixed DEF FlightInv, RowOfThread, Finished, Runs
    <3> QED BY <3>1, <3>2
  <2>6. \A u \in BoardTasks \ Exposed :
          pass'[q].board[u].state = "ready" /\ ~Visited(q, u)' => NoneOpen(u)'
    BY <1>2, <1>7, <2>3 DEF FlightInv
  <2> QED BY <1>0, ExposedFixed, <1>6, <1>8, <2>3, <2>5, <2>6 DEF FlightInv
<1> QED BY <1>9, <1>10

LEMMA StartFlight ==
  ASSUME StructInv, FlightInv, OnePass, NEW q \in Passes, StartPacket(q)
  PROVE  FlightInv'
<1>0. BoardTypeOK /\ LoopInv(q) /\ Progress /\ \A r \in Passes : r = q
  BY StartStruct DEF StructInv, OnePass
<1>1. /\ pass[q].pc = "starting" /\ pass[q].next <= Len(Order)
      /\ pass[q].attempt \in AttemptIds /\ row[pass[q].attempt].state = "queued"
      /\ file' = file
  BY <1>0 DEF StartPacket, LoopInv, boardVars
<1>2. PICK a \in AttemptIds : a = pass[q].attempt
  BY <1>1
<1>3. PICK s \in {"dispatching", "held"}, pc \in {"running", "unfinished"} :
        /\ row' = [row EXCEPT ![a].state = s]
        /\ thread' = [thread EXCEPT ![a] = [pc |-> pc, pass |-> q]]
        /\ Latest(a) \/ earlier' = earlier
        /\ pc = "running" => s = "dispatching"
  BY <1>2 DEF StartPacket, Move
<1>4. s \in RowStates \ {"absent"} /\ Open(a)
  BY <1>1, <1>2 DEF RowStates, ACTIVE, Open
<1>5. LedgerFlight' /\ NoneOpens
  BY <1>3, <1>4, MoveFlight
<1>6. row'[a].state = s /\ \A b \in AttemptIds \ {a} : row'[b] = row[b]
  BY <1>0, <1>3, <1>4, RowSteps
<1>7. thread'[a].pc = pc /\ \A b \in AttemptIds \ {a} : thread'[b] = thread[b]
  BY <1>0, <1>3 DEF BoardTypeOK
<1>8. ASSUME NEW b \in AttemptIds, Runs(b)' PROVE RowOfThread(b)'
  <2>1. CASE b = a
    BY <1>3, <1>6, <1>7, <2>1 DEF RowOfThread
  <2>2. CASE b # a
    BY <1>6, <1>7, <1>8, <2>2, ExposedFixed DEF FlightInv, RowOfThread, Finished, Runs
  <2> QED BY <2>1, <2>2
<1>9. StepsOn(q)
  BY <1>0, <1>1, OnwardSteps DEF StartPacket
<1>10. \A r \in Passes : StepsOn(r) /\ pass'[r].pc = "loop"
  BY <1>0, <1>9 DEF StepsOn
<1>11. \A t \in BoardTasks \ Exposed : file'[t].state \in {"ready", "absent"} => NoneOpen(t)
  BY <1>1 DEF FlightInv
<1> QED BY <1>0, <1>5, <1>8, <1>10, <1>11, FlightKept

\* What a thread that has come to pc knows of its attempt.
Knows(a, pc) ==
  \/ pc \in {"unfinished", "error", "failover", "superseding", "done"}
  \/ pc = "running" /\ (row[a].state = "dispatching" \/ SweepDuringPass)
  \/ pc = "refused" /\ row[a].of \in Exposed
  \/ /\ pc \in {"completed", "staging", "linking", "settling", "failing", "approved",
                "rejected", "accepting", "passing"}
     /\ Finished(a)

LEMMA GotoKnows ==
  ASSUME StructInv, FlightInv, NEW a \in AttemptIds, NEW pc \in ThreadPcs, Goto(a, pc),
         Knows(a, pc)',
         \A b \in AttemptIds \ {a} :
           \/ row'[b] = row[b]
           \/ row[b].state = "completed" /\ row'[b].state = "accepted" /\ row'[b].of = row[b].of
  PROVE  \A b \in AttemptIds : Runs(b)' => RowOfThread(b)'
<1> SUFFICES ASSUME NEW b \in AttemptIds, Runs(b)' PROVE RowOfThread(b)'
  OBVIOUS
<1>1. thread'[a].pc = pc /\ \A c \in AttemptIds \ {a} : thread'[c] = thread[c]
  BY GotoSteps DEF StructInv
<1>2. CASE b = a
  <2>1. RowOfThread(a)'
    BY <1>1, ExposedFixed DEF Knows, RowOfThread
  <2> QED BY <1>2, <2>1
<1>3. CASE b # a
  <2>1. Runs(b) /\ thread'[b].pc = thread[b].pc
    BY <1>1, <1>3 DEF Runs
  <2>2. RowOfThread(b)
    BY <2>1 DEF FlightInv
  <2>3. CASE row'[b] = row[b]
    BY <2>1, <2>2, <2>3, ExposedFixed DEF RowOfThread, Finished
  <2>4. CASE row[b].state = "completed" /\ row'[b].state = "accepted" /\ row'[b].of = row[b].of
    BY <2>1, <2>2, <2>4, ExposedFixed DEF RowOfThread, Finished
  <2> QED BY <1>3, <2>3, <2>4
<1> QED BY <1>2, <1>3

\* A thread writes files and leaves the ledger alone.
LEMMA OwnWriteFlight ==
  ASSUME StructInv, FlightInv, OnePass, Progress, row' = row, earlier' = earlier, pass' = pass,
         NEW a \in AttemptIds, NEW pc \in ThreadPcs, Goto(a, pc), Knows(a, pc), NotReopened
  PROVE  FlightInv'
<1>1. Knows(a, pc)'
  BY ExposedFixed DEF Knows, Finished
<1>2. \A b \in AttemptIds : Runs(b)' => RowOfThread(b)'
  BY <1>1, GotoKnows
<1>3. LedgerFlight' /\ NoneOpens
  BY SameFlight
<1> QED BY <1>2, <1>3, StillFlight

LEMMA SameReopens == ASSUME file' = file PROVE NotReopened
BY DEF NotReopened

LEMMA ThreadFlight ==
  ASSUME StructInv, FlightInv, OnePass, NEW a \in AttemptIds, ThreadStep(a)
  PROVE  FlightInv'
<1>0. BoardTypeOK /\ Progress
  BY ThreadStepStruct DEF StructInv
<1>f. ASSUME thread[a].pc # "none"
      PROVE  ThreadInv(a) /\ RowOfThread(a) /\ Of(a) \in BoardTasks /\ row[a].of \in BoardTasks
  BY <1>f, ThreadFacts DEF FlightInv, Runs, Of
<1>p. {"running", "unfinished", "completed", "error", "done", "failover", "superseding",
       "refused", "staging", "failing", "approved", "rejected", "linking", "settling", "accepting",
       "passing"} \subseteq ThreadPcs
  BY DEF ThreadPcs
<1>1. ASSUME StartAttempt(a) \/ Completes(a) \/ (Fails(a) /\ row[a].state = "dispatching")
      PROVE  FlightInv'
  <2>1. PICK s \in {"dispatching", "held", "completed"}, pc \in {"running", "unfinished", "completed"} :
          /\ row' = [row EXCEPT ![a].state = s] /\ Goto(a, pc)
          /\ Latest(a) \/ (earlier' = earlier /\ s # "completed")
          /\ pc = "running" => s = "dispatching"
          /\ pc = "completed" => s = "completed"
          /\ row[a].state \in {"queued", "dispatching"}
          /\ thread[a].pc # "none"
    <3>1. CASE StartAttempt(a)
      BY <3>1 DEF StartAttempt, Move, At
    <3>2. CASE Completes(a)
      BY <3>2 DEF Completes, Move, At
    <3>3. CASE Fails(a) /\ row[a].state = "dispatching"
      BY <3>3 DEF Fails, Move, At
    <3> QED BY <1>1, <3>1, <3>2, <3>3
  <2>2. s \in RowStates \ {"absent"} /\ Open(a)
    BY <2>1 DEF RowStates, ACTIVE, Open
  <2>3. LedgerFlight' /\ NoneOpens
    BY <1>f, <2>1, <2>2, MoveFlight
  <2>4. row'[a].state = s /\ \A b \in AttemptIds \ {a} : row'[b] = row[b]
    BY <1>0, <2>1, <2>2, RowSteps
  <2>5. Knows(a, pc)'
    BY <2>1, <2>4 DEF Knows, Finished
  <2>6. \A b \in AttemptIds : Runs(b)' => RowOfThread(b)'
    BY <1>p, <2>1, <2>4, <2>5, GotoKnows
  <2>7. file' = file /\ pass' = pass
    BY <1>1 DEF StartAttempt, Completes, Fails, OwnStep, boardVars
  <2> QED BY <1>0, <2>3, <2>6, <2>7, SameReopens, StillFlight
<1>2. CASE AcceptSource(a)
  <2>1. /\ thread[a].pc = "approved" /\ earlier' = earlier /\ file' = file /\ pass' = pass
        /\ Kind[Of(a)] = "review"
    BY <1>2, <1>f DEF AcceptSource, At, boardVars, ThreadInv
  <2>2. PICK pc \in {"accepting", "passing"} : Goto(a, pc)
    BY <1>2 DEF AcceptSource
  <2>3. CASE row' = row
    <3>1. Knows(a, pc)
      BY <1>f, <2>1 DEF RowOfThread, Knows
    <3> QED BY <1>0, <1>p, <2>1, <2>2, <2>3, <3>1, SameReopens, OwnWriteFlight
  <2>4. ASSUME NEW w \in Sources(Of(a)), Acceptable(w),
               row' = [row EXCEPT ![link[w].attempt].state = "accepted"]
        PROVE  FlightInv'
    <3>1. CASE link[w].attempt \notin AttemptIds
      BY <1>0, <2>3, <2>4, <3>1 DEF BoardTypeOK
    <3>2. CASE link[w].attempt \in AttemptIds
      <4>1. PICK b \in AttemptIds : b = link[w].attempt
        BY <3>2
      <4>2. row[b].state = "completed" /\ row' = [row EXCEPT ![b].state = "accepted"]
        BY <2>4, <4>1 DEF Acceptable
      <4>3. Open(b) /\ Finished(b) /\ "accepted" \in RowStates \ {"absent"}
        BY <4>2 DEF Open, Finished, RowStates
      <4>4. LedgerFlight' /\ NoneOpens
        BY <2>1, <4>2, <4>3, MoveFlight
      <4>5. /\ row'[b].state = "accepted" /\ \A c \in AttemptIds \ {b} : row'[c] = row[c]
            /\ \A c \in AttemptIds : row'[c].of = row[c].of
        BY <1>0, <4>2, <4>3, RowSteps
      <4>6. Finished(a)
        BY <1>f, <2>1 DEF RowOfThread
      <4>7. Knows(a, pc)'
        BY <4>5, <4>6 DEF Knows, Finished
      <4>8. \A c \in AttemptIds : Runs(c)' => RowOfThread(c)'
        BY <1>p, <2>2, <4>2, <4>5, <4>7, GotoKnows
      <4> QED BY <1>0, <2>1, <4>4, <4>8, SameReopens, StillFlight
    <3> QED BY <3>1, <3>2
  <2> QED BY <1>2, <2>3, <2>4 DEF AcceptSource
<1>4. ASSUME NEW pc \in ThreadPcs, Goto(a, pc), thread[a].pc # "none", NotReopened,
             \/ OwnWrite
             \/ OwnStep /\ UNCHANGED ledgerVars
             \/ UNCHANGED <<ledgerVars, pass, crashes>>,
             \/ pc \in {"unfinished", "error", "failover", "superseding", "done"}
             \/ pc = "refused" /\ Of(a) \in Exposed
             \/ /\ thread[a].pc \in {"completed", "staging", "linking", "settling", "failing",
                                     "approved", "rejected", "accepting", "passing"}
                /\ pc \in {"completed", "staging", "linking", "settling", "failing",
                           "approved", "rejected", "accepting", "passing"}
      PROVE  FlightInv'
  <2>1. row' = row /\ earlier' = earlier /\ pass' = pass
    BY <1>4 DEF OwnWrite, OwnStep, ledgerVars
  <2>2. Knows(a, pc)
    BY <1>4, <1>f DEF RowOfThread, Knows, Of
  <2> QED BY <1>0, <1>4, <2>1, <2>2, OwnWriteFlight
<1>3. CASE Fails(a) /\ row[a].state # "dispatching"
  <2>1. thread[a].pc # "none" /\ Goto(a, "unfinished") /\ OwnStep /\ UNCHANGED ledgerVars
    BY <1>3 DEF Fails, At
  <2> QED BY <1>4, <1>p, <2>1, SameReopens DEF OwnStep, boardVars
<1>13. CASE FinishRefused(a)
  <2>1. /\ thread[a].pc = "running" /\ Goto(a, "refused") /\ OwnStep /\ UNCHANGED ledgerVars
        /\ Kind[Of(a)] = "packet" /\ row[a].state # "dispatching"
    BY <1>13 DEF FinishRefused, At
  <2>2. Of(a) \in Exposed
    BY <1>f, <2>1 DEF RowOfThread, Exposed
  <2> QED BY <1>4, <1>p, <2>1, <2>2, SameReopens DEF OwnStep, boardVars
<1>14. CASE SettleRefused(a)
  <2>1. /\ thread[a].pc = "refused" /\ Goto(a, "done") /\ OwnWrite
        /\ Save(Of(a), "ready", "none")
    BY <1>14 DEF SettleRefused, At
  <2>2. Of(a) \in Exposed
    BY <1>f, <2>1 DEF RowOfThread, Of
  <2>3. NotReopened
    BY <1>0, <1>f, <2>1, <2>2, SaveReopens DEF FileStates
  <2> QED BY <1>4, <1>p, <2>1, <2>3
<1>5. CASE \/ SettleHeld(a) \/ SupersedeFromThread(a) \/ SettlePacket(a) \/ SettleFailed(a)
           \/ SettleReviewPending(a) \/ SettleReview(a)
  <2>1. /\ thread[a].pc # "none" /\ OwnWrite
        /\ \E pc \in {"done", "failover"} : Goto(a, pc)
        /\ \E s \in {"blocked", "passed", "review_pending"},
              x \in {"none", "held", "exhausted", "failed", "superseded"} : Save(Of(a), s, x)
    BY <1>5 DEF SettleHeld, SupersedeFromThread, SettlePacket, SettleFailed,
       SettleReviewPending, SettleReview, At
  <2>2. {"blocked", "passed", "review_pending"} \subseteq FileStates \ {"absent"}
    BY DEF FileStates
  <2>3. NotReopened
    BY <1>0, <1>f, <2>1, <2>2, SaveReopens
  <2> QED BY <1>4, <1>p, <2>1, <2>3
<1>6. CASE FailoverFromThread(a)
  <2>1. /\ thread[a].pc # "none" /\ UNCHANGED <<ledgerVars, pass, crashes>>
        /\ \E pc \in {"done", "superseding"} : Goto(a, pc)
        /\ file' = file \/ \E s \in BoardTasks : WriteSuccessor(Of(a), s)
    BY <1>6 DEF FailoverFromThread, At, boardVars
  <2>2. NotReopened
    BY <1>0, <1>f, <2>1, SameReopens, SuccessorKeeps, FreshReopens
  <2> QED BY <1>4, <1>p, <2>1, <2>2
<1>7. CASE CreateReview(a)
  <2>1. thread[a].pc = "staging" /\ Goto(a, "linking") /\ OwnWrite /\ Of(a) \in BoardTasks
        /\ Kind[Of(a)] = "work"
    BY <1>7, <1>f DEF CreateReview, At, ThreadInv
  <2>2. \/ file' = file
        \/ /\ file[ReviewOf[Of(a)]].state = "absent"
           /\ \A u \in BoardTasks \ {ReviewOf[Of(a)]} : file'[u] = file[u]
    BY <1>0, <1>7 DEF CreateReview, BoardTypeOK
  <2>3. ReviewOf[Of(a)] \in BoardTasks
    BY <2>1, ReviewAssumption
  <2>4. NotReopened
    BY <2>2, <2>3, SameReopens, FreshReopens
  <2> QED BY <1>4, <1>p, <2>1, <2>4
<1>8. CASE SettleAccepted(a)
  <2>1. PICK w \in Sources(Of(a)) : Save(w, "accepted", "none")
    BY <1>8 DEF SettleAccepted
  <2>2. w \in BoardTasks /\ thread[a].pc = "accepting" /\ Goto(a, "passing") /\ OwnWrite
    BY <1>8 DEF Sources, SettleAccepted, At
  <2>3. NotReopened
    BY <1>0, <2>1, <2>2, SaveReopens DEF FileStates
  <2> QED BY <1>4, <1>p, <2>2, <2>3
<1>9. CASE PropagateRejection(a)
  <2>1. thread[a].pc = "rejected" /\ Goto(a, "failing") /\ OwnWrite
    BY <1>9 DEF PropagateRejection, At
  <2>2. ASSUME NEW t \in Sources(Of(a)), Save(t, "blocked", "rejected") PROVE NotReopened
    BY <1>0, <2>2, SaveReopens DEF Sources, FileStates
  <2>3. NotReopened
    BY <1>9, <2>2, SameReopens DEF PropagateRejection
  <2> QED BY <1>4, <1>p, <2>1, <2>3
<1>10. CASE ThreadFails(a)
  <2>1. thread[a].pc # "none" /\ Goto(a, "error") /\ OwnStep /\ UNCHANGED ledgerVars
    BY <1>10 DEF ThreadFails, At
  <2> QED BY <1>4, <1>p, <2>1, SameReopens DEF OwnStep, boardVars
<1>11. CASE Judge(a)
  <2>1. thread[a].pc = "completed" /\ OwnStep /\ UNCHANGED ledgerVars
        /\ \E pc \in {"staging", "failing", "approved", "rejected"} : Goto(a, pc)
    BY <1>11 DEF Judge, At
  <2> QED BY <1>4, <1>p, <2>1, SameReopens DEF OwnStep, boardVars
<1>12. CASE WriteLink(a)
  <2>1. thread[a].pc = "linking" /\ Goto(a, "settling") /\ file' = file
        /\ UNCHANGED <<ledgerVars, pass, crashes>>
    BY <1>12 DEF WriteLink, At
  <2> QED BY <1>4, <1>p, <2>1, SameReopens
<1> QED BY <1>1, <1>2, <1>3, <1>5, <1>6, <1>7, <1>8, <1>9, <1>10, <1>11, <1>12, <1>13, <1>14
    DEF ThreadStep

LEMMA OperatorFlight ==
  ASSUME StructInv, FlightInv, OnePass, OperatorStep
  PROVE  FlightInv'
<1>0. BoardTypeOK /\ Progress
  BY OperatorStruct DEF StructInv
<1>1. pass' = pass /\ thread' = thread
  BY DEF OperatorStep, ResolveHeld, HoldAbandoned, Retry, runnerVars
<1>2. ASSUME NEW t \in BoardTasks, NEW s \in BoardTasks, Retry(t, s)
      PROVE  FlightInv'
  <2>1. row' = row /\ earlier' = earlier
    BY <1>2 DEF Retry, ledgerVars
  <2>2. NotReopened
    <3>1. /\ file[s].state = "absent" /\ file'[t].state = "blocked"
          /\ \A u \in BoardTasks \ {s, t} : file'[u] = file[u]
      BY <1>0, <1>2, RetryKeeps DEF Superseded
    <3> QED BY <3>1 DEF NotReopened
  <2> QED BY <1>0, <1>1, <2>1, <2>2, SameFlight, SameThreads, StillFlight
<1>3. ASSUME NEW a \in AttemptIds, ResolveHeld(a) \/ HoldAbandoned(a)
      PROVE  FlightInv'
  <2>1. PICK s \in {"failed", "abandoned", "held"} : Move(a, s)
    BY <1>3 DEF ResolveHeld, HoldAbandoned
  <2>2. /\ \/ row[a].state = "held"
           \/ row[a].state = "dispatching" /\ (SweepDuringPass \/ ~Runs(a))
        /\ file' = file
    BY <1>3 DEF ResolveHeld, HoldAbandoned, boardVars, At, Runs
  <2>3. s \in RowStates \ {"absent"} /\ Open(a)
    BY <2>2 DEF RowStates, ACTIVE, Open
  <2>4. LedgerFlight' /\ NoneOpens
    BY <2>1, <2>3, MoveFlight DEF Move
  <2>5. \A b \in AttemptIds \ {a} : row'[b] = row[b]
    BY <1>0, <2>1, <2>3, RowSteps DEF Move
  <2>6. ASSUME NEW b \in AttemptIds, Runs(b)' PROVE RowOfThread(b)'
    <3>1. Runs(b) /\ RowOfThread(b) /\ thread'[b] = thread[b]
      BY <1>1, <2>6 DEF FlightInv, Runs
    <3>2. CASE b # a
      BY <2>5, <3>1, <3>2, ExposedFixed DEF RowOfThread, Finished
    <3>3. CASE b = a
      <4>1. row[a].state = "held" \/ (row[a].state = "dispatching" /\ SweepDuringPass)
        BY <2>2, <3>1, <3>3
      <4>2. thread[a].pc \notin {"admitted", "completed", "staging",
                                "linking", "settling", "failing", "approved", "rejected",
                                "accepting", "passing"}
            /\ (thread[a].pc = "running" => SweepDuringPass)
        BY <3>1, <3>3, <4>1 DEF RowOfThread, Finished
      <4>3. row'[a].of = row[a].of
        BY <1>0, <2>1, <2>3, RowSteps DEF Move
      <4> QED BY <3>1, <3>3, <4>2, <4>3, ExposedFixed DEF RowOfThread
    <3> QED BY <3>2, <3>3
  <2> QED BY <1>0, <1>1, <2>2, <2>4, <2>6, SameReopens, StillFlight
<1> QED BY <1>2, <1>3 DEF OperatorStep

LEMMA StepFlight ==
  ASSUME StructInv, FlightInv, OnePass, [Next]_vars
  PROVE  FlightInv'
<1>1. CASE UNCHANGED vars
  <2>1. file' = file /\ row' = row /\ earlier' = earlier /\ pass' = pass /\ thread' = thread
    BY <1>1 DEF vars
  <2> QED BY <2>1, SameFlight, SameThreads, SameReopens, StepStruct, StillFlight
<1>2. ASSUME NEW q \in Passes, PassStep(q) \/ Crash(q)
      PROVE  FlightInv'
  BY <1>2, LoopFlight, AdmitFlight, StartFlight
<1> QED BY <1>1, <1>2, ThreadFlight, OperatorFlight DEF Next

LEMMA InitFlight == Init => FlightInv
<1> SUFFICES ASSUME Init PROVE FlightInv
  OBVIOUS
<1>1. \A a \in AttemptIds : /\ row[a].state = "absent" /\ earlier[a] = {}
                            /\ ~Runs(a) /\ ~Open(a) /\ ~Finished(a)
  BY DEF Init, NoRow, NoThread, Runs, Open, Finished, ACTIVE
<1>2. \A q \in Passes : pass[q].pc = "idle"
  BY DEF Init, IdlePass
<1> QED BY <1>1, <1>2 DEF FlightInv, LedgerFlight, NoneOpen

\* Where no attempt of t is exposed and no two of its attempts are in flight, at most one of
\* its ledger rows is active.
LEMMA OneActive ==
  ASSUME FlightInv, NEW t \in BoardTasks \ Exposed
  PROVE  Cardinality(Rows(t) \cap ActiveRows) <= 1
<1> DEFINE S == Rows(t) \cap ActiveRows
<1>1. \A a, b \in S : a = b
  BY DEF FlightInv, LedgerFlight, Rows, ActiveRows, Open
<1>2. S = {} \/ \E x : S = {x}
  BY <1>1
<1> HIDE DEF S
<1>3. Cardinality(S) <= 1
  <2>1. CASE S = {}
    <3>1. Cardinality({}) = 0
      BY FS_EmptySet
    <3> QED BY <2>1, <3>1
  <2>2. ASSUME NEW x, S = {x} PROVE Cardinality(S) <= 1
    <3>1. Cardinality({x}) = 1
      BY FS_Singleton
    <3> QED BY <2>2, <3>1
  <2> QED BY <1>2, <2>1, <2>2
<1> QED BY <1>3 DEF S

\* FlightInv, the strengthening behind single flight, holds in every state while passes do not
\* overlap: the pass loop, its threads' settlements, requeues and retries keep files and ledger
\* in step.
THEOREM FlightInvariant == OnePass => (Spec => []FlightInv)
<1> SUFFICES ASSUME OnePass PROVE Spec => []FlightInv
  OBVIOUS
<1>1. Init => StructInv /\ FlightInv
  BY InitStruct, InitFlight
<1>2. StructInv /\ FlightInv /\ [Next]_vars => (StructInv /\ FlightInv)'
  BY StepStruct, StepFlight
<1> QED BY <1>1, <1>2, PTL DEF Spec

\* Work and reviews never have two attempts in flight, however passes die, operators retry,
\* resolve and sweep, also when a sweep hits an attempt under its living thread.
THEOREM WorkFlightIsSingle ==
  OnePass => (Spec => [](\A t \in BoardTasks : Kind[t] # "packet" =>
                           Cardinality(Rows(t) \cap ActiveRows) <= 1))
<1> SUFFICES ASSUME OnePass
             PROVE  Spec => [](\A t \in BoardTasks : Kind[t] # "packet" =>
                                 Cardinality(Rows(t) \cap ActiveRows) <= 1)
  OBVIOUS
<1>1. FlightInv => \A t \in BoardTasks : Kind[t] # "packet" =>
                     Cardinality(Rows(t) \cap ActiveRows) <= 1
  BY OneActive DEF Exposed
<1> QED BY <1>1, FlightInvariant, PTL

-----------------------------------------------------------------------------
(* No task is worked on twice *)

Busy(a) == row[a].state \in {"queued", "dispatching"}
Unworked(t) == \A a \in AttemptIds : row[a].of = t => ~Busy(a)
Offered(t) == file[t].state \in {"ready", "absent"}

\* A thread that has begun is past the queue; one that the ledger refused works no more.
ThreadOnce(a) ==
  /\ thread[a].pc = "refused" => ~Busy(a)
  /\ thread[a].pc = "running" => row[a].state # "queued"

\* A task that is offered, or that the pass will come to as ready, is not worked on; held
\* attempts of it may be there.
OnceInv ==
  /\ \A a, b \in AttemptIds : Busy(a) /\ Busy(b) /\ row[a].of = row[b].of => a = b
  /\ \A a, b \in AttemptIds : Runs(a) /\ Busy(b) /\ row[a].of = row[b].of => a = b
  /\ \A a \in AttemptIds : ThreadOnce(a)
  /\ \A t \in BoardTasks : Offered(t) => Unworked(t)
  /\ \A q \in Passes : pass[q].pc # "idle" =>
       \A t \in BoardTasks :
         /\ pass[q].board[t].state = "ready" /\ ~Visited(q, t)
         /\ ~(pass[q].pc = "starting" /\ t = Task(q))
         => Unworked(t)
  /\ \A q \in Passes : pass[q].pc \in {"marked", "starting"} => ~Offered(Task(q))

\* No attempt is taken up.
Calm ==
  \A a \in AttemptIds :
    /\ row'[a].of = row[a].of
    /\ Busy(a)' => Busy(a)
    /\ row'[a].state = "queued" => row[a].state = "queued"

LEMMA SameCalm == ASSUME row' = row PROVE Calm
BY DEF Calm, Busy

LEMMA MoveCalm ==
  ASSUME BoardTypeOK, NEW a \in AttemptIds, NEW s \in RowStates \ {"queued"},
         row' = [row EXCEPT ![a].state = s], s = "dispatching" => Busy(a)
  PROVE  Calm
BY RowSteps DEF Calm, Busy

\* What a step that takes up no attempt must show.
LEMMA OnceKept ==
  ASSUME StructInv, OnePass, OnceInv, Progress, Calm,
         \A a \in AttemptIds : thread'[a].pc \in {"refused", "running"} =>
           thread'[a].pc = thread[a].pc \/ ThreadOnce(a)',
         \A a, b \in AttemptIds : Runs(a)' /\ ~Runs(a) /\ Busy(b) /\ row[a].of = row[b].of => a = b,
         \A t \in BoardTasks : Offered(t)' => Offered(t) \/ Unworked(t),
         \A q \in Passes : pass'[q].pc \in {"marked", "starting"} => ~Offered(Task(q))',
         \A q \in Passes : pass[q].pc = "starting" =>
           pass'[q] = pass[q] \/ pass'[q].pc = "idle" \/ StepsOn(q)
  PROVE  OnceInv'
<1>1. \A t \in BoardTasks : Unworked(t) => Unworked(t)'
  BY DEF Calm, Unworked
<1>2. \A t \in BoardTasks : Offered(t)' => Unworked(t)'
  BY <1>1 DEF OnceInv
<1>3. ASSUME NEW q \in Passes, pass'[q].pc # "idle", NEW t \in BoardTasks,
             pass'[q].board[t].state = "ready", ~Visited(q, t)',
             ~(pass'[q].pc = "starting" /\ t = Task(q)')
      PROVE  Unworked(t)'
  <2>1. CASE pass[q].pc = "idle"
    BY <1>2, <1>3, <2>1 DEF Progress, Offered
  <2>2. CASE pass[q].pc # "idle"
    <3>1. pass[q].board[t].state = "ready" /\ ~Visited(q, t)
      BY <1>3, <2>2 DEF Progress
    <3>2. ~(pass[q].pc = "starting" /\ t = Task(q))
      <4>1. CASE pass[q].pc = "starting" /\ pass'[q] = pass[q]
        BY <1>3, <4>1 DEF Task
      <4>2. CASE pass[q].pc = "starting" /\ StepsOn(q)
        BY <1>3, <4>2 DEF StepsOn
      <4> QED BY <1>3, <4>1, <4>2
    <3> QED BY <1>1, <2>2, <3>1, <3>2 DEF OnceInv
  <2> QED BY <2>1, <2>2
<1>4. ASSUME NEW a \in AttemptIds PROVE ThreadOnce(a)'
  <2>1. ThreadOnce(a) /\ (Busy(a)' => Busy(a))
        /\ (row'[a].state = "queued" => row[a].state = "queued")
    BY DEF OnceInv, Calm
  <2> QED BY <2>1 DEF ThreadOnce
<1>5. \A a, b \in AttemptIds : Busy(a)' /\ Busy(b)' /\ row'[a].of = row'[b].of => a = b
  BY DEF OnceInv, Calm
<1>6. \A a, b \in AttemptIds : Runs(a)' /\ Busy(b)' /\ row'[a].of = row'[b].of => a = b
  BY DEF OnceInv, Calm
<1> QED BY <1>2, <1>3, <1>4, <1>5, <1>6 DEF OnceInv

\* A file is written with another state than ready, or stays.
NoOffer == \A t \in BoardTasks : Offered(t)' => Offered(t)

LEMMA SaveOffers ==
  ASSUME BoardTypeOK, NEW t \in BoardTasks, NEW s \in FileStates \ {"absent"},
         NEW x \in {"none", "superseded", "held", "exhausted", "failed", "rejected"},
         Save(t, s, x)
  PROVE  /\ s # "ready" => NoOffer /\ ~Offered(t)'
         /\ \A u \in BoardTasks : Offered(u)' => u = t \/ Offered(u)
BY SaveSteps DEF NoOffer, Offered

LEMMA FreshOffers ==
  ASSUME NEW s \in BoardTasks, file[s].state = "absent",
         \A u \in BoardTasks \ {s} : file'[u] = file[u]
  PROVE  NoOffer
BY DEF NoOffer, Offered

LEMMA SameOffers == ASSUME file' = file PROVE NoOffer
BY DEF NoOffer, Offered

\* A step that leaves the passes alone and offers no task.
LEMMA StillOnce ==
  ASSUME StructInv, OnePass, OnceInv, Progress, Calm, pass' = pass, NoOffer,
         \A a \in AttemptIds : Runs(a)' => Runs(a),
         \A a \in AttemptIds : thread'[a].pc \in {"refused", "running"} =>
           thread'[a].pc = thread[a].pc \/ ThreadOnce(a)'
  PROVE  OnceInv'
<1>1. ASSUME NEW q \in Passes, pass'[q].pc \in {"marked", "starting"}
      PROVE  ~Offered(Task(q))'
  <2>1. Task(q)' = Task(q) /\ Task(q) \in BoardTasks
    <3>1. pass[q].next <= Len(Order)
      BY <1>1 DEF StructInv, LoopInv
    <3> QED BY <3>1, TaskFacts DEF Task, StructInv
  <2> QED BY <1>1, <2>1 DEF OnceInv, NoOffer, Offered
<1> QED BY <1>1, OnceKept DEF NoOffer

LEMMA LoopOnce ==
  ASSUME StructInv, OnceInv, OnePass, NEW q \in Passes, PassStep(q) \/ Crash(q),
         ~Admit(q), ~StartPacket(q)
  PROVE  OnceInv'
<1>0. BoardTypeOK /\ LoopInv(q) /\ Progress /\ \A r \in Passes : r = q
  <2>1. [Next]_vars
    BY DEF Next
  <2> QED BY <2>1, StepStruct DEF StructInv, OnePass
<1>1. Calm
  <2>1. row' = row
    BY DEF PassStep, BeginPass, SkipTask, FailoverFromLoop, SupersedeFromLoop,
       RequeueDead, NotRouted, Collides, AwaitVictim, VictimJoined, MarkDispatched,
       AdmitRefused, EndLoop, RaiseError, LandPacket, EndPass, Crash, PassGone, ledgerVars
  <2> QED BY <2>1, SameCalm
<1>2. \A a \in AttemptIds : thread'[a] = thread[a] \/ thread'[a].pc = "none"
  BY DEF PassStep, BeginPass, SkipTask, FailoverFromLoop, SupersedeFromLoop,
     RequeueDead, NotRouted, Collides, AwaitVictim, VictimJoined, MarkDispatched,
     AdmitRefused, EndLoop, RaiseError, LandPacket, EndPass, Crash, PassGone, runnerVars,
     NoThread
<1>3. ASSUME NEW t \in BoardTasks, Offered(t)', ~Offered(t)
      PROVE  Unworked(t)
  <2>1. CASE NoOffer
    BY <1>3, <2>1 DEF NoOffer
  <2>2. CASE file' = file
    BY <2>1, <2>2, SameOffers
  <2>3. CASE FailoverFromLoop(q)
    <3>1. Task(q) \in BoardTasks
      BY <1>0, <2>3, TaskFacts DEF FailoverFromLoop, InLoop
    <3>2. ASSUME NEW s \in BoardTasks, WriteSuccessor(Task(q), s) PROVE NoOffer
      BY <1>0, <3>1, <3>2, SuccessorKeeps, FreshOffers
    <3> QED BY <2>1, <2>2, <2>3, <3>2 DEF FailoverFromLoop, boardVars
  <2>4. CASE SupersedeFromLoop(q) \/ Collides(q) \/ MarkDispatched(q)
    <3>1. Task(q) \in BoardTasks
      BY <1>0, <2>4, TaskFacts DEF SupersedeFromLoop, Collides, MarkDispatched, InLoop, LoopInv
    <3>2. \E s \in {"blocked", "dispatched"}, x \in {"none", "superseded", "failed"} :
            Save(Task(q), s, x)
      BY <2>4 DEF SupersedeFromLoop, Collides, MarkDispatched
    <3>3. {"blocked", "dispatched"} \subseteq FileStates \ {"absent"}
      BY DEF FileStates
    <3> QED BY <1>0, <2>1, <3>1, <3>2, <3>3, SaveOffers
  <2>5. CASE \E u \in BoardTasks : LandPacket(q, u)
    <3>1. \E u \in BoardTasks, s \in {"landed", "blocked"}, x \in {"failed", "none"} : Save(u, s, x)
      BY <2>5 DEF LandPacket
    <3>2. {"landed", "blocked"} \subseteq FileStates \ {"absent"}
      BY DEF FileStates
    <3> QED BY <1>0, <2>1, <3>1, <3>2, SaveOffers
  <2>6. CASE RequeueDead(q)
    <3>1. Task(q) \in BoardTasks
      BY <1>0, <2>6, TaskFacts DEF RequeueDead, InLoop
    <3>2. CASE Dead(Task(q)) /\ Save(Task(q), "ready", "none")
      <4>1. t = Task(q)
        BY <1>0, <1>3, <3>1, <3>2, SaveOffers DEF FileStates
      <4> QED BY <3>2, <4>1 DEF Dead, Rows, ActiveRows, ACTIVE, Unworked, Busy
    <3> QED BY <2>2, <2>6, <3>2 DEF RequeueDead
  <2>7. CASE AdmitRefused(q)
    <3>1. pass[q].pc = "marked" /\ pass[q].next <= Len(Order) /\ Seen(q).state = "ready"
          /\ Save(Task(q), "ready", "none")
      BY <1>0, <2>7 DEF AdmitRefused, LoopInv
    <3>2. Task(q) \in BoardTasks /\ ~Visited(q, Task(q))
      BY <1>0, <3>1, TaskFacts
    <3>3. Unworked(Task(q))
      BY <3>1, <3>2 DEF OnceInv, Seen
    <3>4. t = Task(q)
      BY <1>0, <1>3, <3>1, <3>2, SaveOffers DEF FileStates
    <3> QED BY <3>3, <3>4
  <2> QED BY <2>2, <2>3, <2>4, <2>5, <2>6, <2>7
      DEF PassStep, BeginPass, SkipTask, NotRouted, AwaitVictim, VictimJoined,
          EndLoop, RaiseError, EndPass, Crash, PassGone, boardVars
<1>4. ASSUME NEW a \in AttemptIds, Runs(a)' PROVE Runs(a) /\ thread'[a].pc = thread[a].pc
  BY <1>2, <1>4 DEF Runs
<1>5. \A a \in AttemptIds : thread'[a].pc \in {"refused", "running"} =>
        thread'[a].pc = thread[a].pc
  BY <1>2
<1>6. CASE \A r \in Passes : /\ pass'[r].pc \notin {"marked", "starting"}
                             /\ pass[r].pc # "starting" \/ pass'[r].pc = "idle"
  BY <1>0, <1>1, <1>3, <1>4, <1>5, <1>6, OnceKept
<1>7. CASE MarkDispatched(q)
  <2>1. StepsTo(q, "marked") /\ Save(Task(q), "dispatched", "none") /\ pass[q].pc = "loop"
        /\ Task(q) \in BoardTasks
    BY <1>0, <1>7, PcSteps, TaskFacts DEF MarkDispatched, InLoop
  <2>2. file'[Task(q)].state = "dispatched"
    BY <1>0, <2>1, SaveSteps DEF FileStates
  <2>3. Task(q)' = Task(q)
    BY <2>1 DEF StepsTo, Task
  <2>4. \A r \in Passes : ~Offered(Task(r))' /\ pass[r].pc # "starting"
    BY <1>0, <2>1, <2>2, <2>3 DEF Offered
  <2> QED BY <1>0, <1>1, <1>3, <1>4, <1>5, <2>4, OnceKept
<1> QED BY <1>6, <1>7, LoopGoes

\* A task is admitted only while none of its attempts is worked on.
LEMMA AdmitOnce ==
  ASSUME StructInv, OnceInv, OnePass, NEW q \in Passes, Admit(q)
  PROVE  OnceInv'
<1>0. BoardTypeOK /\ LoopInv(q) /\ Progress /\ StructInv' /\ \A r \in Passes : r = q
  BY AdmitStruct DEF StructInv, OnePass
<1>1. /\ pass[q].pc = "marked" /\ pass[q].next <= Len(Order) /\ Task(q) \in BoardTasks
      /\ ~Visited(q, Task(q)) /\ Seen(q).state = "ready" /\ file' = file
  BY <1>0, TaskFacts DEF Admit, LoopInv, boardVars
<1>2. PICK t \in BoardTasks : t = Task(q)
  BY <1>1
<1>3. Unworked(t) /\ ~Offered(t)
  BY <1>1, <1>2 DEF OnceInv, Seen
<1>4. PICK a \in AttemptIds :
        /\ row[a].state = "absent"
        /\ row' = [row EXCEPT ![a] = [state |-> "queued", of |-> Task(q)]]
        /\ IF Kind[Task(q)] = "packet"
           THEN pass' = [pass EXCEPT ![q].pc = "starting", ![q].attempt = a] /\ thread' = thread
           ELSE thread' = [thread EXCEPT ![a] = [pc |-> "admitted", pass |-> q]] /\ Onward(q)
  BY DEF Admit
<1>5. /\ row'[a].state = "queued" /\ row'[a].of = t /\ ~Runs(a)
      /\ \A b \in AttemptIds \ {a} : row'[b] = row[b]
  <2> DEFINE r == [state |-> "queued", of |-> Task(q)]
  <2>1. row' = [row EXCEPT ![a] = r] /\ r.state = "queued" /\ r.of = t
    BY <1>2, <1>4
  <2> HIDE DEF r
  <2> QED BY <1>0, <1>4, <2>1, ThreadFacts DEF BoardTypeOK, Runs
<1>7. /\ \A b \in AttemptIds \ {a} : thread'[b] = thread[b]
      /\ thread'[a].pc \in {"none", "admitted"}
  BY <1>0, <1>4, <1>5 DEF BoardTypeOK, Runs
<1>8. \A b \in AttemptIds : Runs(b) => row[b].of # t
  <2> SUFFICES ASSUME NEW b \in AttemptIds, Runs(b), row[b].of = t PROVE FALSE
    OBVIOUS
  <2>1. Visited(thread[b].pass, t) /\ thread[b].pass \in Passes
    BY DEF StructInv, ThreadInv, Of
  <2> QED BY <1>0, <1>1, <1>2, <2>1
<1>9. ASSUME NEW b \in AttemptIds, NEW c \in AttemptIds, Runs(b)', Busy(c)',
             row'[b].of = row'[c].of
      PROVE  b = c
  <2>1. CASE b # a
    <3>1. row'[b] = row[b] /\ Runs(b)
      BY <1>5, <1>7, <1>9, <2>1 DEF Runs
    <3>2. c # a
      BY <1>5, <1>8, <1>9, <3>1
    <3> QED BY <1>5, <1>9, <3>1, <3>2 DEF OnceInv, Busy
  <2>2. CASE b = a
    <3>1. ASSUME c # a PROVE FALSE
      <4>1. row'[c] = row[c] /\ row[c].of = t
        BY <1>5, <1>9, <2>2, <3>1
      <4> QED BY <1>3, <1>9, <4>1 DEF Unworked, Busy
    <3> QED BY <2>2, <3>1
  <2> QED BY <2>1, <2>2
<1>10. ASSUME NEW b \in AttemptIds, NEW c \in AttemptIds, Busy(b)', Busy(c)',
              row'[b].of = row'[c].of
       PROVE  b = c
  BY <1>3, <1>5, <1>10 DEF OnceInv, Unworked, Busy
<1>11. ASSUME NEW b \in AttemptIds PROVE ThreadOnce(b)'
  <2>1. CASE b = a
    BY <1>7, <2>1 DEF ThreadOnce
  <2>2. CASE b # a
    <3>1. ThreadOnce(b) /\ row'[b] = row[b]
      BY <1>5, <2>2 DEF OnceInv
    <3> QED BY <1>7, <3>1 DEF ThreadOnce, Busy
  <2> QED BY <2>1, <2>2
<1>12. \A u \in BoardTasks \ {t} : Unworked(u) => Unworked(u)'
  BY <1>5 DEF Unworked, Busy
<1>13. \A u \in BoardTasks : Offered(u)' => Offered(u) /\ Unworked(u)'
  BY <1>1, <1>3, <1>12 DEF OnceInv, Offered
<1>14. \/ StepsTo(q, "starting")
       \/ StepsOn(q)
  <2>1. CASE Kind[Task(q)] = "packet"
    <3>1. pass' = [pass EXCEPT ![q].pc = "starting", ![q].attempt = a]
      BY <1>4, <2>1
    <3>2. pass'[q].attempt = a
      BY <1>0, <3>1 DEF BoardTypeOK, PassRow
    <3> QED BY <1>0, <3>1, <3>2, PcSteps
  <2>2. CASE Kind[Task(q)] # "packet"
    BY <1>0, <1>1, <2>2, OnwardSteps DEF Admit
  <2> QED BY <2>1, <2>2
<1>15. CASE StepsTo(q, "starting")
  <2>1. Task(q)' = t /\ pass'[q].pc = "starting" /\ pass'[q].board = pass[q].board
        /\ \A u \in BoardTasks : Visited(q, u)' <=> Visited(q, u)
    BY <1>2, <1>15 DEF StepsTo, Task, Visited
  <2>2. \A u \in BoardTasks :
          pass'[q].board[u].state = "ready" /\ ~Visited(q, u)' /\ u # t => Unworked(u)'
    BY <1>1, <1>12, <2>1 DEF OnceInv
  <2>3. ~Offered(Task(q))'
    BY <1>3, <1>13, <2>1
  <2> QED BY <1>0, <1>9, <1>10, <1>11, <1>13, <2>1, <2>2, <2>3 DEF OnceInv
<1>16. CASE StepsOn(q)
  <2>1. pass'[q].pc = "loop" /\ pass'[q].board = pass[q].board
        /\ \A u \in BoardTasks : Visited(q, u)' <=> Visited(q, u) \/ u = t
    BY <1>2, <1>16 DEF StepsOn
  <2>2. \A u \in BoardTasks :
          pass'[q].board[u].state = "ready" /\ ~Visited(q, u)' => Unworked(u)'
    BY <1>1, <1>12, <2>1 DEF OnceInv
  <2> QED BY <1>0, <1>9, <1>10, <1>11, <1>13, <2>1, <2>2 DEF OnceInv
<1> QED BY <1>14, <1>15, <1>16

\* The packet's attempt goes from the queue to its thread.
LEMMA StartOnce ==
  ASSUME StructInv, OnceInv, OnePass, NEW q \in Passes, StartPacket(q)
  PROVE  OnceInv'
<1>0. BoardTypeOK /\ LoopInv(q) /\ Progress /\ \A r \in Passes : r = q
  BY StartStruct DEF StructInv, OnePass
<1>1. /\ pass[q].pc = "starting" /\ pass[q].next <= Len(Order) /\ file' = file
      /\ pass[q].attempt \in AttemptIds /\ row[pass[q].attempt].state = "queued"
  BY <1>0 DEF StartPacket, LoopInv, boardVars
<1>2. PICK a \in AttemptIds : a = pass[q].attempt
  BY <1>1
<1>3. PICK s \in {"dispatching", "held"}, pc \in {"running", "unfinished"} :
        /\ row' = [row EXCEPT ![a].state = s]
        /\ thread' = [thread EXCEPT ![a] = [pc |-> pc, pass |-> q]]
  BY <1>2 DEF StartPacket, Move
<1>4. Busy(a) /\ s \in RowStates \ {"queued"}
  BY <1>1, <1>2 DEF Busy, RowStates, ACTIVE
<1>5. Calm
  BY <1>0, <1>3, <1>4, MoveCalm
<1>6. row'[a].state = s
  BY <1>0, <1>3, <1>4, RowSteps
<1>7. thread'[a].pc = pc /\ \A b \in AttemptIds \ {a} : thread'[b] = thread[b]
  BY <1>0, <1>3 DEF BoardTypeOK
<1>8. ASSUME NEW b \in AttemptIds, thread'[b].pc \in {"refused", "running"}
      PROVE  thread'[b].pc = thread[b].pc \/ ThreadOnce(b)'
  <2>1. CASE b = a
    BY <1>6, <1>7, <2>1 DEF ThreadOnce
  <2> QED BY <1>7, <2>1
<1>9. \A b, c \in AttemptIds : Runs(b)' /\ ~Runs(b) /\ Busy(c) /\ row[b].of = row[c].of => b = c
  BY <1>4, <1>7 DEF OnceInv, Runs
<1>10. StepsOn(q)
  BY <1>0, <1>1, OnwardSteps DEF StartPacket
<1>11. \A r \in Passes : StepsOn(r) /\ pass'[r].pc = "loop"
  BY <1>0, <1>10 DEF StepsOn
<1>12. \A t \in BoardTasks : Offered(t)' => Offered(t)
  BY <1>1 DEF Offered
<1> QED BY <1>0, <1>5, <1>8, <1>9, <1>11, <1>12, OnceKept

\* A thread puts its task back only after the ledger refused its attempt.
LEMMA RefusedOnce ==
  ASSUME StructInv, OnceInv, OnePass, NEW a \in AttemptIds, SettleRefused(a)
  PROVE  OnceInv'
<1>0. BoardTypeOK /\ Progress
  <2>1. ThreadStep(a)
    BY DEF ThreadStep
  <2> QED BY <2>1, ThreadStepStruct DEF StructInv
<1>1. /\ thread[a].pc = "refused" /\ Goto(a, "done") /\ Save(Of(a), "ready", "none")
      /\ row' = row /\ pass' = pass
  BY DEF SettleRefused, At, OwnWrite, ledgerVars
<1>2. Runs(a) /\ ThreadInv(a) /\ Of(a) \in BoardTasks
  BY <1>1, ThreadFacts
<1>3. Unworked(Of(a))
  <2>1. ~Busy(a)
    BY <1>1 DEF OnceInv, ThreadOnce
  <2> QED BY <1>2, <2>1 DEF OnceInv, Unworked, Of
<1>4. \A u \in BoardTasks : Offered(u)' => u = Of(a) \/ Offered(u)
  BY <1>0, <1>1, <1>2, SaveOffers DEF FileStates
<1>5. ASSUME NEW q \in Passes, pass'[q].pc \in {"marked", "starting"}
      PROVE  ~Offered(Task(q))'
  <2>1. Task(q)' = Task(q) /\ Task(q) \in BoardTasks /\ ~Visited(q, Task(q))
    <3>1. pass[q].next <= Len(Order)
      BY <1>1, <1>5 DEF StructInv, LoopInv
    <3> QED BY <1>0, <1>1, <3>1, TaskFacts DEF Task
  <2>2. Task(q) # Of(a)
    BY <1>2, <2>1 DEF ThreadInv, OnePass
  <2>3. ~Offered(Task(q))
    BY <1>1, <1>5 DEF OnceInv
  <2> QED BY <1>4, <2>1, <2>2, <2>3 DEF Offered
<1>6. \A b \in AttemptIds : thread'[b] = thread[b] \/ (b = a /\ thread'[b].pc = "done")
  BY <1>0, <1>1, GotoSteps DEF ThreadPcs
<1>7. \A b \in AttemptIds : Runs(b)' => Runs(b)
  BY <1>2, <1>6 DEF Runs
<1> QED BY <1>0, <1>1, <1>3, <1>4, <1>5, <1>6, <1>7, SameCalm, OnceKept

LEMMA ThreadOnceKept ==
  ASSUME StructInv, OnceInv, OnePass, NEW a \in AttemptIds, ThreadStep(a)
  PROVE  OnceInv'
<1>0. BoardTypeOK /\ Progress
  BY ThreadStepStruct DEF StructInv
<1>f. ASSUME thread[a].pc # "none"
      PROVE  Runs(a) /\ ThreadInv(a) /\ ThreadOnce(a) /\ Of(a) \in BoardTasks
  BY <1>f, ThreadFacts DEF OnceInv
<1>1. CASE SettleRefused(a)
  BY <1>1, RefusedOnce
<1>2. ASSUME ~SettleRefused(a) PROVE Calm
  <2>1. CASE row' = row
    BY <2>1, SameCalm
  <2>2. CASE StartAttempt(a) \/ Completes(a) \/ (Fails(a) /\ row[a].state = "dispatching")
    <3>1. PICK s \in {"dispatching", "held", "completed"} :
            row' = [row EXCEPT ![a].state = s] /\ row[a].state \in {"queued", "dispatching"}
      BY <2>2 DEF StartAttempt, Completes, Fails, Move
    <3> QED BY <1>0, <3>1, MoveCalm DEF RowStates, ACTIVE, Busy
  <2>3. CASE AcceptSource(a)
    <3>1. ASSUME NEW w \in Sources(Of(a)),
                 row' = [row EXCEPT ![link[w].attempt].state = "accepted"]
          PROVE  Calm
      <4>1. CASE link[w].attempt \notin AttemptIds
        BY <1>0, <2>1, <3>1, <4>1 DEF BoardTypeOK
      <4>2. CASE link[w].attempt \in AttemptIds
        <5>1. PICK c \in AttemptIds : c = link[w].attempt
          BY <4>2
        <5>2. row' = [row EXCEPT ![c].state = "accepted"]
          BY <3>1, <5>1
        <5>3. "accepted" \in RowStates \ {"queued"}
          BY DEF RowStates
        <5> QED BY <1>0, <5>2, <5>3, MoveCalm
      <4> QED BY <4>1, <4>2
    <3> QED BY <2>1, <2>3, <3>1 DEF AcceptSource
  <2> QED BY <1>2, <2>1, <2>2, <2>3
      DEF ThreadStep, Fails, FinishRefused, ThreadFails, SettleHeld, FailoverFromThread,
          SupersedeFromThread, SettlePacket, Judge, SettleFailed, CreateReview, WriteLink,
          SettleReviewPending, SettleAccepted, SettleReview, PropagateRejection, OwnStep,
          OwnWrite, ledgerVars
<1>3. pass' = pass /\ thread[a].pc # "none"
  BY DEF ThreadStep, StartAttempt, Completes, Fails, FinishRefused, ThreadFails, SettleRefused,
     SettleHeld, FailoverFromThread, SupersedeFromThread, SettlePacket, Judge, SettleFailed,
     CreateReview, WriteLink, SettleReviewPending, AcceptSource, SettleAccepted, SettleReview,
     PropagateRejection, OwnStep, OwnWrite, At
<1>4. ASSUME ~SettleRefused(a) PROVE NoOffer
  <2>1. CASE file' = file
    BY <2>1, SameOffers
  <2>2. CASE \/ SettleHeld(a) \/ SupersedeFromThread(a) \/ SettlePacket(a) \/ SettleFailed(a)
             \/ SettleReviewPending(a) \/ SettleReview(a)
    <3>1. \E s \in {"blocked", "passed", "review_pending"},
            x \in {"none", "held", "exhausted", "failed", "superseded"} : Save(Of(a), s, x)
      BY <2>2 DEF SettleHeld, SupersedeFromThread, SettlePacket, SettleFailed,
         SettleReviewPending, SettleReview
    <3>2. {"blocked", "passed", "review_pending"} \subseteq FileStates \ {"absent"}
      BY DEF FileStates
    <3> QED BY <1>0, <1>3, <1>f, <3>1, <3>2, SaveOffers
  <2>3. CASE FailoverFromThread(a)
    <3>1. file' = file \/ \E s \in BoardTasks : WriteSuccessor(Of(a), s)
      BY <2>3 DEF FailoverFromThread, boardVars
    <3> QED BY <1>0, <1>3, <1>f, <2>1, <3>1, SuccessorKeeps, FreshOffers
  <2>4. CASE CreateReview(a)
    <3>1. Of(a) \in BoardTasks /\ Kind[Of(a)] = "work"
      BY <1>3, <1>f, <2>4 DEF CreateReview, At, ThreadInv
    <3>2. \/ file' = file
          \/ /\ file[ReviewOf[Of(a)]].state = "absent"
             /\ \A u \in BoardTasks \ {ReviewOf[Of(a)]} : file'[u] = file[u]
      BY <1>0, <2>4 DEF CreateReview, BoardTypeOK
    <3> QED BY <2>1, <3>1, <3>2, ReviewAssumption, FreshOffers
  <2>5. CASE SettleAccepted(a) \/ PropagateRejection(a)
    <3>1. \/ file' = file
          \/ \E w \in BoardTasks, s \in {"accepted", "blocked"}, x \in {"none", "rejected"} :
               Save(w, s, x)
      BY <2>5 DEF SettleAccepted, PropagateRejection, Sources
    <3>2. {"accepted", "blocked"} \subseteq FileStates \ {"absent"}
      BY DEF FileStates
    <3> QED BY <1>0, <2>1, <3>1, <3>2, SaveOffers
  <2> QED BY <1>4, <2>1, <2>2, <2>3, <2>4, <2>5
      DEF ThreadStep, StartAttempt, Completes, Fails, FinishRefused, ThreadFails, Judge,
          WriteLink, AcceptSource, OwnStep, boardVars
<1>5. \A b \in AttemptIds \ {a} : thread'[b] = thread[b]
  BY DEF ThreadStep, StartAttempt, Completes, Fails, FinishRefused, ThreadFails, SettleRefused,
     SettleHeld, FailoverFromThread, SupersedeFromThread, SettlePacket, Judge, SettleFailed,
     CreateReview, WriteLink, SettleReviewPending, AcceptSource, SettleAccepted, SettleReview,
     PropagateRejection, Goto, StructInv, BoardTypeOK
<1>6. \A b \in AttemptIds : Runs(b)' => Runs(b)
  BY <1>3, <1>5, <1>f DEF Runs
<1>7. ASSUME thread'[a].pc \in {"refused", "running"}
      PROVE  thread'[a].pc = thread[a].pc \/ ThreadOnce(a)'
  <2>1. CASE StartAttempt(a)
    <3>1. PICK s \in {"dispatching", "held"} : row' = [row EXCEPT ![a].state = s]
      BY <2>1 DEF StartAttempt, Move
    <3>2. row'[a].state # "queued"
      BY <1>0, <3>1, RowSteps DEF RowStates, ACTIVE
    <3>3. thread'[a].pc # "refused"
      BY <1>0, <2>1, GotoSteps DEF StartAttempt, ThreadPcs
    <3> QED BY <3>2, <3>3 DEF ThreadOnce
  <2>2. CASE FinishRefused(a)
    <3>1. thread[a].pc = "running" /\ row[a].state # "dispatching" /\ row' = row
      BY <2>2 DEF FinishRefused, At, ledgerVars
    <3>2. row[a].state # "queued"
      BY <1>3, <1>f, <3>1 DEF ThreadOnce
    <3> QED BY <3>1, <3>2 DEF ThreadOnce, Busy
  <2>3. ASSUME NEW pc \in ThreadPcs \ {"refused", "running"}, Goto(a, pc) PROVE FALSE
    BY <1>0, <1>7, <2>3, GotoSteps
  <2>4. {"unfinished", "completed", "error", "done", "failover", "superseding", "staging",
         "failing", "approved", "rejected", "linking", "settling", "accepting", "passing"}
           \subseteq ThreadPcs \ {"refused", "running"}
    BY DEF ThreadPcs
  <2>5. ASSUME ~StartAttempt(a), ~FinishRefused(a)
        PROVE  \E pc \in {"unfinished", "completed", "error", "done", "failover", "superseding",
                          "staging", "failing", "approved", "rejected", "linking", "settling",
                          "accepting", "passing"} : Goto(a, pc)
    <3>1. ASSUME Judge(a) PROVE \E pc \in {"staging", "failing", "approved", "rejected"} : Goto(a, pc)
      BY <3>1 DEF Judge
    <3> QED BY <2>5, <3>1
        DEF ThreadStep, Completes, Fails, ThreadFails, SettleRefused, SettleHeld,
            FailoverFromThread, SupersedeFromThread, SettlePacket, SettleFailed, CreateReview,
            WriteLink, SettleReviewPending, AcceptSource, SettleAccepted, SettleReview,
            PropagateRejection
  <2> QED BY <2>1, <2>2, <2>3, <2>4, <2>5
<1> QED BY <1>0, <1>1, <1>2, <1>3, <1>4, <1>5, <1>6, <1>7, StillOnce

LEMMA OperatorOnce ==
  ASSUME StructInv, OnceInv, OnePass, OperatorStep
  PROVE  OnceInv'
<1>0. BoardTypeOK /\ Progress
  BY OperatorStruct DEF StructInv
<1>1. pass' = pass /\ thread' = thread
  BY DEF OperatorStep, ResolveHeld, HoldAbandoned, Retry, runnerVars
<1>2. ASSUME NEW t \in BoardTasks, NEW s \in BoardTasks, Retry(t, s)
      PROVE  Calm /\ NoOffer
  <2>1. row' = row
    BY <1>2 DEF Retry, ledgerVars
  <2>2. /\ file[s].state = "absent" /\ file'[t].state = "blocked"
        /\ \A u \in BoardTasks \ {s, t} : file'[u] = file[u]
    BY <1>0, <1>2, RetryKeeps DEF Superseded
  <2> QED BY <2>1, <2>2, SameCalm DEF NoOffer, Offered
<1>3. ASSUME NEW a \in AttemptIds, ResolveHeld(a) \/ HoldAbandoned(a)
      PROVE  Calm /\ NoOffer
  <2>1. PICK s \in {"failed", "abandoned", "held"} : row' = [row EXCEPT ![a].state = s]
    BY <1>3 DEF ResolveHeld, HoldAbandoned, Move
  <2>2. file' = file
    BY <1>3 DEF ResolveHeld, HoldAbandoned, boardVars
  <2> QED BY <1>0, <2>1, <2>2, MoveCalm, SameOffers DEF RowStates, ACTIVE
<1> QED BY <1>0, <1>1, <1>2, <1>3, StillOnce DEF OperatorStep, Runs

LEMMA StepOnce ==
  ASSUME StructInv, OnceInv, OnePass, [Next]_vars
  PROVE  OnceInv'
<1>1. CASE UNCHANGED vars
  <2>1. file' = file /\ row' = row /\ pass' = pass /\ thread' = thread
    BY <1>1 DEF vars
  <2> QED BY <2>1, SameCalm, SameOffers, StepStruct, StillOnce DEF Runs
<1>2. ASSUME NEW q \in Passes, PassStep(q) \/ Crash(q)
      PROVE  OnceInv'
  BY <1>2, LoopOnce, AdmitOnce, StartOnce
<1> QED BY <1>1, <1>2, ThreadOnceKept, OperatorOnce DEF Next

LEMMA InitOnce == Init => OnceInv
<1> SUFFICES ASSUME Init PROVE OnceInv
  OBVIOUS
<1>1. \A a \in AttemptIds : row[a].state = "absent" /\ thread[a].pc = "none"
  BY DEF Init, NoRow, NoThread
<1>2. \A q \in Passes : pass[q].pc = "idle"
  BY DEF Init, IdlePass
<1> QED BY <1>1, <1>2 DEF OnceInv, Busy, Runs, ThreadOnce, Unworked

\* While passes do not overlap no task, packets included, is ever worked on twice at a time:
\* not after a pass died anywhere, a hold, a resolution and a requeue in any order, nor when a
\* sweep under a running thread makes the runner put the task back as never attempted.
THEOREM WorkIsSingle == OnePass => (Spec => []WorkedOnce)
<1> SUFFICES ASSUME OnePass PROVE Spec => []WorkedOnce
  OBVIOUS
<1>1. Init => StructInv /\ OnceInv
  BY InitStruct, InitOnce
<1>2. StructInv /\ OnceInv /\ [Next]_vars => (StructInv /\ OnceInv)'
  BY StepStruct, StepOnce
<1>3. StructInv /\ OnceInv => WorkedOnce
  <2> SUFFICES ASSUME StructInv, OnceInv, NEW a \in AttemptIds, NEW b \in AttemptIds,
                      Worked(a), Worked(b), Of(a) = Of(b)
               PROVE  a = b
    BY DEF WorkedOnce
  <2>1. Busy(a) \/ Runs(a)
    BY DEF Worked, Live, Busy, Runs
  <2>2. Busy(b) \/ Runs(b)
    BY DEF Worked, Live, Busy, Runs
  <2>3. Runs(a) /\ Runs(b) => a = b
    BY DEF StructInv, ThreadInv
  <2> QED BY <2>1, <2>2, <2>3 DEF OnceInv, Of
<1> QED BY <1>1, <1>2, <1>3, PTL DEF Spec
-----------------------------------------------------------------------------
(* What the board accepts, the ledger accepted *)

\* The ledger takes no result back.
Settled ==
  \A a \in AttemptIds :
    /\ Finished(a) => Finished(a)' /\ row'[a].of = row[a].of
    /\ row[a].state = "accepted" => row'[a].state = "accepted"

LEMMA MoveSettles ==
  ASSUME BoardTypeOK, NEW a \in AttemptIds, NEW s \in RowStates,
         row' = [row EXCEPT ![a].state = s], Finished(a) => s = "accepted"
  PROVE  Settled
BY RowSteps DEF Settled, Finished

LEMMA SameSettles == ASSUME row' = row PROVE Settled
BY DEF Settled, Finished

LEMMA StepSettles ==
  ASSUME StructInv, OnePass, [Next]_vars
  PROVE  Settled
<1>0. BoardTypeOK
  BY DEF StructInv
<1>1. CASE row' = row
  BY <1>1, SameSettles
<1>2. ASSUME NEW a \in AttemptIds,
             NEW s \in {"dispatching", "held", "completed", "failed", "abandoned"},
             row' = [row EXCEPT ![a].state = s],
             row[a].state \in {"queued", "dispatching", "held"}
      PROVE  Settled
  <2>1. s \in RowStates
    BY DEF RowStates, ACTIVE
  <2> QED BY <1>0, <1>2, <2>1, MoveSettles DEF Finished
<1>3. ASSUME NEW q \in Passes, Admit(q) PROVE Settled
  <2>1. \E a \in AttemptIds : AdmitsRow(q, a)
    BY <1>3, AdmitStruct
  <2> QED BY <2>1 DEF AdmitsRow, Settled, Finished
<1>4. ASSUME NEW q \in Passes, StartPacket(q) PROVE Settled
  <2>1. pass[q].attempt \in AttemptIds /\ row[pass[q].attempt].state = "queued"
    BY <1>4 DEF StartPacket, StructInv, LoopInv
  <2> QED BY <1>2, <1>4, <2>1 DEF StartPacket, Move
<1>5. ASSUME NEW q \in Passes, PassStep(q) \/ Crash(q), ~Admit(q), ~StartPacket(q)
      PROVE  Settled
  BY <1>1, <1>5 DEF PassStep, BeginPass, SkipTask, FailoverFromLoop, SupersedeFromLoop,
     RequeueDead, NotRouted, Collides, AwaitVictim, VictimJoined, MarkDispatched,
     AdmitRefused, EndLoop, RaiseError, LandPacket, EndPass, Crash, PassGone, ledgerVars
<1>6. ASSUME NEW a \in AttemptIds, StartAttempt(a) \/ Completes(a) \/ Fails(a) PROVE Settled
  BY <1>1, <1>2, <1>6 DEF StartAttempt, Completes, Fails, Move, ledgerVars
<1>7. ASSUME NEW a \in AttemptIds, AcceptSource(a) PROVE Settled
  <2>1. ASSUME NEW w, row' = [row EXCEPT ![link[w].attempt].state = "accepted"]
        PROVE  Settled
    <3>1. CASE link[w].attempt \in AttemptIds
      BY <1>0, <2>1, <3>1, MoveSettles DEF RowStates
    <3>2. CASE link[w].attempt \notin AttemptIds
      BY <1>0, <1>1, <2>1, <3>2 DEF BoardTypeOK
    <3> QED BY <3>1, <3>2
  <2> QED BY <1>1, <1>7, <2>1 DEF AcceptSource
<1>8. ASSUME NEW a \in AttemptIds, ThreadStep(a), ~StartAttempt(a), ~Completes(a), ~Fails(a),
             ~AcceptSource(a)
      PROVE  Settled
  BY <1>1, <1>8 DEF ThreadStep, FinishRefused, ThreadFails,
     SettleRefused, SettleHeld, FailoverFromThread, SupersedeFromThread,
     SettlePacket, Judge, SettleFailed, CreateReview, WriteLink, SettleReviewPending,
     SettleAccepted, SettleReview, PropagateRejection, OwnStep, OwnWrite, ledgerVars
<1>9. OperatorStep => Settled
  BY <1>1, <1>2 DEF OperatorStep, ResolveHeld, HoldAbandoned, Retry, Move, ledgerVars
<1>10. UNCHANGED vars => Settled
  BY <1>1 DEF vars
<1> QED BY <1>3, <1>4, <1>5, <1>6, <1>7, <1>8, <1>9, <1>10 DEF Next

\* No file is accepted but by the settlement of a review.
NoneAccepted == \A t \in BoardTasks : file'[t].state = "accepted" => file[t].state = "accepted"

LEMMA SaveAccepts ==
  ASSUME BoardTypeOK, NEW t \in BoardTasks, NEW s \in FileStates \ {"accepted"},
         NEW x \in {"none", "superseded", "held", "exhausted", "failed", "rejected"},
         Save(t, s, x)
  PROVE  NoneAccepted
BY SaveSteps DEF NoneAccepted

LEMMA FreshAccepts ==
  ASSUME NEW s \in BoardTasks, file'[s].state = "ready",
         \A u \in BoardTasks \ {s} : file'[u] = file[u]
  PROVE  NoneAccepted
BY DEF NoneAccepted

LEMMA SameAccepts == ASSUME file' = file PROVE NoneAccepted
BY DEF NoneAccepted

LEMMA PassAccepts ==
  ASSUME StructInv, NEW q \in Passes, PassStep(q) \/ Crash(q)
  PROVE  NoneAccepted
<1>0. BoardTypeOK
  BY DEF StructInv
<1>s. {"blocked", "ready", "dispatched", "landed", "passed", "review_pending"}
        \subseteq FileStates \ {"accepted"}
  BY DEF FileStates
<1>1. CASE file' = file
  BY <1>1, SameAccepts
<1>2. CASE FailoverFromLoop(q) \/ SupersedeFromLoop(q) \/ RequeueDead(q) \/ Collides(q)
           \/ MarkDispatched(q) \/ AdmitRefused(q)
  <2>1. Task(q) \in BoardTasks
    BY <1>0, <1>2, TaskFacts DEF FailoverFromLoop, SupersedeFromLoop, RequeueDead, Collides,
       MarkDispatched, AdmitRefused, InLoop, StructInv, LoopInv
  <2>2. \/ file' = file
        \/ \E s \in BoardTasks : WriteSuccessor(Task(q), s)
        \/ \E s \in {"blocked", "ready", "dispatched"}, x \in {"none", "superseded", "failed"} :
             Save(Task(q), s, x)
    BY <1>2 DEF FailoverFromLoop, SupersedeFromLoop, RequeueDead, Collides, MarkDispatched,
       AdmitRefused, boardVars
  <2> QED BY <1>0, <1>s, <1>1, <2>1, <2>2, SuccessorKeeps, FreshAccepts, SaveAccepts
<1>3. CASE \E t \in BoardTasks : LandPacket(q, t)
  <2>1. \E t \in BoardTasks, s \in {"landed", "blocked"}, x \in {"failed", "none"} : Save(t, s, x)
    BY <1>3 DEF LandPacket
  <2> QED BY <1>0, <1>s, <2>1, SaveAccepts
<1> QED BY <1>1, <1>2, <1>3
    DEF PassStep, BeginPass, SkipTask, NotRouted, AwaitVictim, VictimJoined, Admit, StartPacket,
        EndLoop, RaiseError, EndPass, Crash, PassGone, boardVars

LEMMA ThreadAccepts ==
  ASSUME StructInv, NEW a \in AttemptIds, ThreadStep(a), ~SettleAccepted(a)
  PROVE  NoneAccepted
<1>0. BoardTypeOK
  BY DEF StructInv
<1>s. {"blocked", "ready", "dispatched", "landed", "passed", "review_pending"}
        \subseteq FileStates \ {"accepted"}
  BY DEF FileStates
<1>f. ASSUME thread[a].pc # "none" PROVE Of(a) \in BoardTasks /\ ThreadInv(a)
  BY <1>f, ThreadFacts
<1>1. CASE file' = file
  BY <1>1, SameAccepts
<1>2. CASE \/ SettleRefused(a) \/ SettleHeld(a) \/ SupersedeFromThread(a) \/ SettlePacket(a)
           \/ SettleFailed(a) \/ SettleReviewPending(a) \/ SettleReview(a)
  <2>1. /\ thread[a].pc # "none"
        /\ \E s \in {"ready", "blocked", "passed", "review_pending"},
              x \in {"none", "held", "exhausted", "failed", "superseded"} : Save(Of(a), s, x)
    BY <1>2 DEF SettleRefused, SettleHeld, SupersedeFromThread, SettlePacket, SettleFailed,
       SettleReviewPending, SettleReview, At
  <2> QED BY <1>0, <1>s, <1>f, <2>1, SaveAccepts
<1>3. CASE FailoverFromThread(a)
  <2>1. thread[a].pc # "none" /\ (file' = file \/ \E s \in BoardTasks : WriteSuccessor(Of(a), s))
    BY <1>3 DEF FailoverFromThread, At, boardVars
  <2> QED BY <1>0, <1>f, <1>1, <2>1, SuccessorKeeps, FreshAccepts
<1>4. CASE CreateReview(a)
  <2>1. Of(a) \in BoardTasks /\ Kind[Of(a)] = "work"
    BY <1>4, <1>f DEF CreateReview, At, ThreadInv
  <2> QED BY <1>0, <1>4, <2>1, ReviewKeeps, FreshTyped DEF NoneAccepted
<1>5. CASE PropagateRejection(a)
  <2>1. file' = file \/ \E t \in BoardTasks : Save(t, "blocked", "rejected")
    BY <1>5 DEF PropagateRejection, Sources
  <2> QED BY <1>0, <1>s, <1>1, <2>1, SaveAccepts
<1> QED BY <1>1, <1>2, <1>3, <1>4, <1>5
    DEF ThreadStep, StartAttempt, Completes, Fails, FinishRefused, ThreadFails, Judge,
        WriteLink, AcceptSource, OwnStep, boardVars

LEMMA OperatorAccepts ==
  ASSUME StructInv, OperatorStep
  PROVE  NoneAccepted
<1>1. ASSUME NEW t \in BoardTasks, NEW s \in BoardTasks, Retry(t, s) PROVE NoneAccepted
  BY <1>1, RetryKeeps DEF NoneAccepted, Superseded, StructInv
<1>2. ASSUME NEW a \in AttemptIds, ResolveHeld(a) \/ HoldAbandoned(a) PROVE NoneAccepted
  BY <1>2, SameAccepts DEF ResolveHeld, HoldAbandoned, boardVars
<1> QED BY <1>1, <1>2 DEF OperatorStep

\* How a thread comes to judge, to link and to accept.
LEMMA ThreadGoes ==
  ASSUME StructInv, NEW a \in AttemptIds, ThreadStep(a)
  PROVE  \A b \in AttemptIds :
           /\ thread'[b].pc \in {"completed", "staging", "linking"} =>
                \/ thread[b].pc \in {"completed", "staging", "linking"}
                \/ Completes(a) /\ b = a
           /\ thread'[b].pc = "accepting" =>
                \/ thread[b].pc = "accepting"
                \/ AcceptSource(a) /\ b = a
<1>p. {"running", "unfinished", "completed", "refused", "error", "done", "failover", "superseding",
       "staging", "failing", "approved", "rejected", "linking", "settling", "accepting",
       "passing"} \subseteq ThreadPcs
  BY DEF ThreadPcs
<1>1. ASSUME NEW pc \in ThreadPcs, Goto(a, pc),
             pc \in {"completed", "staging", "linking"} =>
               thread[a].pc \in {"completed", "staging", "linking"} \/ Completes(a),
             pc = "accepting" => AcceptSource(a)
      PROVE  \A b \in AttemptIds :
           /\ thread'[b].pc \in {"completed", "staging", "linking"} =>
                \/ thread[b].pc \in {"completed", "staging", "linking"}
                \/ Completes(a) /\ b = a
           /\ thread'[b].pc = "accepting" =>
                \/ thread[b].pc = "accepting"
                \/ AcceptSource(a) /\ b = a
  <2>1. thread'[a].pc = pc /\ \A b \in AttemptIds \ {a} : thread'[b] = thread[b]
    BY <1>1, GotoSteps DEF StructInv
  <2> QED BY <1>1, <2>1
<1>2. CASE \E pc \in {"running", "unfinished", "refused", "error", "done", "failover",
                      "superseding", "failing", "settling", "passing"} : Goto(a, pc)
  BY <1>1, <1>2, <1>p
<1>3. CASE Completes(a)
  BY <1>1, <1>3, <1>p DEF Completes
<1>4. CASE Judge(a)
  <2>1. thread[a].pc = "completed"
        /\ \E pc \in {"staging", "failing", "approved", "rejected"} : Goto(a, pc)
    BY <1>4 DEF Judge, At
  <2> QED BY <1>1, <1>p, <2>1
<1>5. CASE CreateReview(a)
  BY <1>1, <1>5, <1>p DEF CreateReview, At
<1>6. CASE AcceptSource(a)
  BY <1>1, <1>2, <1>6, <1>p DEF AcceptSource
<1> QED BY <1>2, <1>3, <1>4, <1>5, <1>6
    DEF ThreadStep, StartAttempt, Fails, FinishRefused, ThreadFails,
     SettleRefused, SettleHeld, FailoverFromThread, SupersedeFromThread,
     SettlePacket, SettleFailed, WriteLink, SettleReviewPending,
     SettleAccepted, SettleReview, PropagateRejection

\* The review of a living file keeps its sources.
SourcesKept ==
  \A r \in BoardTasks : file[r].state # "absent" =>
    /\ Sources(r)' \subseteq Sources(r)
    /\ Sources(r) # {} /\ r \in Range(ReviewOf) => Sources(r)' # {}

\* A step that links no new attempt.
LEMMA ResultStays ==
  ASSUME StructInv, LinkInv, ResultInv, Progress, Settled, SourcesKept,
         \A t \in BoardTasks : /\ link'[t].attempt = link[t].attempt
                               /\ link'[t] # NoLink => link[t] # NoLink,
         \A t \in BoardTasks : file'[t].state = "accepted" =>
           \/ file[t].state = "accepted"
           \/ link[t].attempt \in AttemptIds /\ row[link[t].attempt].state = "accepted",
         \A a \in AttemptIds :
           /\ thread'[a].pc \in {"completed", "staging", "linking"} =>
                \/ thread[a].pc \in {"completed", "staging", "linking"}
                \/ link[Of(a)].attempt # a
           /\ thread'[a].pc = "accepting" =>
                \/ thread[a].pc = "accepting"
                \/ \E w \in Sources(Of(a)) : row'[link[w].attempt].state = "accepted"
  PROVE  ResultInv'
<1>0. BoardTypeOK
  BY DEF StructInv
<1>1. ASSUME NEW t \in BoardTasks, link'[t] # NoLink
      PROVE  /\ row'[link'[t].attempt].state \in {"completed", "accepted"}
             /\ row'[link'[t].attempt].of = t
  <2>1. /\ link[t].attempt \in AttemptIds /\ link'[t].attempt = link[t].attempt
        /\ row[link[t].attempt].state \in {"completed", "accepted"}
        /\ row[link[t].attempt].of = t
    BY <1>1 DEF LinkInv, ResultInv
  <2> QED BY <2>1 DEF Settled, Finished
<1>t. ASSUME NEW a \in AttemptIds, thread'[a].pc # "none", thread'[a].pc \notin {"admitted", "running", "unfinished"}
      PROVE  Runs(a) /\ Of(a)' = Of(a) /\ Of(a) \in BoardTasks /\ file[Of(a)].state # "absent"
  <2>1. Runs(a) /\ Of(a)' = Of(a)
    BY <1>t DEF Progress, Runs
  <2>2. ThreadInv(a)
    BY <2>1 DEF StructInv
  <2>3. file[Of(a)].state # "absent"
    BY <2>2 DEF StructInv, ThreadInv, LoopInv
  <2> QED BY <2>1, <2>2, <2>3 DEF ThreadInv
<1>2. ASSUME NEW a \in AttemptIds, thread'[a].pc \in {"completed", "staging", "linking"}
      PROVE  link'[Of(a)'].attempt # a
  BY <1>2, <1>t DEF ResultInv
<1>3. ASSUME NEW a \in AttemptIds, thread'[a].pc = "accepting"
      PROVE  /\ Sources(Of(a))' # {} \/ Of(a)' \notin Range(ReviewOf)
             /\ \A t \in Sources(Of(a))' : row'[link'[t].attempt].state = "accepted"
  <2>1. Of(a)' = Of(a) /\ Of(a) \in BoardTasks /\ file[Of(a)].state # "absent"
    BY <1>3, <1>t
  <2>2. PICK r \in BoardTasks : r = Of(a)
    BY <2>1
  <2>3. /\ \A t \in Sources(r) : link[t].attempt \in AttemptIds /\ t \in BoardTasks
        /\ \A t, u \in Sources(r) : t = u
    BY <1>0, SourcesUnique DEF LinkInv
  <2>4. /\ Sources(r) # {} \/ r \notin Range(ReviewOf)
        /\ \A t \in Sources(r) : row'[link[t].attempt].state = "accepted"
    <3>1. CASE thread[a].pc = "accepting"
      BY <2>2, <2>3, <3>1 DEF ResultInv, Settled
    <3>2. CASE \E w \in Sources(Of(a)) : row'[link[w].attempt].state = "accepted"
      BY <2>2, <2>3, <3>2
    <3> QED BY <1>3, <3>1, <3>2
  <2>5. /\ Sources(r)' \subseteq Sources(r)
        /\ Sources(r) # {} /\ r \in Range(ReviewOf) => Sources(r)' # {}
    BY <2>1, <2>2 DEF SourcesKept
  <2>6. Sources(Of(a))' = Sources(r)'
    BY <2>1, <2>2 DEF Sources
  <2> QED BY <2>1, <2>2, <2>3, <2>4, <2>5, <2>6
<1>4. AcceptedInLedger'
  <2>1. \A t \in BoardTasks : link[t].attempt \in AttemptIds \cup {NoAttempt}
    BY <1>0 DEF BoardTypeOK, LinkRow
  <2> QED BY <2>1, SentinelAssumption DEF ResultInv, AcceptedInLedger, Settled
<1> QED BY <1>1, <1>2, <1>3, <1>4 DEF ResultInv

\* The links stand still.
LEMMA SameLinks ==
  ASSUME link' = link
  PROVE  /\ SourcesKept
         /\ \A t \in BoardTasks : /\ link'[t].attempt = link[t].attempt
                                  /\ link'[t] # NoLink => link[t] # NoLink
BY DEF SourcesKept, Sources

\* A retry moves a link off a review, whose own source remains.
LEMMA RetrySources ==
  ASSUME StructInv, LinkInv, NEW t \in BoardTasks, NEW s \in BoardTasks, Retry(t, s)
  PROVE  /\ SourcesKept
         /\ \A w \in BoardTasks : /\ link'[w].attempt = link[w].attempt
                                  /\ link'[w] # NoLink => link[w] # NoLink
<1>0. BoardTypeOK
  BY DEF StructInv
<1>1. /\ link' = [w \in BoardTasks |-> IF Kind[t] = "review" /\ w \in Sources(t)
                                       THEN [link[w] EXCEPT !.review = s] ELSE link[w]]
      /\ file[s].state = "absent" /\ s \notin Range(ReviewOf)
  BY DEF Retry, NextRetryId
<1>2. ASSUME NEW w \in BoardTasks
      PROVE  \/ link'[w] = link[w]
             \/ w \in Sources(t) /\ link'[w].review = s /\ link'[w].attempt = link[w].attempt
  BY <1>0, <1>1 DEF BoardTypeOK, LinkRow
<1>3. \A w \in Sources(t) : link[w] # NoLink
  BY <1>0, SourcesUnique
<1>4. \A w \in BoardTasks : /\ link'[w].attempt = link[w].attempt
                            /\ link'[w] # NoLink => link[w] # NoLink
  BY <1>2, <1>3
<1>5. \A w \in BoardTasks : link[w] # NoLink => link'[w] # NoLink
  <2>1. \A w \in BoardTasks : link[w] # NoLink => link[w].attempt # NoLink.attempt
    BY SentinelAssumption DEF LinkInv, NoLink
  <2> QED BY <1>2, <2>1
<1>6. ASSUME NEW r \in BoardTasks, file[r].state # "absent", NEW u \in BoardTasks, u \in Sources(r)'
      PROVE  u \in Sources(r)
  <2>1. r # s
    BY <1>1, <1>6
  <2>2. CASE link'[u].review = r
    BY <1>2, <2>1, <2>2 DEF Sources
  <2>3. CASE /\ {w \in BoardTasks : link'[w].review = r} = {}
             /\ Kind[u] = "work" /\ ReviewOf[u] = r /\ link'[u] # NoLink
    <3>1. CASE {w \in BoardTasks : link[w].review = r} = {}
      BY <1>4, <2>3, <3>1 DEF Sources
    <3>2. ASSUME NEW x \in BoardTasks, link[x].review = r
          PROVE  x = u
      <4>1. link[x] # NoLink
        BY <3>2, SentinelAssumption DEF NoLink
      <4>2. r \in Range(ReviewOf)
        BY <2>3, ReviewAssumption DEF Range
      <4>3. Kind[x] = "work" /\ ReviewOf[x] = r
        BY <3>2, <4>1, <4>2 DEF LinkInv
      <4> QED BY <2>3, <4>3, ReviewAssumption DEF IsInjective
    <3> QED BY <3>1, <3>2 DEF Sources
  <2> QED BY <1>6, <2>2, <2>3 DEF Sources
<1>7. ASSUME NEW r \in BoardTasks, file[r].state # "absent", NEW u \in Sources(r),
             r \in Range(ReviewOf)
      PROVE  Sources(r)' # {}
  <2>1. u \in BoardTasks /\ Kind[u] = "work" /\ link[u] # NoLink
    BY <1>0, SourcesUnique
  <2>2. ReviewOf[u] = r
    <3>1. CASE link[u].review = r
      BY <1>7, <2>1, <3>1 DEF LinkInv
    <3>2. CASE link[u].review # r
      BY <3>2 DEF Sources
    <3> QED BY <3>1, <3>2
  <2>3. link'[u] # NoLink
    BY <1>5, <2>1
  <2> QED BY <2>1, <2>2, <2>3 DEF Sources
<1> QED BY <1>4, <1>6, <1>7 DEF SourcesKept, Sources

LEMMA PassResult ==
  ASSUME StructInv, LinkInv, ResultInv, OnePass, NEW q \in Passes, PassStep(q) \/ Crash(q)
  PROVE  ResultInv'
<1>1. [Next]_vars
  BY DEF Next
<1>2. Progress /\ Settled /\ NoneAccepted
  BY <1>1, StepStruct, StepSettles, PassAccepts
<1>3. link' = link
  BY DEF PassStep, BeginPass, SkipTask, FailoverFromLoop, WriteSuccessor, SupersedeFromLoop,
     RequeueDead, NotRouted, Collides, AwaitVictim, VictimJoined, MarkDispatched, Admit, StartPacket,
     AdmitRefused, EndLoop, RaiseError, LandPacket, EndPass, Crash, PassGone, boardVars
<1>4. \A a \in AttemptIds :
        thread'[a] = thread[a] \/ thread'[a].pc \in {"none", "admitted", "running", "unfinished"}
  BY PassThreads
<1> QED BY <1>2, <1>3, <1>4, SameLinks, ResultStays DEF NoneAccepted

LEMMA OperatorResult ==
  ASSUME StructInv, LinkInv, ResultInv, OnePass, OperatorStep
  PROVE  ResultInv'
<1>1. [Next]_vars
  BY DEF Next
<1>2. Progress /\ Settled /\ NoneAccepted
  BY <1>1, StepStruct, StepSettles, OperatorAccepts
<1>3. thread' = thread
  BY DEF OperatorStep, ResolveHeld, HoldAbandoned, Retry, runnerVars
<1>4. /\ SourcesKept
      /\ \A t \in BoardTasks : /\ link'[t].attempt = link[t].attempt
                               /\ link'[t] # NoLink => link[t] # NoLink
  BY SameLinks, RetrySources DEF OperatorStep, ResolveHeld, HoldAbandoned, boardVars
<1> QED BY <1>2, <1>3, <1>4, ResultStays DEF NoneAccepted

\* A completed attempt has not been linked before, nor has its task.
LEMMA Unlinked ==
  ASSUME StructInv, LinkInv, FlightInv, ResultInv, NEW a \in AttemptIds,
         thread[a].pc \in {"completed", "staging", "linking"}
  PROVE  link[Of(a)] = NoLink
<1> SUFFICES ASSUME link[Of(a)] # NoLink PROVE FALSE
  OBVIOUS
<1>1. Of(a) \in BoardTasks /\ Runs(a)
  BY ThreadFacts
<1>2. PICK c \in AttemptIds : c = link[Of(a)].attempt
  BY <1>1 DEF LinkInv
<1>3. Finished(c) /\ row[c].of = Of(a)
  BY <1>1, <1>2 DEF ResultInv, Finished
<1>4. Finished(a) /\ Of(a) \notin Exposed
  BY <1>1 DEF FlightInv, RowOfThread, LinkInv, Exposed
<1>5. c = a
  BY <1>3, <1>4 DEF FlightInv, LedgerFlight, Open, Of
<1> QED BY <1>2, <1>5 DEF ResultInv

LEMMA WriteLinkResult ==
  ASSUME StructInv, LinkInv, FlightInv, ResultInv, NEW a \in AttemptIds, WriteLink(a)
  PROVE  ResultInv'
<1>0. BoardTypeOK /\ LinkInv'
  BY WriteLinkKeeps DEF StructInv
<1>1. /\ thread[a].pc = "linking" /\ Goto(a, "settling")
      /\ row' = row /\ file' = file
  BY DEF WriteLink, At, ledgerVars
<1>2. thread'[a].pc = "settling" /\ \A b \in AttemptIds \ {a} : thread'[b] = thread[b]
  BY <1>0, <1>1, GotoSteps DEF ThreadPcs
<1>3. PICK t \in BoardTasks : t = Of(a)
  BY WriteLinkKeeps
<1>4. /\ Kind[t] = "work" /\ link'[t].attempt = a /\ link'[t].review = ReviewOf[t]
      /\ \A u \in BoardTasks \ {t} : link'[u] = link[u]
  BY <1>3, WriteLinkKeeps
<1>5. link[t] = NoLink /\ Finished(a) /\ Runs(a) /\ ThreadInv(a)
  BY <1>1, <1>3, Unlinked, ThreadFacts DEF FlightInv, RowOfThread
<1>6. ASSUME NEW u \in BoardTasks, link'[u] # NoLink
      PROVE  /\ row'[link'[u].attempt].state \in {"completed", "accepted"}
             /\ row'[link'[u].attempt].of = u
  <2>1. CASE u = t
    BY <1>1, <1>3, <1>4, <1>5, <2>1 DEF Finished, Of
  <2>2. CASE u # t
    BY <1>1, <1>4, <1>6, <2>2 DEF ResultInv
  <2> QED BY <2>1, <2>2
<1>7. ASSUME NEW b \in AttemptIds, thread'[b].pc \in {"completed", "staging", "linking"}
      PROVE  link'[Of(b)'].attempt # b
  <2>1. b # a /\ thread'[b] = thread[b] /\ Of(b)' = Of(b)
    BY <1>1, <1>2, <1>7 DEF Of
  <2>2. Runs(b) /\ Of(b) \in BoardTasks
    BY <1>7, <2>1, ThreadFacts
  <2>3. Of(b) # t
    BY <1>3, <1>5, <2>1, <2>2 DEF ThreadInv
  <2> QED BY <1>4, <1>7, <2>1, <2>2, <2>3 DEF ResultInv
<1>8. ASSUME NEW b \in AttemptIds, thread'[b].pc = "accepting"
      PROVE  /\ Sources(Of(b))' # {} \/ Of(b)' \notin Range(ReviewOf)
             /\ \A u \in Sources(Of(b))' : row'[link'[u].attempt].state = "accepted"
  <2>1. b # a /\ thread'[b] = thread[b] /\ Of(b)' = Of(b)
    BY <1>1, <1>2, <1>8 DEF Of
  <2>2. PICK r \in BoardTasks : r = Of(b)
    BY <1>8, <2>1, ThreadFacts
  <2>3. /\ Sources(r) # {} \/ r \notin Range(ReviewOf)
        /\ \A u \in Sources(r) : row[link[u].attempt].state = "accepted"
    BY <1>8, <2>1, <2>2 DEF ResultInv
  <2>4. \A u \in Sources(r) : u \in BoardTasks /\ Kind[u] = "work" /\ link[u] # NoLink
    BY <1>0, SourcesUnique
  <2>5. ASSUME r \in Range(ReviewOf)
        PROVE  \E u \in Sources(r) : u # t /\ ReviewOf[u] = r
    <3>1. PICK u \in Sources(r) : TRUE
      BY <2>3, <2>5
    <3>2. link[u].review = r \/ ReviewOf[u] = r
      BY DEF Sources
    <3>3. ReviewOf[u] = r
      BY <2>4, <2>5, <3>2 DEF LinkInv
    <3> QED BY <1>5, <2>4, <3>3
  <2>6. Sources(r)' # {} \/ r \notin Range(ReviewOf)
    BY <1>4, <2>4, <2>5 DEF Sources
  <2>7. t \notin Sources(r)'
    <3>1. SUFFICES ASSUME t \in Sources(r)' PROVE FALSE
      OBVIOUS
    <3>2. ReviewOf[t] = r
      BY <1>4, <3>1 DEF Sources
    <3>3. r \in Range(ReviewOf)
      BY <1>4, <3>2, ReviewAssumption DEF Range
    <3> QED BY <1>4, <2>4, <2>5, <3>2, <3>3, ReviewAssumption DEF IsInjective
  <2>8. ASSUME NEW u, u \in Sources(r)'
        PROVE  row'[link'[u].attempt].state = "accepted"
    <3>1. u \in BoardTasks /\ u # t
      BY <2>7, <2>8 DEF Sources
    <3>2. u \in Sources(r)
      BY <1>3, <2>8, <3>1, NewSource
    <3> QED BY <1>1, <1>4, <2>3, <3>1, <3>2
  <2>9. Sources(Of(b))' = Sources(r)'
    BY <2>1, <2>2 DEF Sources
  <2> QED BY <2>1, <2>2, <2>6, <2>8, <2>9
<1>9. AcceptedInLedger'
  <2>1. ASSUME NEW u \in BoardTasks, file'[u].state = "accepted"
        PROVE  link'[u].attempt # NoAttempt /\ row'[link'[u].attempt].state = "accepted"
    <3>1. link[u].attempt # NoAttempt /\ row[link[u].attempt].state = "accepted"
      BY <1>1, <2>1 DEF ResultInv, AcceptedInLedger
    <3>2. u # t
      BY <1>5, <3>1 DEF NoLink
    <3> QED BY <1>1, <1>4, <3>1, <3>2
  <2> QED BY <2>1 DEF AcceptedInLedger
<1> QED BY <1>6, <1>7, <1>8, <1>9 DEF ResultInv

LEMMA ThreadResult ==
  ASSUME StructInv, LinkInv, FlightInv, ResultInv, OnePass, NEW a \in AttemptIds, ThreadStep(a)
  PROVE  ResultInv'
<1>0. [Next]_vars /\ BoardTypeOK
  BY DEF Next, StructInv
<1>1. Progress /\ Settled
  BY <1>0, StepStruct, StepSettles
<1>2. CASE WriteLink(a)
  BY <1>2, WriteLinkResult
<1>3. CASE ~WriteLink(a)
  <2>1. link' = link
    BY <1>3 DEF ThreadStep, StartAttempt, Completes, Fails, FinishRefused, ThreadFails,
     SettleRefused, SettleHeld, FailoverFromThread, WriteSuccessor, SupersedeFromThread,
     SettlePacket, Judge, SettleFailed, CreateReview, SettleReviewPending, AcceptSource,
     SettleAccepted, SettleReview, PropagateRejection, OwnStep, OwnWrite, boardVars
  <2>2. ASSUME NEW t \in BoardTasks, file'[t].state = "accepted"
        PROVE  \/ file[t].state = "accepted"
               \/ link[t].attempt \in AttemptIds /\ row[link[t].attempt].state = "accepted"
    <3>1. CASE ~SettleAccepted(a)
      BY <2>2, <3>1, ThreadAccepts DEF NoneAccepted
    <3>2. CASE SettleAccepted(a)
      <4>1. PICK w \in Sources(Of(a)) : Save(w, "accepted", "none")
        BY <3>2 DEF SettleAccepted
      <4>2. thread[a].pc = "accepting"
        BY <3>2 DEF SettleAccepted, At
      <4>3. Of(a) \in BoardTasks
        BY <4>2, ThreadFacts
      <4>4. w \in BoardTasks /\ link[w] # NoLink
        BY <1>0, <4>3, SourcesUnique
      <4>5. link[w].attempt \in AttemptIds /\ row[link[w].attempt].state = "accepted"
        BY <4>2, <4>4 DEF LinkInv, ResultInv
      <4>6. \A u \in BoardTasks \ {w} : file'[u] = file[u]
        BY <1>0, <4>1, <4>4, SaveSteps DEF FileStates
      <4> QED BY <2>2, <4>5, <4>6
    <3> QED BY <3>1, <3>2
  <2>3. ASSUME Completes(a) PROVE link[Of(a)].attempt # a
    <3>1. thread[a].pc = "running" /\ row[a].state = "dispatching"
      BY <2>3 DEF Completes, At
    <3>2. Of(a) \in BoardTasks
      BY <3>1, ThreadFacts
    <3> QED BY <3>1, <3>2, SentinelAssumption DEF ResultInv, NoLink
  <2>4. ASSUME AcceptSource(a), thread'[a].pc = "accepting"
        PROVE  \E w \in Sources(Of(a)) : row'[link[w].attempt].state = "accepted"
    <3>1. thread[a].pc = "approved"
      BY <2>4 DEF AcceptSource, At
    <3>2. Of(a) \in BoardTasks
      BY <3>1, ThreadFacts
    <3>3. ~Goto(a, "passing")
      BY <1>0, <2>4, GotoSteps DEF ThreadPcs
    <3>4. PICK w \in Sources(Of(a)) : row' = [row EXCEPT ![link[w].attempt].state = "accepted"]
      BY <2>4, <3>3 DEF AcceptSource
    <3>5. link[w].attempt \in AttemptIds
      BY <1>0, <3>2, SourcesUnique DEF LinkInv
    <3>6. row'[link[w].attempt].state = "accepted"
      BY <1>0, <3>4, <3>5, RowSteps DEF RowStates
    <3> QED BY <3>6
  <2>5. \A b \in AttemptIds :
           /\ thread'[b].pc \in {"completed", "staging", "linking"} =>
                \/ thread[b].pc \in {"completed", "staging", "linking"}
                \/ link[Of(b)].attempt # b
           /\ thread'[b].pc = "accepting" =>
                \/ thread[b].pc = "accepting"
                \/ \E w \in Sources(Of(b)) : row'[link[w].attempt].state = "accepted"
    BY <2>3, <2>4, ThreadGoes
  <2> QED BY <1>1, <2>1, <2>2, <2>5, SameLinks, ResultStays
<1> QED BY <1>2, <1>3

LEMMA StepResult ==
  ASSUME StructInv, LinkInv, FlightInv, ResultInv, OnePass, [Next]_vars
  PROVE  ResultInv'
<1>1. CASE UNCHANGED vars
  <2>1. Progress /\ Settled
    BY StepStruct, StepSettles
  <2>2. link' = link /\ file' = file /\ thread' = thread
    BY <1>1 DEF vars
  <2> QED BY <2>1, <2>2, SameLinks, ResultStays
<1> QED BY <1>1, PassResult, ThreadResult, OperatorResult DEF Next

LEMMA InitResult == Init => LinkInv /\ ResultInv
<1> SUFFICES ASSUME Init PROVE LinkInv /\ ResultInv
  OBVIOUS
<1>1. /\ \A t \in BoardTasks : link[t] = NoLink /\ file[t].state # "accepted"
      /\ \A a \in AttemptIds : thread[a].pc = "none"
  BY DEF Init, NoThread, Fresh, Absent
<1> QED BY <1>1 DEF LinkInv, ResultInv, AcceptedInLedger

\* What the board shows as accepted, the ledger accepted, and it is the attempt the link
\* names, whatever was retried or swept, under a living pass too, and wherever passes died,
\* as long as passes do not overlap.
THEOREM AcceptedIsInLedger == OnePass => (Spec => []AcceptedInLedger)
<1> SUFFICES ASSUME OnePass PROVE Spec => []AcceptedInLedger
  OBVIOUS
<1> DEFINE IInv == StructInv /\ LinkInv /\ FlightInv /\ ResultInv
<1>1. Init => IInv
  BY InitStruct, InitFlight, InitResult
<1>2. IInv /\ [Next]_vars => IInv'
  BY StepStruct, LinkSteps, StepFlight, StepResult
<1>3. IInv => AcceptedInLedger
  BY DEF ResultInv
<1> QED BY <1>1, <1>2, <1>3, PTL DEF Spec
-----------------------------------------------------------------------------
(* The runner moves attempts along the ledger's lifecycle: with any number *)
(* of passes, retries and sweeps under them                                 *)

Shaped(f, S, fields) == f = [x \in S |-> f[x]] /\ \A x \in S : DOMAIN f[x] = fields

\* A loop that starts a packet holds its queued attempt alone, and no thread of it yet.
StartingInv ==
  /\ Shaped(row, AttemptIds, {"state", "of"})
  /\ Shaped(pass, Passes, {"pc", "board", "next", "attempt"})
  /\ Shaped(thread, AttemptIds, {"pc", "pass"})
  /\ \A a \in AttemptIds : row[a].state = "absent" => thread[a].pc = "none"
  /\ \A q \in Passes : pass[q].pc = "starting" =>
       /\ pass[q].attempt \in AttemptIds
       /\ row[pass[q].attempt].state = "queued" /\ thread[pass[q].attempt].pc = "none"
       /\ \A r \in Passes : pass[r].pc = "starting" /\ pass[r].attempt = pass[q].attempt => r = q

\* One attempt changes state.
LEMMA RowSet ==
  ASSUME StartingInv, NEW b \in AttemptIds, NEW s, row' = [row EXCEPT ![b].state = s]
  PROVE  /\ Shaped(row', AttemptIds, {"state", "of"})
         /\ row'[b].state = s /\ \A a \in AttemptIds \ {b} : row'[a] = row[a]
<1> DEFINE r == [row[b] EXCEPT !.state = s]
<1>1. Shaped(row, AttemptIds, {"state", "of"}) /\ DOMAIN row[b] = {"state", "of"}
  BY DEF StartingInv, Shaped
<1>2. row' = [row EXCEPT ![b] = r]
  BY <1>1 DEF Shaped
<1>3. DOMAIN r = {"state", "of"} /\ r.state = s
  BY <1>1
<1> HIDE DEF r
<1> QED BY <1>1, <1>2, <1>3 DEF Shaped

LEMMA ThreadSet ==
  ASSUME StartingInv, NEW a \in AttemptIds, NEW pc, Goto(a, pc)
  PROVE  /\ Shaped(thread', AttemptIds, {"pc", "pass"})
         /\ thread'[a].pc = pc /\ \A b \in AttemptIds \ {a} : thread'[b] = thread[b]
<1> DEFINE r == [thread[a] EXCEPT !.pc = pc]
<1>1. Shaped(thread, AttemptIds, {"pc", "pass"}) /\ DOMAIN thread[a] = {"pc", "pass"}
  BY DEF StartingInv, Shaped
<1>2. thread' = [thread EXCEPT ![a] = r]
  BY <1>1 DEF Goto, Shaped
<1>3. DOMAIN r = {"pc", "pass"} /\ r.pc = pc
  BY <1>1
<1> HIDE DEF r
<1> QED BY <1>1, <1>2, <1>3 DEF Shaped

LEMMA PassSet ==
  ASSUME StartingInv, NEW q \in Passes, NEW r, DOMAIN r = {"pc", "board", "next", "attempt"},
         pass' = [pass EXCEPT ![q] = r]
  PROVE  /\ Shaped(pass', Passes, {"pc", "board", "next", "attempt"})
         /\ pass'[q] = r /\ \A p \in Passes \ {q} : pass'[p] = pass[p]
<1>1. Shaped(pass, Passes, {"pc", "board", "next", "attempt"})
  BY DEF StartingInv
<1> QED BY <1>1 DEF Shaped

\* Pass q stops starting an attempt, or was not starting one.
NotStarting(q) ==
  /\ Shaped(pass', Passes, {"pc", "board", "next", "attempt"})
  /\ pass'[q].pc # "starting" /\ \A p \in Passes \ {q} : pass'[p] = pass[p]

LEMMA OnwardSet ==
  ASSUME StartingInv, NEW q \in Passes, Onward(q)
  PROVE  NotStarting(q)
<1>d. DOMAIN pass[q] = {"pc", "board", "next", "attempt"}
  BY DEF StartingInv, Shaped
<1>1. PICK n : n = pass[q].next + 1
  OBVIOUS
<1> DEFINE r == [pass[q] EXCEPT !.pc = "loop", !.next = n, !.attempt = NoAttempt]
<1>2. pass' = [pass EXCEPT ![q] = r]
  BY <1>d, <1>1 DEF Onward, StartingInv, Shaped
<1>3. DOMAIN r = {"pc", "board", "next", "attempt"} /\ r.pc = "loop"
  BY <1>d
<1> HIDE DEF r
<1> QED BY <1>2, <1>3, PassSet DEF NotStarting

LEMMA PcSet ==
  ASSUME StartingInv, NEW q \in Passes, NEW pc, pc # "starting", NEW x,
         \/ pass' = [pass EXCEPT ![q].pc = pc]
         \/ pass' = [pass EXCEPT ![q].pc = pc, ![q].attempt = x]
  PROVE  NotStarting(q)
<1>d. DOMAIN pass[q] = {"pc", "board", "next", "attempt"}
  BY DEF StartingInv, Shaped
<1> DEFINE r == [pass[q] EXCEPT !.pc = pc]
           s == [pass[q] EXCEPT !.pc = pc, !.attempt = x]
<1>1. pass' = [pass EXCEPT ![q] = r] \/ pass' = [pass EXCEPT ![q] = s]
  BY DEF StartingInv, Shaped
<1>2. DOMAIN r = {"pc", "board", "next", "attempt"} /\ r.pc = pc
  BY <1>d
<1>3. DOMAIN s = {"pc", "board", "next", "attempt"} /\ s.pc = pc
  BY <1>d
<1> HIDE DEF r, s
<1> QED BY <1>1, <1>2, <1>3, PassSet DEF NotStarting

LEMMA IdleSet ==
  ASSUME StartingInv, NEW q \in Passes, NEW x, NEW pc, pc # "starting",
         \/ pass' = [pass EXCEPT ![q] = IdlePass]
         \/ pass' = [pass EXCEPT ![q] = [IdlePass EXCEPT !.pc = pc, !.board = x]]
  PROVE  NotStarting(q)
<1> DEFINE r == [IdlePass EXCEPT !.pc = pc, !.board = x]
<1>1. DOMAIN r = {"pc", "board", "next", "attempt"} /\ r.pc = pc
      /\ DOMAIN IdlePass = {"pc", "board", "next", "attempt"} /\ IdlePass.pc = "idle"
  BY DEF IdlePass
<1>2. pass' = [pass EXCEPT ![q] = IdlePass] \/ pass' = [pass EXCEPT ![q] = r]
  OBVIOUS
<1> HIDE DEF r
<1> QED BY <1>1, <1>2, PassSet DEF NotStarting

\* A step of a pass that takes its threads along or leaves them be.
LEMMA PassLeaves ==
  ASSUME StartingInv, NEW q \in Passes, NotStarting(q), row' = row,
         \/ thread' = thread
         \/ thread' = [a \in AttemptIds |-> IF a \in Mine(q) THEN NoThread ELSE thread[a]]
  PROVE  StartingInv'
<1>1. /\ Shaped(thread', AttemptIds, {"pc", "pass"})
      /\ \A a \in AttemptIds : thread[a].pc = "none" => thread'[a].pc = "none"
  BY DEF StartingInv, Shaped, NoThread
<1>2. \A p \in Passes : pass'[p].pc = "starting" => p # q /\ pass'[p] = pass[p]
  BY DEF NotStarting
<1> QED BY <1>1, <1>2 DEF StartingInv, NotStarting

\* A step of a thread that moves an attempt no loop is starting.
LEMMA ThreadLeaves ==
  ASSUME StartingInv, pass' = pass,
         NEW a \in AttemptIds, thread[a].pc # "none", NEW pc, Goto(a, pc),
         \/ row' = row
         \/ \E b \in AttemptIds : \E s : /\ row' = [row EXCEPT ![b].state = s] /\ s # "absent"
                                         /\ b = a \/ row[b].state \notin {"queued", "absent"}
  PROVE  StartingInv'
<1>1. /\ Shaped(thread', AttemptIds, {"pc", "pass"})
      /\ \A b \in AttemptIds \ {a} : thread'[b] = thread[b]
  BY ThreadSet
<1>2. /\ Shaped(row', AttemptIds, {"state", "of"})
      /\ \A c \in AttemptIds : row[c].state = "queued" /\ thread[c].pc = "none" =>
           row'[c].state = "queued"
      /\ \A c \in AttemptIds : row'[c].state = "absent" => row[c].state = "absent"
  <2>1. CASE row' = row
    BY <2>1 DEF StartingInv
  <2>2. ASSUME NEW b \in AttemptIds, NEW s, row' = [row EXCEPT ![b].state = s], s # "absent",
               b = a \/ row[b].state \notin {"queued", "absent"}
        PROVE  <1>2
    <3>1. /\ Shaped(row', AttemptIds, {"state", "of"})
          /\ row'[b].state = s /\ \A c \in AttemptIds \ {b} : row'[c] = row[c]
      BY <2>2, RowSet
    <3> QED BY <2>2, <3>1
  <2> QED BY <2>1, <2>2
<1> QED BY <1>1, <1>2 DEF StartingInv

\* Nobody moved: the lifecycle stutters.
LEMMA Unmoved ==
  ASSUME row' = row
  PROVE  UNCHANGED Lifecycle!lifecycleVars
BY DEF Lifecycle!lifecycleVars

MovesRow(b, new) == row'[b].state = new /\ \A a \in AttemptIds \ {b} : row'[a] = row[a]

LEMMA MovedRow ==
  ASSUME NEW b \in AttemptIds, NEW old, NEW new, row[b].state = old,
         old # "absent", new # "absent", MovesRow(b, new)
  PROVE  Lifecycle!Move(b, old, new)
<1>1. row'[b].state = new /\ \A a \in AttemptIds \ {b} : row'[a] = row[a]
  BY DEF MovesRow
<1>2. [a \in AttemptIds |-> row'[a].state]
        = [[a \in AttemptIds |-> row[a].state] EXCEPT ![b] = new]
  BY <1>1
<1>3. [a \in AttemptIds |-> IF row'[a].state = "absent" THEN NoTask ELSE a]
        = [a \in AttemptIds |-> IF row[a].state = "absent" THEN NoTask ELSE a]
  BY <1>1
<1> QED BY <1>2, <1>3 DEF Lifecycle!Move

LEMMA Moved ==
  ASSUME StartingInv, NEW b \in AttemptIds, NEW old, NEW new, row[b].state = old,
         old # "absent", new # "absent", row' = [row EXCEPT ![b].state = new]
  PROVE  Lifecycle!Move(b, old, new)
BY RowSet, MovedRow DEF MovesRow

LEMMA AdmitsAttempt ==
  ASSUME StartingInv, NEW q \in Passes, Admit(q)
  PROVE  StartingInv' /\ Lifecycle!LifecycleNext
<1>1. PICK a \in AttemptIds :
        /\ row[a].state = "absent"
        /\ row' = [row EXCEPT ![a] = [state |-> "queued", of |-> Task(q)]]
        /\ \/ /\ pass' = [pass EXCEPT ![q].pc = "starting", ![q].attempt = a]
              /\ thread' = thread
           \/ /\ thread' = [thread EXCEPT ![a] = [pc |-> "admitted", pass |-> q]]
              /\ Onward(q)
  BY DEF Admit
<1>2. /\ Shaped(row', AttemptIds, {"state", "of"})
      /\ row'[a].state = "queued" /\ \A b \in AttemptIds \ {a} : row'[b] = row[b]
  BY <1>1 DEF StartingInv, Shaped
<1>3. \A p \in Passes : pass[p].pc = "starting" => pass[p].attempt # a
  BY <1>1 DEF StartingInv
<1>4. StartingInv'
  <2>1. CASE /\ pass' = [pass EXCEPT ![q].pc = "starting", ![q].attempt = a]
             /\ thread' = thread
    <3> DEFINE r == [pass[q] EXCEPT !.pc = "starting", !.attempt = a]
    <3>1. pass' = [pass EXCEPT ![q] = r]
      BY <2>1 DEF StartingInv, Shaped
    <3>2. DOMAIN r = {"pc", "board", "next", "attempt"} /\ r.attempt = a
      BY DEF StartingInv, Shaped
    <3> HIDE DEF r
    <3>3. /\ Shaped(pass', Passes, {"pc", "board", "next", "attempt"})
          /\ pass'[q].attempt = a /\ \A p \in Passes \ {q} : pass'[p] = pass[p]
      BY <3>1, <3>2, PassSet
    <3>4. thread[a].pc = "none"
      BY <1>1 DEF StartingInv
    <3>5. \A b \in AttemptIds : row'[b].state = "absent" => thread'[b].pc = "none"
      BY <1>2, <2>1 DEF StartingInv
    <3>6. ASSUME NEW p \in Passes, pass'[p].pc = "starting"
          PROVE  /\ pass'[p].attempt \in AttemptIds
                 /\ row'[pass'[p].attempt].state = "queued"
                 /\ thread'[pass'[p].attempt].pc = "none"
                 /\ \A o \in Passes :
                      pass'[o].pc = "starting" /\ pass'[o].attempt = pass'[p].attempt => o = p
      <4>1. CASE p = q
        BY <1>2, <1>3, <2>1, <3>3, <3>4, <4>1
      <4>2. CASE p # q
        <5>1. pass'[p] = pass[p] /\ pass[p].attempt \in AttemptIds \ {a}
          BY <1>3, <3>3, <3>6, <4>2 DEF StartingInv
        <5>2. row'[pass'[p].attempt].state = "queued" /\ thread'[pass'[p].attempt].pc = "none"
          <6>1. row[pass[p].attempt].state = "queued" /\ thread[pass[p].attempt].pc = "none"
            BY <3>6, <5>1 DEF StartingInv
          <6> QED BY <1>2, <2>1, <5>1, <6>1
        <5>3. ASSUME NEW o \in Passes, pass'[o].pc = "starting",
                     pass'[o].attempt = pass'[p].attempt
              PROVE  o = p
          <6>1. o # q
            BY <3>3, <5>1, <5>3
          <6> QED BY <3>3, <3>6, <5>1, <5>3, <6>1 DEF StartingInv
        <5> QED BY <5>1, <5>2, <5>3
      <4> QED BY <4>1, <4>2
    <3> QED BY <1>2, <2>1, <3>3, <3>5, <3>6 DEF StartingInv
  <2>2. CASE /\ thread' = [thread EXCEPT ![a] = [pc |-> "admitted", pass |-> q]]
             /\ Onward(q)
    <3>1. /\ Shaped(thread', AttemptIds, {"pc", "pass"})
          /\ \A b \in AttemptIds \ {a} : thread'[b] = thread[b]
      BY <2>2 DEF StartingInv, Shaped
    <3>2. NotStarting(q)
      BY <2>2, OnwardSet
    <3> QED BY <1>2, <1>3, <3>1, <3>2 DEF StartingInv, NotStarting
  <2> QED BY <1>1, <2>1, <2>2
<1>5. Lifecycle!Enter(a, a, "queued")
  <2>1. [b \in AttemptIds |-> row'[b].state]
          = [[b \in AttemptIds |-> row[b].state] EXCEPT ![a] = "queued"]
    BY <1>2
  <2>2. [b \in AttemptIds |-> IF row'[b].state = "absent" THEN NoTask ELSE b]
          = [[b \in AttemptIds |-> IF row[b].state = "absent" THEN NoTask ELSE b] EXCEPT ![a] = a]
    BY <1>2
  <2>3. \A b \in AttemptIds : (IF row[b].state = "absent" THEN NoTask ELSE b) # a
    BY <1>1, SentinelAssumption
  <2> QED BY <1>1, <2>1, <2>2, <2>3 DEF Lifecycle!Enter
<1> QED BY <1>4, <1>5 DEF Lifecycle!LifecycleNext

LEMMA StartsPacket ==
  ASSUME StartingInv, NEW q \in Passes, StartPacket(q)
  PROVE  StartingInv' /\ Lifecycle!LifecycleNext
<1>1. PICK a \in AttemptIds :
        a = pass[q].attempt /\ row[a].state = "queued" /\ thread[a].pc = "none"
  BY DEF StartPacket, StartingInv
<1>2. PICK s \in {"dispatching", "held"}, pc \in {"running", "unfinished"} :
        /\ row' = [row EXCEPT ![a].state = s]
        /\ thread' = [thread EXCEPT ![a] = [pc |-> pc, pass |-> q]]
  BY <1>1 DEF StartPacket, Move
<1>3. NotStarting(q)
  BY OnwardSet DEF StartPacket
<1>4. /\ Shaped(row', AttemptIds, {"state", "of"})
      /\ row'[a].state = s /\ \A b \in AttemptIds \ {a} : row'[b] = row[b]
  BY <1>2, RowSet
<1>5. /\ Shaped(thread', AttemptIds, {"pc", "pass"})
      /\ \A b \in AttemptIds \ {a} : thread'[b] = thread[b]
  BY <1>2 DEF StartingInv, Shaped
<1>6. \A p \in Passes \ {q} : pass[p].pc = "starting" => pass[p].attempt # a
  BY <1>1 DEF StartingInv, StartPacket
<1>7. StartingInv'
  BY <1>3, <1>4, <1>5, <1>6 DEF StartingInv, NotStarting
<1>8. Lifecycle!Move(a, "queued", s)
  BY <1>1, <1>2, Moved
<1> QED BY <1>7, <1>8 DEF Lifecycle!LifecycleNext

LEMMA PassFollows ==
  ASSUME StartingInv, NEW q \in Passes, PassStep(q) \/ Crash(q)
  PROVE  StartingInv' /\ [Lifecycle!LifecycleNext]_(Lifecycle!lifecycleVars)
<1>1. CASE Admit(q) \/ StartPacket(q)
  BY <1>1, AdmitsAttempt, StartsPacket
<1>2. CASE ~(Admit(q) \/ StartPacket(q))
  <2>1. row' = row
    BY <1>2 DEF PassStep, BeginPass, SkipTask, FailoverFromLoop, SupersedeFromLoop, RequeueDead,
       NotRouted, Collides, AwaitVictim, VictimJoined, MarkDispatched, AdmitRefused, EndLoop, RaiseError,
       LandPacket, EndPass, Crash, PassGone, ledgerVars
  <2>2. \/ thread' = thread
        \/ thread' = [a \in AttemptIds |-> IF a \in Mine(q) THEN NoThread ELSE thread[a]]
    BY <1>2 DEF PassStep, BeginPass, SkipTask, FailoverFromLoop, SupersedeFromLoop, RequeueDead,
       NotRouted, Collides, AwaitVictim, VictimJoined, MarkDispatched, AdmitRefused, EndLoop, RaiseError,
       LandPacket, EndPass, Crash, PassGone, runnerVars
  <2>3. NotStarting(q) \/ (thread' = thread /\ pass' = pass)
    <3>1. \/ Onward(q) \/ pass' = [pass EXCEPT ![q] = IdlePass]
          \/ pass' = [pass EXCEPT ![q] = [IdlePass EXCEPT !.pc = "loop", !.board = file]]
          \/ \E pc \in {"superseding", "marked", "landing"} : pass' = [pass EXCEPT ![q].pc = pc]
          \/ \E pc \in {"waiting", "loop"} : \E x :
               pass' = [pass EXCEPT ![q].pc = pc, ![q].attempt = x]
          \/ thread' = thread /\ pass' = pass
      BY <1>2 DEF PassStep, BeginPass, SkipTask, FailoverFromLoop, SupersedeFromLoop,
         RequeueDead, NotRouted, Collides, AwaitVictim, VictimJoined, MarkDispatched, AdmitRefused,
         EndLoop, RaiseError, LandPacket, EndPass, Crash, PassGone, runnerVars
    <3>2. Onward(q) => NotStarting(q)
      BY OnwardSet
    <3>3. \A pc \in {"superseding", "marked", "landing"} :
            pass' = [pass EXCEPT ![q].pc = pc] => NotStarting(q)
      BY PcSet
    <3>4. \A pc \in {"waiting", "loop"} : \A x :
            pass' = [pass EXCEPT ![q].pc = pc, ![q].attempt = x] => NotStarting(q)
      BY PcSet
    <3>5. \/ pass' = [pass EXCEPT ![q] = IdlePass]
          \/ pass' = [pass EXCEPT ![q] = [IdlePass EXCEPT !.pc = "loop", !.board = file]]
          => NotStarting(q)
      BY IdleSet
    <3> QED BY <3>1, <3>2, <3>3, <3>4, <3>5
  <2>4. CASE NotStarting(q)
    BY <2>1, <2>2, <2>4, PassLeaves, Unmoved
  <2>5. CASE thread' = thread /\ pass' = pass
    BY <2>1, <2>5, Unmoved DEF StartingInv
  <2> QED BY <2>3, <2>4, <2>5
<1> QED BY <1>1, <1>2

LEMMA ThreadFollows ==
  ASSUME StartingInv, NEW a \in AttemptIds, ThreadStep(a)
  PROVE  StartingInv' /\ [Lifecycle!LifecycleNext]_(Lifecycle!lifecycleVars)
<1>1. thread[a].pc # "none" /\ row[a].state # "absent" /\ pass' = pass /\ \E pc : Goto(a, pc)
  BY DEF ThreadStep, StartAttempt, Completes, Fails, FinishRefused, ThreadFails, SettleRefused,
     SettleHeld, FailoverFromThread, SupersedeFromThread, SettlePacket, Judge, SettleFailed,
     CreateReview, WriteLink, SettleReviewPending, AcceptSource, SettleAccepted, SettleReview,
     PropagateRejection, OwnStep, OwnWrite, At, StartingInv
<1>2. CASE row' = row
  BY <1>1, <1>2, ThreadLeaves, Unmoved
<1>3. ASSUME NEW old, NEW new, NEW b \in AttemptIds, row[b].state = old,
             row' = [row EXCEPT ![b].state = new], b = a \/ old = "completed",
             <<old, new>> \in {<<"queued", "dispatching">>, <<"queued", "held">>,
                               <<"dispatching", "completed">>, <<"dispatching", "held">>,
                               <<"completed", "accepted">>}
      PROVE  StartingInv' /\ [Lifecycle!LifecycleNext]_(Lifecycle!lifecycleVars)
  <2>1. old # "absent" /\ new # "absent"
    BY <1>3
  <2>2. StartingInv'
    BY <1>1, <1>3, <2>1, ThreadLeaves
  <2>3. Lifecycle!Move(b, old, new)
    BY <1>3, <2>1, Moved
  <2> QED BY <1>3, <2>2, <2>3 DEF Lifecycle!LifecycleNext
<1>4. CASE StartAttempt(a)
  BY <1>3, <1>4 DEF StartAttempt, Move
<1>5. CASE Completes(a)
  BY <1>3, <1>5 DEF Completes, Move
<1>6. CASE Fails(a)
  BY <1>2, <1>3, <1>6 DEF Fails, Move, ledgerVars
<1>7. CASE AcceptSource(a)
  <2>1. CASE row' # row
    <3>1. PICK w : /\ row[link[w].attempt].state = "completed"
                   /\ row' = [row EXCEPT ![link[w].attempt].state = "accepted"]
      BY <1>7, <2>1 DEF AcceptSource, Acceptable
    <3>2. link[w].attempt \in AttemptIds
      BY <2>1, <3>1 DEF StartingInv, Shaped
    <3> QED BY <1>3, <3>1, <3>2
  <2> QED BY <1>2, <2>1
<1>8. CASE ~(StartAttempt(a) \/ Completes(a) \/ Fails(a) \/ AcceptSource(a))
  <2>1. row' = row
    BY <1>8 DEF ThreadStep, FinishRefused, ThreadFails, SettleRefused, SettleHeld,
       FailoverFromThread, SupersedeFromThread, SettlePacket, Judge, SettleFailed,
       CreateReview, WriteLink, SettleReviewPending, SettleAccepted, SettleReview,
       PropagateRejection, OwnWrite, ledgerVars
  <2> QED BY <1>2, <2>1
<1> QED BY <1>4, <1>5, <1>6, <1>7, <1>8

LEMMA OperatorFollows ==
  ASSUME StartingInv, OperatorStep
  PROVE  StartingInv' /\ [Lifecycle!LifecycleNext]_(Lifecycle!lifecycleVars)
<1>1. pass' = pass /\ thread' = thread
  BY DEF OperatorStep, ResolveHeld, HoldAbandoned, Retry, runnerVars
<1>2. ASSUME NEW old, NEW new, NEW b \in AttemptIds, row[b].state = old,
             row' = [row EXCEPT ![b].state = new],
             <<old, new>> \in {<<"held", "failed">>, <<"held", "abandoned">>,
                               <<"dispatching", "held">>}
      PROVE  StartingInv' /\ [Lifecycle!LifecycleNext]_(Lifecycle!lifecycleVars)
  <2>1. old \notin {"absent", "queued"} /\ new # "absent"
    BY <1>2
  <2>2. /\ Shaped(row', AttemptIds, {"state", "of"})
        /\ row'[b].state = new /\ \A c \in AttemptIds \ {b} : row'[c] = row[c]
    BY <1>2, RowSet
  <2>3. StartingInv'
    BY <1>1, <1>2, <2>1, <2>2 DEF StartingInv
  <2>4. Lifecycle!Move(b, old, new)
    BY <1>2, <2>1, Moved
  <2> QED BY <1>2, <2>3, <2>4 DEF Lifecycle!LifecycleNext
<1>3. ASSUME NEW t, NEW s, Retry(t, s)
      PROVE  StartingInv' /\ [Lifecycle!LifecycleNext]_(Lifecycle!lifecycleVars)
  <2>1. row' = row
    BY <1>3 DEF Retry, ledgerVars
  <2> QED BY <1>1, <2>1, Unmoved DEF StartingInv
<1> QED BY <1>2, <1>3 DEF OperatorStep, ResolveHeld, HoldAbandoned, Move

LEMMA InitFollows == Init => StartingInv /\ Lifecycle!LifecycleInit
<1> SUFFICES ASSUME Init PROVE StartingInv /\ Lifecycle!LifecycleInit
  OBVIOUS
<1>1. /\ row = [a \in AttemptIds |-> NoRow] /\ thread = [a \in AttemptIds |-> NoThread]
      /\ pass = [q \in Passes |-> IdlePass]
  BY DEF Init
<1>2. Lifecycle!LifecycleInit
  BY <1>1 DEF Lifecycle!LifecycleInit, NoRow
<1>3. StartingInv
  BY <1>1 DEF StartingInv, Shaped, NoRow, NoThread, IdlePass
<1> QED BY <1>2, <1>3

\* Every step of the runner and of the operator moves at most one attempt, along the
\* lifecycle the ledger promises: with passes that overlap and die anywhere, retries and
\* sweeps under them.
THEOREM RunnerFollowsLifecycle == Spec => FollowsLifecycle
<1>1. StartingInv /\ [Next]_vars =>
        StartingInv' /\ [Lifecycle!LifecycleNext]_(Lifecycle!lifecycleVars)
  <2> SUFFICES ASSUME StartingInv, [Next]_vars
               PROVE  StartingInv' /\ [Lifecycle!LifecycleNext]_(Lifecycle!lifecycleVars)
    OBVIOUS
  <2>1. CASE UNCHANGED vars
    BY <2>1, Unmoved DEF vars, StartingInv
  <2> QED BY <2>1, PassFollows, ThreadFollows, OperatorFollows DEF Next
<1> QED BY <1>1, InitFollows, PTL DEF Spec, FollowsLifecycle, Lifecycle!LifecycleSpec
=============================================================================
