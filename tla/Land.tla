--------------------------------- MODULE Land ---------------------------------
(***************************************************************************)
(* Landing passed packets on their base (src/inference_grid/board/land.py). *)
(*                                                                         *)
(* Landings run in several processes: the auto-landing end of each board    *)
(* pass and the operator's command.  A landing reads the task file and the  *)
(* base head, takes a lock directory, probes the merge, makes and gates the *)
(* merge commit in a scratch worktree, moves the base ref and settles the   *)
(* task file.  Each of those steps is an action; a landing may die between  *)
(* any two.                                                                *)
(*                                                                         *)
(* A commit is the set of packets merged into it and, where the board is    *)
(* kept in git, the board files it holds.  Whether a merge conflicts and    *)
(* whether its gates pass is a choice; how a merge was made (ff, union,     *)
(* merge), reports and ledger events are left out.                          *)
(***************************************************************************)
EXTENDS Integers, FiniteSets

CONSTANTS
  Packets,
  Landers,       \* landing processes
  Built,         \* packets that have passed at the start; the others are ready
  BoardTracked,  \* the project root holds the base and the board is kept in git
  MaxCrashes,    \* bound on deaths (model checking only)
  NoPacket

ASSUME PacketAssumption == Built \subseteq Packets /\ NoPacket \notin Packets
ASSUME TrackedAssumption == BoardTracked \in BOOLEAN
\* A pid is neither of the other states of the lock.
ASSUME LandersAssumption == {"none", "nopid"} \cap Landers = {}

VARIABLES
  file,     \* packet -> state in its task file
  base,     \* commit the base ref points at: [merged, board]
  lock,     \* the lock directory: "none", "nopid" or the lander its pid names
  lander,   \* process -> [pc, packet, head, commit]
  crashes,
  gated     \* sets of packets whose merged tree passed its gates (history)

landVars == <<file, base, lock, lander, crashes, gated>>

NoCommit == [merged |-> {}, board |-> <<>>]
NoLanding == [pc |-> "idle", packet |-> NoPacket, head |-> NoCommit, commit |-> NoCommit]

LandInit ==
  /\ file = [t \in Packets |-> IF t \in Built THEN "passed" ELSE "ready"]
  /\ base = [merged |-> {}, board |-> file]
  /\ lock = "none"
  /\ lander = [l \in Landers |-> NoLanding]
  /\ crashes = 0
  /\ gated = {{}}

LanderAt(l, pc) == lander[l].pc = pc
LanderTo(l, pc) == lander' = [lander EXCEPT ![l].pc = pc]
Leave(l) == lander' = [lander EXCEPT ![l] = NoLanding]
Packet(l) == lander[l].packet
-----------------------------------------------------------------------------
(* Reading, before the lock is taken *)

ReadTask(l, t) ==
  /\ LanderAt(l, "idle") /\ file[t] = "passed"
  /\ lander' = [lander EXCEPT ![l] = [NoLanding EXCEPT !.pc = "reading", !.packet = t]]
  /\ UNCHANGED <<file, base, lock, crashes, gated>>

\* Board files that differ from the base are committed on it first.
ReadBase(l) ==
  /\ LanderAt(l, "reading")
  /\ base' = IF BoardTracked THEN [base EXCEPT !.board = file] ELSE base
  /\ lander' = [lander EXCEPT ![l].pc = "locking", ![l].head = base']
  /\ UNCHANGED <<file, lock, crashes, gated>>
-----------------------------------------------------------------------------
(* _acquire_lock and _release_lock *)

Alive(l) == ~LanderAt(l, "dead")

MakeLock(l) ==
  /\ LanderAt(l, "locking") /\ lock = "none"
  /\ lock' = "nopid"
  /\ LanderTo(l, "signing")
  /\ UNCHANGED <<file, base, crashes, gated>>

\* The owner's pid is read: a living owner, or none written yet, refuses the landing.
LockHeld(l) ==
  /\ LanderAt(l, "locking") /\ lock # "none"
  /\ IF lock \in Landers /\ ~Alive(lock) THEN LanderTo(l, "stealing") ELSE Leave(l)
  /\ UNCHANGED <<file, base, lock, crashes, gated>>

RemoveDeadLock(l) ==
  /\ LanderAt(l, "stealing")
  /\ lock' = "none"
  /\ LanderTo(l, "remaking")
  /\ UNCHANGED <<file, base, crashes, gated>>

RemakeLock(l) ==
  /\ LanderAt(l, "remaking")
  /\ IF lock = "none" THEN lock' = "nopid" /\ LanderTo(l, "signing")
                      ELSE Leave(l) /\ UNCHANGED lock
  /\ UNCHANGED <<file, base, crashes, gated>>

\* Writing the pid raises when the directory has gone.
SignLock(l) ==
  /\ LanderAt(l, "signing")
  /\ IF lock = "none" THEN LanderTo(l, "raised") /\ UNCHANGED lock
                      ELSE lock' = l /\ LanderTo(l, "probing")
  /\ UNCHANGED <<file, base, crashes, gated>>

\* As if the lock were left to be stolen.
KeepLock(l) ==
  /\ LanderAt(l, "releasing")
  /\ Leave(l)
  /\ UNCHANGED <<file, base, lock, crashes, gated>>
Release(l) ==
  /\ LanderAt(l, "releasing") \/ LanderAt(l, "raising")
  /\ lock' = IF lock = l THEN "none" ELSE lock
  /\ IF LanderAt(l, "raising") THEN LanderTo(l, "raised") ELSE Leave(l)
  /\ UNCHANGED <<file, base, crashes, gated>>
-----------------------------------------------------------------------------
(* Under the lock *)

\* verify_merge: conflicts and gates against the base as it is now.
Probe(l) ==
  /\ LanderAt(l, "probing")
  /\ \/ LanderTo(l, "merging")
     \/ LanderTo(l, "blocking")
  /\ UNCHANGED <<file, base, lock, crashes, gated>>

\* As if the probe's gates were enough.
MergeUngated(l) ==
  /\ LanderAt(l, "merging")
  /\ lander' = [lander EXCEPT ![l].pc = "moving", ![l].commit =
                  [lander[l].head EXCEPT !.merged = @ \cup {Packet(l)}]]
  /\ UNCHANGED <<file, base, lock, crashes, gated>>
\* _merge_and_commit: the merge onto the head read before the lock, and its gates.  A
\* branch the head already contains leaves git nothing to commit, which is an error.
MergeAndCommit(l) ==
  /\ LanderAt(l, "merging")
  /\ LET head == lander[l].head
         merged == head.merged \cup {Packet(l)}
     IN \/ /\ merged # head.merged
           /\ lander' = [lander EXCEPT ![l].pc = "moving",
                                       ![l].commit = [head EXCEPT !.merged = merged]]
           /\ gated' = gated \cup {merged}
        \/ LanderTo(l, "blocking") /\ UNCHANGED gated
  /\ UNCHANGED <<file, base, lock, crashes>>

\* git update-ref without the value the ref is expected to have.
MoveBase(l) ==
  /\ LanderAt(l, "moving")
  /\ base' = lander[l].commit
  /\ LanderTo(l, IF BoardTracked THEN "syncing" ELSE "settling")
  /\ UNCHANGED <<file, lock, crashes, gated>>

\* git reset --hard in the project root.
SyncCheckout(l) ==
  /\ LanderAt(l, "syncing")
  /\ file' = base.board
  /\ LanderTo(l, "settling")
  /\ UNCHANGED <<base, lock, crashes, gated>>

\* _settle rewrites the file from the task as it was read.
SettleLanding(l, pc, state) ==
  /\ LanderAt(l, pc)
  /\ file' = [file EXCEPT ![Packet(l)] = state]
  /\ LanderTo(l, "releasing")
  /\ UNCHANGED <<base, lock, crashes, gated>>

\* Git fails while it commits the board files, moves the ref or resets the checkout; the
\* error leaves land() through its finally clause ...
GitFails(l) ==
  /\ \/ LanderAt(l, "reading") /\ BoardTracked /\ LanderTo(l, "raised")
     \/ (LanderAt(l, "moving") \/ LanderAt(l, "syncing")) /\ LanderTo(l, "raising")
  /\ UNCHANGED <<file, base, lock, crashes, gated>>

\* ... and the pass that called it blocks the task.
BlockFailed(l) ==
  /\ LanderAt(l, "raised")
  /\ file' = [file EXCEPT ![Packet(l)] = "blocked"]
  /\ Leave(l)
  /\ UNCHANGED <<base, lock, crashes, gated>>

LanderStep(l) ==
  \/ \E t \in Packets : ReadTask(l, t)
  \/ ReadBase(l) \/ MakeLock(l) \/ LockHeld(l) \/ RemoveDeadLock(l) \/ RemakeLock(l)
  \/ SignLock(l) \/ Probe(l) \/ MergeAndCommit(l) \/ MoveBase(l) \/ SyncCheckout(l)
  \/ SettleLanding(l, "settling", "landed") \/ SettleLanding(l, "blocking", "blocked")
  \/ Release(l) \/ GitFails(l) \/ BlockFailed(l)

LanderDies(l) ==
  /\ crashes < MaxCrashes
  /\ ~LanderAt(l, "idle") /\ Alive(l)
  /\ crashes' = crashes + 1
  /\ LanderTo(l, "dead")
  /\ UNCHANGED <<file, base, lock, gated>>

\* A runner pass of the same board settles a packet it built.
BuildPasses(t) ==
  /\ file[t] = "ready"
  /\ file' = [file EXCEPT ![t] = "passed"]
  /\ UNCHANGED <<base, lock, lander, crashes, gated>>

LandNext == \/ \E l \in Landers : LanderStep(l) \/ LanderDies(l)
        \/ \E t \in Packets : BuildPasses(t)

\* Passes and operators land again and again, and a living landing goes on.
LandSpec == LandInit /\ [][LandNext]_landVars /\ \A l \in Landers : WF_landVars(LanderStep(l))
-----------------------------------------------------------------------------
(* Properties *)

LanderPcs == {"idle", "reading", "locking", "signing", "stealing", "remaking", "probing",
              "merging", "moving", "syncing", "settling", "blocking", "releasing", "raising",
              "raised", "dead"}
FileStates == {"ready", "passed", "landed", "blocked"}
Commits == [merged : SUBSET Packets, board : [Packets -> FileStates]]

\* Type correctness.
LandTypeOK ==
  /\ file \in [Packets -> FileStates]
  /\ base \in Commits
  /\ lock \in {"none", "nopid"} \cup Landers
  /\ lander \in [Landers -> [pc : LanderPcs, packet : Packets \cup {NoPacket},
                             head : Commits \cup {NoCommit}, commit : Commits \cup {NoCommit}]]
  /\ crashes \in Nat
  /\ gated \subseteq SUBSET Packets

Critical == {"probing", "merging", "moving", "syncing", "settling", "blocking",
             "releasing", "raising"}

\* "Landings serialize on a lock directory": unless a landing died, no two are between
\* _acquire_lock and _release_lock, although mkdir and the pid file are two steps.
LockExclusive ==
  crashes = 0 => \A k, l \in Landers :
    lander[k].pc \in Critical /\ lander[l].pc \in Critical => k = l

\* The base only ever holds a combination of packets whose own merged tree passed the
\* gates, although the probe and the merge may see different bases.
BaseGated == base.merged \in gated

\* Landings take turns and land only what was gated (land.land: "the merge itself is proved
\* before the base moves").
LandingSound == LockExclusive /\ BaseGated

\* While no landing dies, every passed packet is settled in the end: a landing that finds
\* the lock held leaves the task for a later one.
PassedSettled ==
  [](crashes = 0) => \A t \in Packets : file[t] = "passed" ~> file[t] # "passed"

\* Landings serialize, so what one landed the next one builds on: a landed packet stays in
\* the base.
LandedStaysInBase == \A t \in Packets : file[t] = "landed" => t \in base.merged
=============================================================================
