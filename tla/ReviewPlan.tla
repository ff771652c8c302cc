------------------------------ MODULE ReviewPlan ------------------------------
(***************************************************************************)
(* Authoring review tasks for a git range: the range is one packet if it   *)
(* fits the budget, else one packet per commit, else one per top-level     *)
(* directory of a commit.  Planning reads only; then the files of each     *)
(* packet are written one after the other, and the author may die between  *)
(* two writes and be asked again, or be asked for another part of the same *)
(* range.  A task that is on the board is never authored again, whatever   *)
(* request it was authored for.                                            *)
(* Source: board/branch_review.py.                                         *)
(***************************************************************************)
EXTENDS Naturals, Sequences, FiniteSetsExt

CONSTANTS Paths,     \* the changed files
          Dir,       \* the top-level directory of each
          Bytes,     \* its size
          Generated, \* the files never staged
          Docs,      \* the documentation
          PathLimit, \* MAX_FILE_BYTES: a larger file is left to the patch
          Limit,     \* MAX_INPUT_BYTES: the packet budget
          Ranges,    \* the git ranges: their commits [paths, gone], and the paths their diff names
          Requested,    \* what may be asked for
          AuthorFalls, Asks \* bounds: deaths of the author, requests

ASSUME ReviewPlanAssumption ==
    /\ Dir \in [Paths -> STRING \ {""}] /\ Bytes \in [Paths -> Nat]
    /\ Generated \subseteq Paths /\ Docs \subseteq Paths
    /\ PathLimit \in Nat /\ Limit \in Nat /\ AuthorFalls \in Nat /\ Asks \in Nat
    /\ Ranges \subseteq [commits: Seq([paths: SUBSET Paths, gone: SUBSET Paths]), diff: SUBSET Paths]
    /\ \A r \in Ranges : r.commits # <<>>
    /\ \A w \in Requested : /\ w.paths \subseteq Paths
                         /\ w.split \in {"auto", "commit", "none"}
                         /\ w.include_docs \in BOOLEAN

VARIABLES range,  \* the reviewed range
          proved, \* a verify_merge task of the branch has passed on this board
          author, \* what the author does for which request
          left,   \* the packets still to be written
          passed_over, \* the ids this request skipped as already authored
          tasks,  \* the packets whose task file is on the board
          briefs, \* the ids whose brief is on disk
          asked, died

planVars == <<range, proved, author, left, passed_over, tasks, briefs, asked, died>>

NoRequest == [split |-> "none", paths |-> {}, label |-> "", include_docs |-> FALSE,
              exclude |-> {}, scope |-> "range"]
want == author.want
AuthorAt(step) == author.at = step

\* An id names a commit and the part of it, the packet of a whole range its tip and its label.
ReviewIds == {<<0, "branch">>}
             \cup ((UNION {DOMAIN r.commits : r \in Ranges})
                     \X ({""} \cup {w.label : w \in Requested} \cup {Dir[p] : p \in Paths}))

ReviewTypeOK ==
    /\ range \in Ranges /\ proved \in BOOLEAN
    /\ author \in [at: {"idle", "task", "brief", "done", "refused"},
                   want: Requested \cup {NoRequest}]
    /\ \A t \in tasks \cup left : /\ t.id \in ReviewIds
                                  /\ t.paths \subseteq Paths \ Generated
    /\ passed_over \cup briefs \subseteq ReviewIds
    /\ asked \in 0..Asks /\ died \in 0..AuthorFalls

ReviewInit ==
    /\ range \in Ranges
    /\ proved = FALSE
    /\ author = [at |-> "idle", want |-> NoRequest]
    /\ left = {} /\ passed_over = {} /\ tasks = {} /\ briefs = {}
    /\ asked = 0 /\ died = 0

-----------------------------------------------------------------------------
\* The packets.

BranchCommits == DOMAIN range.commits
Tip == Len(range.commits)
CommitPaths(k) == range.commits[k].paths
Changed == range.diff     \* without what a later commit took back

\* The last commit up to k that touches p deletes it.
GoneAt(p, k) ==
    LET touching == {j \in 1..k : p \in CommitPaths(j)}
    IN touching # {} /\ p \in range.commits[Max(touching)].gone

Reviewable(S) == S \ Generated
Staged(S, k) == {p \in Reviewable(S) : ~GoneAt(p, k) /\ Bytes[p] <= PathLimit}

\* Staged contents and the patch, one unit for each reviewable file.
Measure(S, k) ==
    MapThenSumSet(LAMBDA p : Bytes[p], Staged(S, k)) + Cardinality(Reviewable(S))

\* The packet of the commits ks, with the paths S as of commit k, that request w asks for.
ReviewPacket(id, ks, w, S, k) ==
    [id |-> id, commits |-> ks, filter |-> w.paths, paths |-> Reviewable(S), bytes |-> Measure(S, k)]

OnBoard(id) == \E t \in tasks : t.id = id

Groups(S) == {{p \in S : Dir[p] = Dir[q]} : q \in S}
DirOf(G) == Dir[CHOOSE p \in G : TRUE]

\* What commit k has to show under request w; it is left out if that is nothing or documents.
Shown(w, k) == IF k \in w.exclude THEN {} ELSE CommitPaths(k) \cap w.paths
DocsOnly(w, k) == ~w.include_docs /\ Shown(w, k) \subseteq Docs
LeftOut(w, k) == Shown(w, k) = {} \/ DocsOnly(w, k)
Fits(w, k) == Measure(Shown(w, k), k) <= Limit

Piece(w, k, part, S) == ReviewPacket(<<k, part>>, {k}, w, S, k)

\* As if the files in the root of the repository were in no group.
PiecesOfDirs(w, k) ==
    IF LeftOut(w, k) THEN {}
    ELSE IF Fits(w, k) THEN {Piece(w, k, "", Shown(w, k))}
    ELSE {Piece(w, k, DirOf(G), G) : G \in {H \in Groups(Shown(w, k)) : DirOf(H) # "root"}}

\* The packets of commit k.
Pieces(w, k) ==
    IF LeftOut(w, k) THEN {}
    ELSE IF Fits(w, k) THEN {Piece(w, k, "", Shown(w, k))}
    ELSE {Piece(w, k, DirOf(G), G) : G \in Groups(Shown(w, k))}

Splittable(w, k) ==
    LET pieces == Pieces(w, k) IN
    \/ LeftOut(w, k) \/ Fits(w, k)
    \/ /\ Cardinality(Groups(Shown(w, k))) > 1
       /\ \A t \in pieces : OnBoard(t.id) \/ t.bytes <= Limit

SplitPlan(w) == UNION {Pieces(w, k) : k \in BranchCommits}

Whole(w) == Changed \cap w.paths
RangePacket(w) == ReviewPacket(<<Tip, w.label>>, BranchCommits, w, Whole(w), Tip)
TipReadable(w) == \A p \in Reviewable(Whole(w)) : ~GoneAt(p, Tip)

-----------------------------------------------------------------------------
\* A request.

Ask(w) ==
    /\ author.at \in {"idle", "done", "refused"} /\ asked < Asks
    /\ asked' = asked + 1

Write(w, plan, skipped) ==
    /\ left' = plan
    /\ passed_over' = skipped
    /\ author' = [at |-> IF plan = {} THEN "done" ELSE "task", want |-> w]

FitsWhole(w) ==
    /\ w.scope = "range" /\ w.split # "commit" /\ w.exclude = {}
    /\ Whole(w) # {} /\ TipReadable(w)
    /\ RangePacket(w).bytes <= Limit
    /\ ~OnBoard(RangePacket(w).id)

ReviewWhole(w) ==
    /\ Ask(w) /\ FitsWhole(w)
    /\ Write(w, {RangePacket(w)}, {})
    /\ UNCHANGED <<range, proved, tasks, briefs, died>>

\* Asked for, or the range is over the budget.
MustSplit(w) ==
    \/ w.split = "commit"
    \/ /\ w.split = "auto" /\ w.exclude = {} /\ TipReadable(w)
       /\ RangePacket(w).bytes > Limit

SplitFits(w) == /\ w.scope = "range" /\ MustSplit(w) /\ Whole(w) # {}
                /\ \A k \in BranchCommits : Splittable(w, k)

ReviewSplit(w) ==
    /\ Ask(w) /\ SplitFits(w)
    /\ LET skipped == {t \in SplitPlan(w) : OnBoard(t.id)}
       IN Write(w, SplitPlan(w) \ skipped, {t.id : t \in skipped})
    /\ UNCHANGED <<range, proved, tasks, briefs, died>>

\* One packet for the branch as it would land, once its merge is proved.
BranchPacket(w) == ReviewPacket(<<0, "branch">>, BranchCommits, w, Whole(w), Tip)

BranchFits(w) ==
    /\ w.scope = "branch" /\ proved
    /\ Whole(w) # {} /\ TipReadable(w)
    /\ BranchPacket(w).bytes <= Limit /\ ~OnBoard(BranchPacket(w).id)

ReviewBranch(w) ==
    /\ Ask(w) /\ BranchFits(w)
    /\ Write(w, {BranchPacket(w)}, {})
    /\ UNCHANGED <<range, proved, tasks, briefs, died>>

Refuse(w) ==
    /\ Ask(w) /\ ~FitsWhole(w) /\ ~SplitFits(w) /\ ~BranchFits(w)
    /\ author' = [at |-> "refused", want |-> w]
    /\ left' = {} /\ passed_over' = {}
    /\ UNCHANGED <<range, proved, tasks, briefs, died>>

MergeProved ==
    /\ ~proved /\ proved' = TRUE
    /\ UNCHANGED <<range, author, left, passed_over, tasks, briefs, asked, died>>

\* Of each packet the staged files, then the task file, then the brief.
WriteTask ==
    /\ AuthorAt("task")
    /\ \E t \in left : tasks' = {u \in tasks : u.id # t.id} \cup {t}
    /\ author' = [author EXCEPT !.at = "brief"]
    /\ UNCHANGED <<range, proved, left, passed_over, briefs, asked, died>>

WriteBrief ==
    /\ AuthorAt("brief")
    /\ \E t \in left \cap tasks :
        /\ briefs' = briefs \cup {t.id}
        /\ left' = left \ {t}
    /\ author' = [author EXCEPT !.at = IF left' = {} THEN "done" ELSE "task"]
    /\ UNCHANGED <<range, proved, passed_over, tasks, asked, died>>

AuthorDies ==
    /\ author.at \in {"task", "brief"} /\ died < AuthorFalls
    /\ died' = died + 1
    /\ author' = [at |-> "idle", want |-> NoRequest]
    /\ left' = {} /\ passed_over' = {}
    /\ UNCHANGED <<range, proved, tasks, briefs, asked>>

ReviewNext ==
    \/ \E w \in Requested : ReviewWhole(w) \/ ReviewSplit(w) \/ ReviewBranch(w) \/ Refuse(w)
    \/ MergeProved \/ WriteTask \/ WriteBrief \/ AuthorDies

ReviewSpec == ReviewInit /\ [][ReviewNext]_planVars

-----------------------------------------------------------------------------
\* The packet is about commit k and has path p, or is of all the commits, whose diff shows
\* nothing of p.
Covers(t, k, p) ==
    /\ k \in t.commits
    /\ p \in t.paths \/ (t.commits = BranchCommits /\ p \in t.filter \ Changed)

\* When a request is done, every reviewable change it asked for is in a packet
\* that has its brief, unless its commit is documentation only, or the packet's
\* id was taken by a request that filtered the change out, or by one whose
\* author died before the brief (branch_review.py:819, 897: "already authored;
\* skipped"); no packet is over the budget.
NothingUnreviewed ==
    /\ \A t \in tasks : t.bytes <= Limit
    /\ AuthorAt("done") => \A k \in BranchCommits : \A p \in Reviewable(Shown(want, k)) :
        \/ DocsOnly(want, k)
        \/ \E t \in tasks : Covers(t, k, p) /\ t.id \in briefs
        \/ \E t \in tasks :
             /\ t.id \in passed_over /\ t.id \in {<<k, "">>, <<k, Dir[p]>>}
             /\ (p \notin t.filter) \/ (t.id \notin briefs /\ died > 0)

\* What the comments promise without those exceptions: "a commit that already has its task on the
\* board is skipped, so a re-run resumes" (branch_review.py:732-735), and "`label` names a
\* path-filtered packet so two filtered reviews of one tip do not collide" (branch_review.py:595).
RerunResumes ==
    AuthorAt("done") => \A k \in BranchCommits : \A p \in Reviewable(Shown(want, k)) :
        DocsOnly(want, k) \/ \E t \in tasks : Covers(t, k, p) /\ t.id \in briefs

=============================================================================
