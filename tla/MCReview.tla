------------------------------ MODULE MCReview ------------------------------
(* Branches to review: a path and the whole branch too large for one packet, *)
(* a directory that is, a file deleted again, one made and deleted within    *)
(* the branch, generated files and documents.                                *)
EXTENDS ReviewPlan, TLC

ReviewPaths == {"a", "b", "w", "r", "d", "g"}
PathDir == "a" :> "src" @@ "b" :> "src" @@ "g" :> "src" @@ "w" :> "web" @@ "r" :> "root" @@ "d" :> "docs"
PathBytes == "a" :> 2 @@ "b" :> 5 @@ "g" :> 9 @@ "w" :> 2 @@ "r" :> 1 @@ "d" :> 1
Commit(touched, deleted) == [paths |-> touched, gone |-> deleted]
Branch(commits, seen) == [commits |-> commits, diff |-> seen]
SmallBranch == Branch(<<Commit({"a", "b", "w"}, {})>>, {"a", "b", "w"})
Branches ==
  {Branch(<<Commit({"a", "b"}, {}), Commit({"w", "r"}, {})>>, {"a", "b", "w", "r"}),
   Branch(<<Commit({"a", "w", "r", "g"}, {}), Commit({"d"}, {})>>, {"a", "w", "r", "g", "d"}),
   Branch(<<Commit({"a", "d"}, {}), Commit({"a", "w"}, {"a"})>>, {"a", "d", "w"}),
   Branch(<<Commit({"a", "r"}, {}), Commit({"a", "w"}, {"a"})>>, {"r", "w"}),
   Branch(<<Commit({"g", "w"}, {"w"}), Commit({"r", "w"}, {})>>, {"g", "w", "r"}),
   SmallBranch}
Asking(split, paths, label, docs, excl, scope) ==
  [split |-> split, paths |-> paths, label |-> label, include_docs |-> docs,
   exclude |-> excl, scope |-> scope]
ReviewRequests ==
  {Asking(s, ReviewPaths, "", d, e, "range") :
     s \in {"auto", "commit", "none"}, d \in BOOLEAN, e \in {{}, {1}}}
  \cup {Asking(s, {"a", "b", "g"}, "src", FALSE, {}, "range") : s \in {"auto", "commit"}}
  \cup {Asking(s, {"w", "r"}, "page", FALSE, {}, "range") : s \in {"auto", "commit"}}
  \cup {Asking("none", ReviewPaths, "", FALSE, {}, "branch")}
=============================================================================
