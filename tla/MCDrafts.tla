------------------------------ MODULE MCDrafts ------------------------------
(* One packet on the board, and the fix plan it may be owed.                 *)
EXTENDS Drafts

OneFix == [b \in Builds |-> "fix"]
=============================================================================
