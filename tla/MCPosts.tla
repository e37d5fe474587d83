-------------------------------- MODULE MCPosts --------------------------------
(* Posts on small sets for TLC: a post with a file in each folder. *)
EXTENDS Posts, TLC

CONSTANTS a1, a2, p1, f1, f2

MCPostFiles == p1 :> {f1, f2}
MCFolder == (f1 :> "posts") @@ (f2 :> "project")
Symmetry == Permutations(Accounts)
=============================================================================
