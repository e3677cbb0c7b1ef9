--------------------------- MODULE MCChangeControl ---------------------------
(***************************************************************************)
(* Small instance of ChangeControl: one job of two objects, three users    *)
(* and three requests at a time.                                             *)
(***************************************************************************)
EXTENDS ChangeControl, TLC

CONSTANTS j1, o1, o2, u1, u2, u3, s1, s2, s3

MCJobs == {j1}
MCObjects == {o1, o2}
MCJobOf == o1 :> j1 @@ o2 :> j1
MCUsers == {u1, u2, u3}
MCSessions == {s1, s2, s3}

\* The objects, the users and the sessions are interchangeable.
Symmetry == Permutations(MCObjects) \cup Permutations(MCUsers) \cup Permutations(MCSessions)
=============================================================================
