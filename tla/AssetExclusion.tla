---------------------------- MODULE AssetExclusion ----------------------------
(***************************************************************************)
(* What per-asset locking promises, and nothing of how: an asset has at    *)
(* most one owner, an owner takes all the assets of its deployment in one  *)
(* step, and gives all of them back in one step.                           *)
(***************************************************************************)
CONSTANTS Owners, Assets, NoOwner

VARIABLE owner

OwnedBy(w) == {a \in Assets : owner[a] = w}

Init == owner = [a \in Assets |-> NoOwner]

Take(w, wanted) ==
    /\ OwnedBy(w) = {}
    /\ \A a \in wanted : owner[a] = NoOwner
    /\ owner' = [a \in Assets |-> IF a \in wanted THEN w ELSE owner[a]]

GiveBack(w) ==
    /\ OwnedBy(w) # {}
    /\ owner' = [a \in Assets |-> IF owner[a] = w THEN NoOwner ELSE owner[a]]

Next ==
    \/ \E w \in Owners, wanted \in SUBSET Assets : Take(w, wanted)
    \/ \E w \in Owners : GiveBack(w)

Spec == Init /\ [][Next]_owner
=============================================================================
