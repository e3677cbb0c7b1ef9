------------------------------ MODULE MCDrift ------------------------------
(***************************************************************************)
(* One object with a version of three fields, jobs that ask for one field  *)
(* of them or restore them all, one run that the broker may deliver twice, *)
(* one triage request at a time; and either one finding, with two jobs,    *)
(* three versions and a change by hand around it, or two findings, with    *)
(* one job and two versions around them.                                   *)
(***************************************************************************)
EXTENDS Drift

CONSTANTS k1, a1, f1, f2, f3, u1, u2

MCKeys == {k1}
MCAssetOf == [k \in MCKeys |-> a1]
MCTargets == {{f1}}
MCEdits == {{}}
MCRecorded == {<<{f1, f2, f3}>>}

\* A smaller instance, of no more than so many of each.  No step of Fairness is prevented: a
\* device may always be passed over.
Around(opened, jobs, recorded, byHand) ==
    /\ Len(findings') <= opened
    /\ \A w \in Workers : worker'[w] # Free => Len(findings') + Len(worker'[w].pending) <= opened
    /\ Cardinality({j \in Jobs : job'[j].status # "absent"}) <= jobs
    /\ \A k \in Keys : Len(versions'[k]) <= recorded
    /\ edits' <= byHand

MCSpec == Init /\ [][Next /\ (Around(1, 2, 3, 1) \/ Around(2, 1, 2, 0))]_vars /\ Fairness
=============================================================================
