---------------------------- MODULE MCDeployment ----------------------------
(***************************************************************************)
(* Small instance of Deployment: two deployments that both configure the   *)
(* two assets, so that their lock orders can cross.                        *)
(***************************************************************************)
EXTENDS Deployment, TLC

CONSTANTS w1, w2, d1, d2, a1, a2, i1, i2, o1, o2, o3, o4, k1, k2

MCWorkers == {w1, w2}
MCDeployments == {d1, d2}
MCAssets == {a1, a2}
MCItems == {i1, i2}
MCObjects == {o1, o2, o3, o4}
MCKeys == {k1, k2}

\* d1 configures both assets, d2 overwrites what d1 wrote on the second.
MCPlan == d1 :> <<o1, o2>> @@ d2 :> <<o3, o4>>
MCItemOf == o1 :> i1 @@ o2 :> i2 @@ o3 :> i2 @@ o4 :> i1
MCHome == i1 :> a1 @@ i2 :> a2
MCKeyOf == o1 :> k1 @@ o2 :> k2 @@ o3 :> k2 @@ o4 :> k1
=============================================================================
