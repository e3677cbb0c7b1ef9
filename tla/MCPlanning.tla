------------------------------ MODULE MCPlanning ------------------------------
(* The three parts of planning, which share no state: a behaviour is one of the order of a
   plan, of a recommendation, or of the versions of a design.  Four objects, three dependencies
   and one request that generates, or three objects, two dependencies and two such requests at
   one time; five hosts at three places with every choice of links and capable hosts; two users
   who make two edits and three versions. *)
EXTENDS PlanOrder, Recommendation, Designs, TLC

CONSTANTS edge, wan, branch, e1, e2, w1, b1, x1, u1, u2, n1, n2, o1, o2, o3, o4, g1, g2

MCObjects == {o1, o2, o3, o4}
MCGenerators == {g1, g2}
MCUsers == {u1, u2}
MCTemplateLinks == {<<n1, n1>>}

MCPlaceOf == (e1 :> edge) @@ (e2 :> edge) @@ (w1 :> wan) @@ (b1 :> branch) @@ (x1 :> Unclassified)
MCBoundaries == {<<edge, wan>>, <<wan, branch>>}
MCRule == (edge :> [kind |-> "scale", least |-> 2, per |-> 0, metric |-> edge])
       @@ (wan :> [kind |-> "scale", least |-> 1, per |-> 1, metric |-> edge])
       @@ (branch :> [kind |-> "present"])
MCCabling == {<<e1, w1>>, <<e2, w1>>, <<w1, b1>>, <<e1, x1>>, <<x1, w1>>, <<x1, b1>>, <<e1, e2>>,
              <<e2, b1>>}

VARIABLE part

Init ==
    /\ part \in {"order", "overlap", "paths", "versions"}
    /\ OrderInit
    /\ DesignInit
    /\ PathInit
    /\ part # "paths" => cabled = {} /\ capable = {}

\* The order of a job of these objects, with so many requests that generate at one time.
AtOnce(generators, ids, dependencies) ==
    /\ OrderNext
    /\ Cardinality({g \in Generators : plan'[g].pc # "idle"}) <= generators
    /\ objects' \cup editing' \subseteq ids \cup (ids \X ids) /\ Cardinality(rows') <= dependencies

Next ==
    \/ part = "order" /\ AtOnce(1, MCObjects, 3) /\ UNCHANGED <<part, pathVars, designVars>>
    \/ part = "overlap" /\ AtOnce(2, {o1, o2, o3}, 2) /\ UNCHANGED <<part, pathVars, designVars>>
    \/ part = "paths" /\ PathNext /\ UNCHANGED <<part, orderVars, designVars>>
    \/ part = "versions" /\ DesignNext /\ UNCHANGED <<part, orderVars, pathVars>>

Spec == Init /\ [][Next]_<<part, orderVars, pathVars, designVars>>

Symmetry == Permutations({o1, o2, o3}) \cup Permutations(MCGenerators) \cup Permutations(MCUsers)
=============================================================================
