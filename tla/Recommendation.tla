---------------------------- MODULE Recommendation ----------------------------
(***************************************************************************)
(* The SAFE recommendation: for every boundary between two places in the   *)
(* network, the shortest path between every asset of the one and every     *)
(* asset of the other is searched in the topology graph; a capability that *)
(* is on none of the paths found counts as missing at both places, even if *)
(* an asset there has it, and the design that is generated shows as many   *)
(* recommended components as are missing.                                  *)
(***************************************************************************)
EXTENDS Integers, Sequences, FiniteSets, SequencesExt, FiniteSetsExt

CONSTANTS
    Hosts,         \* the live assets, each with its device node
    Places,        \* the pins of safe_pins.yaml
    PlaceOf,       \* the pin of a host, or Unclassified
    Unclassified,
    Boundaries,    \* pairs of places that one capability guards
    Rule,          \* how a place needs the capability: "none", "present", or a scale rule
    MaxHops,       \* DEFAULT_MAX_HOPS, 4
    Cabling,       \* pairs of hosts that may be linked
    NoPath

ASSUME HopsAssumption == MaxHops \in Nat
ASSUME HostsAssumption == IsFiniteSet(Hosts) /\ Cabling \subseteq Hosts \X Hosts
ASSUME NoPathAssumption == NoPath \notin Seq(Hosts)
\* What safe_pins.yaml says: a boundary joins two places, a rule has one of three forms.
ASSUME BoundaryAssumption == Boundaries \subseteq {b \in Places \X Places : b[1] # b[2]}
ASSUME RuleAssumption ==
    \A p \in Places : \/ Rule[p].kind \in {"none", "present"}
                      \/ Rule[p].kind = "scale" /\ Rule[p].least \in Nat /\ Rule[p].per \in Nat

VARIABLES
    cabled,     \* topology_links between device nodes
    capable,    \* the hosts that satisfy the capability's component, by their asset type code
    crossings,  \* <<boundary, source, target>> still to be searched
    search,     \* shortest_path in progress
    found,      \* PathFindings, and the crossings without a path
    missing     \* recommended components in the generated design: how many at each place

pathVars == <<cabled, capable, crossings, search, found, missing>>

Resting == [pc |-> "rest", crossing |-> <<>>, visited |-> {}, queue |-> <<>>]
Undecided == <<>>

\* _topology_adjacency: a link joins both its ends.
Adjacent(a, b) == <<a, b>> \in cabled \/ <<b, a>> \in cabled

At(p) == {h \in Hosts : PlaceOf[h] = p}

\* analyze_real_paths: the pairs of each boundary.
Crossings ==
    {c \in Boundaries \X Hosts \X Hosts : /\ PlaceOf[c[2]] = c[1][1] /\ PlaceOf[c[3]] = c[1][2]
                                          /\ c[2] # c[3]}

PathInit ==
    /\ cabled \in SUBSET Cabling
    /\ capable \in SUBSET Hosts
    /\ crossings = Crossings
    /\ search = Resting
    /\ found = {}
    /\ missing = Undecided

-----------------------------------------------------------------------------
(***************************************************************************)
(* shortest_path.                                                          *)
(***************************************************************************)

BeginSearch ==
    /\ search.pc = "rest"
    /\ crossings # {}
    /\ LET c == CHOOSE x \in crossings : TRUE
       IN  /\ crossings' = crossings \ {c}
           /\ search' = [pc |-> "search", crossing |-> c, visited |-> {c[2]}, queue |-> <<<<c[2]>>>>]
    /\ UNCHANGED <<cabled, capable, found, missing>>

\* A PathFinding: any capable asset on the path, its ends included, protects the crossing.
Goal == search.crossing[3]
Finding(path) ==
    [boundary |-> search.crossing[1], source |-> search.crossing[2], target |-> Goal, path |-> path,
     protected |-> path # NoPath /\ Range(path) \cap capable # {}]

EndSearch(path) ==
    /\ search' = Resting
    /\ found' = found \cup {Finding(path)}
    /\ UNCHANGED <<cabled, capable, crossings, missing>>

Path == Head(search.queue)
TooLongByOne(path) == Len(path) - 1 > MaxHops        \* mutant
TooLong(path) == Len(path) - 1 >= MaxHops

NewNeighbours(path) ==
    IF TooLong(path) THEN {} ELSE {h \in Hosts : Adjacent(Last(path), h) /\ h \notin search.visited}

\* One turn of the loop; the links, and so the neighbours, come in any order.
Explore ==
    /\ search.pc = "search"
    /\ search.queue # <<>>
    /\ Goal \notin NewNeighbours(Path)
    /\ \E next \in SetToSeqs(NewNeighbours(Path)) :
          search' = [search EXCEPT
                        !.visited = @ \cup NewNeighbours(Path),
                        !.queue = Tail(@) \o [i \in DOMAIN next |-> Append(Path, next[i])]]
    /\ UNCHANGED <<cabled, capable, crossings, found, missing>>

Reach ==
    /\ search.pc = "search"
    /\ search.queue # <<>>
    /\ Goal \in NewNeighbours(Path)
    /\ EndSearch(Append(Path, Goal))

\* None: the pair is skipped.
GiveUp ==
    /\ search.pc = "search"
    /\ search.queue = <<>>
    /\ EndSearch(NoPath)

-----------------------------------------------------------------------------
(***************************************************************************)
(* generate_recommendation.                                                *)
(***************************************************************************)

Paths == {f \in found : f.path # NoPath}

\* _unprotected_capabilities_by_pin: one protected crossing of a boundary outweighs the others.
Unprotected(b) == /\ \E f \in Paths : f.boundary = b
                  /\ \A f \in Paths : f.boundary = b => ~f.protected
UnprotectedAt(p) == \E b \in Boundaries : p \in {b[1], b[2]} /\ Unprotected(b)

\* required_instance_count
CeilDiv(n, d) == (n + d - 1) \div d
Required(rule, n) ==
    IF n = 0 THEN 0
    ELSE IF rule.per = 0 THEN rule.least ELSE Max({rule.least, CeilDiv(n, rule.per)})

OwnedSomewhere(p) == Cardinality(At(p) \cap capable)       \* mutant: the paths are not looked at
Existing(p) == IF UnprotectedAt(p) THEN 0 ELSE Cardinality(At(p) \cap capable)

\* compute_scale_gaps for a component with a scale rule; one is missing or none without.
Gap(p) ==
    CASE Rule[p].kind = "none" -> 0
      [] Rule[p].kind = "present" -> IF Existing(p) > 0 THEN 0 ELSE 1
      [] Rule[p].kind = "scale" ->
            Max({0, Required(Rule[p], Cardinality(At(Rule[p].metric))) - Existing(p)})

Recommend ==
    /\ search.pc = "rest"
    /\ crossings = {}
    /\ missing = Undecided
    /\ missing' = [p \in Places |-> Gap(p)]
    /\ UNCHANGED <<cabled, capable, crossings, search, found>>

PathNext == BeginSearch \/ Explore \/ Reach \/ GiveUp \/ Recommend

PathSpec == PathInit /\ [][PathNext]_pathVars

-----------------------------------------------------------------------------
(***************************************************************************)
(* Properties, against a definition by all simple paths.                   *)
(***************************************************************************)

PathsFrom(s) ==
    {p \in {<<s>> \o q : q \in SeqOf(Hosts \ {s}, MaxHops)} :
        IsInjective(p) /\ \A i \in 1 .. (Len(p) - 1) : Adjacent(p[i], p[i + 1])}
Shortest(s, t) ==
    LET paths == {p \in PathsFrom(s) : Last(p) = t}
    IN  {p \in paths : \A q \in paths : Len(p) <= Len(q)}

\* Every search ends with a shortest of the simple paths of at most MaxHops hops, or with none
\* if there is none (shortest_path).
SearchIsExact ==
    missing # Undecided =>
        \A f \in found : \/ f.path \in Shortest(f.source, f.target)
                         \/ f.path = NoPath /\ Shortest(f.source, f.target) = {}

\* When no shortest path between two places passes a capable asset, and there is one, each of
\* the two that should have the capability is recommended as much of it as it needs, whatever
\* it owns; a place whose boundaries each have a crossing that is guarded on all its shortest
\* paths is recommended what it lacks (analyze_real_paths, generate_recommendation).
Needed(p) == IF Rule[p].kind = "present" THEN 1
             ELSE Required(Rule[p], Cardinality(At(Rule[p].metric)))
Guarded(s, t) == \A p \in Shortest(s, t) : Range(p) \cap capable # {}
Crossed(b) == \E s \in At(b[1]), t \in At(b[2]) : Shortest(s, t) # {}
Bypassed(b) == Crossed(b) /\ \A s \in At(b[1]), t \in At(b[2]) :
                                \A p \in Shortest(s, t) : Range(p) \cap capable = {}
Safe(b) == ~Crossed(b) \/ \E s \in At(b[1]), t \in At(b[2]) : Shortest(s, t) # {} /\ Guarded(s, t)

GapsFollowPaths ==
    missing # Undecided =>
        \A p \in {q \in Places : Rule[q].kind # "none"} :
            LET mine == {b \in Boundaries : p \in {b[1], b[2]}}
            IN  /\ (\E b \in mine : Bypassed(b)) => missing[p] = Needed(p)
                /\ (\A b \in mine : Safe(b)) =>
                       missing[p] = Max({0, Needed(p) - Cardinality(At(p) \cap capable)})
=============================================================================
