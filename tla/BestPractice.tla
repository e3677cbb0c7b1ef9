----------------------------- MODULE BestPractice -----------------------------
(***************************************************************************)
(* Best practice analyses: one transaction syncs the topology, replaces    *)
(* the findings that nobody has triaged, and evaluates the rules on every  *)
(* live asset.  The rule modelled is the one that reads the graph: a       *)
(* critical asset has fewer than MinDegree topology links.                 *)
(***************************************************************************)
EXTENDS Topology

CONSTANTS
    Critical,     \* the assets that the rule applies to
    MinDegree,    \* 2 in BP-NET-002 and BP-MS-AD-001
    Runs          \* ids of analyses

ASSUME RuleAssumption == Critical \subseteq Assets /\ MinDegree \in Nat

VARIABLES
    runs,       \* best_practice_runs, committed
    findings,   \* architecture_findings, committed
    settled     \* history: nothing was committed since, and while, the last analysis ran

vars == <<graphVars, runs, findings, settled>>

Init ==
    /\ GraphInit
    /\ runs = [r \in Runs |-> "none"]
    /\ findings = {}
    /\ settled = FALSE

\* run_analysis; the run's row is the transaction's own until it commits.
BeginRun(s, r) ==
    /\ runs[r] = "none"
    /\ \A t \in Sessions : tx[t].run # r
    /\ BeginSync(s, "run", r)
    /\ UNCHANGED <<runs, findings, settled>>

\* _build_asset_contexts: the nodes, the links, then the live assets.  The degree of a node
\* counts links, not neighbours; an asset without a node has none.
LinksAt(s, a) == UNION {{p} \X (1 .. Count(s, p)) : p \in {q \in Pairs : a \in {q[1], q[2]}}}
DegreeOf(s, a) == IF a \in tx[s].nodes THEN Cardinality(LinksAt(s, a)) ELSE 0

\* evaluate_rule_against_context: applies_to, then conditions.
Breaks(s, a) == a \in Critical /\ DegreeOf(s, a) < MinDegree

ReadContextNodes(s) ==
    /\ ReadDevices(s, "contexts", "degrees")
    /\ UNCHANGED <<runs, findings, settled>>

ReadDegrees(s) ==
    /\ tx[s].pc = "degrees"
    /\ Step(s, [tx[s] EXCEPT !.pc = "live", !.nodes = {}, !.broken = {a \in Assets : Breaks(s, a)}])
    /\ UNCHANGED <<graph, alone, doubled, runs, findings, settled>>

ReadContextAssets(s) ==
    /\ tx[s].pc = "live"
    /\ Step(s, [tx[s] EXCEPT !.pc = "delete", !.broken = @ \cap live])
    /\ UNCHANGED <<graph, alone, doubled, runs, findings, settled>>

\* DELETE ... WHERE status = 'new': it waits for those who are deleting the same rows.
EveryFinding == findings                   \* mutant: the filter on the status is dropped
NoFinding == {}                            \* mutant: the findings of the last run are kept
Superseded == {f \in findings : f.status = "new"}

DeleteNew(s) ==
    /\ tx[s].pc = "delete"
    /\ \A t \in Sessions \ {s} : tx[t].deleted \cap Superseded = {}
    /\ Step(s, [tx[s] EXCEPT !.pc = "evaluate", !.deleted = Superseded])
    /\ UNCHANGED <<graph, alone, doubled, runs, findings, settled>>

\* The analysis commits.
Store(s, status, made) ==
    /\ findings' = (findings \ tx[s].deleted)
                       \cup {[run |-> tx[s].run, asset |-> a, status |-> "new"] : a \in made}
    /\ runs' = [runs EXCEPT ![tx[s].run] = status]
    /\ settled' = (status = "success" /\ s \in alone)
    /\ CommitSync(s)

FinishRun(s) == tx[s].pc = "evaluate" /\ Store(s, "success", tx[s].broken)

\* An exception, from load_rules on: the handler commits FAILED with what was written until
\* then.  (Its commit first does a flush that is due: those two steps come before this one.)
FailRun(s) ==
    /\ tx[s].kind = "run"
    /\ tx[s].pc \notin {"flush", "insert"}
    /\ \E made \in SUBSET IF tx[s].pc = "evaluate" THEN tx[s].broken ELSE {} :
           Store(s, "failed", made)

\* accept_finding and ignore_finding; the row may be gone when its lock is granted.
Triage(f, decision) ==
    /\ f \in findings
    /\ \A t \in Sessions : f \notin tx[t].deleted
    /\ findings' = (findings \ {f}) \cup {[f EXCEPT !.status = decision]}
    /\ settled' = FALSE
    /\ Touch
    /\ UNCHANGED <<graph, tx, doubled, runs>>

\* Another request: the graph steps, and whether anything was committed.
OtherStep ==
    /\ GraphNext
    /\ settled' = (settled /\ UNCHANGED <<graph>>)
    /\ UNCHANGED <<runs, findings>>

Next ==
    \/ OtherStep
    \/ \E s \in Sessions : \/ \E r \in Runs : BeginRun(s, r)
                           \/ ReadContextNodes(s) \/ ReadDegrees(s) \/ ReadContextAssets(s)
                           \/ DeleteNew(s) \/ FinishRun(s) \/ FailRun(s)
    \/ \E f \in findings, decision \in {"accepted", "ignored"} : Triage(f, decision)

Spec == Init /\ [][Next]_vars

-----------------------------------------------------------------------------
(***************************************************************************)
(* Properties.                                                             *)
(***************************************************************************)

New == {f \in findings : f.status = "new"}
Neighbours(a) == {b \in live \ {a} : {<<a, b>>, <<b, a>>} \cap rels # {}}

\* When an analysis has succeeded and nothing was committed during it or since, the findings
\* in state new are those of the critical live assets with fewer than MinDegree neighbours in
\* the inventory, one for each, whatever syncs and analyses came before, unless a pair got
\* two links (sync_nodes_from_assets, sync_links_from_relationships, run_analysis).
FindingsTrue ==
    settled /\ doubled = {} =>
        /\ {f.asset : f \in New} = {a \in Critical \cap live : Cardinality(Neighbours(a)) < MinDegree}
        /\ \A f, g \in New : f.asset = g.asset => f = g

\* A finding that a user has accepted or ignored stays, with that decision or a later one,
\* through every analysis, those that were running when it was triaged too (run_analysis).
TriagedStays ==
    [][\A f \in findings : f.status # "new" =>
          \E g \in findings' : g.run = f.run /\ g.asset = f.asset /\ g.status # "new"]_vars
=============================================================================
