-------------------------- MODULE BestPractice_proofs --------------------------
(***************************************************************************)
(* Proofs about BestPractice for any assets, relationships, transactions   *)
(* and analyses: no analysis deletes or reopens what a user has decided,   *)
(* and what it finds is true of the inventory.                             *)
(***************************************************************************)
EXTENDS BestPractice, FiniteSetTheorems, TLAPS

FindingType == [run : Runs \cup {None}, asset : Assets, status : {"new", "accepted", "ignored"}]
TxType ==
    [pc : {"idle", "nodes", "assets", "flush", "devices", "links", "relations", "insert", "commit",
           "contexts", "degrees", "live", "delete", "evaluate"},
     kind : {"none", "view", "run"}, run : Runs \cup {None}, nodes : SUBSET Nodes,
     added : SUBSET Nodes, dropped : SUBSET Nodes, linked : SUBSET Pairs, pairs : SUBSET Pairs,
     broken : SUBSET Assets, deleted : SUBSET FindingType]

Typed ==
    /\ live \subseteq Assets /\ rels \subseteq Pairs /\ nodes \subseteq Nodes
    /\ findings \subseteq FindingType
    /\ tx \in [Sessions -> TxType]

\* An analysis deletes findings that nobody has decided.
DeletesNew == \A s \in Sessions : \A f \in tx[s].deleted : f.status = "new"

Undecided == Typed /\ DeletesNew

LEMMA IdleType == Idle \in TxType /\ Idle.deleted = {}
  BY DEF Idle, TxType

LEMMA InitUndecided == Init => Undecided
  <1> SUFFICES ASSUME Init
               PROVE  Undecided
    OBVIOUS
  <1>1. live \subseteq Assets /\ rels \subseteq Pairs /\ nodes \subseteq Nodes /\ findings \subseteq FindingType
    BY NodeAssumption, CableAssumption DEF Init, GraphInit
  <1>2. tx = [s \in Sessions |-> Idle]
    BY DEF Init, GraphInit
  <1> QED
    BY <1>1, <1>2, IdleType DEF Undecided, Typed, DeletesNew

\* A transaction that goes on, or ends.
LEMMA StepUndecided ==
    ASSUME Undecided, NEW s \in Sessions, NEW next \in TxType, Step(s, next),
           \A f \in next.deleted : f.status = "new",
           live' \subseteq Assets, rels' \subseteq Pairs, nodes' \subseteq Nodes,
           findings' \subseteq FindingType
    PROVE  Undecided'
  <1>1. tx' \in [Sessions -> TxType]
    BY DEF Step, Undecided, Typed
  <1>2. \A t \in Sessions : tx'[t] = IF t = s THEN next ELSE tx[t]
    BY DEF Step, Undecided, Typed
  <1> QED
    BY <1>1, <1>2 DEF Undecided, Typed, DeletesNew

\* What a sync reads and inserts are nodes and pairs of nodes.
LEMMA ReadTypes ==
    ASSUME Undecided, NEW s \in Sessions
    PROVE  /\ tx[s] \in TxType
           /\ live \subseteq Nodes /\ SeenNodes(s) \subseteq Nodes
           /\ live \ tx[s].nodes \in SUBSET Nodes /\ tx[s].nodes \ live \in SUBSET Nodes
           /\ Unlinked(s) \in SUBSET Pairs
           /\ \A f \in tx[s].deleted : f.status = "new"
  <1>1. tx[s] \in TxType /\ \A f \in tx[s].deleted : f.status = "new"
    BY DEF Undecided, Typed, DeletesNew
  <1>2. live \subseteq Nodes /\ nodes \subseteq Nodes /\ rels \subseteq Pairs
    BY DEF Undecided, Typed, Nodes
  <1>3. tx[s].nodes \subseteq Nodes /\ tx[s].added \subseteq Nodes
    BY <1>1 DEF TxType
  <1> QED
    BY <1>1, <1>2, <1>3 DEF SeenNodes, Unlinked

LEMMA DevicesUndecided ==
    ASSUME Undecided, NEW s \in Sessions, findings' = findings,
           \/ ReadDevices(s, "devices", "links")
           \/ ReadDevices(s, "contexts", "degrees")
    PROVE  Undecided'
  <1> DEFINE seen == SeenNodes(s)
             Moved(to) == [tx[s] EXCEPT !.pc = to, !.nodes = seen]
  <1>1. PICK to \in {"links", "degrees"} : Step(s, Moved(to)) /\ UNCHANGED <<live, rels, nodes>>
    BY DEF ReadDevices, graph
  <1>2. seen \in SUBSET Nodes /\ tx[s] \in TxType /\ \A f \in tx[s].deleted : f.status = "new"
    BY ReadTypes
  <1> HIDE DEF seen
  <1>3. Moved(to) \in TxType /\ Moved(to).deleted = tx[s].deleted
    BY <1>2 DEF TxType
  <1> HIDE DEF Moved
  <1> QED
    BY <1>1, <1>2, <1>3, StepUndecided DEF Undecided, Typed

LEMMA GraphUndecided ==
    ASSUME Undecided, GraphNext, findings' = findings
    PROVE  Undecided'
  <1>1. ASSUME UNCHANGED tx, live' \subseteq Assets, rels' \subseteq Pairs, nodes' \subseteq Nodes
        PROVE  Undecided'
    BY <1>1 DEF Undecided, Typed, DeletesNew
  <1>2. ASSUME NEW a \in Assets, CreateAsset(a) \/ DeleteAsset(a)
        PROVE  Undecided'
    BY <1>1, <1>2 DEF CreateAsset, DeleteAsset, Edit, Undecided, Typed
  <1>3. ASSUME NEW p \in Pairs, Relate(p) \/ DrawLink(p)
        PROVE  Undecided'
    BY <1>1, <1>3 DEF Relate, DrawLink, Edit, Undecided, Typed
  <1>4. ASSUME NEW d \in Drawn, DrawNode(d)
        PROVE  Undecided'
    BY <1>1, <1>4 DEF DrawNode, Edit, Undecided, Typed, Nodes
  <1>5. ASSUME NEW s \in Sessions,
               \/ BeginSync(s, "view", None)
               \/ ReadNodes(s) \/ ReadAssets(s) \/ FlushNodes(s)
               \/ ReadDevices(s, "devices", "links") \/ ReadLinks(s) \/ ReadRelationships(s)
               \/ CommitView(s) \/ Crash(s)
               \/ FlushLinks(s, IF tx[s].kind = "view" THEN "commit" ELSE "contexts")
        PROVE  Undecided'
    <2>1. /\ tx[s] \in TxType /\ \A f \in tx[s].deleted : f.status = "new"
          /\ SeenNodes(s) \subseteq Nodes
      BY ReadTypes
    <2>2. nodes' \subseteq Nodes /\ live' \subseteq Assets /\ rels' \subseteq Pairs /\ findings' \subseteq FindingType
      BY <1>5, <2>1
         DEF Undecided, Typed, BeginSync, ReadNodes, ReadAssets, FlushNodes, ReadDevices, ReadLinks,
             ReadRelationships, CommitView, CommitSync, Crash, FlushLinks, Undo, graph
    <2>3. CASE BeginSync(s, "view", None)
      <3>1. [Idle EXCEPT !.pc = "nodes", !.kind = "view", !.run = None] \in TxType
            /\ [Idle EXCEPT !.pc = "nodes", !.kind = "view", !.run = None].deleted = {}
        BY IdleType DEF TxType
      <3> QED
        BY <2>2, <2>3, <3>1, StepUndecided DEF BeginSync
    <2>4. CASE ReadNodes(s)
      <3> DEFINE next == [tx[s] EXCEPT !.pc = "assets", !.nodes = nodes]
      <3>1. next \in TxType /\ next.deleted = tx[s].deleted
        BY <2>1 DEF TxType, Undecided, Typed
      <3>2. Step(s, next)
        BY <2>4 DEF ReadNodes
      <3> HIDE DEF next
      <3> QED
        BY <2>1, <2>2, <3>1, <3>2, StepUndecided
    <2>5. CASE ReadAssets(s)
      <3> DEFINE added == live \ tx[s].nodes
                 dropped == tx[s].nodes \ live
                 next == [tx[s] EXCEPT !.pc = "flush", !.added = added, !.dropped = dropped]
      <3>1. Step(s, next) /\ added \in SUBSET Nodes /\ dropped \in SUBSET Nodes
        BY <2>5, ReadTypes DEF ReadAssets
      <3> HIDE DEF added, dropped
      <3>2. next \in TxType /\ next.deleted = tx[s].deleted
        BY <2>1, <3>1 DEF TxType
      <3> HIDE DEF next
      <3> QED
        BY <2>1, <2>2, <3>1, <3>2, StepUndecided
    <2>6. CASE Step(s, Idle)
      BY <2>2, <2>6, IdleType, StepUndecided
    <2>7. ASSUME NEW pc \in {"devices", "commit", "contexts"}, Step(s, [tx[s] EXCEPT !.pc = pc])
          PROVE  Undecided'
      <3>1. [tx[s] EXCEPT !.pc = pc] \in TxType /\ [tx[s] EXCEPT !.pc = pc].deleted = tx[s].deleted
        BY <2>1 DEF TxType
      <3> QED
        BY <2>1, <2>2, <2>7, <3>1, StepUndecided
    <2>8. CASE ReadDevices(s, "devices", "links")
      BY <2>8, DevicesUndecided
    <2>9. CASE ReadLinks(s)
      <3> DEFINE linked == {p \in Pairs : Count(s, p) > 0}
                 next == [tx[s] EXCEPT !.pc = "relations", !.linked = linked]
      <3>1. Step(s, next) /\ linked \in SUBSET Pairs
        BY <2>9 DEF ReadLinks
      <3> HIDE DEF linked
      <3>2. next \in TxType /\ next.deleted = tx[s].deleted
        BY <2>1, <3>1 DEF TxType
      <3> HIDE DEF next
      <3> QED
        BY <2>1, <2>2, <3>1, <3>2, StepUndecided
    <2>10. CASE ReadRelationships(s)
      <3> DEFINE pairs == Unlinked(s)
                 next == [tx[s] EXCEPT !.pc = "insert", !.pairs = pairs, !.nodes = {}, !.linked = {}]
      <3>1. Step(s, next) /\ pairs \in SUBSET Pairs
        BY <2>10, ReadTypes DEF ReadRelationships
      <3> HIDE DEF pairs
      <3>2. next \in TxType /\ next.deleted = tx[s].deleted
        BY <2>1, <3>1 DEF TxType
      <3> HIDE DEF next
      <3> QED
        BY <2>1, <2>2, <3>1, <3>2, StepUndecided
    <2> QED
      BY <1>5, <2>3, <2>4, <2>5, <2>6, <2>7, <2>8, <2>9, <2>10 DEF FlushNodes, FlushLinks, CommitView, CommitSync, Crash, Undo
  <1> QED
    BY <1>2, <1>3, <1>4, <1>5 DEF GraphNext

LEMMA StoreUndecided ==
    ASSUME Undecided, NEW s \in Sessions, NEW status, NEW made \in SUBSET tx[s].broken,
           Store(s, status, made)
    PROVE  Undecided'
  <1>1. tx[s] \in TxType /\ SeenNodes(s) \subseteq Nodes
    BY ReadTypes
  <1>2. \A a \in made : [run |-> tx[s].run, asset |-> a, status |-> "new"] \in FindingType
    BY <1>1 DEF TxType, FindingType
  <1>3. findings' \subseteq FindingType
    BY <1>2 DEF Store, Undecided, Typed
  <1> QED
    BY <1>1, <1>3, IdleType, StepUndecided DEF Store, CommitSync, Undecided, Typed

LEMMA UndecidedStep == Undecided /\ [Next]_vars => Undecided'
  <1> SUFFICES ASSUME Undecided, [Next]_vars
               PROVE  Undecided'
    OBVIOUS
  <1>1. CASE OtherStep
    BY <1>1, GraphUndecided DEF OtherStep
  <1>2. ASSUME NEW s \in Sessions, NEW r \in Runs, BeginRun(s, r)
        PROVE  Undecided'
    <2> DEFINE next == [Idle EXCEPT !.pc = "nodes", !.kind = "run", !.run = r]
    <2>1. next \in TxType /\ next.deleted = {}
      BY IdleType DEF TxType
    <2>2. Step(s, next) /\ UNCHANGED <<live, rels, nodes, findings>>
      BY <1>2 DEF BeginRun, BeginSync, graph
    <2> HIDE DEF next
    <2> QED
      BY <2>1, <2>2, StepUndecided DEF Undecided, Typed
  <1>3. ASSUME NEW s \in Sessions, ReadContextNodes(s) \/ ReadDegrees(s) \/ ReadContextAssets(s)
        PROVE  Undecided'
    <2>1. CASE ReadContextNodes(s)
      BY <2>1, DevicesUndecided DEF ReadContextNodes
    <2>2. CASE ReadDegrees(s)
      <3> DEFINE broken == {a \in Assets : Breaks(s, a)}
                 next == [tx[s] EXCEPT !.pc = "live", !.nodes = {}, !.broken = broken]
      <3>1. Step(s, next) /\ UNCHANGED <<live, rels, nodes, findings>> /\ broken \in SUBSET Assets
        BY <2>2 DEF ReadDegrees, graph
      <3> HIDE DEF broken
      <3>2. next \in TxType /\ next.deleted = tx[s].deleted
        BY <3>1, ReadTypes DEF TxType
      <3> HIDE DEF next
      <3> QED
        BY <3>1, <3>2, ReadTypes, StepUndecided DEF Undecided, Typed
    <2>3. CASE ReadContextAssets(s)
      <3> DEFINE next == [tx[s] EXCEPT !.pc = "delete", !.broken = @ \cap live]
      <3>1. Step(s, next) /\ UNCHANGED <<live, rels, nodes, findings>>
        BY <2>3 DEF ReadContextAssets, graph
      <3>2. next \in TxType /\ next.deleted = tx[s].deleted
        BY ReadTypes DEF TxType
      <3> HIDE DEF next
      <3> QED
        BY <3>1, <3>2, ReadTypes, StepUndecided DEF Undecided, Typed
    <2> QED
      BY <1>3, <2>1, <2>2, <2>3
  <1>4. ASSUME NEW s \in Sessions, DeleteNew(s)
        PROVE  Undecided'
    <2> DEFINE next == [tx[s] EXCEPT !.pc = "evaluate", !.deleted = Superseded]
    <2>1. Superseded \in SUBSET FindingType /\ \A f \in Superseded : f.status = "new"
      BY DEF Superseded, Undecided, Typed
    <2>2. Step(s, next) /\ UNCHANGED <<live, rels, nodes, findings>>
      BY <1>4 DEF DeleteNew, graph
    <2>3. next \in TxType /\ next.deleted = Superseded
      BY <2>1, ReadTypes DEF TxType
    <2> HIDE DEF next
    <2> QED
      BY <2>1, <2>2, <2>3, StepUndecided DEF Undecided, Typed
  <1>5. ASSUME NEW s \in Sessions, FinishRun(s) \/ FailRun(s)
        PROVE  Undecided'
    <2>1. CASE FinishRun(s)
      BY <2>1, StoreUndecided DEF FinishRun
    <2>2. CASE FailRun(s)
      <3>1. PICK made \in SUBSET tx[s].broken : Store(s, "failed", made)
        BY <2>2 DEF FailRun
      <3> QED
        BY <3>1, StoreUndecided
    <2> QED
      BY <1>5, <2>1, <2>2
  <1>6. ASSUME NEW f \in findings, NEW decision \in {"accepted", "ignored"}, Triage(f, decision)
        PROVE  Undecided'
    <2>1. [f EXCEPT !.status = decision] \in FindingType
      BY DEF Undecided, Typed, FindingType
    <2> QED
      BY <1>6, <2>1 DEF Triage, graph, Undecided, Typed, DeletesNew
  <1>7. CASE UNCHANGED vars
    BY <1>7 DEF vars, graphVars, Undecided, Typed, DeletesNew
  <1> QED
    BY <1>1, <1>2, <1>3, <1>4, <1>5, <1>6, <1>7 DEF Next

LEMMA DecisionKept ==
    ASSUME Undecided, [Next]_vars, NEW f \in findings, f.status # "new"
    PROVE  \E g \in findings' : g.run = f.run /\ g.asset = f.asset /\ g.status # "new"
  <1>1. CASE f \in findings'
    BY <1>1
  <1>2. ASSUME NEW s \in Sessions, NEW made, NEW status, Store(s, status, made)
        PROVE  f \in findings'
    BY <1>2 DEF Store, Undecided, DeletesNew
  <1>3. ASSUME NEW h \in findings, NEW decision \in {"accepted", "ignored"}, Triage(h, decision)
        PROVE  \E g \in findings' : g.run = f.run /\ g.asset = f.asset /\ g.status # "new"
    <2> DEFINE g == [h EXCEPT !.status = decision]
    <2>1. h \in FindingType
      BY DEF Undecided, Typed
    <2>2. g.run = h.run /\ g.asset = h.asset /\ g.status = decision
      BY <2>1 DEF FindingType
    <2>3. g \in findings' /\ (h # f => f \in findings')
      BY <1>3 DEF Triage
    <2> QED
      BY <1>1, <2>2, <2>3
  <1>4. \/ findings' = findings
        \/ \E s \in Sessions : \E made, status : Store(s, status, made)
        \/ \E h \in findings, decision \in {"accepted", "ignored"} : Triage(h, decision)
    BY DEF Next, vars, OtherStep, BeginRun, ReadContextNodes, ReadDegrees, ReadContextAssets,
           DeleteNew, FinishRun, FailRun
  <1> QED
    BY <1>1, <1>2, <1>3, <1>4

\* A finding that a user has accepted or ignored stays decided through every analysis, those
\* that were running when it was decided too (run_analysis, accept_finding, ignore_finding).
THEOREM DecisionsSurvive == Spec => TriagedStays
  <1>1. Init => Undecided
    BY InitUndecided
  <1>2. Undecided /\ [Next]_vars => Undecided'
    BY UndecidedStep
  <1>3. Undecided /\ [Next]_vars =>
           [\A f \in findings : f.status # "new" =>
               \E g \in findings' : g.run = f.run /\ g.asset = f.asset /\ g.status # "new"]_vars
    BY DecisionKept
  <1> QED
    BY <1>1, <1>2, <1>3, PTL DEF Spec, TriagedStays

-----------------------------------------------------------------------------
(***************************************************************************)
(* What an analysis finds.                                                 *)
(***************************************************************************)

\* Links: from one node to another, for a relationship, and one for a pair unless doubled.
Counted ==
    /\ links \in [Pairs -> Nat]
    /\ doubled = {} => /\ \A p \in Pairs : links[p] > 0 => p \in rels
                       /\ \A p \in Pairs : links[p] + links[Back(p)] <= 1

\* The links that a transaction inserts are those of relationships.
Linking(s) ==
    /\ tx[s].pairs \subseteq rels
    /\ tx[s].pc \in {"idle", "nodes", "assets", "flush", "devices", "links", "relations"} =>
           tx[s].pairs = {}

\* What a transaction has read is there still, if nobody has committed since it began.
NoLinkYet == {p \in rels : {p[1], p[2]} \subseteq live /\ links[p] = 0 /\ links[Back(p)] = 0}
Lacking(s) == {a \in Critical \cap live : Cardinality(LinksAt(s, a)) < MinDegree}
Fresh(s) ==
    /\ tx[s].pc \in {"assets", "flush"} => tx[s].nodes = nodes
    /\ tx[s].pc \notin {"idle", "nodes", "assets"} =>
           tx[s].added = live \ nodes /\ tx[s].dropped = nodes \ live
    /\ tx[s].pc \in {"links", "relations", "degrees"} => tx[s].nodes = live
    /\ tx[s].pc = "relations" => tx[s].linked = {p \in Pairs : {p[1], p[2]} \subseteq live /\ links[p] > 0}
    /\ tx[s].pc \in {"insert", "commit", "contexts", "degrees", "live", "delete", "evaluate"} =>
           tx[s].pairs = NoLinkYet
    /\ tx[s].pc = "live" => tx[s].broken \cap live = Lacking(s)
    /\ tx[s].pc \in {"delete", "evaluate"} => tx[s].broken = Lacking(s)
    /\ tx[s].pc = "evaluate" => tx[s].deleted = Superseded

Analysing ==
    /\ Counted
    /\ \A s \in Sessions : Linking(s)
    /\ alone \subseteq Sessions /\ \A s \in alone : Fresh(s)
    /\ FindingsTrue

IInv == Undecided /\ Analysing

LEMMA PairFacts ==
    /\ \A p \in Pairs : p = <<p[1], p[2]>> /\ p[1] \in Nodes /\ p[2] \in Nodes /\ p[1] # p[2]
    /\ \A p \in Pairs : Back(p) \in Pairs /\ Back(Back(p)) = p /\ Back(p) # p
                        /\ Back(p)[1] = p[2] /\ Back(p)[2] = p[1]
    /\ \A b, c \in Nodes : b # c => <<b, c>> \in Pairs /\ Back(<<b, c>>) = <<c, b>>
  <1>1. \A p \in Pairs : p = <<p[1], p[2]>> /\ p[1] \in Nodes /\ p[2] \in Nodes /\ p[1] # p[2]
    BY DEF Pairs
  <1>2. \A b, c \in Nodes : b # c => <<b, c>> \in Pairs /\ Back(<<b, c>>) = <<c, b>>
    BY DEF Pairs, Back
  <1> QED
    BY <1>1, <1>2 DEF Back

\* A transaction sees the nodes of the live assets when nobody has committed since it began.
LEMMA SeesLive ==
    ASSUME NEW s \in Sessions, Fresh(s), tx[s].pc \notin {"idle", "nodes", "assets"}
    PROVE  SeenNodes(s) = live
  BY DEF Fresh, SeenNodes

-----------------------------------------------------------------------------
(***************************************************************************)
(* The degree of a node is the number of its asset's neighbours.           *)
(***************************************************************************)

LEMMA OneLinkEach ==
    ASSUME NEW s \in Sessions, NEW a \in live, live \subseteq Assets, SeenNodes(s) = live,
           \A p \in Pairs : Count(s, p) \in Nat,
           \A p \in Pairs : {p[1], p[2]} \subseteq live =>
               Count(s, p) + Count(s, Back(p)) = IF {p, Back(p)} \cap rels # {} THEN 1 ELSE 0
    PROVE  Cardinality(LinksAt(s, a)) = Cardinality(Neighbours(a))
  <1> DEFINE Link(b) == IF Count(s, <<a, b>>) = 1 THEN <<<<a, b>>, 1>> ELSE <<<<b, a>>, 1>>
             there == Neighbours(a)
             here == LinksAt(s, a)
             link == [b \in there |-> Link(b)]
  <1>1. live \subseteq Nodes
    BY DEF Nodes
  <1>2. IsFiniteSet(there)
    <2>1. there \subseteq Assets
      BY DEF Neighbours
    <2> QED
      BY <2>1, NodeAssumption, FS_Subset
  <1>3. \A x : x \in here <=> \E p \in Pairs : a \in {p[1], p[2]} /\ x \in {p} \X (1 .. Count(s, p))
    BY DEF LinksAt
  <1>4. ASSUME NEW b \in there
        PROVE  /\ b \in live /\ b # a /\ <<a, b>> \in Pairs /\ <<b, a>> \in Pairs
               /\ Count(s, <<a, b>>) + Count(s, <<b, a>>) = 1
    <2>1. b \in live /\ b # a /\ {<<a, b>>, <<b, a>>} \cap rels # {}
      BY DEF Neighbours
    <2>2. <<a, b>> \in Pairs /\ <<b, a>> \in Pairs /\ Back(<<a, b>>) = <<b, a>>
      BY <1>1, <2>1, PairFacts
    <2>3. {<<a, b>>[1], <<a, b>>[2]} \subseteq live
      BY <2>1
    <2> QED
      BY <2>1, <2>2, <2>3
  <1>5. ASSUME NEW b \in there
        PROVE  Link(b) \in here
    <2>1. ASSUME NEW p \in Pairs, a \in {p[1], p[2]}, Count(s, p) = 1
          PROVE  <<p, 1>> \in here
      <3>1. <<p, 1>> \in {p} \X (1 .. Count(s, p))
        BY <2>1
      <3> QED
        BY <1>3, <2>1, <3>1
    <2>2. a \in {<<a, b>>[1], <<a, b>>[2]} /\ a \in {<<b, a>>[1], <<b, a>>[2]}
      OBVIOUS
    <2>3. Count(s, <<a, b>>) # 1 => Count(s, <<b, a>>) = 1
      BY <1>4
    <2> HIDE DEF here
    <2> QED
      BY <1>4, <2>1, <2>2, <2>3
  <1>6. ASSUME NEW b \in there, NEW c \in there, Link(b) = Link(c)
        PROVE  b = c
    BY <1>4, <1>6
  <1>7. ASSUME NEW x \in here
        PROVE  \E b \in there : Link(b) = x
    <2>1. PICK p \in Pairs : a \in {p[1], p[2]} /\ x \in {p} \X (1 .. Count(s, p))
      BY <1>3
    <2>2. Count(s, p) > 0 /\ Count(s, p) \in Nat /\ Count(s, Back(p)) \in Nat
      BY <2>1, PairFacts
    <2>3. {p[1], p[2]} \subseteq live
      BY <2>2 DEF Count
    <2>4. {p, Back(p)} \cap rels # {} /\ Count(s, p) = 1 /\ Count(s, Back(p)) = 0
      BY <2>2, <2>3
    <2>5. x = <<p, 1>>
      BY <2>1, <2>4
    <2>6. CASE p[1] = a
      <3>1. p = <<a, p[2]>> /\ Back(p) = <<p[2], a>> /\ p[2] # a
        BY <2>6, PairFacts DEF Back
      <3>2. p[2] \in there
        BY <2>3, <2>4, <3>1 DEF Neighbours
      <3> QED
        BY <2>4, <2>5, <3>1, <3>2
    <2>7. CASE p[2] = a
      <3>1. p = <<p[1], a>> /\ Back(p) = <<a, p[1]>> /\ p[1] # a
        BY <2>7, PairFacts DEF Back
      <3>2. p[1] \in there
        BY <2>3, <2>4, <3>1 DEF Neighbours
      <3>3. Count(s, <<a, p[1]>>) = 0
        BY <2>4, <3>1
      <3> QED
        BY <2>5, <3>1, <3>2, <3>3
    <2> QED
      BY <2>1, <2>6, <2>7
  <1>8. link \in Bijection(there, here)
    <2>1. link \in [there -> here]
      BY <1>5
    <2> HIDE DEF here, there
    <2> QED
      BY <1>6, <1>7, <2>1 DEF Bijection, Injection, Surjection, IsInjective
  <1> QED
    BY <1>2, <1>8, FS_Bijection DEF ExistsBijection

\* What an analysis that has been alone counts, if no pair is doubled when it commits.
LEMMA CountsRelated ==
    ASSUME IInv, NEW s \in Sessions, s \in alone, tx[s].pc = "evaluate", CommitSync(s), doubled' = {},
           NEW p \in Pairs, {p[1], p[2]} \subseteq live
    PROVE  Count(s, p) + Count(s, Back(p)) = IF {p, Back(p)} \cap rels # {} THEN 1 ELSE 0
  <1>1. Fresh(s) /\ Counted /\ SeenNodes(s) = live /\ tx[s].pairs = NoLinkYet
    BY SeesLive DEF IInv, Analysing, Fresh
  <1>2. doubled = {} /\ ~ {p, Back(p)} \subseteq tx[s].pairs
    BY DEF CommitSync
  <1>3. links[p] \in Nat /\ links[Back(p)] \in Nat /\ links[p] + links[Back(p)] <= 1
    BY <1>1, <1>2, PairFacts DEF Counted
  <1>4. (links[p] > 0 => p \in rels) /\ (links[Back(p)] > 0 => Back(p) \in rels)
    BY <1>1, <1>2, PairFacts DEF Counted
  <1>5. /\ Count(s, p) = links[p] + (IF p \in tx[s].pairs THEN 1 ELSE 0)
        /\ Count(s, Back(p)) = links[Back(p)] + (IF Back(p) \in tx[s].pairs THEN 1 ELSE 0)
    BY <1>1, PairFacts DEF Count
  <1>6. /\ p \in tx[s].pairs <=> p \in rels /\ links[p] = 0 /\ links[Back(p)] = 0
        /\ Back(p) \in tx[s].pairs <=> Back(p) \in rels /\ links[p] = 0 /\ links[Back(p)] = 0
    BY <1>1, PairFacts DEF NoLinkYet
  <1> QED
    BY <1>2, <1>3, <1>4, <1>5, <1>6

LEMMA CountType ==
    ASSUME Counted, NEW s \in Sessions, NEW p \in Pairs
    PROVE  Count(s, p) \in Nat
  BY DEF Counted, Count

LEMMA BrokenAreFew ==
    ASSUME IInv, NEW s \in Sessions, s \in alone, tx[s].pc = "evaluate", CommitSync(s), doubled' = {}
    PROVE  tx[s].broken = {a \in Critical \cap live : Cardinality(Neighbours(a)) < MinDegree}
  <1>1. Fresh(s) /\ Counted /\ live \subseteq Assets
    BY DEF IInv, Analysing, Undecided, Typed
  <1>2. SeenNodes(s) = live /\ tx[s].broken = Lacking(s)
    BY <1>1, SeesLive DEF Fresh
  <1>3. \A a \in live : Cardinality(LinksAt(s, a)) = Cardinality(Neighbours(a))
    BY <1>1, <1>2, CountType, CountsRelated, OneLinkEach
  <1> QED
    BY <1>2, <1>3 DEF Lacking

-----------------------------------------------------------------------------
(***************************************************************************)
(* Every step.                                                             *)
(***************************************************************************)

\* A transaction that nobody's step concerns.
LEMMA FreshStays ==
    ASSUME NEW s \in Sessions, tx'[s] = tx[s], UNCHANGED <<graph, findings>>, Fresh(s)
    PROVE  Fresh(s)'
  <1>1. UNCHANGED <<live, rels, nodes, links, findings>>
    BY DEF graph
  <1>2. SeenNodes(s)' = SeenNodes(s)
    BY <1>1 DEF SeenNodes
  <1>3. \A p : Count(s, p)' = Count(s, p)
    BY <1>1, <1>2 DEF Count
  <1>4. \A a : LinksAt(s, a)' = LinksAt(s, a)
    BY <1>3 DEF LinksAt
  <1>5. Lacking(s)' = Lacking(s)
    BY <1>1, <1>4 DEF Lacking
  <1>6. NoLinkYet' = NoLinkYet /\ Superseded' = Superseded
    BY <1>1 DEF NoLinkYet, Superseded
  <1> QED
    BY <1>1, <1>5, <1>6 DEF Fresh

\* What an analysis counts, as long as it inserts and deletes the same.
LEMMA CountsStay ==
    ASSUME NEW s \in Sessions, UNCHANGED <<live, rels, nodes, links>>,
           tx'[s].added = tx[s].added, tx'[s].dropped = tx[s].dropped, tx'[s].pairs = tx[s].pairs
    PROVE  NoLinkYet' = NoLinkYet /\ Lacking(s)' = Lacking(s)
  <1>1. SeenNodes(s)' = SeenNodes(s)
    BY DEF SeenNodes
  <1>2. \A p : Count(s, p)' = Count(s, p)
    BY <1>1 DEF Count
  <1>3. \A a : LinksAt(s, a)' = LinksAt(s, a)
    BY <1>2 DEF LinksAt
  <1> QED
    BY <1>3 DEF Lacking, NoLinkYet

\* A step of one transaction that shows nothing to the others.
LEMMA MovesOn ==
    ASSUME IInv, NEW s \in Sessions, NEW next \in TxType, Step(s, next),
           UNCHANGED <<graph, findings, doubled>>, settled' => settled, alone' \subseteq alone \cup {s},
           alone' \subseteq Sessions,
           Linking(s)', s \in alone' => Fresh(s)'
    PROVE  Analysing'
  <1>1. UNCHANGED <<live, rels, nodes, links, findings, doubled>>
    BY DEF graph
  <1>2. \A t \in Sessions \ {s} : tx'[t] = tx[t]
    BY DEF Step, IInv, Undecided, Typed
  <1>3. Counted'
    BY <1>1 DEF IInv, Analysing, Counted
  <1>4. \A t \in Sessions : Linking(t)'
    BY <1>1, <1>2 DEF IInv, Analysing, Linking
  <1>5. \A t \in alone' : Fresh(t)'
    BY <1>2, FreshStays DEF IInv, Analysing
  <1>6. FindingsTrue'
    BY <1>1 DEF IInv, Analysing, FindingsTrue, New, Neighbours
  <1> QED
    BY <1>3, <1>4, <1>5, <1>6 DEF Analysing

\* A request that writes one row: no analysis counts any more as one that nothing has disturbed.
LEMMA RowWritten ==
    ASSUME IInv, Edit, ~settled', links' \in [Pairs -> Nat], rels \subseteq rels',
           doubled' = {} => doubled = {} /\ links' = links
    PROVE  Analysing'
  <1>1. tx' = tx /\ alone' = {}
    BY DEF Edit, Touch
  <1>2. Counted'
    BY DEF IInv, Analysing, Counted
  <1>3. \A t \in Sessions : Linking(t)'
    BY <1>1 DEF IInv, Analysing, Linking
  <1> QED
    BY <1>1, <1>2, <1>3 DEF Analysing, FindingsTrue

\* A commit of a sync: a pair gets a second link only where doubled says so.
LEMMA LinksCommitted ==
    ASSUME IInv, NEW s \in Sessions, CommitSync(s)
    PROVE  /\ Counted' /\ (\A t \in Sessions : Linking(t)') /\ alone' = {}
           /\ doubled' = {} => doubled = {}
  <1>1. Counted /\ Linking(s) /\ rels' = rels /\ alone' = {}
    BY DEF IInv, Analysing, CommitSync, Touch
  <1>2. links' = [p \in Pairs |-> Count(s, p)] /\ links' \in [Pairs -> Nat]
    BY <1>1, CountType DEF CommitSync
  <1>3. \A p \in Pairs : Count(s, p) <= links[p] + (IF p \in tx[s].pairs THEN 1 ELSE 0)
    BY <1>1 DEF Counted, Count
  <1>4. \A t \in Sessions : Linking(t)'
    <2>1. tx' = [tx EXCEPT ![s] = Idle] /\ tx \in [Sessions -> TxType]
      BY DEF CommitSync, Step, IInv, Undecided, Typed
    <2>2. \A t \in Sessions : tx'[t] = IF t = s THEN Idle ELSE tx[t]
      BY <2>1
    <2> QED
      BY <1>1, <2>2 DEF IInv, Analysing, Linking, Idle
  <1>5. ASSUME doubled' = {}, NEW p \in Pairs
        PROVE  /\ links'[p] > 0 => p \in rels
               /\ links'[p] + links'[Back(p)] <= 1
    <2>1. doubled = {}
      BY <1>5 DEF CommitSync
    <2>2. /\ links[p] \in Nat /\ links[Back(p)] \in Nat /\ links[p] + links[Back(p)] <= 1
          /\ links[p] > 0 => p \in rels
      BY <1>1, <2>1, PairFacts DEF Counted
    <2>3. /\ links'[p] \in Nat /\ links'[p] <= links[p] + (IF p \in tx[s].pairs THEN 1 ELSE 0)
          /\ links'[Back(p)] \in Nat
          /\ links'[Back(p)] <= links[Back(p)] + (IF Back(p) \in tx[s].pairs THEN 1 ELSE 0)
      BY <1>2, <1>3, PairFacts
    <2>4. links'[p] > 0 => p \in rels
      BY <1>1, <2>2, <2>3 DEF Linking
    <2>5. CASE {p, Back(p)} \cap tx[s].pairs = {}
      BY <2>2, <2>3, <2>4, <2>5
    <2>6. CASE {p, Back(p)} \cap tx[s].pairs # {}
      <3>1. ~ {p, Back(p)} \subseteq tx[s].pairs /\ (s \notin alone => ~(links[p] + links[Back(p)] > 0))
        BY <1>5, <2>6 DEF CommitSync
      <3>2. s \in alone => links[p] = 0 /\ links[Back(p)] = 0
        <4>1. s \in alone => tx[s].pairs = NoLinkYet
          <5>1. tx[s] \in TxType /\ tx[s].pairs # {}
            BY <2>6 DEF IInv, Undecided, Typed
          <5> QED
            BY <5>1 DEF IInv, Analysing, Fresh, Linking, TxType
        <4> QED
          BY <2>6, <4>1, PairFacts DEF NoLinkYet
      <3>3. links[p] = 0 /\ links[Back(p)] = 0
        BY <2>2, <3>1, <3>2
      <3> QED
        BY <2>3, <2>4, <3>1, <3>3
    <2> QED
      BY <2>5, <2>6
  <1>6. Counted'
    BY <1>1, <1>2, <1>5 DEF Counted
  <1> QED
    BY <1>1, <1>4, <1>6 DEF CommitSync

LEMMA ViewCommitted ==
    ASSUME IInv, NEW s \in Sessions, CommitView(s), findings' = findings,
           settled' => settled /\ UNCHANGED graph
    PROVE  Analysing'
  <1>1. CommitSync(s) /\ tx[s].pc = "commit"
    BY DEF CommitView
  <1>2. /\ Counted' /\ (\A t \in Sessions : Linking(t)') /\ alone' = {}
        /\ doubled' = {} => doubled = {}
    BY <1>1, LinksCommitted
  <1>3. FindingsTrue'
    BY <1>2 DEF IInv, Analysing, FindingsTrue, New, Neighbours, graph
  <1> QED
    BY <1>2, <1>3 DEF Analysing

LEMMA AnalysisStored ==
    ASSUME IInv, NEW s \in Sessions, NEW status, NEW made \in SUBSET tx[s].broken,
           Store(s, status, made), status = "success" => tx[s].pc = "evaluate" /\ made = tx[s].broken
    PROVE  Analysing'
  <1>1. CommitSync(s)
    BY DEF Store
  <1>2. /\ Counted' /\ (\A t \in Sessions : Linking(t)') /\ alone' = {}
        /\ doubled' = {} => doubled = {}
    BY <1>1, LinksCommitted
  <1>3. ASSUME settled', doubled' = {}
        PROVE  /\ {f.asset : f \in New'} = {a \in Critical \cap live : Cardinality(Neighbours(a)) < MinDegree}
               /\ \A f, g \in New' : f.asset = g.asset => f = g
    <2>1. s \in alone /\ made = tx[s].broken /\ tx[s].pc = "evaluate"
      BY <1>3 DEF Store
    <2>2. tx[s].deleted = Superseded
      BY <2>1 DEF IInv, Analysing, Fresh
    <2> DEFINE Note(a) == [run |-> tx[s].run, asset |-> a, status |-> "new"]
    <2>3. findings' = (findings \ Superseded) \cup {Note(a) : a \in made}
      BY <2>2 DEF Store
    <2>4. New' = {Note(a) : a \in made}
      BY <2>3 DEF New, Superseded
    <2>5. \A a \in made : Note(a).asset = a
      OBVIOUS
    <2> HIDE DEF Note
    <2>6. {f.asset : f \in New'} = made
      BY <2>4, <2>5
    <2>7. \A f, g \in New' : f.asset = g.asset => f = g
      BY <2>4, <2>5
    <2> QED
      BY <1>1, <1>3, <2>1, <2>6, <2>7, BrokenAreFew
  <1>4. live' = live /\ rels' = rels
    BY <1>1 DEF CommitSync
  <1>5. FindingsTrue'
    BY <1>3, <1>4 DEF FindingsTrue, Neighbours
  <1> QED
    BY <1>2, <1>5 DEF Analysing

\* The nodes that a transaction reads again are those of the live assets, if it is alone.
LEMMA DevicesRead ==
    ASSUME IInv, NEW s \in Sessions, findings' = findings, settled' => settled,
           \/ ReadDevices(s, "devices", "links")
           \/ ReadDevices(s, "contexts", "degrees")
    PROVE  Analysing'
  <1> DEFINE seen == SeenNodes(s)
             Moved(to) == [tx[s] EXCEPT !.pc = to, !.nodes = seen]
  <1>1. PICK to \in {"links", "degrees"} :
            /\ Step(s, Moved(to)) /\ UNCHANGED <<graph, alone, doubled>>
            /\ to = "links" => tx[s].pc = "devices"
            /\ to = "degrees" => tx[s].pc = "contexts"
    BY DEF ReadDevices
  <1>2. /\ tx[s] \in TxType /\ tx'[s] = Moved(to) /\ tx'[s] \in TxType
        /\ Linking(s) /\ (s \in alone => Fresh(s)) /\ alone \subseteq Sessions
        /\ UNCHANGED <<live, rels, nodes, links>>
    BY <1>1, DevicesUndecided DEF IInv, Analysing, Undecided, Typed, Step, graph
  <1>3. s \in alone => seen = live
    BY <1>1, <1>2, SeesLive
  <1> HIDE DEF seen
  <1>4. /\ tx'[s].pc = to /\ tx'[s].nodes = seen /\ tx'[s].added = tx[s].added
        /\ tx'[s].dropped = tx[s].dropped /\ tx'[s].pairs = tx[s].pairs
    BY <1>2 DEF TxType
  <1>5. NoLinkYet' = NoLinkYet
    BY <1>2 DEF NoLinkYet
  <1>6. Linking(s)' /\ (s \in alone' => Fresh(s)')
    BY <1>1, <1>2, <1>3, <1>4, <1>5 DEF Linking, Fresh
  <1> HIDE DEF Moved
  <1> QED
    BY <1>1, <1>2, <1>6, MovesOn

LEMMA GraphAnalysing ==
    ASSUME IInv, OtherStep
    PROVE  Analysing'
  <1>0. /\ findings' = findings /\ settled' = (settled /\ UNCHANGED graph) /\ GraphNext
        /\ Counted /\ Undecided /\ tx \in [Sessions -> TxType]
    BY DEF OtherStep, IInv, Analysing, Undecided, Typed
  <1>1. ASSUME NEW a \in Assets, CreateAsset(a) \/ DeleteAsset(a)
        PROVE  Analysing'
    <2>1. live' # live /\ UNCHANGED <<rels, links, doubled>> /\ Edit
      BY <1>1 DEF CreateAsset, DeleteAsset
    <2> QED
      BY <1>0, <2>1, RowWritten DEF graph, Counted
  <1>2. ASSUME NEW p \in Pairs, Relate(p)
        PROVE  Analysing'
    <2>1. rels' # rels /\ rels \subseteq rels' /\ UNCHANGED <<links, doubled>> /\ Edit
      BY <1>2 DEF Relate
    <2> QED
      BY <1>0, <2>1, RowWritten DEF graph, Counted
  <1>3. ASSUME NEW p \in Pairs, DrawLink(p)
        PROVE  Analysing'
    <2>1. links[p] \in Nat /\ links' = [links EXCEPT ![p] = @ + 1] /\ links \in [Pairs -> Nat]
      BY <1>0, <1>3 DEF DrawLink, Counted
    <2>2. links' \in [Pairs -> Nat] /\ links' # links
      <3>1. links'[p] = links[p] + 1
        BY <2>1
      <3> QED
        BY <2>1, <3>1
    <2>3. doubled' # {} /\ rels' = rels /\ Edit
      BY <1>3 DEF DrawLink
    <2> QED
      BY <1>0, <2>2, <2>3, RowWritten DEF graph
  <1>4. ASSUME NEW d \in Drawn, DrawNode(d)
        PROVE  Analysing'
    <2>1. nodes' # nodes /\ UNCHANGED <<rels, links, doubled>> /\ Edit
      BY <1>4 DEF DrawNode
    <2> QED
      BY <1>0, <2>1, RowWritten DEF graph, Counted
  <1>5. ASSUME NEW s \in Sessions,
               \/ BeginSync(s, "view", None)
               \/ ReadNodes(s) \/ ReadAssets(s) \/ FlushNodes(s)
               \/ ReadDevices(s, "devices", "links") \/ ReadLinks(s) \/ ReadRelationships(s)
               \/ CommitView(s) \/ Crash(s)
               \/ FlushLinks(s, IF tx[s].kind = "view" THEN "commit" ELSE "contexts")
        PROVE  Analysing'
    <2>1. /\ tx[s] \in TxType /\ Linking(s) /\ (s \in alone => Fresh(s)) /\ alone \subseteq Sessions
          /\ tx'[s] \in TxType
      BY <1>0, GraphUndecided DEF IInv, Analysing, Undecided, Typed
    <2>2. \A next : Step(s, next) => tx'[s] = next
      BY <1>0 DEF Step
    <2> DEFINE Moved(n) == /\ Step(s, n) /\ UNCHANGED <<graph, doubled>> /\ alone' \subseteq alone \cup {s}
                           /\ Linking(s)' /\ (s \in alone' => Fresh(s)')
    <2>3. ASSUME NEW n, Moved(n)
          PROVE  Analysing'
      <3>1. n \in TxType /\ alone' \subseteq Sessions
        BY <2>1, <2>2, <2>3
      <3> QED
        BY <1>0, <2>3, <3>1, MovesOn
    <2>4. UNCHANGED graph => UNCHANGED <<live, rels, nodes, links>>
      BY DEF graph
    <2>5. CASE BeginSync(s, "view", None)
      <3>1. Moved([Idle EXCEPT !.pc = "nodes", !.kind = "view", !.run = None])
        BY <2>2, <2>5 DEF BeginSync, Idle, Linking, Fresh
      <3> QED
        BY <2>3, <3>1
    <2>6. CASE ReadNodes(s)
      <3>1. Moved([tx[s] EXCEPT !.pc = "assets", !.nodes = nodes])
        BY <2>1, <2>2, <2>4, <2>6 DEF ReadNodes, Linking, Fresh, TxType
      <3> QED
        BY <2>3, <3>1
    <2>7. CASE ReadAssets(s)
      <3> DEFINE added == live \ tx[s].nodes
                 dropped == tx[s].nodes \ live
                 next == [tx[s] EXCEPT !.pc = "flush", !.added = added, !.dropped = dropped]
      <3>1. Step(s, next) /\ tx[s].pc = "assets" /\ UNCHANGED <<graph, alone, doubled>>
        BY <2>7 DEF ReadAssets
      <3>2. s \in alone => added = live \ nodes /\ dropped = nodes \ live
        BY <2>1, <3>1 DEF Fresh
      <3> HIDE DEF added, dropped
      <3>3. /\ tx'[s].pc = "flush" /\ tx'[s].nodes = tx[s].nodes /\ tx'[s].added = added
            /\ tx'[s].dropped = dropped /\ tx'[s].pairs = tx[s].pairs
        BY <2>1, <2>2, <3>1 DEF TxType
      <3>4. Linking(s)' /\ (s \in alone' => Fresh(s)')
        BY <2>1, <2>4, <3>1, <3>2, <3>3 DEF Linking, Fresh
      <3>5. Moved(next)
        BY <3>1, <3>4
      <3> QED
        BY <2>3, <3>5
    <2>8. CASE Undo(s)
      <3>1. Moved(Idle)
        BY <2>2, <2>4, <2>8 DEF Undo, Idle, Linking
      <3> QED
        BY <2>3, <3>1
    <2>9. CASE FlushNodes(s) /\ ~Undo(s)
      <3>1. Moved([tx[s] EXCEPT !.pc = "devices"])
        BY <2>1, <2>2, <2>4, <2>9 DEF FlushNodes, Linking, Fresh, TxType
      <3> QED
        BY <2>3, <3>1
    <2>10. CASE ReadDevices(s, "devices", "links")
      BY <1>0, <2>10, DevicesRead
    <2>13. CASE ReadLinks(s)
      <3> DEFINE linked == {p \in Pairs : Count(s, p) > 0}
      <3>1. Step(s, [tx[s] EXCEPT !.pc = "relations", !.linked = linked]) /\ UNCHANGED <<graph, alone, doubled>>
            /\ tx[s].pc = "links" /\ tx[s].pairs = {}
        BY <2>1, <2>13 DEF ReadLinks, Linking
      <3>2. s \in alone => linked = {p \in Pairs : {p[1], p[2]} \subseteq live /\ links[p] > 0}
        <4>1. s \in alone => SeenNodes(s) = live
          BY <2>1, <3>1, SeesLive
        <4>2. \A p \in Pairs : links[p] \in Nat
          BY <1>0 DEF Counted
        <4> QED
          BY <3>1, <4>1, <4>2 DEF Count
      <3> HIDE DEF linked
      <3>3. tx'[s] = [tx[s] EXCEPT !.pc = "relations", !.linked = linked]
        BY <2>2, <3>1
      <3>4. Linking(s)' /\ (s \in alone' => Fresh(s)')
        BY <2>1, <2>4, <3>1, <3>2, <3>3 DEF Linking, Fresh, TxType
      <3>5. Moved([tx[s] EXCEPT !.pc = "relations", !.linked = linked])
        BY <3>1, <3>4
      <3> QED
        BY <2>3, <3>5
    <2>14. CASE ReadRelationships(s)
      <3> DEFINE pairs == Unlinked(s)
                 next == [tx[s] EXCEPT !.pc = "insert", !.pairs = pairs, !.nodes = {}, !.linked = {}]
      <3>1. Step(s, next) /\ UNCHANGED <<graph, alone, doubled>>
            /\ tx[s].pc = "relations" /\ tx[s].pairs = {} /\ pairs \subseteq rels
        BY <2>1, <2>14 DEF ReadRelationships, Linking, Unlinked
      <3>2. s \in alone => pairs = NoLinkYet
        <4> SUFFICES ASSUME s \in alone
                     PROVE  pairs = NoLinkYet
          OBVIOUS
        <4>1. tx[s].nodes = live /\ rels \subseteq Pairs
              /\ tx[s].linked = {p \in Pairs : {p[1], p[2]} \subseteq live /\ links[p] > 0}
          BY <1>0, <2>1, <3>1 DEF Undecided, Typed, Fresh
        <4>2. \A p \in Pairs : {p[1], p[2]} \subseteq live =>
                  ({p, Back(p)} \cap tx[s].linked = {} <=> links[p] = 0 /\ links[Back(p)] = 0)
          <5>1. \A p \in Pairs : links[p] \in Nat
            BY <1>0 DEF Counted
          <5> QED
            BY <4>1, <5>1, PairFacts
        <4> QED
          BY <4>1, <4>2 DEF Unlinked, NoLinkYet
      <3> HIDE DEF pairs
      <3>3. tx'[s] = next
        BY <2>2, <3>1
      <3>4. Linking(s)' /\ NoLinkYet' = NoLinkYet
        BY <2>1, <2>4, <3>1, <3>3 DEF Linking, NoLinkYet, TxType
      <3>5. s \in alone' => Fresh(s)'
        BY <2>1, <2>4, <3>1, <3>2, <3>3, <3>4 DEF Fresh, TxType
      <3>6. Moved(next)
        BY <3>1, <3>4, <3>5
      <3> QED
        BY <2>3, <3>6
    <2>11. CASE CommitView(s)
      BY <1>0, <2>11, ViewCommitted
    <2>12. ASSUME NEW pc \in {"commit", "contexts"}, FlushLinks(s, pc), ~Undo(s)
           PROVE  Analysing'
      <3>1. NoLinkYet' = NoLinkYet
        BY <2>4, <2>12 DEF FlushLinks, NoLinkYet
      <3>2. Moved([tx[s] EXCEPT !.pc = pc])
        BY <2>1, <2>2, <2>4, <2>12, <3>1 DEF FlushLinks, Linking, Fresh, TxType
      <3> QED
        BY <2>3, <3>2
    <2> QED
      BY <1>5, <2>5, <2>6, <2>7, <2>8, <2>9, <2>10, <2>11, <2>12, <2>13, <2>14 DEF Crash
  <1> QED
    BY <1>0, <1>1, <1>2, <1>3, <1>4, <1>5 DEF GraphNext

LEMMA AnalysingStep == IInv /\ [Next]_vars => Analysing'
  <1> SUFFICES ASSUME IInv, [Next]_vars
               PROVE  Analysing'
    OBVIOUS
  <1>0. /\ tx \in [Sessions -> TxType] /\ tx' \in [Sessions -> TxType] /\ alone \subseteq Sessions
        /\ \A s \in Sessions : Linking(s) /\ (s \in alone => Fresh(s))
        /\ \A s \in Sessions : \A n : Step(s, n) => tx'[s] = n
    BY UndecidedStep DEF IInv, Analysing, Undecided, Typed, Step
  <1>1. CASE OtherStep
    BY <1>1, GraphAnalysing
  <1>2. ASSUME NEW s \in Sessions, NEW r \in Runs, BeginRun(s, r)
        PROVE  Analysing'
    <2> DEFINE next == [Idle EXCEPT !.pc = "nodes", !.kind = "run", !.run = r]
    <2>1. Step(s, next) /\ UNCHANGED <<graph, findings, doubled, settled>> /\ alone' = alone \cup {s}
      BY <1>2 DEF BeginRun, BeginSync
    <2>2. tx'[s] = next /\ next \in TxType
      BY <1>0, <2>1
    <2>3. Linking(s)' /\ Fresh(s)'
      BY <2>2 DEF Idle, Linking, Fresh
    <2> QED
      BY <1>0, <2>1, <2>2, <2>3, MovesOn
  <1>3. ASSUME NEW s \in Sessions, ReadContextNodes(s)
        PROVE  Analysing'
    BY <1>3, DevicesRead DEF ReadContextNodes
  <1>8. ASSUME NEW s \in Sessions, ReadDegrees(s)
        PROVE  Analysing'
    <2> DEFINE broken == {a \in Assets : Breaks(s, a)}
               next == [tx[s] EXCEPT !.pc = "live", !.nodes = {}, !.broken = broken]
    <2>1. Step(s, next) /\ UNCHANGED <<graph, findings, alone, doubled, settled>> /\ tx[s].pc = "degrees"
      BY <1>8 DEF ReadDegrees
    <2>2. tx'[s] = next /\ next \in TxType /\ tx[s] \in TxType
      BY <1>0, <2>1
    <2>3. UNCHANGED <<live, rels, nodes, links>> /\ live \subseteq Assets
      BY <2>1 DEF graph, IInv, Undecided, Typed
    <2>4. s \in alone => broken \cap live = Lacking(s)
      <3>1. s \in alone => tx[s].nodes = live
        BY <1>0, <2>1 DEF Fresh
      <3> QED
        BY <2>3, <3>1 DEF Breaks, DegreeOf, Lacking
    <2> HIDE DEF broken
    <2>5. /\ tx'[s].pc = "live" /\ tx'[s].broken = broken /\ tx'[s].added = tx[s].added
          /\ tx'[s].dropped = tx[s].dropped /\ tx'[s].pairs = tx[s].pairs
      BY <2>2 DEF TxType
    <2>6. NoLinkYet' = NoLinkYet /\ Lacking(s)' = Lacking(s)
      BY <2>3, <2>5, CountsStay
    <2>7. Linking(s)' /\ (s \in alone' => Fresh(s)')
      BY <1>0, <2>1, <2>3, <2>4, <2>5, <2>6 DEF Linking, Fresh
    <2> QED
      BY <1>0, <2>1, <2>2, <2>7, MovesOn
  <1>9. ASSUME NEW s \in Sessions, ReadContextAssets(s)
        PROVE  Analysing'
    <2> DEFINE next == [tx[s] EXCEPT !.pc = "delete", !.broken = @ \cap live]
    <2>1. Step(s, next) /\ UNCHANGED <<graph, findings, alone, doubled, settled>> /\ tx[s].pc = "live"
      BY <1>9 DEF ReadContextAssets
    <2>2. tx'[s] = next /\ next \in TxType /\ tx[s] \in TxType
      BY <1>0, <2>1
    <2>3. UNCHANGED <<live, rels, nodes, links>>
      BY <2>1 DEF graph
    <2>4. /\ tx'[s].pc = "delete" /\ tx'[s].broken = tx[s].broken \cap live
          /\ tx'[s].added = tx[s].added /\ tx'[s].dropped = tx[s].dropped /\ tx'[s].pairs = tx[s].pairs
      BY <2>2 DEF TxType
    <2>5. NoLinkYet' = NoLinkYet /\ Lacking(s)' = Lacking(s)
      BY <2>3, <2>4, CountsStay
    <2>6. Linking(s)' /\ (s \in alone' => Fresh(s)')
      BY <1>0, <2>1, <2>3, <2>4, <2>5 DEF Linking, Fresh
    <2> QED
      BY <1>0, <2>1, <2>2, <2>6, MovesOn
  <1>4. ASSUME NEW s \in Sessions, DeleteNew(s)
        PROVE  Analysing'
    <2> DEFINE next == [tx[s] EXCEPT !.pc = "evaluate", !.deleted = Superseded]
    <2>1. Step(s, next) /\ UNCHANGED <<graph, findings, alone, doubled, settled>> /\ tx[s].pc = "delete"
      BY <1>4 DEF DeleteNew
    <2>2. tx'[s] = next /\ next \in TxType /\ tx[s] \in TxType
      BY <1>0, <2>1
    <2>3. UNCHANGED <<live, rels, nodes, links>>
      BY <2>1 DEF graph
    <2>4. /\ tx'[s].added = tx[s].added /\ tx'[s].dropped = tx[s].dropped /\ tx'[s].pairs = tx[s].pairs
          /\ tx'[s].nodes = tx[s].nodes /\ tx'[s].broken = tx[s].broken /\ tx'[s].pc = "evaluate"
          /\ tx'[s].deleted = Superseded
      BY <2>2 DEF TxType
    <2>5. NoLinkYet' = NoLinkYet /\ Lacking(s)' = Lacking(s)
      BY <2>3, <2>4, CountsStay
    <2>6. Superseded' = Superseded
      BY <2>1 DEF Superseded
    <2>8. Linking(s)' /\ (s \in alone' => Fresh(s)')
      BY <1>0, <2>1, <2>3, <2>4, <2>5, <2>6 DEF Linking, Fresh
    <2> QED
      BY <1>0, <2>1, <2>2, <2>8, MovesOn
  <1>5. ASSUME NEW s \in Sessions, FinishRun(s) \/ FailRun(s)
        PROVE  Analysing'
    <2>1. CASE FinishRun(s)
      BY <2>1, AnalysisStored DEF FinishRun
    <2>2. CASE FailRun(s)
      <3>1. PICK made \in SUBSET tx[s].broken : Store(s, "failed", made)
        BY <2>2 DEF FailRun
      <3> QED
        BY <3>1, AnalysisStored
    <2> QED
      BY <1>5, <2>1, <2>2
  <1>6. ASSUME NEW f \in findings, NEW decision \in {"accepted", "ignored"}, Triage(f, decision)
        PROVE  Analysing'
    <2>1. UNCHANGED <<live, rels, nodes, links, tx, doubled>> /\ alone' = {} /\ ~settled'
      BY <1>6 DEF Triage, graph, Touch
    <2> QED
      BY <2>1 DEF IInv, Analysing, Counted, Linking, FindingsTrue
  <1>7. CASE UNCHANGED vars
    <2>1. UNCHANGED <<live, rels, nodes, links, tx, doubled, alone, settled, findings, graph>>
      BY <1>7 DEF vars, graphVars, graph
    <2>2. \A s \in alone' : Fresh(s)'
      BY <1>0, <2>1, FreshStays
    <2> QED
      BY <2>1, <2>2 DEF IInv, Analysing, Counted, Linking, FindingsTrue, New, Neighbours
  <1> QED
    BY <1>1, <1>2, <1>3, <1>4, <1>5, <1>6, <1>7, <1>8, <1>9 DEF Next

LEMMA InitIInv == Init => IInv
  <1> SUFFICES ASSUME Init
               PROVE  IInv
    OBVIOUS
  <1>1. Undecided
    BY InitUndecided
  <1>2. /\ links = [p \in Pairs |-> 0] /\ doubled = {} /\ alone = {} /\ ~settled
        /\ \A s \in Sessions : tx[s] = Idle
    BY DEF Init, GraphInit
  <1>3. Counted
    BY <1>2, PairFacts DEF Counted
  <1>4. \A s \in Sessions : Linking(s)
    BY <1>2 DEF Linking, Idle
  <1> QED
    BY <1>1, <1>2, <1>3, <1>4 DEF IInv, Analysing, FindingsTrue

\* When an analysis has succeeded and nothing was committed during it or since, and no pair was
\* linked twice, the new findings are those of the critical live assets with too few neighbours
\* in the inventory, one for each (run_analysis, sync_links_from_relationships).
THEOREM FindingsAreTrue == Spec => []FindingsTrue
  <1>1. Init => IInv
    BY InitIInv
  <1>2. IInv /\ [Next]_vars => IInv'
    BY UndecidedStep, AnalysingStep DEF IInv
  <1>3. IInv => FindingsTrue
    BY DEF IInv, Analysing
  <1> QED
    BY <1>1, <1>2, <1>3, PTL DEF Spec
=============================================================================
