------------------------------- MODULE Topology -------------------------------
(***************************************************************************)
(* The topology graph, derived from the inventory whenever it is looked at *)
(* or analysed: one device node for every live asset, one link for every   *)
(* connected_to relationship.  A sync reads, compares and inserts in the   *)
(* transaction of its caller: the unique constraint on a node's asset      *)
(* makes a second sync wait and fail, nothing does that for links.         *)
(***************************************************************************)
EXTENDS Naturals, FiniteSets

CONSTANTS
    Assets, SeedLive,    \* assets, and those that are live at first
    SeedRels,            \* relationships at first
    Drawn,               \* device nodes drawn by hand, without an asset
    Sessions,            \* transactions in progress at one time
    Cables,              \* the pairs that requests relate or link by hand
    MaxEdits,            \* bound: requests that change a row of the inventory or the graph
    None

ASSUME NodeAssumption == IsFiniteSet(Assets) /\ SeedLive \subseteq Assets /\ Assets \cap Drawn = {}
ASSUME EditBoundAssumption == MaxEdits \in Nat

Nodes == Assets \cup Drawn
Pairs == {p \in Nodes \X Nodes : p[1] # p[2]}
Back(p) == <<p[2], p[1]>>
ASSUME CableAssumption == SeedRels \cup Cables \subseteq Pairs

VARIABLES
    live,       \* the assets that are not deleted
    rels,       \* asset_relationships of type connected_to
    nodes,      \* topology_nodes of devices, each named by its asset; nodes drawn by hand
    links,      \* topology_links: how many there are from one node to another
    edits,      \* requests made
    tx,         \* syncs in progress
    alone,      \* history: transactions during which no other one committed
    doubled     \* history: pairs that one sync linked twice, two that overlapped, or a user

graphVars == <<live, rels, nodes, links, edits, tx, alone, doubled>>
graph == <<live, rels, nodes, links, edits>>

\* A sync: what it read, and the nodes and links it will insert and delete.
Idle == [pc |-> "idle", kind |-> "none", run |-> None, nodes |-> {}, added |-> {}, dropped |-> {},
         linked |-> {}, pairs |-> {}, broken |-> {}, deleted |-> {}]

GraphInit ==
    /\ live = SeedLive
    /\ rels = SeedRels
    /\ nodes = {}
    /\ links = [p \in Pairs |-> 0]
    /\ edits = 0
    /\ tx = [s \in Sessions |-> Idle]
    /\ alone = {}
    /\ doubled = {}

\* A commit: no transaction in progress is alone any more.
Step(s, next) == tx' = [tx EXCEPT ![s] = next]
Touch == alone' = {}
Edit == edits < MaxEdits /\ edits' = edits + 1 /\ Touch /\ UNCHANGED tx

-----------------------------------------------------------------------------
(***************************************************************************)
(* The requests that write one row.                                        *)
(***************************************************************************)

\* With an id that is nobody's and that no transaction remembers.
CreateAsset(a) ==
    /\ a \notin live \cup nodes
    /\ \A s \in Sessions : a \notin tx[s].nodes \cup tx[s].added
    /\ live' = live \cup {a}
    /\ Edit
    /\ UNCHANGED <<rels, nodes, links, doubled>>

\* soft_delete_asset: relationships, nodes and links stay as they are.
DeleteAsset(a) ==
    /\ a \in live
    /\ live' = live \ {a}
    /\ Edit
    /\ UNCHANGED <<rels, nodes, links, doubled>>

\* create_relationship, with its unique constraint.
Relate(p) ==
    /\ p \in Cables
    /\ {p[1], p[2]} \subseteq live
    /\ p \notin rels
    /\ rels' = rels \cup {p}
    /\ Edit
    /\ UNCHANGED <<live, nodes, links, doubled>>

\* create_node, of a device that is not in the inventory.
DrawNode(d) ==
    /\ d \notin nodes
    /\ nodes' = nodes \cup {d}
    /\ Edit
    /\ UNCHANGED <<live, rels, links, doubled>>

\* create_link: db.get of both nodes, and no look at the links there are.
DrawLink(p) ==
    /\ p \in Cables
    /\ {p[1], p[2]} \subseteq nodes
    /\ \A s \in Sessions : tx[s].dropped \cap {p[1], p[2]} = {}
    /\ links' = [links EXCEPT ![p] = @ + 1]
    /\ doubled' = doubled \cup {p, Back(p)}
    /\ Edit
    /\ UNCHANGED <<live, rels, nodes>>

-----------------------------------------------------------------------------
(***************************************************************************)
(* The two halves of a sync.                                               *)
(***************************************************************************)

BeginSync(s, kind, run) ==
    /\ tx[s].pc = "idle"
    /\ Step(s, [Idle EXCEPT !.pc = "nodes", !.kind = kind, !.run = run])
    /\ alone' = alone \cup {s}
    /\ UNCHANGED <<graph, doubled>>

\* sync_nodes_from_assets: the device nodes, then the assets.
ReadNodes(s) ==
    /\ tx[s].pc = "nodes"
    /\ Step(s, [tx[s] EXCEPT !.pc = "assets", !.nodes = nodes])
    /\ UNCHANGED <<graph, alone, doubled>>

ReadAssets(s) ==
    /\ tx[s].pc = "assets"
    /\ Step(s, [tx[s] EXCEPT !.pc = "flush", !.added = live \ tx[s].nodes,
                             !.dropped = tx[s].nodes \ live])
    /\ UNCHANGED <<graph, alone, doubled>>

\* Transactions that have inserted or deleted one of the nodes and have not ended.
Flushed(t) == tx[t].pc \notin {"idle", "nodes", "assets", "flush"}
NodeHolders(s) ==
    {t \in Sessions \ {s} : /\ Flushed(t)
                            /\ (tx[t].added \cap tx[s].added) \cup (tx[t].dropped \cap tx[s].dropped) # {}}

\* A transaction ends with nothing written.
Undo(s) ==
    /\ Step(s, Idle)
    /\ alone' = alone \ {s}
    /\ UNCHANGED <<graph, doubled>>

\* db.flush: a node that another sync has committed since breaks the unique constraint.
FlushNodes(s) ==
    /\ tx[s].pc = "flush"
    /\ NodeHolders(s) = {}
    /\ IF tx[s].added \cap nodes = {}
       THEN /\ Step(s, [tx[s] EXCEPT !.pc = "devices"])
            /\ UNCHANGED <<graph, alone, doubled>>
       ELSE Undo(s)

\* The nodes and links that the transaction sees; a node's links go with it.
SeenNodes(s) == (nodes \cup tx[s].added) \ tx[s].dropped
Count(s, p) == IF {p[1], p[2]} \subseteq SeenNodes(s)
               THEN links[p] + (IF p \in tx[s].pairs THEN 1 ELSE 0) ELSE 0

\* sync_links_from_relationships: the device nodes, the links, then the relationships.
ReadDevices(s, from, to) ==
    /\ tx[s].pc = from
    /\ Step(s, [tx[s] EXCEPT !.pc = to, !.nodes = SeenNodes(s)])
    /\ UNCHANGED <<graph, alone, doubled>>

ReadLinks(s) ==
    /\ tx[s].pc = "links"
    /\ Step(s, [tx[s] EXCEPT !.pc = "relations", !.linked = {p \in Pairs : Count(s, p) > 0}])
    /\ UNCHANGED <<graph, alone, doubled>>

\* The pairs of nodes that are linked in neither direction.
Unlinked(s) ==
    {p \in rels : {p[1], p[2]} \subseteq tx[s].nodes /\ {p, Back(p)} \cap tx[s].linked = {}}

ReadRelationships(s) ==
    /\ tx[s].pc = "relations"
    /\ Step(s, [tx[s] EXCEPT !.pc = "insert", !.pairs = Unlinked(s), !.nodes = {}, !.linked = {}])
    /\ UNCHANGED <<graph, alone, doubled>>

\* The insert waits for a transaction that is deleting one of the nodes, and fails after it.
EndsOf(pairs) == {p[1] : p \in pairs} \cup {p[2] : p \in pairs}
FlushLinks(s, then) ==
    /\ tx[s].pc = "insert"
    /\ \A t \in Sessions \ {s} : Flushed(t) => tx[t].dropped \cap EndsOf(tx[s].pairs) = {}
    /\ IF EndsOf(tx[s].pairs) \subseteq SeenNodes(s)
       THEN /\ Step(s, [tx[s] EXCEPT !.pc = then])
            /\ UNCHANGED <<graph, alone, doubled>>
       ELSE Undo(s)

\* db.commit, of the view and of an analysis.
CommitSync(s) ==
    /\ nodes' = SeenNodes(s)
    /\ links' = [p \in Pairs |-> Count(s, p)]
    /\ doubled' = doubled \cup {p \in Pairs : /\ {p, Back(p)} \cap tx[s].pairs # {}
                                              /\ \/ {p, Back(p)} \subseteq tx[s].pairs
                                                 \/ s \notin alone /\ links[p] + links[Back(p)] > 0}
    /\ Step(s, Idle)
    /\ Touch
    /\ UNCHANGED <<live, rels, edits>>

CommitView(s) ==
    /\ tx[s].pc = "commit"
    /\ tx[s].kind = "view"
    /\ CommitSync(s)

Crash(s) == tx[s].pc # "idle" /\ Undo(s)

GraphNext ==
    \/ \E a \in Assets : CreateAsset(a) \/ DeleteAsset(a)
    \/ \E p \in Pairs : Relate(p) \/ DrawLink(p)
    \/ \E d \in Drawn : DrawNode(d)
    \/ \E s \in Sessions :
          \/ BeginSync(s, "view", None)
          \/ ReadNodes(s) \/ ReadAssets(s) \/ FlushNodes(s)
          \/ ReadDevices(s, "devices", "links") \/ ReadLinks(s) \/ ReadRelationships(s)
          \/ CommitView(s) \/ Crash(s)
          \/ FlushLinks(s, IF tx[s].kind = "view" THEN "commit" ELSE "contexts")
=============================================================================
