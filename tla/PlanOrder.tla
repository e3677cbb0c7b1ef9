------------------------------ MODULE PlanOrder ------------------------------
(***************************************************************************)
(* The order of a plan: objects and dependencies are added to a draft job  *)
(* by requests, and generate orders the objects with Kahn's algorithm.     *)
(* Requests check that the job is a draft before they write, generate      *)
(* reads the job, the objects and then the dependencies, and nothing locks *)
(* the job: rows are added while it runs, and another generate may too.    *)
(***************************************************************************)
EXTENDS Naturals, Sequences, FiniteSets, SequencesExt

CONSTANTS
    Objects,       \* ids of configuration objects
    Generators,    \* requests that generate at one time
    MaxObjects,    \* bounds: objects of the job,
    MaxRows,       \*         dependencies of the job,
    MaxEditing     \*         and requests that are adding one at one time

ASSUME ObjectsAssumption == IsFiniteSet(Objects)
\* An id is a UUID: no object is the pair of two objects that is a dependency.
ASSUME PairsAssumption == \A o, p, c \in Objects : o # <<p, c>>

VARIABLES
    status,     \* configuration_jobs.status: "draft", "generated" or "failed"
    error,      \* the error that generate answered when it failed
    objects,    \* configuration_objects of the job
    rows,       \* configuration_object_dependencies, <<parent, child>>
    place,      \* execution_order of the objects that have one
    editing,    \* requests that have found the job a draft and have not committed
    plan,       \* each generate in progress
    late        \* history: objects and dependencies that the last generate to commit could not
                \* read, and objects whose place it left to another

orderVars == <<status, error, objects, rows, place, editing, plan, late>>

\* generate: the objects with the places they were loaded with, the dependencies, and
\* topological_order's variables.  History: the rows committed since they were read.
NoPlan == [pc |-> "idle", nodes |-> {}, loaded |-> <<>>, edges |-> {}, inDegree |-> <<>>,
           queue |-> <<>>, ordered |-> <<>>, late |-> {}]

OrderInit ==
    /\ status = "draft"
    /\ error = "none"
    /\ objects = {}
    /\ rows = {}
    /\ place = <<>>
    /\ editing = {}
    /\ plan = [g \in Generators |-> NoPlan]
    /\ late = {}

-----------------------------------------------------------------------------
(***************************************************************************)
(* add_object and add_dependency.                                          *)
(***************************************************************************)

\* The job is read, its status checked.
CheckObject(o) ==
    /\ status = "draft"
    /\ o \notin objects \cup editing
    /\ Cardinality(editing) < MaxEditing
    /\ Cardinality(objects) < MaxObjects
    /\ editing' = editing \cup {o}
    /\ UNCHANGED <<status, error, objects, rows, place, plan, late>>

CheckDependency(parent, child) ==
    /\ status = "draft"
    /\ {parent, child} \subseteq objects
    /\ <<parent, child>> \notin editing
    /\ Cardinality(editing) < MaxEditing
    /\ Cardinality(rows) < MaxRows
    /\ editing' = editing \cup {<<parent, child>>}
    /\ UNCHANGED <<status, error, objects, rows, place, plan, late>>

\* A row that is committed after those that a generate has read.
Missed(row, readers) ==
    [g \in Generators |-> IF plan[g].pc \in readers THEN [plan[g] EXCEPT !.late = @ \cup {row}]
                                                    ELSE plan[g]]

\* db.commit.
CommitObject(o) ==
    /\ o \in editing
    /\ editing' = editing \ {o}
    /\ objects' = objects \cup {o}
    /\ plan' = Missed(o, {"dependencies", "order"})
    /\ late' = IF status = "generated" THEN late \cup {o} ELSE late
    /\ UNCHANGED <<status, error, rows, place>>

\* The primary key refuses a dependency that is there already.
CommitDependency(parent, child) ==
    LET row == <<parent, child>>
    IN  /\ row \in editing
        /\ editing' = editing \ {row}
        /\ rows' = rows \cup {row}
        /\ plan' = IF row \in rows THEN plan ELSE Missed(row, {"order"})
        /\ late' = IF row \notin rows /\ status = "generated" THEN late \cup {row} ELSE late
        /\ UNCHANGED <<status, error, objects, place>>

-----------------------------------------------------------------------------
(***************************************************************************)
(* generate.                                                               *)
(***************************************************************************)

Turn(g, next) == plan' = [plan EXCEPT ![g] = next]

\* The job is read, its status checked.
BeginGenerate(g) ==
    /\ plan[g].pc = "idle"
    /\ status = "draft"
    /\ Turn(g, [NoPlan EXCEPT !.pc = "objects"])
    /\ UNCHANGED <<status, error, objects, rows, place, editing, late>>

\* A job without objects is refused.
ReadObjects(g) ==
    /\ plan[g].pc = "objects"
    /\ Turn(g, IF objects = {} THEN NoPlan
               ELSE [NoPlan EXCEPT !.pc = "dependencies", !.nodes = objects, !.loaded = place])
    /\ UNCHANGED <<status, error, objects, rows, place, editing, late>>

\* The dependencies whose parent is one of the objects.  A child that is not, since it was
\* added in between, is a KeyError, and the request ends with the job as it is.  The queue
\* starts with the objects that wait for none; ids are random, their sorted order is any.
Parents(edges, o) == {e \in edges : e[2] = o}
Started(nodes, edges) ==
    [o \in nodes |-> Cardinality(Parents(edges, o))]

ReadDependencies(g) ==
    LET nodes == plan[g].nodes
        edges == {e \in rows : e[1] \in nodes}
        degree == Started(nodes, edges)
    IN  /\ plan[g].pc = "dependencies"
        /\ IF \A e \in edges : e[2] \in nodes
           THEN \E first \in SetToSeqs({o \in nodes : degree[o] = 0}) :
                    Turn(g, [plan[g] EXCEPT !.pc = "order", !.edges = edges, !.inDegree = degree,
                                            !.queue = first])
           ELSE Turn(g, NoPlan)
        /\ UNCHANGED <<status, error, objects, rows, place, editing, late>>

\* One turn of the loop: the head of the queue is ordered, its children wait for one less,
\* and those that now wait for none are queued.
Fed(g, o) == {e[2] : e \in {d \in plan[g].edges : d[1] = o}}
Freed(g, o) == {c \in Fed(g, o) : plan[g].inDegree[c] = 1}

Visit(g) ==
    LET head == Head(plan[g].queue)
    IN  /\ plan[g].pc = "order"
        /\ plan[g].queue # <<>>
        /\ \E more \in SetToSeqs(Freed(g, head)) :
              Turn(g, [plan[g] EXCEPT
                          !.queue = Tail(plan[g].queue) \o more,
                          !.ordered = Append(plan[g].ordered, head),
                          !.inDegree = [c \in plan[g].nodes |->
                                           IF c \in Fed(g, head) THEN plan[g].inDegree[c] - 1
                                                                 ELSE plan[g].inDegree[c]]])
        /\ UNCHANGED <<status, error, objects, rows, place, editing, late>>

\* The loop has ended, and the job's row is free: one request commits after the other.
LoopOver(g) == plan[g].pc = "order" /\ plan[g].queue = <<>>
Complete(g) == Len(plan[g].ordered) = Cardinality(plan[g].nodes)

\* DependencyCycleError: the failure is committed.
FailOnCycle(g) ==
    /\ LoopOver(g)
    /\ ~Complete(g)
    /\ status' = "failed"
    /\ error' = "cycle"
    /\ Turn(g, NoPlan)
    /\ UNCHANGED <<objects, rows, place, editing, late>>

\* order_index.  The session writes a place unless it is the one that the object was loaded with.
PlaceIn(g, o) == CHOOSE i \in 1..Len(plan[g].ordered) : plan[g].ordered[i] = o
KeptAsFound(g, o) == o \in DOMAIN plan[g].loaded    \* mutant: an object that has a place keeps it
Kept(g, o) == o \in DOMAIN plan[g].loaded /\ plan[g].loaded[o] = PlaceIn(g, o)
Written(g, done) ==
    [o \in DOMAIN place \cup done |->
        IF o \in done /\ ~Kept(g, o) THEN PlaceIn(g, o) ELSE place[o]]

\* The object whose operations cannot be generated, and those before it, have got their place.
FailOnObject(g) ==
    /\ LoopOver(g)
    /\ Complete(g)
    /\ status' = "failed"
    /\ error' = "object"
    /\ \E done \in (SUBSET plan[g].nodes) \ {{}} : place' = Written(g, done)
    /\ Turn(g, NoPlan)
    /\ UNCHANGED <<objects, rows, editing, late>>

Generate(g) ==
    /\ LoopOver(g)
    /\ Complete(g)
    /\ status' = "generated"
    /\ place' = Written(g, plan[g].nodes)
    /\ late' = plan[g].late \cup {o \in plan[g].nodes : Kept(g, o) /\ place[o] # plan[g].loaded[o]}
    /\ Turn(g, NoPlan)
    /\ UNCHANGED <<error, objects, rows, editing>>

OrderNext ==
    \/ \E o \in Objects : CheckObject(o) \/ CommitObject(o)
    \/ \E p, c \in Objects : CheckDependency(p, c) \/ CommitDependency(p, c)
    \/ \E g \in Generators :
          \/ BeginGenerate(g) \/ ReadObjects(g) \/ ReadDependencies(g) \/ Visit(g)
          \/ FailOnCycle(g) \/ FailOnObject(g) \/ Generate(g)

OrderSpec == OrderInit /\ [][OrderNext]_orderVars

-----------------------------------------------------------------------------
(***************************************************************************)
(* Properties.                                                             *)
(***************************************************************************)

\* A generated plan orders every object of the job, no two at the same place, each after all
\* that it depends on, and a plan is refused for a cycle only if some objects each wait for
\* another of them, however many requests generate at one time.  Left out are objects and
\* dependencies committed after the generate that committed last had read them, and a place
\* that it computed as it was loaded, so did not write, when a third has moved it meanwhile
\* (topological_order, generate, add_dependency).
Ordered ==
    /\ objects \ late \subseteq DOMAIN place
    /\ \A o, p \in objects \ late : place[o] = place[p] => o = p
    /\ \A e \in rows \ late : {e[1], e[2]} \subseteq objects \ late => place[e[1]] < place[e[2]]
Cyclic == \E ring \in SUBSET objects : ring # {} /\ \A o \in ring : \E p \in ring : <<p, o>> \in rows

OrderRespects ==
    /\ status = "generated" => Ordered
    /\ error = "cycle" => Cyclic
=============================================================================
