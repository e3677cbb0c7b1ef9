---------------------------- MODULE Designs_proofs ----------------------------
(***************************************************************************)
(* Proofs about Designs for any names, templates, users and numbers of     *)
(* versions: an approved version is frozen, but for the edits that its     *)
(* approval overtook, and at most one version is approved.                 *)
(***************************************************************************)
EXTENDS Designs, SequenceTheorems, TLAPS

Component == Nat \X Names
JoinType == [version : Nat, source : Component, target : Component, fields : {"first", "second"}]
RequestType ==
    [pc : {"none", "edit", "insert", "components", "mappings", "joins", "commit", "previous", "approve"},
     version : Nat, previous : Nat, components : SUBSET Component, joins : SUBSET JoinType,
     mapped : SUBSET (Component \X Inventory)]

Typed ==
    /\ versions \in [Numbers -> {"draft", "approved", "superseded"}]
    /\ \E n \in Nat : Numbers = 1 .. n
    /\ components \subseteq Component
    /\ joins \subseteq JoinType
    /\ mapped \subseteq Component \X Inventory
    /\ approvals \in Seq(Nat)
    /\ request \in [Users -> RequestType]
    /\ raced \in BOOLEAN

\* Requests that will insert a version insert the next one, and no two hold the same.
Numbered ==
    /\ \A u \in Users : request[u].pc = "insert" \/ Copying(u) => request[u].version - 1 \in Numbers
    /\ \A u \in Users : Copying(u) => request[u].version \notin Numbers
    /\ \A u, w \in Users : u # w /\ Copying(u) /\ Copying(w) => request[u].version # request[w].version
    /\ \A u \in Users : Editing(u) \/ Approving(u) => request[u].version \in Numbers

LEMMA NoRequestType == NoRequest \in RequestType /\ NoRequest.pc = "none" /\ NoRequest.version = 0
  BY DEF NoRequest, RequestType

\* The latest version is the greatest number.
LEMMA LatestIsGreatest ==
    ASSUME Typed, Numbers # {}
    PROVE  /\ Latest \in Numbers /\ Latest \in Nat /\ Numbers = 1 .. Latest
           /\ \A v \in Numbers : v \in Nat /\ v <= Latest
  <1>1. PICK n \in Nat : Numbers = 1 .. n
    BY DEF Typed
  <1>2. n \in Numbers /\ \A v \in Numbers : n >= v
    BY <1>1
  <1>3. Latest \in Numbers /\ \A v \in Numbers : Latest >= v
    BY <1>2 DEF Latest, Max
  <1>4. Latest = n
    BY <1>1, <1>2, <1>3
  <1> QED
    BY <1>1, <1>2, <1>4

\* What a step does to one request.
Becomes(u, r) == r \in RequestType /\ request' = [request EXCEPT ![u] = r]

LEMMA Moves ==
    ASSUME Typed, NEW u \in Users, NEW r, Becomes(u, r)
    PROVE  /\ request' \in [Users -> RequestType]
           /\ request'[u] = r
           /\ \A w \in Users \ {u} : request'[w] = request[w]
  BY DEF Typed, Becomes

\* The edits of a draft.
EditStep(u) ==
    \/ \E n \in Names : AddComponent(u, n)
    \/ \E c, d \in components : AddRelationship(u, c, d)
    \/ \E j \in joins : UpdateRelationship(u, j)
\* The copies of the latest version.
CopyStep(u) == CopyComponents(u) \/ CopyMappings(u) \/ CopyJoins(u)

LEMMA StepKinds ==
    ASSUME DesignNext
    PROVE  \/ CreateDesign({}, {}) \/ CreateDesign(Template, TemplateLinks)
           \/ \E c \in components, a \in Inventory : MapAsset(c, a)
           \/ \E u \in Users :
                 \/ \E v \in Numbers : BeginEdit(u, v)
                 \/ EditStep(u) \/ BeginVersion(u) \/ InsertVersion(u) \/ CopyStep(u) \/ CommitVersion(u)
                 \/ BeginApprove(u) \/ ReadPrevious(u) \/ CommitApproval(u) \/ Fail(u)
  BY DEF DesignNext, EditStep, CopyStep

LEMMA JoinFacts ==
    ASSUME NEW j \in JoinType
    PROVE  /\ [j EXCEPT !.fields = "second"] \in JoinType
           /\ [j EXCEPT !.fields = "second"].version = j.version
           /\ \A v \in Nat, s \in Component, t \in Component :
                 LET n == [j EXCEPT !.version = v, !.source = s, !.target = t]
                 IN  n \in JoinType /\ n.version = v
  BY DEF JoinType

\* The components and relationships that an edit leaves.
LEMMA EditFacts ==
    ASSUME Typed, NEW u \in Users, EditStep(u)
    PROVE  /\ Editing(u) /\ Becomes(u, NoRequest) /\ overtaken' = overtaken \ {u}
           /\ components' \subseteq Component /\ joins' \subseteq JoinType
           /\ UNCHANGED <<versions, mapped, approvals, raced>>
           /\ \A v \in Numbers : v # request[u].version => Content(v)' = Content(v)
  <1> DEFINE v0 == request[u].version
  <1>0. v0 \in Nat /\ components \subseteq Component /\ joins \subseteq JoinType
    BY DEF Typed, RequestType
  <1>1. ASSUME NEW n \in Names, AddComponent(u, n)
        PROVE  /\ components' \subseteq Component /\ joins' = joins
               /\ \A v \in Numbers : v # v0 => ComponentsOf(v)' = ComponentsOf(v)
    BY <1>0, <1>1 DEF AddComponent, Component, ComponentsOf
  <1>2. ASSUME NEW c \in components, NEW d \in components, AddRelationship(u, c, d)
        PROVE  /\ components' = components /\ joins' \subseteq JoinType
               /\ \A v \in Numbers : v # v0 => JoinsOf(v)' = JoinsOf(v)
    <2>1. Join(v0, c, d) \in JoinType /\ Join(v0, c, d).version = v0
      BY <1>0 DEF Join, JoinType
    <2> QED
      BY <1>0, <1>2, <2>1 DEF AddRelationship, JoinsOf
  <1>3. ASSUME NEW j \in joins, UpdateRelationship(u, j)
        PROVE  /\ components' = components /\ joins' \subseteq JoinType
               /\ \A v \in Numbers : v # v0 => JoinsOf(v)' = JoinsOf(v)
    <2>1. [j EXCEPT !.fields = "second"] \in JoinType /\ [j EXCEPT !.fields = "second"].version = v0
          /\ j.version = v0
      BY <1>0, <1>3, JoinFacts DEF UpdateRelationship, JoinsOf
    <2> QED
      BY <1>0, <1>3, <2>1 DEF UpdateRelationship, JoinsOf
  <1>4. /\ Editing(u) /\ Becomes(u, NoRequest) /\ overtaken' = overtaken \ {u}
        /\ UNCHANGED <<versions, mapped, approvals, raced>>
    BY NoRequestType DEF EditStep, AddComponent, AddRelationship, UpdateRelationship, Ends, Goes, Becomes
  <1>5. \/ \E n \in Names : AddComponent(u, n)
        \/ \E c, d \in components : AddRelationship(u, c, d)
        \/ \E j \in joins : UpdateRelationship(u, j)
    BY DEF EditStep
  <1>6. joins' = joins => \A v : JoinsOf(v)' = JoinsOf(v)
    BY DEF JoinsOf
  <1>7. components' = components => \A v : ComponentsOf(v)' = ComponentsOf(v)
    BY DEF ComponentsOf
  <1>8. /\ components' \subseteq Component /\ joins' \subseteq JoinType
        /\ \A v \in Numbers : v # v0 => ComponentsOf(v)' = ComponentsOf(v) /\ JoinsOf(v)' = JoinsOf(v)
    BY <1>0, <1>1, <1>2, <1>3, <1>5, <1>6, <1>7
  <1>9. \A v \in Numbers : v # v0 => Content(v)' = Content(v)
    BY <1>8 DEF Content
  <1> QED
    BY <1>4, <1>8, <1>9

\* The copies that a request makes, or its KeyError.
LEMMA CopyFacts ==
    ASSUME Typed, NEW u \in Users, CopyStep(u)
    PROVE  /\ \E r : /\ Becomes(u, r)
                     /\ \/ r = NoRequest
                        \/ /\ r.version = request[u].version
                           /\ r.pc \in {"mappings", "joins", "commit"}
           /\ Copying(u)
           /\ UNCHANGED <<design, overtaken, raced>>
  <1> DEFINE q == request[u]
  <1>0. q \in RequestType
    BY DEF Typed
  <1>1. CASE CopyComponents(u)
    <2> DEFINE cs == ComponentsOf(q.version - 1)
               r == [q EXCEPT !.pc = "mappings", !.components = cs]
    <2>1. cs \in SUBSET Component
      BY DEF ComponentsOf, Typed
    <2>2. Goes(u, r) /\ q.pc = "components" /\ UNCHANGED <<design, overtaken, raced>>
      BY <1>1 DEF CopyComponents
    <2> HIDE DEF cs, q
    <2>3. r \in RequestType /\ r.version = q.version /\ r.pc = "mappings"
      BY <1>0, <2>1 DEF RequestType
    <2> HIDE DEF r
    <2> QED
      BY <2>2, <2>3 DEF Goes, Becomes, Copying, q
  <1>2. CASE CopyMappings(u)
    <2> DEFINE ms == {m \in mapped : m[1] \in q.components}
               r == [q EXCEPT !.pc = "joins", !.mapped = ms]
    <2>1. ms \in SUBSET (Component \X Inventory)
      BY DEF Typed
    <2>2. Goes(u, r) /\ q.pc = "mappings" /\ UNCHANGED <<design, overtaken, raced>>
      BY <1>2 DEF CopyMappings
    <2> HIDE DEF ms, q
    <2>3. r \in RequestType /\ r.version = q.version /\ r.pc = "joins"
      BY <1>0, <2>1 DEF RequestType
    <2> HIDE DEF r
    <2> QED
      BY <2>2, <2>3 DEF Goes, Becomes, Copying, q
  <1>3. CASE CopyJoins(u)
    <2> DEFINE old == JoinsOf(q.version - 1)
               r == [q EXCEPT !.pc = "commit", !.joins = old]
    <2>1. old \in SUBSET JoinType
      BY DEF JoinsOf, Typed
    <2>2. (Goes(u, r) \/ Goes(u, NoRequest)) /\ q.pc = "joins" /\ UNCHANGED <<design, overtaken, raced>>
      BY <1>3 DEF CopyJoins
    <2> HIDE DEF old, q
    <2>3. r \in RequestType /\ r.version = q.version /\ r.pc = "commit"
      BY <1>0, <2>1 DEF RequestType
    <2> HIDE DEF r
    <2> QED
      BY <2>2, <2>3, NoRequestType DEF Goes, Becomes, Copying, q
  <1> QED
    BY <1>1, <1>2, <1>3 DEF CopyStep

LEMMA BeginFacts ==
    ASSUME NEW pc \in {"edit", "insert", "previous"}, NEW v \in Nat
    PROVE  LET r == [NoRequest EXCEPT !.pc = pc, !.version = v]
           IN  r \in RequestType /\ r.pc = pc /\ r.version = v
  BY NoRequestType DEF RequestType

\* The versions, components and relationships after a new version.
LEMMA CommitFacts ==
    ASSUME Typed, Numbered, NEW u \in Users, CommitVersion(u)
    PROVE  LET v == request[u].version
           IN  /\ v \in Nat /\ v - 1 \in Numbers /\ v \notin Numbers /\ Copying(u)
               /\ versions' \in [Numbers \cup {v} -> {"draft", "approved", "superseded"}]
               /\ Numbers' = Numbers \cup {v}
               /\ versions'[v] = "draft" /\ \A w \in Numbers : versions'[w] = versions[w]
               /\ components' \subseteq Component /\ joins' \subseteq JoinType
               /\ mapped' \subseteq Component \X Inventory
               /\ \A w \in Numbers : Content(w)' = Content(w)
               /\ Becomes(u, NoRequest) /\ overtaken' = overtaken \ {u}
               /\ UNCHANGED <<approvals, raced>>
  <1> DEFINE q == request[u]
             v == q.version
  <1>1. q \in RequestType /\ v \in Nat
    BY DEF Typed, RequestType
  <1>2. Copying(u) /\ v - 1 \in Numbers /\ v \notin Numbers
    BY DEF CommitVersion, Numbered, Copying
  <1>3. /\ versions' \in [Numbers \cup {v} -> {"draft", "approved", "superseded"}]
        /\ versions'[v] = "draft" /\ \A w \in Numbers : versions'[w] = versions[w]
    BY <1>2 DEF CommitVersion, Typed
  <1>4. Numbers' = Numbers \cup {v}
    BY <1>3 DEF Numbers
  <1>5. \A c \in Component : Copy(u, c) \in Component /\ Copy(u, c)[1] = v
    BY <1>1 DEF Copy, Component
  <1>6. \A c \in q.components : c \in Component
    BY <1>1 DEF RequestType
  <1>7. components' \subseteq Component /\ \A c \in components' \ components : c[1] = v
    <2>1. components' = components \cup {Copy(u, c) : c \in q.components}
      BY DEF CommitVersion
    <2>2. components \subseteq Component
      BY DEF Typed
    <2>3. \A c \in {Copy(u, d) : d \in q.components} : c \in Component /\ c[1] = v
      BY <1>5, <1>6
    <2> HIDE DEF q, v
    <2> QED
      BY <2>1, <2>2, <2>3
  <1>8. \A m \in q.mapped : <<Copy(u, m[1]), m[2]>> \in Component \X Inventory
    BY <1>1, <1>5 DEF RequestType
  <1>9. mapped' \subseteq Component \X Inventory
    BY <1>8 DEF CommitVersion, Typed
  <1>10. ASSUME NEW j \in q.joins
         PROVE  LET n == [j EXCEPT !.version = v, !.source = Copy(u, @), !.target = Copy(u, @)]
                IN  n \in JoinType /\ n.version = v
    <2>1. j \in JoinType
      BY <1>1 DEF RequestType
    <2>2. j.source \in Component /\ j.target \in Component
      BY <2>1 DEF JoinType
    <2>3. Copy(u, j.source) \in Component /\ Copy(u, j.target) \in Component
      BY <1>5, <2>2
    <2> QED
      BY <1>1, <2>1, <2>3 DEF JoinType
  <1>11. joins' \subseteq JoinType /\ \A j \in joins' \ joins : j.version = v
    <2>1. joins' = joins \cup {[j EXCEPT !.version = v, !.source = Copy(u, @), !.target = Copy(u, @)] : j \in q.joins}
      BY DEF CommitVersion
    <2>2. joins \subseteq JoinType
      BY DEF Typed
    <2> QED
      BY <1>10, <2>1, <2>2
  <1>12. components \subseteq components' /\ joins \subseteq joins'
    BY DEF CommitVersion
  <1>13. \A w \in Numbers : ComponentsOf(w)' = ComponentsOf(w) /\ JoinsOf(w)' = JoinsOf(w)
    BY <1>2, <1>7, <1>11, <1>12 DEF ComponentsOf, JoinsOf
  <1>14. /\ Becomes(u, NoRequest) /\ overtaken' = overtaken \ {u} /\ UNCHANGED <<approvals, raced>>
    BY NoRequestType DEF CommitVersion, Ends, Goes, Becomes
  <1> QED
    BY <1>1, <1>2, <1>3, <1>4, <1>7, <1>9, <1>11, <1>13, <1>14 DEF Content

\* The versions after an approval.
LEMMA ApprovalFacts ==
    ASSUME Typed, NEW u \in Users, CommitApproval(u)
    PROVE  /\ Approving(u) /\ request[u].pc = "approve"
           /\ versions' \in [Numbers -> {"draft", "approved", "superseded"}] /\ Numbers' = Numbers
           /\ \A v \in Numbers : versions'[v] = IF v = request[u].version THEN "approved"
                                                ELSE IF v = request[u].previous THEN "superseded"
                                                ELSE versions[v]
           /\ Becomes(u, NoRequest) /\ UNCHANGED <<components, joins, mapped, raced>>
  <1>1. /\ versions' \in [Numbers -> {"draft", "approved", "superseded"}]
        /\ \A v \in Numbers : versions'[v] = IF v = request[u].version THEN "approved"
                                              ELSE IF v = request[u].previous THEN "superseded"
                                              ELSE versions[v]
    BY DEF CommitApproval, Typed
  <1>2. Numbers' = Numbers
    BY <1>1 DEF Numbers
  <1> QED
    BY <1>1, <1>2, NoRequestType DEF CommitApproval, Goes, Becomes, Approving

LEMMA CreateFacts ==
    ASSUME Typed, NEW names \in SUBSET Names, NEW links \in SUBSET (names \X names), CreateDesign(names, links)
    PROVE  /\ Numbers = {} /\ versions' \in [{1} -> {"draft"}] /\ Numbers' = {1}
           /\ components' \subseteq Component /\ joins' \subseteq JoinType
           /\ UNCHANGED <<mapped, approvals, edits, request, overtaken, raced>>
  <1>1. Numbers = {} /\ versions' \in [{1} -> {"draft"}]
    BY DEF CreateDesign
  <1>2. Numbers' = {1}
    BY <1>1 DEF Numbers
  <1>3. components' \subseteq Component
    BY DEF CreateDesign, Component
  <1>4. \A l \in links : Join(1, <<1, l[1]>>, <<1, l[2]>>) \in JoinType
    BY DEF Join, JoinType, Component
  <1>5. joins' \subseteq JoinType
    BY <1>4 DEF CreateDesign
  <1> QED
    BY <1>1, <1>2, <1>3, <1>5 DEF CreateDesign

\* The requests that begin, wait or fail: nothing is written.
LEMMA RequestFacts ==
    ASSUME Typed, Numbered, NEW u \in Users,
           \/ \E v \in Numbers : BeginEdit(u, v)
           \/ BeginVersion(u) \/ InsertVersion(u) \/ BeginApprove(u) \/ ReadPrevious(u) \/ Fail(u)
    PROVE  /\ UNCHANGED design
           /\ \E r : /\ Becomes(u, r)
                     /\ \/ r = NoRequest /\ UNCHANGED raced
                        \/ /\ r.pc = "edit" /\ r.version \in Numbers /\ versions[r.version] = "draft"
                           /\ UNCHANGED <<overtaken, raced>>
                        \/ /\ r.pc = "insert" /\ r.version - 1 \in Numbers
                           /\ UNCHANGED <<overtaken, raced>>
                        \/ /\ r.pc = "components" /\ r.version = request[u].version
                           /\ request[u].pc = "insert" /\ r.version \notin Numbers
                           /\ \A w \in Users \ {u} : ~(Copying(w) /\ request[w].version = r.version)
                           /\ UNCHANGED <<overtaken, raced>>
                        \/ /\ r.pc = "previous" /\ r.version \in Numbers /\ r.version = Latest
                           /\ versions[r.version] # "approved"
                           /\ raced' = (raced \/ \E w \in Users : Approving(w))
                           /\ UNCHANGED overtaken
                        \/ /\ r.pc = "approve" /\ r.version = request[u].version
                           /\ request[u].pc = "previous" /\ r.previous \in Previous
                           /\ UNCHANGED <<overtaken, raced>>
  <1>0. request[u] \in RequestType /\ Numbers \subseteq Nat
    BY DEF Typed
  <1>1. ASSUME NEW v \in Numbers, BeginEdit(u, v)
        PROVE  /\ UNCHANGED <<design, overtaken, raced>>
               /\ \E r : Becomes(u, r) /\ r.pc = "edit" /\ r.version = v /\ versions[v] = "draft"
    BY <1>0, <1>1, BeginFacts DEF BeginEdit, RequireDraft, Goes, Becomes
  <1>2. CASE BeginVersion(u)
    <2>1. Latest \in Numbers /\ Latest \in Nat /\ Latest + 1 \in Nat /\ (Latest + 1) - 1 = Latest
      BY <1>2, LatestIsGreatest DEF BeginVersion
    <2> DEFINE r == [NoRequest EXCEPT !.pc = "insert", !.version = Latest + 1]
    <2>2. r \in RequestType /\ r.pc = "insert" /\ r.version = Latest + 1
      BY <2>1, BeginFacts
    <2>3. request' = [request EXCEPT ![u] = r] /\ UNCHANGED <<design, overtaken, raced>>
      BY <1>2 DEF BeginVersion, Goes
    <2> HIDE DEF r
    <2>4. r.version - 1 \in Numbers
      BY <2>1, <2>2
    <2> QED
      BY <2>2, <2>3, <2>4 DEF Becomes
  <1>3. CASE InsertVersion(u)
    <2> DEFINE r == [request[u] EXCEPT !.pc = "components"]
    <2>1. r \in RequestType /\ r.pc = "components" /\ r.version = request[u].version
      BY <1>0 DEF RequestType
    <2>2. /\ request' = [request EXCEPT ![u] = IF request[u].version \in Numbers THEN NoRequest ELSE r]
          /\ request[u].pc = "insert"
          /\ \A w \in Users \ {u} : ~(Copying(w) /\ request[w].version = request[u].version)
          /\ UNCHANGED <<design, overtaken, raced>>
      BY <1>3 DEF InsertVersion, Goes
    <2> HIDE DEF r
    <2> QED
      BY <2>1, <2>2, NoRequestType DEF Becomes
  <1>4. CASE BeginApprove(u)
    <2>1. Latest \in Numbers /\ Latest \in Nat
      BY <1>4, LatestIsGreatest DEF BeginApprove
    <2> DEFINE r == [NoRequest EXCEPT !.pc = "previous", !.version = Latest]
    <2>2. r \in RequestType /\ r.pc = "previous" /\ r.version = Latest
      BY <2>1, BeginFacts
    <2>3. /\ request' = [request EXCEPT ![u] = r] /\ versions[Latest] # "approved"
          /\ raced' = (raced \/ \E w \in Users : Approving(w))
          /\ UNCHANGED <<design, overtaken>>
      BY <1>4 DEF BeginApprove, Goes
    <2> HIDE DEF r
    <2> QED
      BY <2>1, <2>2, <2>3 DEF Becomes
  <1>5. CASE ReadPrevious(u)
    <2>1. PICK v \in Previous : request' = [request EXCEPT ![u] = [request[u] EXCEPT !.pc = "approve", !.previous = v]]
      BY <1>5 DEF ReadPrevious, Goes
    <2> DEFINE r == [request[u] EXCEPT !.pc = "approve", !.previous = v]
    <2>2. v \in Nat
      BY <1>0 DEF Previous, Approved
    <2>3. r \in RequestType /\ r.pc = "approve" /\ r.version = request[u].version /\ r.previous = v
      BY <1>0, <2>2 DEF RequestType
    <2>4. request[u].pc = "previous" /\ UNCHANGED <<design, overtaken, raced>>
      BY <1>5 DEF ReadPrevious
    <2>5. request' = [request EXCEPT ![u] = r]
      BY <2>1
    <2> HIDE DEF r
    <2> QED
      BY <2>3, <2>4, <2>5 DEF Becomes
  <1>6. CASE Fail(u)
    BY <1>6, NoRequestType DEF Fail, Ends, Goes, Becomes
  <1> QED
    BY <1>1, <1>2, <1>3, <1>4, <1>5, <1>6

-----------------------------------------------------------------------------
(***************************************************************************)
(* Type correctness and the numbers of the versions.                       *)
(***************************************************************************)
LEMMA InitTyped == DesignInit => Typed /\ Numbered
  <1> SUFFICES ASSUME DesignInit PROVE Typed /\ Numbered
    OBVIOUS
  <1>1. versions = <<>> /\ Numbers = 1 .. 0 /\ versions \in [Numbers -> {"draft", "approved", "superseded"}]
    BY DEF DesignInit, Numbers
  <1>2. request \in [Users -> RequestType] /\ \A u \in Users : request[u].pc = "none"
    BY NoRequestType DEF DesignInit
  <1>3. \A u \in Users : ~Copying(u) /\ ~Editing(u) /\ ~Approving(u) /\ request[u].pc # "insert"
    BY <1>2 DEF Copying, Editing, Approving
  <1>4. Typed
    <2>1. \E n \in Nat : Numbers = 1 .. n
      BY <1>1
    <2>2. components = {} /\ joins = {} /\ mapped = {} /\ approvals = <<>> /\ raced = FALSE
      BY DEF DesignInit
    <2>3. <<>> \in Seq(Nat)
      OBVIOUS
    <2> QED
      BY <1>1, <1>2, <2>1, <2>2, <2>3 DEF Typed
  <1> QED
    BY <1>3, <1>4 DEF Numbered

\* What the new request of a user must be, when the versions do not change.
Fits(u, r) ==
    /\ r.pc \in {"insert", "components", "mappings", "joins", "commit"} => r.version - 1 \in Numbers
    /\ r.pc \in {"components", "mappings", "joins", "commit"} =>
          /\ r.version \notin Numbers
          /\ \A w \in Users \ {u} : Copying(w) => request[w].version # r.version
    /\ r.pc \in {"edit", "previous", "approve"} => r.version \in Numbers

LEMMA FittingRequest ==
    ASSUME Typed, Numbered, NEW u \in Users, NEW r, Becomes(u, r), Fits(u, r), UNCHANGED versions
    PROVE  Numbered'
  <1>1. /\ request'[u] = r
        /\ \A w \in Users \ {u} : request'[w] = request[w]
    BY Moves
  <1>2. Numbers' = Numbers
    BY DEF Numbers
  <1> QED
    BY <1>1, <1>2 DEF Numbered, Fits, Copying, Editing, Approving

LEMMA RequestFits ==
    ASSUME Typed, Numbered, NEW u \in Users,
           \/ \E v \in Numbers : BeginEdit(u, v)
           \/ BeginVersion(u) \/ InsertVersion(u) \/ BeginApprove(u) \/ ReadPrevious(u) \/ Fail(u)
    PROVE  /\ UNCHANGED design /\ raced' \in BOOLEAN
           /\ \E r : Becomes(u, r) /\ Fits(u, r)
  <1> DEFINE q == request[u]
  <1>1. UNCHANGED design
    BY RequestFacts
  <1>2. (raced \/ \E w \in Users : Approving(w)) \in BOOLEAN
    OBVIOUS
  <1>3. PICK r : /\ Becomes(u, r)
                 /\ \/ r = NoRequest /\ UNCHANGED raced
                    \/ r.pc = "edit" /\ r.version \in Numbers /\ UNCHANGED raced
                    \/ r.pc = "insert" /\ r.version - 1 \in Numbers /\ UNCHANGED raced
                    \/ /\ r.pc = "components" /\ r.version = q.version /\ q.pc = "insert" /\ r.version \notin Numbers
                       /\ \A w \in Users \ {u} : ~(Copying(w) /\ request[w].version = r.version)
                       /\ UNCHANGED raced
                    \/ /\ r.pc = "previous" /\ r.version \in Numbers
                       /\ raced' = (raced \/ \E w \in Users : Approving(w))
                    \/ r.pc = "approve" /\ r.version = q.version /\ q.pc = "previous" /\ UNCHANGED raced
    BY RequestFacts
  <1>4. raced' \in BOOLEAN
    BY <1>2, <1>3 DEF Typed
  <1>5. q.pc = "insert" => q.version - 1 \in Numbers
    BY DEF Numbered
  <1>6. q.pc = "previous" => q.version \in Numbers
    BY DEF Numbered, Approving
  <1>7. Fits(u, r)
    BY <1>3, <1>5, <1>6, NoRequestType DEF Fits
  <1> QED
    BY <1>1, <1>3, <1>4, <1>7

LEMMA CopyFits ==
    ASSUME Typed, Numbered, NEW u \in Users, CopyStep(u)
    PROVE  \E r : Becomes(u, r) /\ Fits(u, r)
  <1>1. PICK r : /\ Becomes(u, r)
                 /\ \/ r = NoRequest
                    \/ /\ r.version = request[u].version
                       /\ r.pc \in {"mappings", "joins", "commit"}
    BY CopyFacts
  <1>2. Copying(u)
    BY CopyFacts
  <1>3. Fits(u, r)
    BY <1>1, <1>2, NoRequestType DEF Fits, Numbered
  <1> QED
    BY <1>1, <1>3

LEMMA TypedStep ==
    ASSUME Typed, Numbered, [DesignNext]_designVars
    PROVE  Typed' /\ Numbered'
  <1>1. CASE UNCHANGED designVars
    BY <1>1 DEF designVars, Typed, Numbered, Numbers, Copying, Editing, Approving
  <1>2. ASSUME NEW names \in SUBSET Names, NEW links \in SUBSET (names \X names), CreateDesign(names, links)
        PROVE  Typed' /\ Numbered'
    <2>1. /\ Numbers = {} /\ versions' \in [{1} -> {"draft"}] /\ Numbers' = {1}
          /\ components' \subseteq Component /\ joins' \subseteq JoinType
          /\ UNCHANGED <<mapped, approvals, request, raced>>
      BY <1>2, CreateFacts
    <2>2. \A u \in Users : ~Copying(u) /\ ~Editing(u) /\ ~Approving(u) /\ request[u].pc # "insert"
      BY <2>1 DEF Numbered
    <2>3. Numbered'
      BY <2>1, <2>2 DEF Numbered, Copying, Editing, Approving
    <2>4. Numbers' = 1 .. 1 /\ versions' \in [Numbers' -> {"draft", "approved", "superseded"}]
      BY <2>1
    <2> QED
      BY <2>1, <2>3, <2>4 DEF Typed
  <1>3. ASSUME NEW c \in components, NEW a \in Inventory, MapAsset(c, a)
        PROVE  Typed' /\ Numbered'
    BY <1>3 DEF MapAsset, Typed, Numbered, Numbers, Copying, Editing, Approving
  <1>4. ASSUME NEW u \in Users, EditStep(u)
        PROVE  Typed' /\ Numbered'
    <2>1. /\ Becomes(u, NoRequest)
          /\ components' \subseteq Component /\ joins' \subseteq JoinType
          /\ UNCHANGED <<versions, mapped, approvals, raced>>
      BY <1>4, EditFacts
    <2>2. Fits(u, NoRequest)
      BY NoRequestType DEF Fits
    <2> QED
      BY <2>1, <2>2, FittingRequest, Moves DEF Typed, Numbers
  <1>5. ASSUME NEW u \in Users, CopyStep(u)
        PROVE  Typed' /\ Numbered'
    <2>1. PICK r : Becomes(u, r) /\ Fits(u, r)
      BY <1>5, CopyFits
    <2>2. UNCHANGED <<design, raced>>
      BY <1>5, CopyFacts
    <2> QED
      BY <2>1, <2>2, FittingRequest, Moves DEF Typed, Numbers, design
  <1>6. ASSUME NEW u \in Users,
               \/ \E v \in Numbers : BeginEdit(u, v)
               \/ BeginVersion(u) \/ InsertVersion(u) \/ BeginApprove(u) \/ ReadPrevious(u) \/ Fail(u)
        PROVE  Typed' /\ Numbered'
    <2>1. PICK r : Becomes(u, r) /\ Fits(u, r)
      BY <1>6, RequestFits
    <2>2. UNCHANGED design /\ raced' \in BOOLEAN
      BY <1>6, RequestFits
    <2> QED
      BY <2>1, <2>2, FittingRequest, Moves DEF Typed, Numbers, design
  <1>7. ASSUME NEW u \in Users, CommitVersion(u)
        PROVE  Typed' /\ Numbered'
    <2> DEFINE v == request[u].version
    <2>1. /\ v \in Nat /\ v - 1 \in Numbers /\ v \notin Numbers /\ Copying(u)
          /\ versions' \in [Numbers \cup {v} -> {"draft", "approved", "superseded"}]
          /\ Numbers' = Numbers \cup {v}
          /\ components' \subseteq Component /\ joins' \subseteq JoinType
          /\ mapped' \subseteq Component \X Inventory
          /\ Becomes(u, NoRequest)
          /\ UNCHANGED <<approvals, raced>>
      BY <1>7, CommitFacts
    <2>2. PICK n \in Nat : Numbers = 1 .. n
      BY DEF Typed
    <2>3. Numbers' = 1 .. (n + 1) /\ n + 1 \in Nat
      BY <2>1, <2>2
    <2>4. /\ request' \in [Users -> RequestType] /\ request'[u].pc = "none"
          /\ \A w \in Users \ {u} : request'[w] = request[w]
      BY <2>1, Moves, NoRequestType
    <2>5. Numbered'
      BY <2>1, <2>4 DEF Numbered, Copying, Editing, Approving
    <2> QED
      BY <2>1, <2>3, <2>4, <2>5 DEF Typed
  <1>8. ASSUME NEW u \in Users, CommitApproval(u)
        PROVE  Typed' /\ Numbered'
    <2>1. /\ Approving(u)
          /\ versions' \in [Numbers -> {"draft", "approved", "superseded"}] /\ Numbers' = Numbers
          /\ Becomes(u, NoRequest) /\ UNCHANGED <<components, joins, mapped, raced>>
      BY <1>8, ApprovalFacts
    <2>2. /\ request' \in [Users -> RequestType] /\ request'[u].pc = "none"
          /\ \A w \in Users \ {u} : request'[w] = request[w]
      BY <2>1, Moves, NoRequestType
    <2>3. approvals' \in Seq(Nat)
      BY <1>8 DEF CommitApproval, Typed, RequestType
    <2>4. Numbered'
      BY <2>1, <2>2 DEF Numbered, Copying, Editing, Approving
    <2> QED
      BY <2>1, <2>2, <2>3, <2>4 DEF Typed
  <1>9. /\ {} \in SUBSET Names /\ {} \in SUBSET ({} \X {})
        /\ Template \in SUBSET Names /\ TemplateLinks \in SUBSET (Template \X Template)
    BY TemplateAssumption
  <1> QED
    BY <1>1, <1>2, <1>3, <1>4, <1>5, <1>6, <1>7, <1>8, <1>9, StepKinds

-----------------------------------------------------------------------------
(***************************************************************************)
(* An approved version is frozen.  An edit found its version a draft, and  *)
(* whatever approves that version while the edit goes on overtakes it; the *)
(* version that an approval supersedes is not a draft.                     *)
(***************************************************************************)
Overtaking ==
    /\ \A u \in Users : Editing(u) => versions[request[u].version] = "draft" \/ u \in overtaken
    /\ \A u \in Users : request[u].pc = "approve" /\ request[u].previous # 0 =>
                            request[u].previous \in Numbers /\ versions[request[u].previous] # "draft"

\* What Overtaking asks of a new request, when the versions do not change.
Finds(r) ==
    /\ r.pc = "edit" => versions[r.version] = "draft"
    /\ r.pc = "approve" /\ r.previous # 0 => r.previous \in Numbers /\ versions[r.previous] # "draft"

LEMMA FindingRequest ==
    ASSUME Typed, Overtaking, NEW u \in Users, NEW r, Becomes(u, r), Finds(r), UNCHANGED versions,
           overtaken \ {u} \subseteq overtaken'
    PROVE  Overtaking'
  <1>1. /\ request'[u] = r
        /\ \A w \in Users \ {u} : request'[w] = request[w]
    BY Moves
  <1>2. Numbers' = Numbers
    BY DEF Numbers
  <1> QED
    BY <1>1, <1>2 DEF Overtaking, Finds, Editing

LEMMA OvertakingStep ==
    ASSUME Typed, Numbered, Overtaking, [DesignNext]_designVars
    PROVE  Overtaking'
  <1>0. Finds(NoRequest)
    BY NoRequestType DEF Finds
  <1>1. CASE UNCHANGED designVars
    BY <1>1 DEF designVars, Overtaking, Numbers, Editing
  <1>2. ASSUME NEW names \in SUBSET Names, NEW links \in SUBSET (names \X names), CreateDesign(names, links)
        PROVE  Overtaking'
    <2>1. /\ Numbers = {} /\ versions' \in [{1} -> {"draft"}] /\ Numbers' = {1}
          /\ UNCHANGED <<request, overtaken>>
      BY <1>2, CreateFacts
    <2>2. \A u \in Users : ~Editing(u) /\ request[u].pc # "approve"
      BY <2>1 DEF Numbered, Approving
    <2> QED
      BY <2>1, <2>2 DEF Overtaking, Editing
  <1>3. ASSUME NEW c \in components, NEW a \in Inventory, MapAsset(c, a)
        PROVE  Overtaking'
    BY <1>3 DEF MapAsset, Overtaking, Numbers, Editing
  <1>4. ASSUME NEW u \in Users, EditStep(u)
        PROVE  Overtaking'
    BY <1>0, <1>4, EditFacts, FindingRequest
  <1>5. ASSUME NEW u \in Users, CopyStep(u)
        PROVE  Overtaking'
    <2>1. PICK r : Becomes(u, r) /\ (r = NoRequest \/ r.pc \in {"mappings", "joins", "commit"})
      BY <1>5, CopyFacts
    <2>2. UNCHANGED <<design, overtaken>>
      BY <1>5, CopyFacts
    <2>3. Finds(r)
      BY <1>0, <2>1 DEF Finds
    <2> QED
      BY <2>1, <2>2, <2>3, FindingRequest DEF design
  <1>6. ASSUME NEW u \in Users,
               \/ \E v \in Numbers : BeginEdit(u, v)
               \/ BeginVersion(u) \/ InsertVersion(u) \/ BeginApprove(u) \/ ReadPrevious(u) \/ Fail(u)
        PROVE  Overtaking'
    <2>1. PICK r : /\ Becomes(u, r)
                   /\ \/ r = NoRequest
                      \/ r.pc = "edit" /\ versions[r.version] = "draft"
                      \/ r.pc \in {"insert", "components", "previous"}
                      \/ r.pc = "approve" /\ r.previous \in Previous
      BY <1>6, RequestFacts
    <2>2. UNCHANGED design
      BY <1>6, RequestFacts
    <2>3. overtaken \ {u} \subseteq overtaken'
      BY <1>6 DEF BeginEdit, BeginVersion, InsertVersion, BeginApprove, ReadPrevious, Fail, Ends
    <2>4. 0 \notin Numbers
      BY DEF Typed
    <2>5. Finds(r)
      BY <1>0, <2>1, <2>4 DEF Finds, Previous, Approved
    <2> QED
      BY <2>1, <2>2, <2>3, <2>5, FindingRequest DEF design
  <1>7. ASSUME NEW u \in Users, CommitVersion(u)
        PROVE  Overtaking'
    <2> DEFINE v == request[u].version
    <2>1. /\ v \notin Numbers /\ Numbers' = Numbers \cup {v} /\ v - 1 \in Numbers
          /\ versions'[v] = "draft" /\ \A w \in Numbers : versions'[w] = versions[w]
          /\ Becomes(u, NoRequest) /\ overtaken' = overtaken \ {u}
      BY <1>7, CommitFacts
    <2>2. /\ request'[u].pc = "none"
          /\ \A w \in Users \ {u} : request'[w] = request[w]
      BY <2>1, Moves, NoRequestType
    <2>3. \A w \in Users : Editing(w) => request[w].version \in Numbers
      BY DEF Numbered
    <2> QED
      BY <2>1, <2>2, <2>3 DEF Overtaking, Editing
  <1>8. ASSUME NEW u \in Users, CommitApproval(u)
        PROVE  Overtaking'
    <2> DEFINE v == request[u].version
    <2>1. /\ Approving(u) /\ Numbers' = Numbers
          /\ \A w \in Numbers : versions'[w] = IF w = v THEN "approved"
                                               ELSE IF w = request[u].previous THEN "superseded"
                                               ELSE versions[w]
          /\ Becomes(u, NoRequest)
      BY <1>8, ApprovalFacts
    <2>2. /\ request'[u].pc = "none"
          /\ \A w \in Users \ {u} : request'[w] = request[w]
      BY <2>1, Moves, NoRequestType
    <2>3. \A w \in Users : Editing(w) => request[w].version \in Numbers
      BY DEF Numbered
    <2>4. overtaken' = overtaken \cup {w \in Users : Editing(w) /\ request[w].version = v}
      BY <1>8 DEF CommitApproval
    <2>5. request[u].pc = "approve"
      BY <1>8, ApprovalFacts
    <2>6. \A w \in Users : Editing(w)' => versions'[request'[w].version] = "draft" \/ w \in overtaken'
      <3> SUFFICES ASSUME NEW w \in Users, Editing(w)'
                   PROVE  versions'[request'[w].version] = "draft" \/ w \in overtaken'
        OBVIOUS
      <3>1. w # u /\ request'[w] = request[w] /\ Editing(w)
        BY <2>2 DEF Editing
      <3>2. request[w].version \in Numbers /\ (versions[request[w].version] = "draft" \/ w \in overtaken)
        BY <2>3, <3>1 DEF Overtaking
      <3>3. request[u].previous \in Numbers => versions[request[u].previous] # "draft"
        <4>1. 0 \notin Numbers
          BY DEF Typed
        <4> QED
          BY <2>5, <4>1 DEF Overtaking
      <3> QED
        BY <2>1, <2>4, <3>1, <3>2, <3>3
    <2>7. \A w \in Users : request'[w].pc = "approve" /\ request'[w].previous # 0 =>
              request'[w].previous \in Numbers' /\ versions'[request'[w].previous] # "draft"
      <3> SUFFICES ASSUME NEW w \in Users, request'[w].pc = "approve", request'[w].previous # 0
                   PROVE  request'[w].previous \in Numbers' /\ versions'[request'[w].previous] # "draft"
        OBVIOUS
      <3>1. w # u /\ request'[w] = request[w]
        BY <2>2
      <3>2. request[w].previous \in Numbers /\ versions[request[w].previous] # "draft"
        BY <3>1 DEF Overtaking
      <3> QED
        BY <2>1, <3>1, <3>2
    <2> QED
      BY <2>6, <2>7 DEF Overtaking
  <1>9. /\ {} \in SUBSET Names /\ {} \in SUBSET ({} \X {})
        /\ Template \in SUBSET Names /\ TemplateLinks \in SUBSET (Template \X Template)
    BY TemplateAssumption
  <1> QED
    BY <1>1, <1>2, <1>3, <1>4, <1>5, <1>6, <1>7, <1>8, <1>9, StepKinds

\* What changes an approved version is an edit that its approval overtook.
LEMMA FrozenStep ==
    ASSUME Typed, Numbered, Overtaking, [DesignNext]_designVars, NEW v \in Numbers, versions[v] # "draft"
    PROVE  \/ Content(v)' = Content(v)
           \/ \E u \in overtaken : request[u].version = v /\ request'[u] = NoRequest
  <1>1. ASSUME UNCHANGED <<components, joins>>
        PROVE  Content(v)' = Content(v)
    BY <1>1 DEF Content, ComponentsOf, JoinsOf
  <1>2. CASE UNCHANGED designVars
    BY <1>1, <1>2 DEF designVars
  <1>3. ASSUME NEW names, NEW links, CreateDesign(names, links)
        PROVE  FALSE
    BY <1>3 DEF CreateDesign
  <1>4. ASSUME NEW c \in components, NEW a \in Inventory, MapAsset(c, a)
        PROVE  Content(v)' = Content(v)
    BY <1>1, <1>4 DEF MapAsset
  <1>5. ASSUME NEW u \in Users, EditStep(u)
        PROVE  \/ Content(v)' = Content(v)
               \/ \E w \in overtaken : request[w].version = v /\ request'[w] = NoRequest
    <2>1. Editing(u) /\ Becomes(u, NoRequest)
      BY <1>5, EditFacts
    <2>2. v # request[u].version => Content(v)' = Content(v)
      BY <1>5, EditFacts
    <2>3. request'[u] = NoRequest
      BY <2>1, Moves
    <2>4. versions[request[u].version] = "draft" \/ u \in overtaken
      BY <2>1 DEF Overtaking
    <2> QED
      BY <2>2, <2>3, <2>4
  <1>6. ASSUME NEW u \in Users,
               \/ CopyStep(u) \/ \E w \in Numbers : BeginEdit(u, w)
               \/ BeginVersion(u) \/ InsertVersion(u) \/ BeginApprove(u) \/ ReadPrevious(u) \/ Fail(u)
        PROVE  Content(v)' = Content(v)
    <2>1. UNCHANGED design
      BY <1>6, CopyFacts, RequestFacts
    <2> QED
      BY <1>1, <2>1 DEF design
  <1>7. ASSUME NEW u \in Users, CommitVersion(u)
        PROVE  Content(v)' = Content(v)
    BY <1>7, CommitFacts
  <1>8. ASSUME NEW u \in Users, CommitApproval(u)
        PROVE  Content(v)' = Content(v)
    BY <1>1, <1>8 DEF CommitApproval
  <1> QED
    BY <1>2, <1>3, <1>4, <1>5, <1>6, <1>7, <1>8, StepKinds

LEMMA Inductive == DesignSpec => [](Typed /\ Numbered /\ Overtaking)
  <1>1. DesignInit => Typed /\ Numbered /\ Overtaking
    BY InitTyped, NoRequestType DEF DesignInit, Overtaking, Editing
  <1>2. Typed /\ Numbered /\ Overtaking /\ [DesignNext]_designVars => (Typed /\ Numbered /\ Overtaking)'
    BY TypedStep, OvertakingStep
  <1> QED
    BY <1>1, <1>2, PTL DEF DesignSpec

\* An approved version keeps its components and relationships, but for the edits that its
\* approval overtook (_require_draft, create_new_version, approve_design).
THEOREM ApprovedKeepsContent == DesignSpec => ApprovedFrozen
  <1>1. Typed /\ Numbered /\ Overtaking /\ [DesignNext]_designVars =>
            [\A v \in Numbers :
                versions[v] # "draft" =>
                    \/ Content(v)' = Content(v)
                    \/ \E u \in overtaken : request[u].version = v /\ request'[u] = NoRequest]_designVars
    BY FrozenStep
  <1> QED
    BY <1>1, Inductive, PTL DEF DesignSpec, ApprovedFrozen

-----------------------------------------------------------------------------
(***************************************************************************)
(* One version is approved.  The approvals are the versions that are not   *)
(* drafts, oldest first, and the last of them is the approved one; while   *)
(* an approval goes on, its version is a draft above them all and what it  *)
(* read of the approved version stays true.                                *)
(***************************************************************************)
Ordered ==
    /\ \A i \in DOMAIN approvals : approvals[i] \in Numbers /\ versions[approvals[i]] # "draft"
    /\ \A v \in Numbers : versions[v] # "draft" => \E i \in DOMAIN approvals : approvals[i] = v
    /\ \A i, j \in DOMAIN approvals : i < j => approvals[i] < approvals[j]
    /\ approvals # <<>> => versions[approvals[Len(approvals)]] = "approved"
    /\ \A v \in Approved : v = approvals[Len(approvals)]

Above(v) == v \in Numbers /\ versions[v] = "draft" /\ \A i \in DOMAIN approvals : approvals[i] < v

Single ==
    /\ \A u, w \in Users : Approving(u) /\ Approving(w) => u = w
    /\ \A u \in Users : Approving(u) => Above(request[u].version)
    /\ \A u \in Users : request[u].pc = "approve" => request[u].previous \in Previous

\* The latest version, when it is not approved, is a draft above all approvals.
LEMMA LatestIsAbove ==
    ASSUME Typed, Ordered, Numbers # {}, versions[Latest] # "approved"
    PROVE  Above(Latest)
  <1>1. /\ Latest \in Numbers /\ Latest \in Nat
        /\ \A v \in Numbers : v \in Nat /\ v <= Latest
    BY LatestIsGreatest
  <1>2. approvals \in Seq(Nat) /\ DOMAIN approvals = 1 .. Len(approvals) /\ Len(approvals) \in Nat
    BY DEF Typed
  <1>3. \A i \in DOMAIN approvals : approvals[i] # Latest
    <2> SUFFICES ASSUME NEW i \in DOMAIN approvals, approvals[i] = Latest PROVE FALSE
      OBVIOUS
    <2>1. approvals # <<>> /\ Len(approvals) \in DOMAIN approvals
      BY <1>2
    <2>2. i # Len(approvals)
      BY <2>1 DEF Ordered
    <2>3. i < Len(approvals)
      BY <1>2, <2>2
    <2>4. approvals[i] < approvals[Len(approvals)]
      BY <2>1, <2>3 DEF Ordered
    <2>5. approvals[Len(approvals)] \in Numbers
      BY <2>1 DEF Ordered
    <2> DEFINE last == approvals[Len(approvals)]
    <2>6. last \in Nat /\ last <= Latest /\ Latest < last
      BY <1>1, <2>4, <2>5
    <2> HIDE DEF last
    <2> QED
      BY <1>1, <2>6
  <1>4. \A i \in DOMAIN approvals : approvals[i] < Latest
    <2> SUFFICES ASSUME NEW i \in DOMAIN approvals PROVE approvals[i] < Latest
      OBVIOUS
    <2> DEFINE a == approvals[i]
    <2>1. a \in Numbers /\ a # Latest
      BY <1>3 DEF Ordered
    <2> HIDE DEF a
    <2>2. a < Latest
      BY <1>1, <2>1
    <2> QED
      BY <2>2 DEF a
  <1>5. versions[Latest] = "draft"
    BY <1>1, <1>3 DEF Ordered
  <1> QED
    BY <1>1, <1>4, <1>5 DEF Above

\* What Single asks of a new request, when neither the versions nor the approvals change.
Alone(u, r) ==
    \/ r.pc \notin {"previous", "approve"}
    \/ /\ r.pc = "approve" /\ request[u].pc = "previous"
       /\ r.version = request[u].version /\ r.previous \in Previous
    \/ /\ r.pc = "previous" /\ Above(r.version)
       /\ \A w \in Users : ~Approving(w)

LEMMA SingleRequest ==
    ASSUME Typed, Ordered, Single, NEW u \in Users, NEW r, Becomes(u, r), Alone(u, r),
           UNCHANGED <<versions, approvals>>
    PROVE  Ordered' /\ Single'
  <1>1. /\ request'[u] = r
        /\ \A w \in Users \ {u} : request'[w] = request[w]
    BY Moves
  <1>2. Numbers' = Numbers /\ Approved' = Approved /\ Previous' = Previous
    BY DEF Numbers, Approved, Previous
  <1>3. Ordered'
    BY <1>2 DEF Ordered
  <1>4. \A v : Above(v)' <=> Above(v)
    BY <1>2 DEF Above
  <1>5. \A w \in Users \ {u} : Approving(w)' <=> Approving(w)
    BY <1>1 DEF Approving
  <1>6. Approving(u)' => Above(r.version) /\ \A w \in Users \ {u} : ~Approving(w)
    BY <1>1 DEF Approving, Alone, Single
  <1>7. r.pc = "approve" => r.previous \in Previous
    BY DEF Alone
  <1>8. Single'
    <2>1. \A w, x \in Users : Approving(w)' /\ Approving(x)' => w = x
      BY <1>5, <1>6 DEF Single
    <2>2. \A w \in Users : Approving(w)' => Above(request'[w].version)
      BY <1>1, <1>5, <1>6 DEF Single
    <2>3. \A w \in Users : request'[w].pc = "approve" => request'[w].previous \in Previous
      BY <1>1, <1>7 DEF Single
    <2>4. \A w \in Users : Above(request'[w].version) => Above(request[w].version)'
      BY <1>2 DEF Above
    <2> QED
      BY <1>2, <2>1, <2>2, <2>3, <2>4 DEF Single
  <1> QED
    BY <1>3, <1>8

LEMMA ApprovalOrders ==
    ASSUME Typed, Numbered, Ordered, Single, NEW u \in Users, CommitApproval(u)
    PROVE  Ordered' /\ Single'
  <1> DEFINE v == request[u].version
             p == request[u].previous
             n == Len(approvals)
  <1>1. /\ Approving(u) /\ request[u].pc = "approve" /\ Numbers' = Numbers
        /\ \A w \in Numbers : versions'[w] = IF w = v THEN "approved"
                                             ELSE IF w = p THEN "superseded"
                                             ELSE versions[w]
        /\ Becomes(u, NoRequest)
    BY ApprovalFacts
  <1>2. Above(v) /\ p \in Previous
    BY <1>1 DEF Single
  <1>3. v \in Numbers /\ v \in Nat /\ versions[v] = "draft" /\ 0 \notin Numbers
    BY <1>2 DEF Above, Typed
  <1>4. approvals \in Seq(Nat) /\ n \in Nat /\ DOMAIN approvals = 1 .. n
    BY DEF Typed
  <1>5. approvals' = Append(approvals, v)
    BY DEF CommitApproval
  <1>6. /\ Len(approvals') = n + 1 /\ DOMAIN approvals' = 1 .. (n + 1) /\ approvals'[n + 1] = v
        /\ \A i \in 1 .. n : approvals'[i] = approvals[i]
    BY <1>3, <1>4, <1>5
  <1>7. \A i \in 1 .. n : approvals[i] \in Numbers /\ versions[approvals[i]] # "draft" /\ approvals[i] < v
    BY <1>2, <1>4 DEF Ordered, Above
  <1> HIDE DEF v, p, n
  <1>8. \A w \in Approved : w = p
    BY <1>2 DEF Ordered, Previous
  <1>9. Approved' = {v}
    <2>1. \A w \in Numbers : versions'[w] = "approved" => w = v
      BY <1>1, <1>8 DEF Approved
    <2> QED
      BY <1>1, <1>3, <2>1 DEF Approved
  <1>10. \A w \in Numbers : versions[w] # "draft" => versions'[w] # "draft"
    BY <1>1
  <1>11. \A w \in Numbers : versions'[w] # "draft" => w = v \/ versions[w] # "draft"
    <2>1. p \in Numbers => versions[p] = "approved"
      BY <1>2, <1>3 DEF Previous, Approved
    <2> QED
      BY <1>1, <2>1
  <1>12. Ordered'
    <2>1. \A i \in 1 .. (n + 1) : approvals'[i] \in Numbers /\ versions'[approvals'[i]] # "draft"
      <3> SUFFICES ASSUME NEW i \in 1 .. (n + 1)
                   PROVE  approvals'[i] \in Numbers /\ versions'[approvals'[i]] # "draft"
        OBVIOUS
      <3>1. CASE i = n + 1
        BY <1>1, <1>3, <1>6, <3>1
      <3>2. CASE i \in 1 .. n
        BY <1>6, <1>7, <1>10, <3>2
      <3> QED
        BY <1>4, <3>1, <3>2
    <2>2. \A w \in Numbers : versions'[w] # "draft" => \E i \in 1 .. (n + 1) : approvals'[i] = w
      <3> SUFFICES ASSUME NEW w \in Numbers, versions'[w] # "draft"
                   PROVE  \E i \in 1 .. (n + 1) : approvals'[i] = w
        OBVIOUS
      <3>1. CASE w = v
        BY <1>4, <1>6, <3>1
      <3>2. CASE versions[w] # "draft"
        <4>1. PICK i \in 1 .. n : approvals[i] = w
          BY <1>4, <3>2 DEF Ordered
        <4> QED
          BY <1>4, <1>6, <4>1
      <3> QED
        BY <1>11, <3>1, <3>2
    <2>3. \A i, j \in 1 .. (n + 1) : i < j => approvals'[i] < approvals'[j]
      <3> SUFFICES ASSUME NEW i \in 1 .. (n + 1), NEW j \in 1 .. (n + 1), i < j
                   PROVE  approvals'[i] < approvals'[j]
        OBVIOUS
      <3>1. i \in 1 .. n
        BY <1>4
      <3>2. CASE j = n + 1
        BY <1>6, <1>7, <3>1, <3>2
      <3>3. CASE j \in 1 .. n
        BY <1>4, <1>6, <3>1, <3>3 DEF Ordered
      <3> QED
        BY <1>4, <3>2, <3>3
    <2>4. versions'[approvals'[Len(approvals')]] = "approved"
      BY <1>1, <1>3, <1>6
    <2>5. \A w \in Approved' : w = approvals'[Len(approvals')]
      BY <1>6, <1>9
    <2> QED
      BY <1>1, <1>6, <2>1, <2>2, <2>3, <2>4, <2>5 DEF Ordered
  <1>13. Single'
    <2>1. /\ request'[u].pc = "none"
          /\ \A w \in Users \ {u} : request'[w] = request[w]
      BY <1>1, Moves, NoRequestType
    <2>2. \A w \in Users \ {u} : ~Approving(w)
      BY <1>1 DEF Single
    <2>3. \A w \in Users : ~Approving(w)'
      BY <2>1, <2>2 DEF Approving
    <2>4. \A w \in Users : request'[w].pc # "approve"
      BY <2>3 DEF Approving
    <2> QED
      BY <2>3, <2>4 DEF Single
  <1> QED
    BY <1>12, <1>13

LEMMA VersionOrders ==
    ASSUME Typed, Numbered, Ordered, Single, NEW u \in Users, CommitVersion(u)
    PROVE  Ordered' /\ Single'
  <1> DEFINE v == request[u].version
  <1>1. /\ v \notin Numbers /\ Numbers' = Numbers \cup {v} /\ Copying(u)
        /\ versions'[v] = "draft" /\ \A w \in Numbers : versions'[w] = versions[w]
        /\ Becomes(u, NoRequest) /\ approvals' = approvals
    BY CommitFacts
  <1>2. /\ request'[u].pc = "none"
        /\ \A w \in Users \ {u} : request'[w] = request[w]
    BY <1>1, Moves, NoRequestType
  <1>3. Approved' = Approved /\ Previous' = Previous
    BY <1>1 DEF Approved, Previous
  <1>4. Len(approvals) \in Nat /\ DOMAIN approvals = 1 .. Len(approvals)
    BY DEF Typed
  <1> HIDE DEF v
  <1>5. Ordered'
    <2>1. approvals # <<>> => Len(approvals) \in DOMAIN approvals
      BY <1>4 DEF Typed
    <2>2. approvals # <<>> => versions'[approvals[Len(approvals)]] = "approved"
      BY <1>1, <2>1 DEF Ordered
    <2> QED
      BY <1>1, <1>3, <2>2 DEF Ordered
  <1>6. \A w \in Numbers : Above(w) => /\ w \in Numbers' /\ versions'[w] = "draft"
                                       /\ \A i \in DOMAIN approvals' : approvals'[i] < w
    BY <1>1 DEF Above
  <1>7. \A w \in Users : Approving(w)' => Approving(w) /\ request'[w] = request[w]
    BY <1>2 DEF Approving
  <1>8. \A w \in Users : Approving(w)' => Above(request[w].version)'
    BY <1>6, <1>7 DEF Single, Above
  <1>9. \A w \in Users : request'[w].pc = "approve" => request'[w].previous \in Previous'
    BY <1>2, <1>3 DEF Single
  <1>10. \A w, x \in Users : Approving(w)' /\ Approving(x)' => w = x
    BY <1>7 DEF Single
  <1> QED
    BY <1>5, <1>8, <1>9, <1>10 DEF Single

LEMMA OneStep ==
    ASSUME Typed, Numbered, raced = FALSE => Ordered /\ Single, [DesignNext]_designVars
    PROVE  raced' = FALSE => Ordered' /\ Single'
  <1>1. CASE UNCHANGED designVars
    BY <1>1 DEF designVars, Ordered, Single, Above, Approved, Previous, Numbers, Approving
  <1>2. ASSUME NEW names \in SUBSET Names, NEW links \in SUBSET (names \X names), CreateDesign(names, links)
        PROVE  raced' = FALSE => Ordered' /\ Single'
    <2> SUFFICES ASSUME raced = FALSE PROVE Ordered' /\ Single'
      BY <1>2, CreateFacts
    <2>1. /\ Numbers = {} /\ versions' \in [{1} -> {"draft"}] /\ Numbers' = {1}
          /\ UNCHANGED <<request, approvals>>
      BY <1>2, CreateFacts
    <2>2. DOMAIN approvals = {} /\ approvals = <<>>
      <3>1. DOMAIN approvals = {}
        BY <2>1 DEF Ordered
      <3>2. approvals \in Seq(Nat)
        BY DEF Typed
      <3>3. approvals = <<>>
        BY <3>1, <3>2
      <3> QED
        BY <3>1, <3>3
    <2>3. \A u \in Users : ~Approving(u)
      BY <2>1 DEF Numbered
    <2>4. \A u \in Users : ~Approving(u)' /\ request'[u].pc # "approve"
      BY <2>1, <2>3 DEF Approving
    <2>5. Single'
      BY <2>4 DEF Single
    <2>6. Approved' = {} /\ \A v \in Numbers' : versions'[v] = "draft"
      BY <2>1 DEF Approved
    <2>7. Ordered'
      BY <2>1, <2>2, <2>6 DEF Ordered
    <2> QED
      BY <2>5, <2>7
  <1>3. ASSUME NEW c \in components, NEW a \in Inventory, MapAsset(c, a)
        PROVE  raced' = FALSE => Ordered' /\ Single'
    BY <1>3 DEF MapAsset, Ordered, Single, Above, Approved, Previous, Numbers, Approving
  <1>4. ASSUME NEW u \in Users, EditStep(u)
        PROVE  raced' = FALSE => Ordered' /\ Single'
    <2>1. Becomes(u, NoRequest) /\ UNCHANGED <<versions, approvals, raced>>
      BY <1>4, EditFacts
    <2>2. Alone(u, NoRequest)
      BY NoRequestType DEF Alone
    <2> QED
      BY <2>1, <2>2, SingleRequest
  <1>5. ASSUME NEW u \in Users, CopyStep(u)
        PROVE  raced' = FALSE => Ordered' /\ Single'
    <2>1. PICK r : Becomes(u, r) /\ (r = NoRequest \/ r.pc \in {"mappings", "joins", "commit"})
      BY <1>5, CopyFacts
    <2>2. UNCHANGED <<design, raced>>
      BY <1>5, CopyFacts
    <2>3. Alone(u, r)
      BY <2>1, NoRequestType DEF Alone
    <2> QED
      BY <2>1, <2>2, <2>3, SingleRequest DEF design
  <1>6. ASSUME NEW u \in Users,
               \/ \E v \in Numbers : BeginEdit(u, v)
               \/ BeginVersion(u) \/ InsertVersion(u) \/ BeginApprove(u) \/ ReadPrevious(u) \/ Fail(u)
        PROVE  raced' = FALSE => Ordered' /\ Single'
    <2> SUFFICES ASSUME raced' = FALSE PROVE Ordered' /\ Single'
      OBVIOUS
    <2>1. UNCHANGED <<versions, approvals>>
      BY <1>6, RequestFacts DEF design
    <2>2. PICK r : /\ Becomes(u, r)
                   /\ \/ r = NoRequest /\ UNCHANGED raced
                      \/ r.pc \in {"edit", "insert", "components"} /\ UNCHANGED raced
                      \/ /\ r.pc = "previous" /\ r.version \in Numbers /\ r.version = Latest
                         /\ versions[r.version] # "approved"
                         /\ raced' = (raced \/ \E w \in Users : Approving(w))
                      \/ /\ r.pc = "approve" /\ r.version = request[u].version
                         /\ request[u].pc = "previous" /\ r.previous \in Previous
                         /\ UNCHANGED raced
      BY <1>6, RequestFacts
    <2>3. raced = FALSE
      BY <2>2 DEF Typed
    <2>4. Ordered /\ Single
      BY <2>3
    <2>5. r.pc = "previous" => Above(r.version) /\ \A w \in Users : ~Approving(w)
      BY <2>2, <2>4, LatestIsAbove, NoRequestType
    <2>6. Alone(u, r)
      BY <2>2, <2>5, NoRequestType DEF Alone
    <2> QED
      BY <2>1, <2>2, <2>4, <2>6, SingleRequest
  <1>7. ASSUME NEW u \in Users, CommitVersion(u)
        PROVE  raced' = FALSE => Ordered' /\ Single'
    BY <1>7, CommitFacts, VersionOrders
  <1>8. ASSUME NEW u \in Users, CommitApproval(u)
        PROVE  raced' = FALSE => Ordered' /\ Single'
    BY <1>8, ApprovalFacts, ApprovalOrders
  <1>9. /\ {} \in SUBSET Names /\ {} \in SUBSET ({} \X {})
        /\ Template \in SUBSET Names /\ TemplateLinks \in SUBSET (Template \X Template)
    BY TemplateAssumption
  <1> QED
    BY <1>1, <1>2, <1>3, <1>4, <1>5, <1>6, <1>7, <1>8, <1>9, StepKinds

LEMMA InitOne == DesignInit => Ordered /\ Single
  <1> SUFFICES ASSUME DesignInit PROVE Ordered /\ Single
    OBVIOUS
  <1>1. versions = <<>> /\ Numbers = {} /\ approvals = <<>>
    BY DEF DesignInit, Numbers
  <1>2. \A u \in Users : request[u].pc = "none"
    BY NoRequestType DEF DesignInit
  <1>3. Ordered
    BY <1>1 DEF Ordered, Approved
  <1>4. Single
    BY <1>2 DEF Single, Approving
  <1> QED
    BY <1>3, <1>4

\* Unless two approvals overlapped, at most one version is approved, the versions approved
\* before it are older and superseded, and each is approved once (approve_design,
\* create_new_version).
THEOREM ApprovedIsOne == DesignSpec => []OneApproved
  <1> DEFINE One == raced = FALSE => Ordered /\ Single
  <1>1. DesignInit => One
    BY InitOne
  <1>2. Typed /\ Numbered /\ One /\ [DesignNext]_designVars => One'
    BY OneStep
  <1>3. Typed /\ One => OneApproved
    BY DEF Typed, Ordered, OneApproved
  <1> QED
    BY <1>1, <1>2, <1>3, Inductive, PTL DEF DesignSpec
=============================================================================
