------------------------------- MODULE Designs -------------------------------
(***************************************************************************)
(* The versions of an architecture design.  A version is edited while it   *)
(* is a draft; approving the latest one supersedes the approved one, and   *)
(* further changes need a new version, which is a copy of the latest.      *)
(* Every request reads what it needs and commits later, and only the       *)
(* unique constraint on version numbers makes one wait for another.        *)
(***************************************************************************)
EXTENDS Integers, Sequences, FiniteSets, FiniteSetsExt

CONSTANTS
    Users,          \* requests in progress at one time, one for each
    Names,          \* names of components
    Inventory,      \* assets that components are mapped to
    Template,       \* names of the components of the template, joined by TemplateLinks
    TemplateLinks,
    MaxVersions, MaxEdits    \* bounds: versions of the design, edits and mappings committed

ASSUME TemplateAssumption == Template \subseteq Names /\ TemplateLinks \subseteq Template \X Template
ASSUME VersionsAssumption == MaxVersions \in Nat

VARIABLES
    versions,    \* version_number -> status, of the versions committed
    components,  \* design_components <<version, name>>
    joins,       \* design_relationships
    mapped,      \* design_asset_mappings <<component, asset>>
    approvals,   \* design_approvals: the versions, in order
    edits,       \* edits and mappings committed
    request,     \* the request of each user
    overtaken,   \* history: edits that found a draft which was approved before they committed
    raced        \* history: two approvals overlapped

designVars == <<versions, components, joins, mapped, approvals, edits, request, overtaken, raced>>
design == <<versions, components, joins, mapped, approvals, edits>>

NoRequest == [pc |-> "none", version |-> 0, previous |-> 0, components |-> {}, mapped |-> {}, joins |-> {}]

\* A relationship's ends are components of any version, its fields may change.
Join(v, source, target) == [version |-> v, source |-> source, target |-> target, fields |-> "first"]

DesignInit ==
    /\ versions = <<>>
    /\ components = {}
    /\ joins = {}
    /\ mapped = {}
    /\ approvals = <<>>
    /\ edits = 0
    /\ request = [u \in Users |-> NoRequest]
    /\ overtaken = {}
    /\ raced = FALSE

Numbers == DOMAIN versions
\* get_latest_version
Latest == Max(Numbers)
ComponentsOf(v) == {c \in components : c[1] = v}
JoinsOf(v) == {j \in joins : j.version = v}

\* The request of a user goes on, or ends.
Goes(u, r) == request' = [request EXCEPT ![u] = r]
Ends(u) == Goes(u, NoRequest) /\ overtaken' = overtaken \ {u}

\* create_design, and create_design_from_template.
CreateDesign(names, links) ==
    /\ Numbers = {}
    /\ versions' = [v \in {1} |-> "draft"]
    /\ components' = {<<1, n>> : n \in names}
    /\ joins' = {Join(1, <<1, l[1]>>, <<1, l[2]>>) : l \in links}
    /\ UNCHANGED <<mapped, approvals, edits, request, overtaken, raced>>

-----------------------------------------------------------------------------
(***************************************************************************)
(* Edits: _require_draft, then the insert or update and the commit.        *)
(***************************************************************************)

AnyVersion(v) == TRUE       \* mutant
RequireDraft(v) == versions[v] = "draft"

BeginEdit(u, v) ==
    /\ request[u].pc = "none"
    /\ v \in Numbers
    /\ RequireDraft(v)
    /\ Goes(u, [NoRequest EXCEPT !.pc = "edit", !.version = v])
    /\ UNCHANGED <<design, overtaken, raced>>

Editing(u) == request[u].pc = "edit"
Edit == edits < MaxEdits /\ edits' = edits + 1

AddComponent(u, n) ==
    /\ Editing(u)
    /\ <<request[u].version, n>> \notin components
    /\ components' = components \cup {<<request[u].version, n>>}
    /\ Edit
    /\ Ends(u)
    /\ UNCHANGED <<versions, joins, mapped, approvals, raced>>

\* Both components exist, in this version or in another.
AddRelationship(u, source, target) ==
    /\ Editing(u)
    /\ {source, target} \subseteq components
    /\ joins' = joins \cup {Join(request[u].version, source, target)}
    /\ Edit
    /\ Ends(u)
    /\ UNCHANGED <<versions, components, mapped, approvals, raced>>

UpdateRelationship(u, j) ==
    /\ Editing(u)
    /\ j \in JoinsOf(request[u].version)
    /\ joins' = (joins \ {j}) \cup {[j EXCEPT !.fields = "second"]}
    /\ Edit
    /\ Ends(u)
    /\ UNCHANGED <<versions, components, mapped, approvals, raced>>

\* map_component_to_asset does not ask for a draft.
MapAsset(c, a) ==
    /\ c \in components
    /\ mapped' = mapped \cup {<<c, a>>}
    /\ Edit
    /\ UNCHANGED <<versions, components, joins, approvals, request, overtaken, raced>>

-----------------------------------------------------------------------------
(***************************************************************************)
(* create_new_version.                                                     *)
(***************************************************************************)

BeginVersion(u) ==
    /\ request[u].pc = "none"
    /\ Numbers # {} /\ Latest < MaxVersions
    /\ Goes(u, [NoRequest EXCEPT !.pc = "insert", !.version = Latest + 1])
    /\ UNCHANGED <<design, overtaken, raced>>

\* The row is inserted once nobody else is inserting the number, unless it exists by then.
Copying(u) == request[u].pc \in {"components", "mappings", "joins", "commit"}

InsertVersion(u) ==
    /\ request[u].pc = "insert"
    /\ \A w \in Users \ {u} : ~(Copying(w) /\ request[w].version = request[u].version)
    /\ Goes(u, IF request[u].version \in Numbers THEN NoRequest
               ELSE [request[u] EXCEPT !.pc = "components"])
    /\ UNCHANGED <<design, overtaken, raced>>

\* The copies are read one kind after the other, other requests commit in between.
Copy(u, c) == <<request[u].version, c[2]>>

CopyComponents(u) ==
    /\ request[u].pc = "components"
    /\ Goes(u, [request[u] EXCEPT !.pc = "mappings", !.components = ComponentsOf(request[u].version - 1)])
    /\ UNCHANGED <<design, overtaken, raced>>

CopyMappings(u) ==
    /\ request[u].pc = "mappings"
    /\ Goes(u, [request[u] EXCEPT !.pc = "joins",
                                  !.mapped = {m \in mapped : m[1] \in request[u].components}])
    /\ UNCHANGED <<design, overtaken, raced>>

\* component_id_map[...]: a relationship to a component that was not copied is a KeyError.
CopyJoins(u) ==
    LET old == JoinsOf(request[u].version - 1)
    IN  /\ request[u].pc = "joins"
        /\ Goes(u, IF \A j \in old : {j.source, j.target} \subseteq request[u].components
                   THEN [request[u] EXCEPT !.pc = "commit", !.joins = old]
                   ELSE NoRequest)
        /\ UNCHANGED <<design, overtaken, raced>>

CommitVersion(u) ==
    LET v == request[u].version
    IN  /\ request[u].pc = "commit"
        /\ versions' = [n \in Numbers \cup {v} |-> IF n = v THEN "draft" ELSE versions[n]]
        /\ components' = components \cup {Copy(u, c) : c \in request[u].components}
        /\ mapped' = mapped \cup {<<Copy(u, m[1]), m[2]>> : m \in request[u].mapped}
        /\ joins' = joins \cup {[j EXCEPT !.version = v, !.source = Copy(u, @), !.target = Copy(u, @)] :
                                    j \in request[u].joins}
        /\ Ends(u)
        /\ UNCHANGED <<approvals, edits, raced>>

-----------------------------------------------------------------------------
(***************************************************************************)
(* approve_design.                                                         *)
(***************************************************************************)

Approving(u) == request[u].pc \in {"previous", "approve"}

\* The latest version; one that is approved is answered as it is.
BeginApprove(u) ==
    /\ request[u].pc = "none"
    /\ Numbers # {}
    /\ versions[Latest] # "approved"
    /\ Goes(u, [NoRequest EXCEPT !.pc = "previous", !.version = Latest])
    /\ raced' = (raced \/ \E w \in Users : Approving(w))
    /\ UNCHANGED <<design, overtaken>>

\* One of the approved versions, if there is any.
Approved == {v \in Numbers : versions[v] = "approved"}
NotLookedFor == {0}                                         \* mutant
Previous == IF Approved = {} THEN {0} ELSE Approved

ReadPrevious(u) ==
    /\ request[u].pc = "previous"
    /\ \E v \in Previous :
          Goes(u, [request[u] EXCEPT !.pc = "approve", !.previous = v])
    /\ UNCHANGED <<design, overtaken, raced>>

CommitApproval(u) ==
    /\ request[u].pc = "approve"
    /\ versions' = [v \in Numbers |-> IF v = request[u].version THEN "approved"
                                       ELSE IF v = request[u].previous THEN "superseded"
                                       ELSE versions[v]]
    /\ approvals' = Append(approvals, request[u].version)
    /\ Goes(u, NoRequest)
    /\ overtaken' = overtaken \cup {w \in Users : Editing(w) /\ request[w].version = request[u].version}
    /\ UNCHANGED <<components, joins, mapped, edits, raced>>

\* A request fails before it commits, or its connection is lost.
Fail(u) ==
    /\ request[u].pc # "none"
    /\ Ends(u)
    /\ UNCHANGED <<design, raced>>

DesignNext ==
    \/ CreateDesign({}, {}) \/ CreateDesign(Template, TemplateLinks)
    \/ \E c \in components, a \in Inventory : MapAsset(c, a)
    \/ \E u \in Users :
          \/ \E v \in Numbers : BeginEdit(u, v)
          \/ \E n \in Names : AddComponent(u, n)
          \/ \E c, d \in components : AddRelationship(u, c, d)
          \/ \E j \in joins : UpdateRelationship(u, j)
          \/ BeginVersion(u) \/ InsertVersion(u)
          \/ CopyComponents(u) \/ CopyMappings(u) \/ CopyJoins(u) \/ CommitVersion(u)
          \/ BeginApprove(u) \/ ReadPrevious(u) \/ CommitApproval(u) \/ Fail(u)

DesignSpec == DesignInit /\ [][DesignNext]_designVars

-----------------------------------------------------------------------------
(***************************************************************************)
(* Properties.                                                             *)
(***************************************************************************)

\* Unless two approvals overlapped, at most one version is approved, those that were approved
\* before it are older and superseded, and each has been approved once (approve_design,
\* create_new_version).
OneApproved ==
    ~raced =>
        /\ \A v, w \in Approved : v = w
        /\ \A v \in Numbers : versions[v] # "draft" <=> \E i \in DOMAIN approvals : approvals[i] = v
        /\ \A i, j \in DOMAIN approvals : i < j => approvals[i] < approvals[j]
        /\ approvals # <<>> => versions[approvals[Len(approvals)]] = "approved"

\* The components and relationships of a version that has been approved never change again,
\* except by an edit that had found it a draft and was overtaken by the approval; mapping
\* assets is not an edit (_require_draft, create_new_version, approve_design).
Content(v) == <<ComponentsOf(v), JoinsOf(v)>>

ApprovedFrozen ==
    [][\A v \in Numbers :
          versions[v] # "draft" =>
              \/ Content(v)' = Content(v)
              \/ \E u \in overtaken : request[u].version = v /\ request'[u] = NoRequest]_designVars
=============================================================================
