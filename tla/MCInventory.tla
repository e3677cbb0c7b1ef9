----------------------------- MODULE MCInventory -----------------------------
(***************************************************************************)
(* Two assets with a code and an address each, two more that can be        *)
(* created; an import that updates both, one whose second row fails after  *)
(* it has created a catalog entry, and a discovery job that updates them   *)
(* in the other order.                                                     *)
(***************************************************************************)
EXTENDS Inventory

CONSTANTS a1, a2, a3, a4, v1, v2, v3, c1, c2, vendor, location, blank

MCAssets == {a1, a2, a3, a4}
MCFactors == {"hostname", "management_ip"}
MCValues == {v1, v2, v3}
Ids(host, ip) == [f \in MCFactors |-> IF f = "hostname" THEN host ELSE ip]
MCSeedAssets ==
    [a \in {a1, a2} |-> [state |-> "live", code |-> IF a = a1 THEN c1 ELSE c2,
                         ids |-> IF a = a1 THEN Ids(None, v1) ELSE Ids(v2, v2)]]
OfRow(code, ids, name, fault) == [code |-> code, ids |-> ids, name |-> name, fault |-> fault]
MCImports ==
    {<<OfRow(c1, Ids(v3, v1), vendor, "none"), OfRow(c2, Ids(None, v2), location, "late")>>,
     <<OfRow(c1, Ids(v3, v1), None, "none"), OfRow(c2, Ids(None, v2), vendor, "none")>>}
MCScopes ==
    {None, <<OfRow(None, Ids(blank, v2), None, "none"), OfRow(None, Ids(None, v1), None, "none")>>,
     <<OfRow(None, Ids(None, v3), None, "none"), OfRow(None, Ids(None, None), None, "early")>>}
MCPayloads == {OfRow(None, Ids(v2, v3), None, "none"), OfRow(None, Ids(None, v3), None, "none")}
=============================================================================
