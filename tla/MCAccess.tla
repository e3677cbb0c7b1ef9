------------------------------ MODULE MCAccess ------------------------------
(***************************************************************************)
(* An administrator, who may create accounts and roles through a seeded    *)
(* role, one more account that can be created, a role that can be created, *)
(* two requests at a time and three audited ones.                          *)
(***************************************************************************)
EXTENDS Access

CONSTANTS admin, op, manager, viewer, auditor

MCUsers == {admin, op}
MCRoles == {manager, viewer, auditor}
MCSeedRoles == {manager, viewer}
MCSeedUsers == {admin}
MCSuperusers == {}
MCCodes == {"user.create", "role.manage"}
MCRoleLists == {{viewer, auditor}}
MCCodeLists == {{"user.create"}}
MCSeedGrants == [r \in MCRoles |-> IF r = manager THEN MCCodes ELSE {}]
MCSeedAssigned == [u \in MCUsers |-> IF u = admin THEN {manager} ELSE {}]
=============================================================================
