------------------------ MODULE PermissionRecompute ------------------------
(***************************************************************************)
(* The flag computation of RecalculateAndUpdatePermissionsForUsers and     *)
(* RecalculateAndUpdatePermissionsForUser (src/handlers/validations.go):   *)
(* start from the community's default flags and, walking the community's  *)
(* roles in the order the SELECT returned them, set to true every flag of *)
(* each role the user holds; the owner gets ServerOwnerPermissions.       *)
(* PermissionCache instantiates this module for every recompute; its      *)
(* RowsMatchGrants compares the result with the set form of the spec.     *)
(***************************************************************************)
EXTENDS Naturals, Sequences, SequencesExt

CONSTANT Caps   \* the eight capability columns, abstracted

(* Mutant: the `if !found { continue }` test is dropped.                  *)
RECURSIVE OrRolesNoFoundCheck(_, _, _, _)
OrRolesNoFoundCheck(grants, held, perms, rs) ==
    IF rs = <<>> THEN perms
    ELSE OrRolesNoFoundCheck(grants, held, perms \cup grants[Head(rs)], Tail(rs))

(* The loop over communityRoles: a role the user does not hold (no entry  *)
(* in rolesUserMap) is skipped, each flag of a held role is set to true.  *)
RECURSIVE OrRoles(_, _, _, _)
OrRoles(grants, held, perms, rs) ==
    IF rs = <<>> THEN perms
    ELSE LET r == Head(rs)
         IN  OrRoles(grants, held,
                     IF r \in held THEN perms \cup grants[r] ELSE perms, Tail(rs))

ServerOwnerPermissions == Caps

(* The flags of one user: everything for the owner, otherwise the loop   *)
(* over the roles in the order MySQL returned them.                       *)
Recalculate(defaults, grants, held, order, isOwner) ==
    IF isOwner THEN ServerOwnerPermissions ELSE OrRoles(grants, held, defaults, order)
============================================================================
