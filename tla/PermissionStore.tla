-------------------------- MODULE PermissionStore --------------------------
(***************************************************************************)
(* What spec.md section 4.2 promises of a community's permission tables,  *)
(* with no transactions and no cache: every mutation of the defaults, the *)
(* roles, who holds them or who is a member happens together with the     *)
(* recompute of the members it affects, as one atomic step, so a stored   *)
(* snapshot is always what the defaults, the roles held and ownership     *)
(* give.  PermissionCache is checked to implement this specification      *)
(* (its property ImplementsStore).                                        *)
(***************************************************************************)
CONSTANTS
    Users,      \* user ids
    Owner,      \* the community's owner
    Roles,      \* role ids
    Caps,       \* capabilities
    NoRow       \* the snapshot of a user who is not a member

VARIABLES
    members,    \* the users with a membership row
    defaults,   \* the community's default capability set
    roles,      \* the roles the community defines
    grants,     \* grants[r]: the capabilities role r grants ({} if none)
    holds,      \* <<r, u>>: member u holds role r
    perms       \* perms[u]: the stored snapshot of u, or NoRow

storeVars == <<members, defaults, roles, grants, holds, perms>>

(* Recompute, step b: the full set for the owner, otherwise the defaults  *)
(* with every held role's grants ORed in.                                 *)
Snapshot(ms, d, rs, g, h) ==
    [u \in Users |->
        IF u \notin ms THEN NoRow
        ELSE IF u = Owner THEN Caps
        ELSE d \cup UNION {g[r] : r \in {q \in rs : <<q, u>> \in h}}]

(* A mutation to defaults d, roles rs, grants g, holders h and members ms,*)
(* committed with the recompute.                                          *)
Mutate(ms, d, rs, g, h) ==
    /\ members' = ms /\ defaults' = d /\ roles' = rs /\ grants' = g
    /\ holds' = h
    /\ perms' = Snapshot(ms, d, rs, g, h)

Init ==
    /\ members \in {ms \in SUBSET Users : Owner \in ms}
    /\ defaults \in SUBSET Caps
    /\ roles = {}
    /\ grants = [r \in Roles |-> {}]
    /\ holds = {}
    /\ perms = Snapshot(members, defaults, roles, grants, holds)

CreateRole(r, g, hs) ==
    /\ r \notin roles
    /\ hs \subseteq members
    /\ Mutate(members, defaults, roles \cup {r}, [grants EXCEPT ![r] = g],
              holds \cup ({r} \X hs))

DeleteRole(r) ==
    /\ r \in roles
    /\ Mutate(members, defaults, roles \ {r}, [grants EXCEPT ![r] = {}],
              holds \ ({r} \X Users))

EditRole(r, g, hs) ==
    /\ r \in roles
    /\ hs \subseteq members
    /\ Mutate(members, defaults, roles, [grants EXCEPT ![r] = g],
              (holds \ ({r} \X Users)) \cup ({r} \X hs))

EditDefaults(d) == Mutate(members, d, roles, grants, holds)

(* A new member holds no role.                                            *)
AddMember(u) ==
    /\ u \notin members
    /\ Mutate(members \cup {u}, defaults, roles, grants, holds)

(* A member that leaves, is kicked or banned holds no role any more.      *)
RemoveMember(u) ==
    /\ u \in members
    /\ Mutate(members \ {u}, defaults, roles, grants,
              {h \in holds : h[2] # u})

Next ==
    \/ \E r \in Roles, g \in SUBSET Caps, hs \in SUBSET Users :
         CreateRole(r, g, hs) \/ EditRole(r, g, hs)
    \/ \E r \in Roles : DeleteRole(r)
    \/ \E d \in SUBSET Caps : EditDefaults(d)
    \/ \E u \in Users : AddMember(u) \/ RemoveMember(u)

Spec == Init /\ [][Next]_storeVars
============================================================================
