-------------------------- MODULE PermissionCache --------------------------
(***************************************************************************)
(* The community permission store of wikid-api: the MySQL tables          *)
(* communities (the default capabilities), community_roles (the role      *)
(* grants), community_roles_users (who holds which role) and              *)
(* communities_users (one row per member, holding the member's effective  *)
(* capabilities), and the Redis cache-aside copy of a member's row that   *)
(* HasCommunityPermission reads (src/handlers/validations.go).            *)
(*                                                                         *)
(* One community is modelled.  Every handler that writes these tables is  *)
(* one transaction: its first step runs the statements and the Redis      *)
(* deletions that precede the commit (they act on Redis at once), and     *)
(* leaves the new table image in txn; Commit installs it and Abort drops  *)
(* it.  One write transaction is open at a time (see README).             *)
(***************************************************************************)
EXTENDS Naturals, FiniteSets

CONSTANTS
    Users,      \* user ids that may take part
    Owner,      \* community.OwnerID, a member of Users
    Roles,      \* community_roles ids
    Caps,       \* the capability columns (view_channels, kick_members, ...)
    Fresh,      \* users that have not signed up yet
    Ops,        \* the handlers that run in a given model
    NoRow,      \* no communities_users row for the user
    Miss,       \* no Redis entry for the user
    NoTxn,      \* no write transaction open
    MaxRoleEdits \* bound on EditCommunityRole goroutines between transactions

VARIABLES
    db,         \* committed content of the tables
    txn,        \* the open write transaction, or NoTxn
    cache,      \* Redis permission key of each user
    fills,      \* cache fills started by HasCommunityPermission, not yet run
    roleEdits,  \* EditCommunityRole goroutines between their two transactions
    joins       \* join requests read the community and await the banned query

vars == <<db, txn, cache, fills, roleEdits, joins>>

OpNames == {"check", "editDefaults", "createRole", "deleteRole", "editRole",
            "kick", "ban", "leave", "join", "signIn", "signUp",
            "deleteCommunity"}

Row == SUBSET Caps \cup {NoRow}

Db == [users: SUBSET Users, defaults: SUBSET Caps, roles: SUBSET Roles,
       grants: [Roles -> SUBSET Caps], roleUsers: SUBSET (Roles \X Users),
       rows: [Users -> Row], banned: SUBSET Users, live: BOOLEAN]

Entry == [perms: SUBSET Caps, ttl: BOOLEAN]

RoleEdit == [role: Roles, members: SUBSET Users, defaults: SUBSET Caps]

Members(img) == {u \in Users : img.rows[u] # NoRow}

(* The role ids of u that still exist: the rolesUserMap lookup of         *)
(* RecalculateAndUpdatePermissionsForUsers over the community's roles.    *)
HeldRoles(img, u) == {r \in img.roles : <<r, u>> \in img.roleUsers}

Loop == INSTANCE PermissionRecompute

(* The community's roles in the order SELECT * FROM community_roles       *)
(* returns them.                                                          *)
RoleOrder(img) == Loop!SetToSeq(img.roles)

(* Mutant: the owner is recomputed like any other member.               *)
RecalculatedNoOwner(img, defaults, u) ==
    Loop!OrRoles(img.grants, HeldRoles(img, u), defaults, RoleOrder(img))

(* The capabilities computed for u from the community record `defaults`  *)
(* the caller passed in: everything for the owner, otherwise the defaults *)
(* with the flags of every held role ORed in, role by role.               *)
Recalculated(img, defaults, u) ==
    Loop!Recalculate(defaults, img.grants, HeldRoles(img, u), RoleOrder(img),
                     u = Owner)

(* RecalculateAndUpdatePermissionsForUsers: the UPDATE of each listed     *)
(* user's row; a user without a row is matched by no row.                 *)
Recompute(img, defaults, us) ==
    [img EXCEPT !.rows = [u \in Users |->
        IF u \in us /\ img.rows[u] # NoRow
        THEN Recalculated(img, defaults, u) ELSE img.rows[u]]]

(* The Redis Del of each listed user's key, issued before the commit.     *)
Invalidate(us) == [u \in Users |-> IF u \in us THEN Miss ELSE cache[u]]

Open(img, after) == txn' = [img |-> img, after |-> after]

(* SELECT * FROM communities WHERE handle = ? finds the community: every  *)
(* handler reads it first and answers "Not found" if it is gone.          *)
CommunityFound == db.live

----------------------------------------------------------------------------
(* Reads: HasCommunityPermission and the Redis TTL.                      *)

(* A miss reads the committed row and starts the asynchronous Set; a hit, *)
(* a Redis error and a missing row change nothing.                        *)
CheckPermission(u) ==
    /\ "check" \in Ops
    /\ cache[u] = Miss
    /\ db.rows[u] # NoRow
    /\ fills' = fills \cup {<<u, db.rows[u]>>}
    /\ UNCHANGED <<db, txn, cache, roleEdits, joins>>

(* The goroutine's Set with a one hour TTL; on a Redis error it only logs.*)
FillCache(f) ==
    /\ \E ok \in BOOLEAN :
         cache' = IF ok THEN [cache EXCEPT ![f[1]] = [perms |-> f[2], ttl |-> TRUE]]
                  ELSE cache
    /\ fills' = fills \ {f}
    /\ UNCHANGED <<db, txn, roleEdits, joins>>

Expire(u) ==
    /\ cache[u] # Miss
    /\ cache[u].ttl
    /\ cache' = [cache EXCEPT ![u] = Miss]
    /\ UNCHANGED <<db, txn, fills, roleEdits, joins>>

----------------------------------------------------------------------------
(* Handlers that change the community's defaults or roles.                *)

(* EditCommunityDefaultPermissions: UPDATE communities, select the        *)
(* members, then re-read the community through db, outside the            *)
(* transaction, so the recompute uses the defaults committed before it.  *)
EditDefaults(d) ==
    /\ "editDefaults" \in Ops
    /\ CommunityFound
    /\ txn = NoTxn
    /\ LET img == [db EXCEPT !.defaults = d]
           us  == Members(img)
       IN  /\ Open(Recompute(img, db.defaults, us), {})
           /\ cache' = Invalidate(us)
    /\ UNCHANGED <<db, fills, roleEdits, joins>>

(* CreateCommunityRole: insert the role with grants g; for each listed    *)
(* member (the select of communities_users) Del the key, insert the role *)
(* user and set to true each flag g grants.                               *)
CreateRole(r, g, ms) ==
    /\ "createRole" \in Ops
    /\ CommunityFound
    /\ txn = NoTxn
    /\ r \notin db.roles
    /\ LET holders == ms \cap Members(db)
       IN  /\ Open([db EXCEPT !.roles = @ \cup {r},
                              !.grants[r] = g,
                              !.roleUsers = @ \cup ({r} \X holders),
                              !.rows = [u \in Users |->
                                  IF u \in holders THEN @[u] \cup g ELSE @[u]]], {})
           /\ cache' = Invalidate(holders)
    /\ UNCHANGED <<db, fills, roleEdits, joins>>

(* Mutant: the role users are selected after this role's rows are gone.  *)
DeleteRoleHoldersAfterDelete(r) ==
    /\ "deleteRole" \in Ops
    /\ CommunityFound
    /\ txn = NoTxn
    /\ r \in db.roles
    /\ LET img2    == [db EXCEPT !.roles = @ \ {r}, !.roleUsers = @ \ ({r} \X Users)]
           holders == {u \in Users : \E q \in Roles : <<q, u>> \in img2.roleUsers}
       IN  /\ Open(Recompute(img2, db.defaults, holders), {})
           /\ cache' = Invalidate(holders)
    /\ UNCHANGED <<db, fills, roleEdits, joins>>

(* DeleteCommunityRole: delete the role, select every role user of the    *)
(* community, delete their rows for this role and recompute them.         *)
DeleteRole(r) ==
    /\ "deleteRole" \in Ops
    /\ CommunityFound
    /\ txn = NoTxn
    /\ r \in db.roles
    /\ LET img     == [db EXCEPT !.roles = @ \ {r}]
           holders == {u \in Users : \E q \in Roles : <<q, u>> \in img.roleUsers}
           img2    == [img EXCEPT !.roleUsers = @ \ ({r} \X holders)]
       IN  /\ Open(Recompute(img2, db.defaults, holders), {})
           /\ cache' = Invalidate(holders)
    /\ UNCHANGED <<db, fills, roleEdits, joins>>

(* EditCommunityRole, first transaction (in the handler's goroutine):     *)
(* UPDATE community_roles and commit; the goroutine then goes on with    *)
(* the members list and the community record the handler read first.    *)
EditRoleUpdate(r, g, ms) ==
    /\ "editRole" \in Ops
    /\ CommunityFound
    /\ txn = NoTxn
    /\ r \in db.roles
    /\ Cardinality(roleEdits) < MaxRoleEdits
    /\ Open([db EXCEPT !.grants[r] = g],
            {[role |-> r, members |-> ms, defaults |-> db.defaults]})
    /\ UNCHANGED <<db, cache, fills, roleEdits, joins>>

(* EditCommunityRole, second transaction: select every role user of the  *)
(* community (beforeChangeUsersIds), delete this role's users, recompute *)
(* the before list, insert the role for the listed members and recompute *)
(* the before list again.                                                 *)
EditRoleReassign(e) ==
    /\ txn = NoTxn
    /\ e \in roleEdits
    /\ LET r      == e.role
           before == {u \in Users : \E q \in Roles : <<q, u>> \in db.roleUsers}
           img1   == Recompute([db EXCEPT !.roleUsers = @ \ ({r} \X Users)],
                               e.defaults, before)
           after  == e.members \cap Members(img1)
           img2   == [img1 EXCEPT !.roleUsers = @ \cup ({r} \X after)]
       IN  /\ Open(IF after = {} THEN img1
                   ELSE Recompute(img2, e.defaults, before), {})
           /\ cache' = Invalidate(before)
    /\ roleEdits' = roleEdits \ {e}
    /\ UNCHANGED <<db, fills, joins>>

(* The second BeginTxx fails: the goroutine logs and returns.             *)
EditRoleBeginFails(e) ==
    /\ e \in roleEdits
    /\ roleEdits' = roleEdits \ {e}
    /\ UNCHANGED <<db, txn, cache, fills, joins>>

----------------------------------------------------------------------------
(* Handlers that change membership.  KickUser, BanUser and LeaveCommunity *)
(* also DELETE FROM communiy_roles_users, a table name no other statement *)
(* uses: if no such table exists the statement fails and the handler      *)
(* rolls back having changed nothing, which the model has as the handler  *)
(* not running; if it exists it holds none of the community's role users. *)
(* Either way community_roles_users keeps the user's roles.               *)

(* Mutant: the kicked user id is not looked up in users.                 *)
KickUserNoLookup(v) ==
    /\ "kick" \in Ops
    /\ CommunityFound
    /\ txn = NoTxn
    /\ v \in Users
    /\ Open([db EXCEPT !.rows[v] = NoRow, !.banned = @ \cup {v}], {})
    /\ UNCHANGED <<db, cache, fills, roleEdits, joins>>

(* KickUser: delete the user's row and insert a ban; no Redis Del.        *)
KickUser(v) ==
    /\ "kick" \in Ops
    /\ CommunityFound
    /\ txn = NoTxn
    /\ v \in db.users
    /\ Open([db EXCEPT !.rows[v] = NoRow, !.banned = @ \cup {v}], {})
    /\ UNCHANGED <<db, cache, fills, roleEdits, joins>>

(* BanUser: delete the user's row; no ban row and no Redis Del.           *)
BanUser(v) ==
    /\ "ban" \in Ops
    /\ CommunityFound
    /\ txn = NoTxn
    /\ v \in db.users
    /\ Open([db EXCEPT !.rows[v] = NoRow], {})
    /\ UNCHANGED <<db, cache, fills, roleEdits, joins>>

(* LeaveCommunity: anyone but the owner; delete the row, then Del the key *)
(* before the commit.                                                     *)
LeaveCommunity(u) ==
    /\ "leave" \in Ops
    /\ CommunityFound
    /\ txn = NoTxn
    /\ u \in Members(db)
    /\ u # Owner
    /\ Open([db EXCEPT !.rows[u] = NoRow], {})
    /\ cache' = Invalidate({u})
    /\ UNCHANGED <<db, fills, roleEdits, joins>>

(* JoinCommunity: the handler has read the community and is about to run *)
(* the banned query.                                                      *)
JoinRequest(u) ==
    /\ "join" \in Ops
    /\ CommunityFound
    /\ u \in db.users \ Members(db)
    /\ u \notin joins
    /\ joins' = joins \cup {u}
    /\ UNCHANGED <<db, txn, cache, fills, roleEdits>>

(* SignIn with an invite code, once the user is found and the password    *)
(* checks out: the invite is read, a transaction INSERTs the member row,  *)
(* the community is read, and the handler is about to run the same banned *)
(* query; the INSERT is rolled back with it, so only the request shows.   *)
SignInRequest(u) ==
    /\ "signIn" \in Ops
    /\ CommunityFound
    /\ u \in db.users
    /\ u \notin joins
    /\ joins' = joins \cup {u}
    /\ UNCHANGED <<db, txn, cache, fills, roleEdits>>

(* The banned query "... WHERE user_id = ? AND community_id" has one      *)
(* placeholder and is given two arguments, so database/sql returns an     *)
(* error on every call and the handler returns before its INSERT commits. *)
JoinBannedQueryFails(u) ==
    /\ u \in joins
    /\ joins' = joins \ {u}
    /\ UNCHANGED <<db, txn, cache, fills, roleEdits>>

(* The handle and the email of the request are free: the users with the  *)
(* handle, then with the email, are counted before the transaction.       *)
NewUser(u) == u \in Users \ db.users

(* SignUp: insert the user; with a valid invite code also insert a row    *)
(* and run RecalculateAndUpdatePermissionsForUser, which updates the row  *)
(* to the community defaults and Dels the key.  Its select errors are     *)
(* ignored: it then returns before the UPDATE and the row keeps the       *)
(* column defaults, assumed false.                                        *)
SignUp(u) ==
    /\ "signUp" \in Ops
    /\ txn = NoTxn
    /\ NewUser(u)
    /\ \E invited, recomputed \in BOOLEAN :
         LET img == [db EXCEPT !.users = @ \cup {u}]
             row == IF recomputed THEN Recalculated(img, db.defaults, u) ELSE {}
         IN  \/ /\ ~invited
                /\ Open(img, {})
                /\ UNCHANGED cache
             \/ /\ invited
                /\ CommunityFound
                /\ Open([img EXCEPT !.rows[u] = row], {})
                /\ cache' = IF recomputed THEN Invalidate({u}) ELSE cache
    /\ UNCHANGED <<db, fills, roleEdits, joins>>

(* DeleteCommunity, by the owner: one transaction deletes the members'   *)
(* rows, the messages, the role users, the roles, the channels, the       *)
(* groups and the community.  No Redis key is deleted, and the bans stay. *)
DeleteCommunity ==
    /\ "deleteCommunity" \in Ops
    /\ CommunityFound
    /\ txn = NoTxn
    /\ Open([db EXCEPT !.rows = [u \in Users |-> NoRow], !.roleUsers = {},
                       !.roles = {}, !.live = FALSE], {})
    /\ UNCHANGED <<db, cache, fills, roleEdits, joins>>

(* Once the community is deleted and its transaction has ended, every    *)
(* request about it is answered "Not found" and changes nothing.          *)
Gone == ~CommunityFound /\ txn = NoTxn /\ UNCHANGED vars

----------------------------------------------------------------------------
(* The end of every write transaction.                                    *)

Commit ==
    /\ txn # NoTxn
    /\ db' = txn.img
    /\ roleEdits' = roleEdits \cup txn.after
    /\ txn' = NoTxn
    /\ UNCHANGED <<cache, fills, joins>>

(* A failed statement, Redis Del or commit: the handler rolls back.  The  *)
(* Redis deletions already issued stay done.                              *)
Abort ==
    /\ txn # NoTxn
    /\ txn' = NoTxn
    /\ UNCHANGED <<db, cache, fills, roleEdits, joins>>

----------------------------------------------------------------------------
(* A community created by its owner (CreateCommunity gives the owner's    *)
(* row every flag), with some users that joined through SignUp.           *)
Init ==
    /\ \E d \in SUBSET Caps, ms \in SUBSET (Users \ (Fresh \cup {Owner})) :
         db = [users     |-> Users \ Fresh,
               defaults  |-> d,
               roles     |-> {},
               grants    |-> [r \in Roles |-> {}],
               roleUsers |-> {},
               rows      |-> [u \in Users |->
                               CASE u = Owner -> Caps
                                 [] u \in ms  -> d
                                 [] OTHER     -> NoRow],
               banned    |-> {},
               live      |-> TRUE]
    /\ txn = NoTxn
    /\ cache = [u \in Users |-> Miss]
    /\ fills = {}
    /\ roleEdits = {}
    /\ joins = {}

Next ==
    \/ \E u \in Users : CheckPermission(u) \/ Expire(u)
    \/ \E f \in fills : FillCache(f)
    \/ \E d \in SUBSET Caps : EditDefaults(d)
    \/ \E r \in Roles, g \in SUBSET Caps, ms \in SUBSET Users :
         CreateRole(r, g, ms) \/ EditRoleUpdate(r, g, ms)
    \/ \E r \in Roles : DeleteRole(r)
    \/ \E e \in roleEdits : EditRoleReassign(e) \/ EditRoleBeginFails(e)
    \/ \E u \in Users : \/ KickUser(u) \/ BanUser(u) \/ LeaveCommunity(u)
                        \/ JoinRequest(u) \/ SignInRequest(u) \/ JoinBannedQueryFails(u)
                        \/ SignUp(u)
    \/ DeleteCommunity
    \/ Gone
    \/ Commit
    \/ Abort

(* Redis removes an entry once its TTL has passed.                        *)
Spec == Init /\ [][Next]_vars /\ \A u \in Users : WF_vars(Expire(u))

----------------------------------------------------------------------------
TypeOK ==
    /\ db \in Db
    /\ Owner \in db.users
    /\ Members(db) \cup db.banned \subseteq db.users
    /\ txn \in {NoTxn} \cup [img: Db, after: SUBSET RoleEdit]
    /\ cache \in [Users -> {Miss} \cup Entry]
    /\ fills \subseteq Users \X SUBSET Caps
    /\ roleEdits \subseteq RoleEdit
    /\ joins \subseteq Users

(* What a member is entitled to (spec, PermissionSnapshot and recompute): *)
(* every capability for the owner, otherwise the community defaults with  *)
(* the capabilities of every role the member holds.                       *)
Entitled(img, u) ==
    IF u = Owner THEN Caps
    ELSE img.defaults \cup UNION {img.grants[r] : r \in HeldRoles(img, u)}

RowsMatchIn(img) == \A u \in Members(img) : img.rows[u] = Entitled(img, u)

(* Every member's committed communities_users row holds exactly what the  *)
(* defaults, the roles the member holds and ownership give: every handler *)
(* that changes one of them recomputes the affected rows in the same      *)
(* transaction (spec, PermissionSnapshot and recompute).                  *)
RowsMatchGrants == RowsMatchIn(db)

(* The tables as spec.md section 4.2 sees them: the members are the users *)
(* with a row, a deleted role grants nothing, and only the roles of       *)
(* current members count (kick, ban and leave keep the others' rows).     *)
Store == INSTANCE PermissionStore WITH
    members  <- Members(db),
    defaults <- db.defaults,
    roles    <- db.roles,
    grants   <- [r \in Roles |-> IF r \in db.roles THEN db.grants[r] ELSE {}],
    holds    <- {ru \in db.roleUsers : ru[2] \in Members(db)},
    perms    <- db.rows

(* Every committed write transaction is one mutation of spec.md 4.2 with  *)
(* its recompute: the new rows are the snapshot of every member after the *)
(* change, whatever handler committed it, and nothing else moves with it  *)
(* (a kick changes no other member, a role edit no membership).  The      *)
(* open-transaction steps, aborts and the cache are stuttering steps.     *)
ImplementsStore == Store!Spec

(* A cached permission snapshot never grants a capability the committed   *)
(* row does not, and a user without a row has no cached capability: every *)
(* path that changes a row invalidates the Redis key (spec, PermissionSnapshot). *)
CacheNeverElevated ==
    \A u \in Users :
        cache[u] # Miss =>
            cache[u].perms \subseteq (IF db.rows[u] = NoRow THEN {} ELSE db.rows[u])

(* While the owner is a member, the owner's row holds every capability:  *)
(* CreateCommunity grants them, and every recompute, from whichever       *)
(* handler and with whatever roles and defaults, gives them back.  Kick   *)
(* and ban can remove the owner's row (no handler refuses the owner).     *)
OwnerHasEveryCapability == db.rows[Owner] # NoRow => db.rows[Owner] = Caps

(* The second transaction of EditCommunityRole prepares rows that match   *)
(* the grants: every member holding the role after the edit is recomputed. *)
ReassignmentMatchesGrants ==
    [][\A e \in roleEdits : EditRoleReassign(e) => RowsMatchIn(txn'.img)]_vars

============================================================================
