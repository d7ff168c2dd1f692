\* Every handler of the permission tables and the cache, interleaved: the
\* owner, one more user, one capability, one role, one role edit.
CONSTANTS
    o = o  u1 = u1  u2 = u2  k1 = k1  k2 = k2  r1 = r1  r2 = r2
    Users = {o, u2}
    Owner = o
    Caps = {k1}
    Roles = {r1}
    Fresh <- MCFresh
    Ops = {"check", "editDefaults", "kick", "signUp", "join", "signIn",
           "createRole", "editRole", "deleteRole", "leave", "ban",
           "deleteCommunity"}
    NoRow = NoRow
    Miss = Miss
    NoTxn = NoTxn
    MaxRoleEdits = 1
SPECIFICATION Spec
INVARIANT TypeOK
INVARIANT OwnerHasEveryCapability
