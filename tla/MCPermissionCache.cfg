CONSTANTS
    o = o  u1 = u1  u2 = u2  k1 = k1  k2 = k2  r1 = r1  r2 = r2
    Users <- MCUsers
    Owner = o
    Caps <- MCCaps
    Roles <- MCRoles
    Fresh <- MCFresh
    Ops = {"createRole", "deleteRole", "kick", "ban", "leave"}
    NoRow = NoRow
    Miss = Miss
    NoTxn = NoTxn
    MaxRoleEdits = 1
SPECIFICATION Spec
SYMMETRY MCSymmetry
PROPERTY ImplementsStore
