------------------------- MODULE MCPermissionCache -------------------------
(* PermissionCache for TLC: an owner, a member, a user still to sign up,  *)
(* two capability flags and up to two roles.                              *)
EXTENDS PermissionCache, TLC

CONSTANTS o, u1, u2, k1, k2, r1, r2

MCUsers == {o, u1, u2}
MCCaps == {k1, k2}
MCRoles == {r1, r2}
MCFresh == {u2}

MCSymmetry == Permutations(MCCaps) \cup Permutations(MCRoles)
============================================================================
