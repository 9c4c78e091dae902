---------------------------- MODULE MCTokenRefresh ----------------------------
(* Small instances of TokenRefresh. *)
EXTENDS TokenRefresh, TLC

CONSTANTS a1, a2, c1, c2, c3, k1, k2, none

RefreshSymmetry == Permutations(Accounts) \cup Permutations(Callers)
=============================================================================
