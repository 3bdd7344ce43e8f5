--------------------------- MODULE MCRateLimiter ----------------------------
(***************************************************************************)
(* Constants of the runs of RateLimiter: a window of 2, limits of 2 and 3, *)
(* so that two clients reach the shared limit before their own and either  *)
(* order of the refusals happens.                                          *)
(***************************************************************************)
EXTENDS RateLimiter, TLC

MCSymmetry == Permutations(Clients)
SetBack == {-1}
=============================================================================
