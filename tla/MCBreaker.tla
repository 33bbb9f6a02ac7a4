----------------------------- MODULE MCBreaker -----------------------------
(* Instances of Breaker for TLC. *)
EXTENDS Breaker, TLC

CONSTANTS i1, i2, rv, hc, wr

IssuerSymmetry == Permutations(Issuers)
=============================================================================
