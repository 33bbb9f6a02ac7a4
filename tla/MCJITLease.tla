----------------------------- MODULE MCJITLease -----------------------------
(* Instances of JITLease for TLC. *)
EXTENDS JITLease

CONSTANTS k1, k2, m1, m2, i1, rv, rc, pu, wk
=============================================================================
