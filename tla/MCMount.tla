------------------------------ MODULE MCMount ------------------------------
(* Instances of CloudMounts for TLC. *)
EXTENDS CloudMounts, TLC

CONSTANTS p1, p2
=============================================================================
