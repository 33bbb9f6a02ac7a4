------------------------------ MODULE MCSlots ------------------------------
(* Instances of Slots for TLC. *)
EXTENDS Slots

CONSTANTS w, o, r, c, d
=============================================================================
