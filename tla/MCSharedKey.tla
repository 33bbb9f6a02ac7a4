---------------------------- MODULE MCSharedKey ----------------------------
(* Instances of SharedKey for TLC. *)
EXTENDS SharedKey, TLC

CONSTANTS k1, k2, rd1, op, sw, pu

Narrow == [grants |-> {"read"}, period |-> 2, jitter |-> 1, overlap |-> 1, ttl |-> 1,
           disabled |-> FALSE, rotated |-> TRUE]
Wide == [Narrow EXCEPT !.grants = {"read", "write"}]
Disabled == [Wide EXCEPT !.disabled = TRUE]

RaceRoles == {Narrow, Wide, Disabled}
OneRole == {Narrow}

KeySymmetry == Permutations(Keys)
=============================================================================
