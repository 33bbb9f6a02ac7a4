---------------------------- MODULE MCCloudSets ----------------------------
(* Instances of CloudSets for TLC. *)
EXTENDS CloudSets

CONSTANTS o1, o2, s1, s2, w1, rt, sw
=============================================================================
