------------------------------ MODULE MCRoles ------------------------------
(* Instances of CloudRoles for TLC. *)
EXTENDS CloudRoles, TLC

CONSTANTS p1, p2, k1, k2, s1, s2

\* Verification on, with and without the verdict cache; verification off.
On == [enabled |-> TRUE, ttl |-> 0]
Cached == [enabled |-> TRUE, ttl |-> 1]
Off == [enabled |-> FALSE, ttl |-> 1]
MCConfigs == {On, Cached, Off}
MCCached == {Cached}

\* No definition tells two credentials or two scopes apart.
Symmetric == Permutations({k1, k2}) \cup Permutations({s1, s2})
=============================================================================
