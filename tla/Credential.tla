----------------------------- MODULE Credential -----------------------------
(***************************************************************************)
(* What every plugin promises about a credential it issues, whatever the   *)
(* cloud: the abstract specification that Plugins implements.              *)
(*                                                                         *)
(* A credential is minted, handed to a client under a lease, ended and     *)
(* released, or it goes astray on the way and no client ever has it.  It   *)
(* never comes back from a later phase, and a dead one never works again.  *)
(* While a client holds it, it stops working only because its time is up   *)
(* or because an operator condemned it; and its lease is released only     *)
(* when it is dead, or will die by itself, or nobody is left who could     *)
(* delete it.                                                              *)
(***************************************************************************)
CONSTANT Keys

VARIABLES
    phase,      \* none, minting, held, ending, over, stray
    works,      \* the credentials the cloud accepts
    mortal,     \* those the cloud ends by itself
    condemned,  \* those whose time is up, or that an operator ordered deleted
    manned      \* those some minter of the set could be asked to delete

vars == <<phase, works, mortal, condemned, manned>>

Init ==
    /\ phase = [k \in Keys |-> "none"]
    /\ works = {} /\ mortal = {} /\ condemned = {} /\ manned \subseteq Keys

Move(k, from, to) == phase[k] = from /\ phase' = [phase EXCEPT ![k] = to]

Mint(k) ==
    /\ Move(k, "none", "minting") \/ Move(k, "none", "stray")
    /\ works' = works \cup {k}
    /\ mortal' \in {mortal, mortal \cup {k}}

Hand(k) == Move(k, "minting", "held") /\ UNCHANGED <<works, mortal>>

\* The issue is broken off; the plugin's own compensation may delete.
Lose(k) == Move(k, "minting", "stray") /\ works' \in {works, works \ {k}} /\ UNCHANGED mortal

End(k) == Move(k, "held", "ending") /\ UNCHANGED <<works, mortal>>

Release(k) ==
    /\ Move(k, "ending", "over")
    /\ k \notin works \/ k \in mortal \/ k \notin manned
    /\ UNCHANGED <<works, mortal>>

\* Credentials die: none of them in a client's hands, but for the condemned.
Die ==
    /\ works' \subseteq works
    /\ \A k \in works \ works' : phase[k] \in {"minting", "held"} => k \in condemned'
    /\ UNCHANGED <<phase, mortal>>

Next ==
    /\ condemned \subseteq condemned'
    /\ \/ Die
       \/ \E k \in Keys : Mint(k) \/ Hand(k) \/ Lose(k) \/ End(k) \/ Release(k)
       \/ \E S \in SUBSET Keys :   \* a failover breaks off every issue at once
            /\ \A k \in S : phase[k] = "minting"
            /\ phase' = [k \in Keys |-> IF k \in S THEN "stray" ELSE phase[k]]
            /\ UNCHANGED <<works, mortal>>

Spec == Init /\ [][Next]_vars
=============================================================================
