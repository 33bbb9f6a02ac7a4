------------------------------ MODULE Plugins ------------------------------
(***************************************************************************)
(* The plugins that issue on request, each from its own source: Akamai,    *)
(* Azure, DigitalOcean (API tokens, and per-lease Spaces keys), UpCloud    *)
(* and Vultr, which delete what they issued, and AWS, GCP and OVH, whose   *)
(* credentials can only run out.  Exoscale's is JITLease, OCI's is Slots,  *)
(* and DigitalOcean's shared keys are SharedKey.                           *)
(*                                                                         *)
(* Every plugin carries its own copy of the handlers, and every definition *)
(* below is read from that plugin's copy: the plugins differ in how long a *)
(* credential lives, whether its lease may be renewed, what a reconcile    *)
(* pass can see, and whether anything can be deleted at all.               *)
(***************************************************************************)
EXTENDS Issuance

-----------------------------------------------------------------------------
(* Akamai: API clients, which have no end of their own. *)

AkamaiLoadRole == role = "open"

AkamaiSelectMinter == {m \in Healthy : HasRoom(m)}

\* getMinter, with anyHealthyMinterInSet to fall back on.
AkamaiGetMinter(k) == Deleters(k)

\* An answer without a credential in it leaves the client behind, untracked.
AkamaiCredsRead(p) ==
    /\ plugin = "akamai"
    /\ \/ Admit(p, AkamaiLoadRole)
       \/ Choose(p, AkamaiSelectMinter) \/ Refuse(p, AkamaiSelectMinter)
       \/ Create(p, None, "track") \/ CreateFail(p, None)

AkamaiCredsResponse(p) ==
    plugin = "akamai" /\ (TrackOrUndo(p, TTL) \/ Undo(p) \/ Register(p))

AkamaiRevoke(p) ==
    /\ plugin = "akamai"
    /\ \/ \E k \in Keys : Revoke(p, k)
       \/ RevokeDelete(p, AkamaiGetMinter(job[p].key)) \/ RevokeForget(p, AkamaiGetMinter(job[p].key))

AkamaiRenew(k) == plugin = "akamai" /\ Renew(k)

AkamaiListTaggedEntities == OldByDate

\* Mutant of AkamaiOwnedIDs: only what is being revoked is owned.
AkamaiOwnedEnding == {k \in tracked : lease[k] = "ending"}

AkamaiOwnedIDs == tracked

AkamaiReconcile(p) ==
    /\ plugin = "akamai"
    /\ List(p, AkamaiListTaggedEntities) \/ Own(p, AkamaiOwnedIDs) \/ Reclaim(p)

AkamaiPurge(p) ==
    /\ plugin = "akamai"
    /\ \/ Arm(p) \/ Sweep(p) \/ PurgeScan(p) \/ PurgeDrop(p) \/ SaveIntent(p)
       \/ \E k \in Keys : PurgeDelete(p, k, AkamaiGetMinter(k))

-----------------------------------------------------------------------------
(* Azure: passwords of an application, with an endDateTime fixed at mint. *)

AzureLoadRole == role = "open"

AzureSelectMinter == {m \in Healthy : HasRoom(m)}

AzureGetMinter(k) == Deleters(k)

\* endDateTime is counted from the start of the request.
AzureCredsRead(p) ==
    /\ plugin = "azure"
    /\ \/ Admit(p, AzureLoadRole)
       \/ Choose(p, AzureSelectMinter) \/ Refuse(p, AzureSelectMinter)
       \/ Create(p, job[p].at + TTL, "track") \/ CreateFail(p, job[p].at + TTL)
       \/ Register(p)

AzureTrackIssuedCredential(p) == plugin = "azure" /\ (TrackOrUndo(p, TTL) \/ Undo(p))

AzureRevoke(p) ==
    /\ plugin = "azure"
    /\ \/ \E k \in Keys : Revoke(p, k)
       \/ RevokeDelete(p, AzureGetMinter(job[p].key)) \/ RevokeForget(p, AzureGetMinter(job[p].key))

\* getAllAppObjectIDs visits the applications of the roles there are: what a
\* deleted role left behind is not seen.
AzureListTaggedEntities == IF role = "gone" THEN {} ELSE OldByDate

AzureOwnedIDs == tracked

AzureReconcile(p) ==
    /\ plugin = "azure"
    /\ List(p, AzureListTaggedEntities) \/ Own(p, AzureOwnedIDs) \/ Reclaim(p)

AzurePurge(p) ==
    /\ plugin = "azure"
    /\ \/ Arm(p) \/ Sweep(p) \/ PurgeScan(p) \/ PurgeDrop(p) \/ SaveIntent(p)
       \/ \E k \in Keys : PurgeDelete(p, k, AzureGetMinter(k))

-----------------------------------------------------------------------------
(* DigitalOcean: API tokens, and Spaces keys of their own lease.  Neither ends. *)

\* Mutant of DOLoadRole: that the role exists is enough.
DOLoadRoleExists == role # "gone"

DOLoadRole == role = "open"

DOSelectMinter == {m \in Healthy : HasRoom(m)}

DOGetMinter(k) == Deleters(k)

DOCredsRead(p) ==
    /\ plugin = "do"
    /\ \/ Admit(p, DOLoadRole)
       \/ Choose(p, DOSelectMinter) \/ Refuse(p, DOSelectMinter)
       \/ Create(p, None, "track") \/ CreateFail(p, None)

DOCredsResponse(p) ==
    plugin = "do" /\ (TrackOrUndo(p, TTL) \/ Undo(p) \/ Register(p))

DORevoke(p) ==
    /\ plugin = "do"
    /\ \/ \E k \in Keys : Revoke(p, k)
       \/ RevokeDelete(p, DOGetMinter(job[p].key)) \/ RevokeForget(p, DOGetMinter(job[p].key))

DORenew(k) == plugin \in {"do", "spaces"} /\ Renew(k)

SpacesKeyIssue(p) ==
    /\ plugin = "spaces"
    /\ \/ Admit(p, DOLoadRole)
       \/ Choose(p, DOSelectMinter) \/ Refuse(p, DOSelectMinter)
       \/ Create(p, None, "track") \/ CreateFail(p, None)

SpacesResponse(p) ==
    plugin = "spaces" /\ (TrackOrUndo(p, TTL) \/ Undo(p) \/ Register(p))

SpacesKeyRevoke(p) ==
    /\ plugin = "spaces"
    /\ \/ \E k \in Keys : Revoke(p, k)
       \/ RevokeDelete(p, DOGetMinter(job[p].key)) \/ RevokeForget(p, DOGetMinter(job[p].key))

\* A class of credentials that cannot be listed is skipped by the pass: on the
\* real cloud the tokens never can be.
DOListTaggedEntities == {{}, OldByDate}

\* Each class's ids are looked up under its own prefix.
DOOwnedIDs == tracked

DOReconcile(p) ==
    /\ plugin \in {"do", "spaces"}
    /\ (\E old \in DOListTaggedEntities : List(p, old)) \/ Own(p, DOOwnedIDs) \/ Reclaim(p)

DOPurge(p) ==
    /\ plugin \in {"do", "spaces"}
    /\ \/ Arm(p) \/ Sweep(p) \/ PurgeScan(p) \/ PurgeDrop(p) \/ SaveIntent(p)
       \/ \E k \in Keys : PurgeDelete(p, k, DOGetMinter(k))

-----------------------------------------------------------------------------
(* UpCloud: tokens, with an expiry fixed at mint. *)

UpCloudLoadRole == role = "open"

UpCloudSelectMinter == {m \in Healthy : HasRoom(m)}

UpCloudGetMinter(k) == Deleters(k)

UpCloudCredsRead(p) ==
    /\ plugin = "upcloud"
    /\ \/ Admit(p, UpCloudLoadRole)
       \/ Choose(p, UpCloudSelectMinter) \/ Refuse(p, UpCloudSelectMinter)
       \/ Create(p, clock + TTL, "track") \/ CreateFail(p, clock + TTL)

UpCloudCredsResponse(p) ==
    plugin = "upcloud" /\ (TrackOrUndo(p, TTL) \/ Undo(p) \/ Register(p))

UpCloudRevoke(p) ==
    /\ plugin = "upcloud"
    /\ \/ \E k \in Keys : Revoke(p, k)
       \/ RevokeDelete(p, UpCloudGetMinter(job[p].key)) \/ RevokeForget(p, UpCloudGetMinter(job[p].key))

UpCloudListTaggedEntities == OldByDate

UpCloudOwnedIDs == tracked

UpCloudReconcile(p) ==
    /\ plugin = "upcloud"
    /\ List(p, UpCloudListTaggedEntities) \/ Own(p, UpCloudOwnedIDs) \/ Reclaim(p)

UpCloudPurge(p) ==
    /\ plugin = "upcloud"
    /\ \/ Arm(p) \/ Sweep(p) \/ PurgeScan(p) \/ PurgeDrop(p) \/ SaveIntent(p)
       \/ \E k \in Keys : PurgeDelete(p, k, UpCloudGetMinter(k))

-----------------------------------------------------------------------------
(* Vultr: users, which have neither an end nor a creation time. *)

VultrLoadRole == role = "open"

VultrSelectMinter == {m \in Healthy : HasRoom(m)}

VultrGetMinter(k) == Deleters(k)

VultrCredsRead(p) ==
    /\ plugin = "vultr"
    /\ \/ Admit(p, VultrLoadRole)
       \/ Choose(p, VultrSelectMinter) \/ Refuse(p, VultrSelectMinter)
       \/ Create(p, None, "record") \/ CreateFail(p, None)
       \/ Register(p)

VultrRecordIssuedUser(p) == plugin = "vultr" /\ (Ledger(p) \/ TrackOrUndo(p, TTL) \/ Undo(p))

VultrRevoke(p) ==
    /\ plugin = "vultr"
    /\ \/ \E k \in Keys : Revoke(p, k)
       \/ RevokeDelete(p, VultrGetMinter(job[p].key)) \/ RevokeForget(p, VultrGetMinter(job[p].key))

VultrRenew(k) == plugin = "vultr" /\ Renew(k)

VultrListTaggedEntities == OldByLedger

VultrOwnedIDs == tracked

VultrReconcile(p) ==
    /\ plugin = "vultr"
    /\ List(p, VultrListTaggedEntities) \/ Own(p, VultrOwnedIDs) \/ Reclaim(p)

VultrPurge(p) ==
    /\ plugin = "vultr"
    /\ \/ Arm(p) \/ Sweep(p) \/ PurgeScan(p) \/ PurgeDrop(p) \/ SaveIntent(p)
       \/ \E k \in Keys : PurgeDelete(p, k, VultrGetMinter(k))

-----------------------------------------------------------------------------
(* AWS: STS sessions.  The lease is given what is left of the session. *)

AWSLoadRole == role = "open"

AWSSelectMinter == {m \in Healthy : HasRoom(m)}

\* Mutant of AWSLeaseTTL: the lease is given what the role asked for.
AWSLeaseTTLAsked(k) == TTL

\* What is left of the session, and at least a second.
AWSLeaseTTL(k) == IF cred[k].ends - clock < 1 THEN 1 ELSE cred[k].ends - clock

AWSCredsRead(p) ==
    /\ plugin = "aws"
    /\ \/ Admit(p, AWSLoadRole)
       \/ Choose(p, AWSSelectMinter) \/ Refuse(p, AWSSelectMinter)
       \/ \E life \in Lives : Create(p, clock + life, "track") \/ CreateFail(p, clock + life)

AWSCredsResponse(p) ==
    /\ plugin = "aws"
    /\ \/ Register(p)
       \/ At(p, "track") /\ TrackIfPossible(p, AWSLeaseTTL(job[p].key))

AWSRevoke(p) ==
    plugin = "aws" /\ (RevokeLocally(p) \/ \E k \in Keys : Revoke(p, k))

AWSReconcile(p) == plugin = "aws" /\ PruneExpired(p, {k \in tracked : clock > cred[k].ends})

-----------------------------------------------------------------------------
(* GCP: access tokens of a service account. *)

GCPLoadRole == role = "open"

GCPSelectMinter == {m \in Healthy : HasRoom(m)}

GCPLeaseTTL(k) == IF cred[k].ends - clock < 1 THEN 1 ELSE cred[k].ends - clock

GCPCredsRead(p) ==
    /\ plugin = "gcp"
    /\ \/ Admit(p, GCPLoadRole)
       \/ Choose(p, GCPSelectMinter) \/ Refuse(p, GCPSelectMinter)
       \/ \E life \in Lives : Create(p, clock + life, "track") \/ CreateFail(p, clock + life)
       \/ Register(p)
       \/ At(p, "track") /\ TrackIfPossible(p, GCPLeaseTTL(job[p].key))

GCPRevoke(p) ==
    plugin = "gcp" /\ (RevokeLocally(p) \/ \E k \in Keys : Revoke(p, k))

GCPReconcile(p) == plugin = "gcp" /\ PruneExpired(p, {k \in tracked : clock > cred[k].ends})

-----------------------------------------------------------------------------
(* OVH: OAuth2 tokens of a lifetime of OVH's choosing, no shorter than any *)
(* role's TTL.                                                             *)

OVHLoadRole == role = "open"

OVHSelectMinter == {m \in Healthy : HasRoom(m)}

OVHCredsRead(p) ==
    /\ plugin = "ovh"
    /\ \/ Admit(p, OVHLoadRole)
       \/ Choose(p, OVHSelectMinter) \/ Refuse(p, OVHSelectMinter)
       \/ Create(p, clock + OAuthLife, "track") \/ CreateFail(p, clock + OAuthLife)

OVHCredsResponse(p) ==
    plugin = "ovh" /\ (TrackIfPossible(p, TTL) \/ Register(p))

OVHRevoke(p) ==
    plugin = "ovh" /\ (RevokeLocally(p) \/ \E k \in Keys : Revoke(p, k))

\* The recorded end is counted from the start of the request, not from the mint.
OVHReconcile(p) == plugin = "ovh" /\ PruneExpired(p, {k \in tracked : clock > cred[k].asked + OAuthLife})

-----------------------------------------------------------------------------
Read(p) ==
    \/ AkamaiCredsRead(p) \/ AkamaiCredsResponse(p)
    \/ AzureCredsRead(p) \/ AzureTrackIssuedCredential(p)
    \/ DOCredsRead(p) \/ DOCredsResponse(p) \/ SpacesKeyIssue(p) \/ SpacesResponse(p)
    \/ UpCloudCredsRead(p) \/ UpCloudCredsResponse(p)
    \/ VultrCredsRead(p) \/ VultrRecordIssuedUser(p)
    \/ AWSCredsRead(p) \/ AWSCredsResponse(p) \/ GCPCredsRead(p)
    \/ OVHCredsRead(p) \/ OVHCredsResponse(p)

RevokeCall(p) ==
    \/ AkamaiRevoke(p) \/ AzureRevoke(p) \/ DORevoke(p) \/ SpacesKeyRevoke(p) \/ UpCloudRevoke(p)
    \/ VultrRevoke(p) \/ AWSRevoke(p) \/ GCPRevoke(p) \/ OVHRevoke(p)

Reconcile(p) ==
    \/ AkamaiReconcile(p) \/ AzureReconcile(p) \/ DOReconcile(p) \/ UpCloudReconcile(p)
    \/ VultrReconcile(p) \/ AWSReconcile(p) \/ GCPReconcile(p) \/ OVHReconcile(p)

Purge(p) ==
    AkamaiPurge(p) \/ AzurePurge(p) \/ DOPurge(p) \/ UpCloudPurge(p) \/ VultrPurge(p)

Next ==
    \/ \E p \in Goroutines : Read(p) \/ RevokeCall(p) \/ Reconcile(p) \/ Purge(p)
    \/ \E k \in Keys : AkamaiRenew(k) \/ DORenew(k) \/ VultrRenew(k) \/ Expire(k)
    \/ \E m \in Minters : MinterFails(m) \/ MinterRepaired(m) \/ MinterLeaves(m)
    \/ \E r \in {"open", "disabled", "gone"} : RoleWrite(r)
    \/ Tick \/ Crash

Spec == Init /\ [][Next]_vars

-----------------------------------------------------------------------------
(* Properties. *)

InFlight(k) == \E p \in Goroutines : job[p].pc \in Issuing /\ job[p].key = k
Mortal == {k \in Keys : cred[k] # None /\ cred[k].ends # None}

\* Every record, lease and handler's locals have their types.
TypeOK ==
    /\ plugin \in PluginNames /\ clock \in Nat /\ faults \in Nat /\ acts \in Nat
    /\ role \in {"open", "disabled", "gone"}
    /\ minter \in [Minters -> {"ok", "down", "retired", "gone"}]
    /\ cred \in [Keys -> Cred \cup {None}] /\ live \subseteq Keys
    /\ tracked \subseteq Keys /\ ledger \subseteq Keys /\ intent \in Intent \cup {None}
    /\ lease \in [Keys -> {"none", "active", "ending", "over"}]
    /\ until \in [Keys -> Nat \cup {None}]
    /\ job \in [Goroutines -> Job]
    /\ closed \in Nat \cup {None} /\ armed \in Nat \cup {None}

\* The count selectMinter goes by is stale by the time the credential is tracked.
\* Still a minter passes its limit only by issues that ran side by side: of the
\* credentials it holds, fewer than the limit were asked for more than MaxOp
\* before any one of them.
CapacityBound ==
    Limit > 0 =>
        \A m \in Minters : \A k \in Outstanding(m) :
            Cardinality({j \in Outstanding(m) : cred[j].asked + MaxOp < cred[k].asked}) < Limit

\* Containment: of a role closed at d, nothing is issued that was asked for more
\* than MaxOp after d; so once a purge armed later than that has finished, no
\* record of it is left and no client can be given a lease on it, whatever was
\* in flight when the role was closed.
Contained ==
    closed # None =>
        /\ \A k \in Keys : cred[k] # None => cred[k].asked <= closed + MaxOp
        /\ intent # None /\ intent.complete /\ intent.cutoff > closed + 2 * MaxOp => tracked = {}

\* A lease on a credential that the cloud ends by itself does not outlast it by
\* more than the time the response took: leaseTTL follows what the cloud gave,
\* and nothing renews what cannot be extended.
LeaseHonest ==
    \A k \in Mortal : lease[k] = "active" => until[k] <= cred[k].ends + MaxOp

\* The promise of Credential, kept by every plugin.
Phase(k) ==
    CASE lease[k] = "active" -> "held"
      [] lease[k] \in {"ending", "over"} -> lease[k]
      [] lease[k] = "none" /\ InFlight(k) -> "minting"
      [] lease[k] = "none" /\ cred[k] # None /\ ~InFlight(k) -> "stray"
      [] OTHER -> "none"
Condemned ==
    {k \in Keys : cred[k] # None /\
        \/ cred[k].ends # None /\ cred[k].ends <= clock
        \/ armed # None /\ cred[k].asked <= armed}
Manned == {k \in Keys : cred[k] # None /\ Deleters(k) # {}}
Life == INSTANCE Credential WITH
            phase <- [k \in Keys |-> Phase(k)], works <- live, mortal <- Mortal,
            condemned <- Condemned, manned <- Manned

\* Every plugin implements Credential: a client's credential is not killed under
\* it, phases only go forward, and a lease is released only when its credential
\* is dead, will end by itself, or has nobody left to delete it.
KeepsPromise == Life!Spec

-----------------------------------------------------------------------------
(* The inductive invariant behind the safety properties. *)

Local == {"aws", "gcp", "ovh"}                    \* clouds that cannot revoke
Endless == {"akamai", "do", "spaces", "vultr"}    \* clouds that end nothing themselves
Holding == Issuing \ {"admitted", "create"}       \* an issue that has its credential
Purging == {"scan", "purge", "drop"}

\* The end a plugin has a credential made with: none, or no earlier than the
\* request plus what its lease will be granted.
Fitting(ends, asked) ==
    /\ plugin \in Endless => ends = None
    /\ plugin \in Local => ends # None
    /\ ends # None => ends >= asked + (IF plugin \in {"aws", "gcp"} THEN 1 ELSE TTL)

\* A credential that a client holds has a record, unless the cloud will end it
\* or it is dead; and its lease is no longer than its life.
KeyInv(k) ==
    /\ cred[k] = None => lease[k] = "none" /\ k \notin live \cup tracked
    /\ cred[k] # None =>
          /\ cred[k].asked <= cred[k].made /\ cred[k].made <= clock
          /\ Fitting(cred[k].ends, cred[k].asked)
          /\ closed # None => cred[k].asked <= closed + MaxOp
    /\ lease[k] = "active" =>
          /\ until[k] # None
          /\ cred[k].ends # None => until[k] <= cred[k].ends + MaxOp
          /\ plugin \notin Local /\ k \in live => k \in tracked

\* An issue is at most MaxOp old, and was admitted before the role was closed; the
\* credential it holds is the one it asked for, and nobody has a lease on it yet.
IssueInv(p) ==
    /\ At(p, "idle") => job[p] = Idle
    /\ job[p].pc \in Issuing => job[p].at <= clock /\ clock <= job[p].at + MaxOp
    /\ job[p].pc \in {"admitted", "create"} => job[p].key = None
    /\ At(p, "admitted") /\ closed # None => job[p].at <= closed
    /\ At(p, "create") => job[p].by \in Minters /\ (closed # None => job[p].at <= closed + MaxOp)
    /\ job[p].pc \in Holding =>
          /\ job[p].key \in Keys /\ cred[job[p].key] # None /\ lease[job[p].key] = "none"
          /\ cred[job[p].key].asked = job[p].at /\ cred[job[p].key].by = job[p].by
    /\ At(p, "register") =>
          /\ cred[job[p].key].ends # None => job[p].at + job[p].ttl <= cred[job[p].key].ends
          /\ plugin \notin Local /\ job[p].key \in live => job[p].key \in tracked

OneIssuer ==
    \A p, q \in Goroutines :
        job[p].pc \in Holding /\ job[q].pc \in Holding /\ job[p].key = job[q].key => p = q

\* What is being revoked is in no client's hands, nor on its way to one.
RevokeInv(p) ==
    /\ job[p].pc \in {"revoke", "forget"} =>
          /\ job[p].key \in Keys /\ cred[job[p].key] # None
          /\ lease[job[p].key] # "active" /\ ~InFlight(job[p].key)
    /\ At(p, "forget") => job[p].key \notin live

\* Nor is what a pass has listed and does not own.
ReconcileInv(p) ==
    /\ job[p].pc \in {"own", "reclaim"} =>
          /\ plugin \notin Local
          /\ \A k \in job[p].todo : cred[k] # None /\ ~InFlight(k)
    /\ At(p, "reclaim") => \A k \in job[p].todo \cap live : lease[k] # "active"

\* A purge goes after what an operator condemned; what it has not seen was asked
\* for too late, or has yet to be tracked.
PurgeInv(p) ==
    /\ job[p].pc \in Purging => armed # None /\ job[p].at <= armed
    /\ job[p].pc \in {"purge", "drop"} =>
          /\ \A k \in job[p].todo : cred[k] # None /\ cred[k].asked <= job[p].at
          /\ \A k \in tracked : k \in job[p].left \/ job[p].at <= cred[k].asked + MaxOp
    /\ At(p, "drop") => job[p].key \in Keys /\ cred[job[p].key] # None /\ job[p].key \notin live

IntentInv ==
    /\ armed # None => armed <= clock
    /\ intent # None =>
          /\ armed # None /\ intent.cutoff <= armed
          /\ intent.complete => \A k \in tracked : intent.cutoff <= cred[k].asked + MaxOp

RoleInv == (role = "open" <=> closed = None) /\ (closed # None => closed <= clock)

IInv ==
    /\ TypeOK /\ OneIssuer /\ IntentInv /\ RoleInv
    /\ \A k \in Keys : KeyInv(k)
    /\ \A p \in Goroutines : IssueInv(p) /\ RevokeInv(p) /\ ReconcileInv(p) /\ PurgeInv(p)

\* An issue's minter had room for it among what was asked for long enough before.
Before(m, t) == {k \in Outstanding(m) : cred[k].asked + MaxOp < t}
CapacityInv ==
    Limit > 0 =>
        /\ \A p \in Goroutines : At(p, "create") => Cardinality(Before(job[p].by, job[p].at)) < Limit
        /\ \A k \in Keys : cred[k] # None => Cardinality(Before(cred[k].by, cred[k].asked)) < Limit
=============================================================================
