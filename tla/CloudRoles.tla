----------------------------- MODULE CloudRoles -----------------------------
(***************************************************************************)
(* Role writes and the capability gate in the ten plugins, each from its   *)
(* own copy of the handlers.  They differ in which fields of a role reach  *)
(* the cloud's mint call, and so in what a probe proves and which writes   *)
(* share a verdict.                                                        *)
(***************************************************************************)
EXTENDS Roles

-----------------------------------------------------------------------------
(* Akamai. The API access and the group reach the mint.                     *)

AkamaiCapabilityChecks(s, r) == ChecksPerMinter(s, r.scope)

AkamaiProbeMint(p) == cloud = "akamai" /\ ProbeMint(p)

AkamaiVerify(p) ==
    /\ cloud = "akamai"
    /\ \/ VerifySet(p, UNION {AkamaiCapabilityChecks(req[p].cand, r) : r \in RolesBoundTo})
       \/ VerifyRole(p, AkamaiCapabilityChecks(set, req[p].role))

AkamaiRoleWrite(p) == cloud = "akamai" /\ RoleWrite(p)

AkamaiRoleDelete(p) == cloud = "akamai" /\ RoleDelete(p)

-----------------------------------------------------------------------------
(* AWS. The ARN, the external id, the session tags and policies reach AssumeRole. *)

AWSCapabilityChecks(s, r) == ChecksPerMinter(s, r.scope)

AWSProbeMint(p) == cloud = "aws" /\ ProbeMint(p)

AWSVerify(p) ==
    /\ cloud = "aws"
    /\ \/ VerifySet(p, UNION {AWSCapabilityChecks(req[p].cand, r) : r \in RolesBoundTo})
       \/ VerifyRole(p, AWSCapabilityChecks(set, req[p].role))

AWSRoleWrite(p) == cloud = "aws" /\ RoleWrite(p)

AWSRoleDelete(p) == cloud = "aws" /\ RoleDelete(p)

-----------------------------------------------------------------------------
(* Azure. The app object id reaches addPassword.                            *)

AzureCapabilityChecks(s, r) == ChecksPerMinter(s, r.scope)

AzureProbeMint(p) == cloud = "azure" /\ ProbeMint(p)

AzureVerify(p) ==
    /\ cloud = "azure"
    /\ \/ VerifySet(p, UNION {AzureCapabilityChecks(req[p].cand, r) : r \in RolesBoundTo})
       \/ VerifyRole(p, AzureCapabilityChecks(set, req[p].role))

AzureRoleWrite(p) == cloud = "azure" /\ RoleWrite(p)

AzureRoleDelete(p) == cloud = "azure" /\ RoleDelete(p)

-----------------------------------------------------------------------------
(* DO. A token's scopes or a Spaces key's grants reach the mint, and never alike. *)

DOCapabilityChecks(s, r) == ChecksPerMinter(s, r.scope)

DOProbeMint(p) == cloud = "do" /\ ProbeMint(p)

DOVerify(p) ==
    /\ cloud = "do"
    /\ \/ VerifySet(p, UNION {DOCapabilityChecks(req[p].cand, r) : r \in RolesBoundTo})
       \/ VerifyRole(p, DOCapabilityChecks(set, req[p].role))

DORoleWrite(p) == cloud = "do" /\ RoleWrite(p)

DORoleDelete(p) == cloud = "do" /\ RoleDelete(p)

-----------------------------------------------------------------------------
(* Exoscale. The role id reaches the mint.                                  *)

ExoscaleCapabilityChecks(s, r) == ChecksPerMinter(s, r.scope)

ExoscaleProbeMint(p) == cloud = "exoscale" /\ ProbeMint(p)

ExoscaleVerify(p) ==
    /\ cloud = "exoscale"
    /\ \/ VerifySet(p, UNION {ExoscaleCapabilityChecks(req[p].cand, r) : r \in RolesBoundTo})
       \/ VerifyRole(p, ExoscaleCapabilityChecks(set, req[p].role))

ExoscaleRoleWrite(p) == cloud = "exoscale" /\ RoleWrite(p)

ExoscaleRoleDelete(p) == cloud = "exoscale" /\ RoleDelete(p)

-----------------------------------------------------------------------------
(* GCP. The service account and the OAuth scopes reach the mint.            *)

GCPCapabilityChecks(s, r) == ChecksPerMinter(s, r.scope)

GCPProbeMint(p) == cloud = "gcp" /\ ProbeMint(p)

GCPVerify(p) ==
    /\ cloud = "gcp"
    /\ \/ VerifySet(p, UNION {GCPCapabilityChecks(req[p].cand, r) : r \in RolesBoundTo})
       \/ VerifyRole(p, GCPCapabilityChecks(set, req[p].role))

GCPRoleWrite(p) == cloud = "gcp" /\ RoleWrite(p)

GCPRoleDelete(p) == cloud = "gcp" /\ RoleDelete(p)

-----------------------------------------------------------------------------
(* OCI. A probe would spend one of a user's two tokens: nothing is proved.  *)

OCICapabilityChecks(s, r) == ChecksPerMinter(s, Shapeless)

OCIProbeMint(p) == cloud = "oci" /\ ProbeUnsupported(p)

OCIVerify(p) ==
    /\ cloud = "oci"
    /\ \/ VerifySet(p, UNION {OCICapabilityChecks(req[p].cand, r) : r \in RolesBoundTo})
       \/ VerifyRole(p, OCICapabilityChecks(set, req[p].role))

OCIRoleWrite(p) == cloud = "oci" /\ RoleWrite(p)

OCIRoleDelete(p) == cloud = "oci" /\ RoleDelete(p)

-----------------------------------------------------------------------------
(* OVH. No field of a role reaches the mint.                                *)

OVHCapabilityChecks(s, r) == ChecksPerMinter(s, Shapeless)

OVHProbeMint(p) == cloud = "ovh" /\ ProbeMint(p)

OVHVerify(p) ==
    /\ cloud = "ovh"
    /\ \/ VerifySet(p, UNION {OVHCapabilityChecks(req[p].cand, r) : r \in RolesBoundTo})
       \/ VerifyRole(p, OVHCapabilityChecks(set, req[p].role))

OVHRoleWrite(p) == cloud = "ovh" /\ RoleWrite(p)

OVHRoleDelete(p) == cloud = "ovh" /\ RoleDelete(p)

-----------------------------------------------------------------------------
(* UpCloud. No field of a role reaches the mint.                            *)

UpCloudCapabilityChecks(s, r) == ChecksPerMinter(s, Shapeless)

UpCloudProbeMint(p) == cloud = "upcloud" /\ ProbeMint(p)

UpCloudVerify(p) ==
    /\ cloud = "upcloud"
    /\ \/ VerifySet(p, UNION {UpCloudCapabilityChecks(req[p].cand, r) : r \in RolesBoundTo})
       \/ VerifyRole(p, UpCloudCapabilityChecks(set, req[p].role))

UpCloudRoleWrite(p) == cloud = "upcloud" /\ RoleWrite(p)

UpCloudRoleDelete(p) == cloud = "upcloud" /\ RoleDelete(p)

-----------------------------------------------------------------------------
(* Vultr. The ACLs and the e-mail domain reach the mint.                    *)

VultrCapabilityChecks(s, r) == ChecksPerMinter(s, r.scope)

VultrProbeMint(p) == cloud = "vultr" /\ ProbeMint(p)

VultrVerify(p) ==
    /\ cloud = "vultr"
    /\ \/ VerifySet(p, UNION {VultrCapabilityChecks(req[p].cand, r) : r \in RolesBoundTo})
       \/ VerifyRole(p, VultrCapabilityChecks(set, req[p].role))

VultrRoleWrite(p) == cloud = "vultr" /\ RoleWrite(p)

VultrRoleDelete(p) == cloud = "vultr" /\ RoleDelete(p)

-----------------------------------------------------------------------------

Next ==
    \/ \E p \in Procs :
        \/ AkamaiProbeMint(p) \/ AkamaiVerify(p) \/ AkamaiRoleWrite(p) \/ AkamaiRoleDelete(p)
        \/ AWSProbeMint(p) \/ AWSVerify(p) \/ AWSRoleWrite(p) \/ AWSRoleDelete(p)
        \/ AzureProbeMint(p) \/ AzureVerify(p) \/ AzureRoleWrite(p) \/ AzureRoleDelete(p)
        \/ DOProbeMint(p) \/ DOVerify(p) \/ DORoleWrite(p) \/ DORoleDelete(p)
        \/ ExoscaleProbeMint(p) \/ ExoscaleVerify(p) \/ ExoscaleRoleWrite(p) \/ ExoscaleRoleDelete(p)
        \/ GCPProbeMint(p) \/ GCPVerify(p) \/ GCPRoleWrite(p) \/ GCPRoleDelete(p)
        \/ OCIProbeMint(p) \/ OCIVerify(p) \/ OCIRoleWrite(p) \/ OCIRoleDelete(p)
        \/ OVHProbeMint(p) \/ OVHVerify(p) \/ OVHRoleWrite(p) \/ OVHRoleDelete(p)
        \/ UpCloudProbeMint(p) \/ UpCloudVerify(p) \/ UpCloudRoleWrite(p) \/ UpCloudRoleDelete(p)
        \/ VultrProbeMint(p) \/ VultrVerify(p) \/ VultrRoleWrite(p) \/ VultrRoleDelete(p)
        \/ UseVerdict(p) \/ Throttled(p)
        \/ BeginSetWrite(p) \/ BeginRotate(p) \/ StoreSet(p) \/ SetDelete(p)
    \/ SweepCache \/ ConfigWrite \/ Reload
    \/ Issue \/ HealthCheck \/ WindowEnds \/ Tick

Spec == Init /\ [][Next]_vars

-----------------------------------------------------------------------------

\* Besides its type: only members of the set have a recovery state, and no
\* verdict is from the future, or was stored without the probe that earned it.
TypeOK ==
    /\ cloud \in Clouds /\ config \in Configs
    /\ role \in Role \cup {NoRole} /\ set \in MinterSet
    /\ health \in [Minters -> [cooldown : {"none", "open", "half-open"}, rejected : BOOLEAN]]
    /\ \A m \in Minters : health[m] # Fresh0 => set[m] # NoCred
    /\ \A m \in Minters, s \in Shapes :
          LET v == cache[<<m, s>>]
          IN v = NoVerdict \/ [cred |-> v.cred, shape |-> s, at |-> v.at] \in proofs
    /\ \A p \in Procs :
          /\ req[p].pc \in {"idle", "role", "set", "probe"} /\ req[p].body \in Bodies
          /\ req[p].role \in Role \cup {NoRole} /\ req[p].set \in MinterSet
          /\ req[p].cand \in MinterSet /\ req[p].todo \subseteq Check /\ req[p].ttl \in Nat
    /\ \A x \in proofs : x.at \in 0..now
    /\ waived \in BOOLEAN /\ writes \in 0..MaxWrites /\ now \in 0..MaxTime

\* What the gate is for: every selectable minter of the set has minted, with the
\* very credential it has, what the enabled role asks for; however role writes,
\* set writes, rotations, disabling, deletion and verdicts follow each other.
\* Selection is arbitrary, so one minter that cannot mint is enough to fail reads.
Capable ==
    role # NoRole /\ ~waived /\ cloud # "oci" =>
        role.disabled \/ \A m \in ActiveMinters(set) :
            \E x \in proofs :
                x.cred = set[m] /\ x.shape \in IF cloud \in {"ovh", "upcloud"} THEN {Shapeless}
                                                ELSE {role.scope}

\* A check is dropped from a write only when that very credential minted that very
\* shape, then or within capability_cache_ttl: a verdict does not outlive its
\* credential, whatever is written, swept or reloaded meanwhile.
CacheHonest ==
    [][\A p \in Procs : req[p].pc = "probe" /\ req'[p].pc = "probe" =>
        \A c \in req[p].todo \ req'[p].todo :
            cloud = "oci" \/ \E x \in proofs' :
                x.cred = c.cred /\ x.shape = c.shape /\ now - x.at <= req[p].ttl]_vars

\* "A write to an existing role changes only the fields it carries": the role a
\* responder disabled stays so until a write that says otherwise.  It holds of
\* writes that do not overlap; a write prefilled before another's put undoes it.
CarriesOnly ==
    [][role' # role /\ NoRole \notin {role, role'} =>
        \E p \in Procs : /\ req[p].role = role' /\ req'[p] = NoReq
                         /\ \A f \in {"disabled", "scope"} :
                               role'[f] # role[f] => req[p].body[f] # Unset]_vars

\* A probe "is refused only by the rate-limit window": a write that asks for one
\* after the window has ended is not told to retry.  The code also refuses it
\* half-open, until something else succeeds with that minter.
ThrottledInWindow ==
    [][\A p \in Procs : Throttled(p) => health[Next1(p).minter].cooldown = "open"]_vars

-----------------------------------------------------------------------------
(* The inductive invariant behind the safety properties. *)

Req == [pc : {"idle", "role", "set", "probe"}, body : Bodies, role : Role \cup {NoRole},
        set : MinterSet, cand : MinterSet, todo : SUBSET Check, ttl : Nat]

IInv ==
    /\ TypeOK
    /\ req \in [Procs -> Req]
    /\ cache = [k \in Minters \X Shapes |-> cache[k]]
    /\ \A p \in Procs : req[p].pc = "role" => req[p].role # NoRole

\* What a probe for a role proves that some credential can mint.
Shape(r) == IF cloud \in {"oci", "ovh", "upcloud"} THEN Shapeless ELSE r.scope
Proven(k, s) == \E x \in proofs : x.cred = k /\ x.shape = s

\* Every minter of s has minted what r asks for, or has still to be checked.
Proving(s, r, todo) ==
    \A m \in ActiveMinters(s) :
        [minter |-> m, cred |-> s[m], shape |-> Shape(r)] \in todo \/ Proven(s[m], Shape(r))

\* While a write is alone, what it will store is proven but for the checks it has
\* still to pass.  A set write may leave unproved the minters the set already has.
GateInv(p) ==
    LET j == req[p] IN
    /\ j.pc = "set" => /\ j.role = NoRole
                       /\ \A m \in ActiveMinters(j.set) :
                             j.cand[m] = j.set[m] \/ set[m] = j.set[m]
    /\ j.pc = "probe" /\ ~waived /\ cloud # "oci" =>
        /\ j.role # NoRole => j.role.disabled \/ Proving(set, j.role, j.todo)
        /\ j.role = NoRole /\ role # NoRole => role.disabled \/ Proving(j.set, role, j.todo)
GatesHold == \A p \in Procs : GateInv(p)

\* Writes do not overlap: they might as well be those of one goroutine.
OneWriter == \A p, q \in Procs : p = q
=============================================================================
