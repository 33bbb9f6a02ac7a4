----------------------------- MODULE CloudSets -----------------------------
(***************************************************************************)
(* The minter sets of the ten plugins, each from its own source.  Every    *)
(* plugin carries its own copy of the handlers, and every definition below *)
(* is read from that plugin's copy.  Akamai, AWS, Azure, Exoscale, GCP and *)
(* UpCloud rotate their minters, and differ in what a successor needs, in  *)
(* the expiry it is recorded with and in whose credential cleans up;       *)
(* DigitalOcean, OCI, OVH and Vultr refuse to rotate.                      *)
(***************************************************************************)
EXTENDS MinterSet

\* The expiry of a successor that starts a lifetime of its own now.
Fresh(old) == IF expires[old] = Never THEN Never ELSE clock + Lifetime

-----------------------------------------------------------------------------
(* Akamai: a successor is an API client of the same user, granted what the rotator has. *)

AkamaiSetWrite(p) ==
    /\ cloud = "akamai"
    /\ WritePut(p) \/ WriteFail(p) \/ \E w \in SUBSET Originals : WriteRead(p, w)

AkamaiSetDelete(p) == cloud = "akamai" /\ DeleteSet(p)

AkamaiLoadMinterSet(p) == cloud = "akamai" /\ LoadMinterSet(p)

AkamaiLoadAllMinterSets == cloud = "akamai" /\ Crash

\* What the successor needs is in the minter's rotation_params.
AkamaiRotateMinter(p, s) ==
    /\ At(p, "mint") /\ job[p].old \in Rotatable \cup Successors
    /\ RotateMint(p, s, Fresh(job[p].old), NoMinter) \/ RotateMintLost(p, s, Fresh(job[p].old), NoMinter)

AkamaiRotate(p) ==
    /\ cloud = "akamai"
    /\ \/ \E m \in Minters : RotateRead(p, m, Fresh(m))
       \/ (\E r \in Minters : Minting(r)) /\ \E s \in Successors : AkamaiRotateMinter(p, s)
       \/ RotateMintFail(p) \/ RotateCheck(p) \/ RotateCommit(p)

\* With the credential that made it.
AkamaiCleanupSuccessor(p) == cloud = "akamai" /\ RotateCleanup(p, ActiveMinters(loaded))

AkamaiHasUpstreamID(m) == m \in Successors \cup Recorded

AkamaiDeleteRetiredUpstream(p, m) ==
    /\ cloud = "akamai"
    /\ SweepDelete(p, m, AkamaiHasUpstreamID(m)) \/ SweepDeleteFail(p, m, AkamaiHasUpstreamID(m))

AkamaiSweepSet(p) == cloud = "akamai" /\ (SweepRead(p) \/ SweepPut(p))

-----------------------------------------------------------------------------
(* AWS: a successor is a second access key of the rotator's IAM user. *)

AWSSetWrite(p) ==
    /\ cloud = "aws"
    /\ WritePut(p) \/ WriteFail(p) \/ \E w \in SUBSET Originals : WriteRead(p, w)

AWSSetDelete(p) == cloud = "aws" /\ DeleteSet(p)

AWSLoadMinterSet(p) == cloud = "aws" /\ LoadMinterSet(p)

AWSLoadAllMinterSets == cloud = "aws" /\ Crash

\* The user has a key to spare.  The successor of a minter that expires is
\* recorded without an expiry.
AWSRotateMinter(p, s, r) ==
    LET ex == IF expires[job[p].old] = Never THEN Never ELSE Unset IN
    /\ Cardinality({m \in upstream : user[m] = user[r]}) < KeyLimit
    /\ RotateMint(p, s, ex, user[r]) \/ RotateMintLost(p, s, ex, user[r])

\* A minter that expires is validated by the expiry it has.
AWSRotate(p) ==
    /\ cloud = "aws"
    /\ \/ \E m \in Minters : RotateRead(p, m, expires[m])
       \/ \E s \in Successors, r \in Minters : Minting(r) /\ AWSRotateMinter(p, s, r)
       \/ RotateMintFail(p) \/ RotateCheck(p) \/ RotateCommit(p)

\* With the successor's own credential.
AWSCleanupSuccessor(p) == cloud = "aws" /\ RotateCleanup(p, {job[p].new})

AWSHasUpstreamID(m) == m \in Successors \cup Recorded

AWSDeleteRetiredUpstream(p, m) ==
    /\ cloud = "aws"
    /\ SweepDelete(p, m, AWSHasUpstreamID(m)) \/ SweepDeleteFail(p, m, AWSHasUpstreamID(m))

AWSSweepSet(p) == cloud = "aws" /\ (SweepRead(p) \/ SweepPut(p))

-----------------------------------------------------------------------------
(* Azure: a successor is a password of the same application. *)

AzureSetWrite(p) ==
    /\ cloud = "azure"
    /\ WritePut(p) \/ WriteFail(p) \/ \E w \in SUBSET Originals : WriteRead(p, w)

AzureSetDelete(p) == cloud = "azure" /\ DeleteSet(p)

AzureLoadMinterSet(p) == cloud = "azure" /\ LoadMinterSet(p)

AzureLoadAllMinterSets == cloud = "azure" /\ Crash

\* What the successor needs is in the minter's rotation_params.
AzureRotateMinter(p, s) ==
    /\ At(p, "mint") /\ job[p].old \in Rotatable \cup Successors
    /\ RotateMint(p, s, Fresh(job[p].old), NoMinter) \/ RotateMintLost(p, s, Fresh(job[p].old), NoMinter)

AzureRotate(p) ==
    /\ cloud = "azure"
    /\ \/ \E m \in Minters : RotateRead(p, m, Fresh(m))
       \/ (\E r \in Minters : Minting(r)) /\ \E s \in Successors : AzureRotateMinter(p, s)
       \/ RotateMintFail(p) \/ RotateCheck(p) \/ RotateCommit(p)

\* With the credential that made it.
AzureCleanupSuccessor(p) == cloud = "azure" /\ RotateCleanup(p, ActiveMinters(loaded))

AzureHasUpstreamID(m) == m \in Successors \cup Recorded

AzureDeleteRetiredUpstream(p, m) ==
    /\ cloud = "azure"
    /\ SweepDelete(p, m, AzureHasUpstreamID(m)) \/ SweepDeleteFail(p, m, AzureHasUpstreamID(m))

AzureSweepSet(p) == cloud = "azure" /\ (SweepRead(p) \/ SweepPut(p))

-----------------------------------------------------------------------------
(* DigitalOcean, whose rotate endpoint always refuses. *)

DOSetWrite(p) ==
    /\ cloud = "do"
    /\ WritePut(p) \/ WriteFail(p) \/ \E w \in SUBSET Originals : WriteRead(p, w)

DOSetDelete(p) == cloud = "do" /\ DeleteSet(p)

DOLoadMinterSet(p) == cloud = "do" /\ LoadMinterSet(p)

DOLoadAllMinterSets == cloud = "do" /\ Crash

-----------------------------------------------------------------------------
(* Exoscale: a successor is a key of the minter's own IAM role. *)

ExoscaleSetWrite(p) ==
    /\ cloud = "exoscale"
    /\ WritePut(p) \/ WriteFail(p) \/ \E w \in SUBSET Originals : WriteRead(p, w)

ExoscaleSetDelete(p) == cloud = "exoscale" /\ DeleteSet(p)

ExoscaleLoadMinterSet(p) == cloud = "exoscale" /\ LoadMinterSet(p)

ExoscaleLoadAllMinterSets == cloud = "exoscale" /\ Crash

ExoscaleRotateMinter(p, s) ==
    /\ At(p, "mint")
    /\ RotateMint(p, s, Fresh(job[p].old), NoMinter) \/ RotateMintLost(p, s, Fresh(job[p].old), NoMinter)

\* A minter without the role of a successor is refused before any call.
ExoscaleRotate(p) ==
    /\ cloud = "exoscale"
    /\ \/ \E m \in Rotatable \cup Successors : RotateRead(p, m, Fresh(m))
       \/ (\E r \in Minters : Minting(r)) /\ \E s \in Successors : ExoscaleRotateMinter(p, s)
       \/ RotateMintFail(p) \/ RotateCheck(p) \/ RotateCommit(p)

\* With the credential that made it.
ExoscaleCleanupSuccessor(p) == cloud = "exoscale" /\ RotateCleanup(p, ActiveMinters(loaded))

ExoscaleHasUpstreamID(m) == m \in Successors \cup Recorded

ExoscaleDeleteRetiredUpstream(p, m) ==
    /\ cloud = "exoscale"
    /\ SweepDelete(p, m, ExoscaleHasUpstreamID(m)) \/ SweepDeleteFail(p, m, ExoscaleHasUpstreamID(m))

ExoscaleSweepSet(p) == cloud = "exoscale" /\ (SweepRead(p) \/ SweepPut(p))

-----------------------------------------------------------------------------
(* GCP: a successor is another key of the service account. *)

GCPSetWrite(p) ==
    /\ cloud = "gcp"
    /\ WritePut(p) \/ WriteFail(p) \/ \E w \in SUBSET Originals : WriteRead(p, w)

GCPSetDelete(p) == cloud = "gcp" /\ DeleteSet(p)

GCPLoadMinterSet(p) == cloud = "gcp" /\ LoadMinterSet(p)

GCPLoadAllMinterSets == cloud = "gcp" /\ Crash

GCPRotateMinter(p, s) ==
    /\ At(p, "mint")
    /\ RotateMint(p, s, expires[job[p].old], NoMinter) \/ RotateMintLost(p, s, expires[job[p].old], NoMinter)

GCPRotate(p) ==
    /\ cloud = "gcp"
    /\ \/ \E m \in Minters : RotateRead(p, m, expires[m])
       \/ (\E r \in Minters : Minting(r)) /\ \E s \in Successors : GCPRotateMinter(p, s)
       \/ RotateMintFail(p) \/ RotateCheck(p) \/ RotateCommit(p)

\* With the successor's own credential.
GCPCleanupSuccessor(p) == cloud = "gcp" /\ RotateCleanup(p, {job[p].new})

GCPHasUpstreamID(m) == m \in Successors \cup Recorded

GCPDeleteRetiredUpstream(p, m) ==
    /\ cloud = "gcp"
    /\ SweepDelete(p, m, GCPHasUpstreamID(m)) \/ SweepDeleteFail(p, m, GCPHasUpstreamID(m))

GCPSweepSet(p) == cloud = "gcp" /\ (SweepRead(p) \/ SweepPut(p))

-----------------------------------------------------------------------------
(* OCI, whose rotate endpoint always refuses. *)

OCISetWrite(p) ==
    /\ cloud = "oci"
    /\ WritePut(p) \/ WriteFail(p) \/ \E w \in SUBSET Originals : WriteRead(p, w)

OCISetDelete(p) == cloud = "oci" /\ DeleteSet(p)

OCILoadMinterSet(p) == cloud = "oci" /\ LoadMinterSet(p)

OCILoadAllMinterSets == cloud = "oci" /\ Crash

-----------------------------------------------------------------------------
(* OVH, whose rotate endpoint always refuses. *)

OVHSetWrite(p) ==
    /\ cloud = "ovh"
    /\ WritePut(p) \/ WriteFail(p) \/ \E w \in SUBSET Originals : WriteRead(p, w)

OVHSetDelete(p) == cloud = "ovh" /\ DeleteSet(p)

OVHLoadMinterSet(p) == cloud = "ovh" /\ LoadMinterSet(p)

OVHLoadAllMinterSets == cloud = "ovh" /\ Crash

-----------------------------------------------------------------------------
(* UpCloud: a successor is a token that may create tokens. *)

UpCloudSetWrite(p) ==
    /\ cloud = "upcloud"
    /\ WritePut(p) \/ WriteFail(p) \/ \E w \in SUBSET Originals : WriteRead(p, w)

UpCloudSetDelete(p) == cloud = "upcloud" /\ DeleteSet(p)

UpCloudLoadMinterSet(p) == cloud = "upcloud" /\ LoadMinterSet(p)

UpCloudLoadAllMinterSets == cloud = "upcloud" /\ Crash

UpCloudRotateMinter(p, s) ==
    /\ At(p, "mint")
    /\ RotateMint(p, s, Fresh(job[p].old), NoMinter) \/ RotateMintLost(p, s, Fresh(job[p].old), NoMinter)

UpCloudRotate(p) ==
    /\ cloud = "upcloud"
    /\ \/ \E m \in Minters : RotateRead(p, m, Fresh(m))
       \/ (\E r \in Minters : Minting(r)) /\ \E s \in Successors : UpCloudRotateMinter(p, s)
       \/ RotateMintFail(p) \/ RotateCheck(p) \/ RotateCommit(p)

\* With the credential that made it.
UpCloudCleanupSuccessor(p) == cloud = "upcloud" /\ RotateCleanup(p, ActiveMinters(loaded))

UpCloudHasUpstreamID(m) == m \in Successors \cup Recorded

UpCloudDeleteRetiredUpstream(p, m) ==
    /\ cloud = "upcloud"
    /\ SweepDelete(p, m, UpCloudHasUpstreamID(m)) \/ SweepDeleteFail(p, m, UpCloudHasUpstreamID(m))

UpCloudSweepSet(p) == cloud = "upcloud" /\ (SweepRead(p) \/ SweepPut(p))

-----------------------------------------------------------------------------
(* Vultr, whose rotate endpoint always refuses. *)

VultrSetWrite(p) ==
    /\ cloud = "vultr"
    /\ WritePut(p) \/ WriteFail(p) \/ \E w \in SUBSET Originals : WriteRead(p, w)

VultrSetDelete(p) == cloud = "vultr" /\ DeleteSet(p)

VultrLoadMinterSet(p) == cloud = "vultr" /\ LoadMinterSet(p)

VultrLoadAllMinterSets == cloud = "vultr" /\ Crash

-----------------------------------------------------------------------------
Write(p) ==
    \/ AkamaiSetWrite(p) \/ AWSSetWrite(p) \/ AzureSetWrite(p) \/ DOSetWrite(p) \/ ExoscaleSetWrite(p)
    \/ GCPSetWrite(p) \/ OCISetWrite(p) \/ OVHSetWrite(p) \/ UpCloudSetWrite(p) \/ VultrSetWrite(p)
    \/ AkamaiSetDelete(p) \/ AWSSetDelete(p) \/ AzureSetDelete(p) \/ DOSetDelete(p) \/ ExoscaleSetDelete(p)
    \/ GCPSetDelete(p) \/ OCISetDelete(p) \/ OVHSetDelete(p) \/ UpCloudSetDelete(p) \/ VultrSetDelete(p)

Rotate(p) ==
    \/ AkamaiRotate(p) \/ AWSRotate(p) \/ AzureRotate(p) \/ ExoscaleRotate(p) \/ GCPRotate(p) \/ UpCloudRotate(p)
    \/ AkamaiCleanupSuccessor(p) \/ AWSCleanupSuccessor(p) \/ AzureCleanupSuccessor(p)
    \/ ExoscaleCleanupSuccessor(p) \/ GCPCleanupSuccessor(p) \/ UpCloudCleanupSuccessor(p)

Delete(p, m) ==
    \/ AkamaiDeleteRetiredUpstream(p, m) \/ AWSDeleteRetiredUpstream(p, m) \/ AzureDeleteRetiredUpstream(p, m)
    \/ ExoscaleDeleteRetiredUpstream(p, m) \/ GCPDeleteRetiredUpstream(p, m) \/ UpCloudDeleteRetiredUpstream(p, m)

Sweep(p) ==
    \/ \E m \in Minters : Delete(p, m)
    \/ AkamaiSweepSet(p) \/ AWSSweepSet(p) \/ AzureSweepSet(p) \/ ExoscaleSweepSet(p) \/ GCPSweepSet(p) \/ UpCloudSweepSet(p)

Load(p) ==
    \/ AkamaiLoadMinterSet(p) \/ AWSLoadMinterSet(p) \/ AzureLoadMinterSet(p) \/ DOLoadMinterSet(p)
    \/ ExoscaleLoadMinterSet(p) \/ GCPLoadMinterSet(p) \/ OCILoadMinterSet(p) \/ OVHLoadMinterSet(p)
    \/ UpCloudLoadMinterSet(p) \/ VultrLoadMinterSet(p)

Restart ==
    \/ AkamaiLoadAllMinterSets \/ AWSLoadAllMinterSets \/ AzureLoadAllMinterSets \/ DOLoadAllMinterSets
    \/ ExoscaleLoadAllMinterSets \/ GCPLoadAllMinterSets \/ OCILoadAllMinterSets \/ OVHLoadAllMinterSets
    \/ UpCloudLoadAllMinterSets \/ VultrLoadAllMinterSets

Next ==
    \/ \E p \in Procs : Write(p) \/ Rotate(p) \/ Sweep(p) \/ Load(p)
    \/ Tick
    \/ Restart

Spec == Init /\ [][Next]_vars

\* A rotation or a sweep that has begun runs to its end; the worker's ticker
\* keeps coming back and sync.Mutex is starvation-free; the cloud does not refuse
\* the same delete for ever.  Nothing obliges an operator to act.
Fairness ==
    /\ \A p \in Rotators \cup Sweepers : WF_vars(job[p].pc # "idle" /\ (Rotate(p) \/ Sweep(p) \/ Load(p)))
    /\ \A p \in Sweepers :
        /\ SF_vars(job[p].pc = "idle" /\ Sweep(p))
        /\ \A s \in Successors : SF_vars(Delete(p, s) /\ job'[p].set # job[p].set)
FairSpec == Spec /\ Fairness

-----------------------------------------------------------------------------
(* Properties. *)

\* Domains, and rotateSweepMu is held exactly by the goroutine that is inside
\* a rotation or a sweep.
TypeOK ==
    /\ cloud \in Clouds /\ clock \in Nat /\ writes \in Nat /\ crashes \in Nat
    /\ stored \in [Minters -> Entry] /\ loaded \in [Minters -> Entry]
    /\ upstream \subseteq Minters /\ made \subseteq Successors
    /\ expires \in [Minters -> Nat \cup {Never, Unset}]
    /\ user \in [Minters -> Minters \cup {NoMinter}]
    /\ mu \in Procs \cup {NoProc}
    /\ job \in [Procs -> Job]
    /\ life \in [Minters -> {"new", "retired", "revived"}] /\ misdated \subseteq Successors
    /\ \A p \in Procs :
        (mu = p) <=> \/ job[p].pc \in Held
                     \/ (At(p, "load") /\ p \in Rotators \cup Sweepers)

\* A minter that storage or memory lists as selectable has a live token: the
\* sweep, working from the copy of the set it read before its API calls, never
\* deletes what a concurrent rotation or write has left in service.  With one
\* exception, of which RetirementSticks is about: an original whose upstream id
\* is recorded and that a write put back after a rotation had retired it.
ActiveAlive ==
    ActiveMinters(stored) \cup ActiveMinters(loaded)
        \subseteq upstream \cup {m \in Recorded : life[m] = "revived"}

\* A set that exists can issue: unless it was deleted, storage names an active
\* minter, and a failover would load the set, whatever rotations, sweeps and
\* writes overwrote one another.  Not covered, of which Reloads is about: a set
\* with a successor that was given another expiry than the one it was validated
\* with, on AWS none at all, elsewhere one counted from a later instant.
SetServes == stored # NoSet => ValidateMinterSet(stored) \/ ActiveMinters(stored) \cap misdated # {}

\* "the two views are constructed identically" (path_minter_sets.go of AWS): the
\* set that a rotation stores is as valid as the one it checked beforehand, and
\* so loadAllMinterSets takes it back after a failover.
\* Violated: the successor of an AWS minter that expires has no expiry, and
\* elsewhere its expiry is counted from a later instant than the stand-in's; the
\* next failover leaves the mount without the set.
Reloads == stored # NoSet => ValidateMinterSet(stored)

\* The id of a successor is recorded nowhere but in the set, so its entry goes
\* only after its token, or because an operator's write or delete removes it;
\* never because a sweep and a rotation overwrite each other's set.
SuccessorsKept ==
    [][\A s \in Successors :
        stored[s] # Absent /\ stored'[s] = Absent =>
            \/ s \notin upstream
            \/ \E p \in Writers : WritePut(p) \/ DeleteSet(p)]_vars

\* A retired successor past its grace is deleted upstream, unless an operator
\* removes its entry first, through failed deletes, failed writes and failovers.
RetiredDies ==
    \A s \in Successors :
        (stored[s] \in Nat /\ clock > stored[s] + RetireGrace)
            ~> (s \notin upstream \/ stored[s] = Absent)

\* "editing a set during the retirement grace" never "un-retires a rotated-out
\* minter" (path_minter_sets.go): violated, since the write takes no lock and
\* may carry forward the state from before a rotation that has since committed.
RetirementSticks ==
    [][\A m \in Minters :
        stored[m] \in Nat /\ stored'[m] # Absent => stored'[m] \in Nat]_vars

-----------------------------------------------------------------------------
(* The inductive invariant behind the safety properties. *)

\* Who does what; and a rotation works on the minter it found active.
Stage(p) ==
    /\ p \in Writers => job[p].pc \in {"idle", "put", "load"}
    /\ p \in Rotators => job[p].pc \in {"idle", "mint", "check", "commit", "cleanup", "load"}
    /\ p \in Sweepers => job[p].pc \in {"idle", "sweep", "load"}
    /\ job[p].pc \in {"mint", "check", "commit"} => job[p].old \in Minters /\ job[p].set[job[p].old] = Active
    /\ job[p].pc \in {"check", "commit", "cleanup"} => job[p].new \in made
StageInv == \A p \in Procs : Stage(p)

\* No set knows of a successor before a rotation stores it.
Minted(p) == IF job[p].pc \in {"check", "commit", "cleanup"} THEN {job[p].new} ELSE {}
Unborn == (Successors \ made) \cup UNION {Minted(p) : p \in Procs}
BirthInv ==
    /\ IsFiniteSet(made)
    /\ \A s \in Unborn : stored[s] = Absent /\ loaded[s] = Absent /\ \A p \in Procs : job[p].set[s] = Absent
    /\ \A p \in Procs : job[p].pc \in {"check", "commit"} => job[p].new \in upstream

\* What the copy of the set a goroutine works on is worth.  Of successors, a
\* write's has none; while one holds rotateSweepMu, writes at most removed some
\* from storage, and a sweep drops from its copy only what it has deleted.
Copy(p) ==
    LET set == job[p].set IN
    /\ p \in Writers => \A s \in Successors : set[s] = Absent
    /\ p \notin Writers /\ job[p].pc \notin {"idle", "cleanup"} =>
          \A s \in Successors :
              stored[s] \in {Absent, set[s]} \/ (At(p, "sweep") /\ set[s] = Absent /\ s \notin upstream)
    /\ job[p].pc \notin {"idle", "cleanup"} =>
          \A m \in Minters \ Recorded : set[m] = Active => m \in upstream
    /\ At(p, "sweep") => /\ job[p].todo \subseteq Retired(set)
                         /\ \A s \in Successors : set[s] \in Nat => loaded[s] # Active
CopyInv == \A p \in Procs : Copy(p)

\* Memory is behind storage only while a rotation has yet to load what it put.
LoadedInv ==
    \A s \in Successors :
        loaded[s] = Active => stored[s] \in {Active, Absent} \/ \E p \in Rotators : At(p, "load")

\* Nothing deletes a credential the operator created and gave no id of.
AliveInv ==
    /\ Originals \ Recorded \subseteq upstream
    /\ \A m \in Minters \ Recorded : Active \in {stored[m], loaded[m]} => m \in upstream

IInv == TypeOK /\ StageInv /\ BirthInv /\ CopyInv /\ LoadedInv /\ AliveInv

\* Only a write can have put a retired original back in service.  Until one did,
\* an original that no rotation retired is as alive as it was, and one that was
\* retired is selectable nowhere, but in memory until the rotation has loaded.
LifeInv ==
    /\ \A m \in Minters : life[m] = "new" =>
          stored[m] \notin Nat /\ \A p \in Procs : job[p].set[m] \notin Nat
    /\ \A m \in Originals : life[m] = "new" => m \in upstream
    /\ \A m \in Originals : life[m] = "retired" =>
          /\ stored[m] # Active
          /\ \A p \in Procs \ Writers : job[p].pc \notin {"idle", "cleanup"} => job[p].set[m] # Active
          /\ loaded[m] = Active => m \in upstream /\ \E p \in Rotators : At(p, "load")

\* A set that a failover would load, but for its misdated successors.
Serves(set) == ValidateMinterSet(set) \/ ActiveMinters(set) \cap misdated # {}

\* What a goroutine will store loads after a failover: a write's set and a sweep's
\* already, a rotation's with the successor or, before there is one, its stand-in.
Ready(p) ==
    /\ job[p].pc \in {"put", "sweep"} => Serves(job[p].set)
    /\ At(p, "mint") =>
          ValidExpiries((ActiveMinters(job[p].set) \ {job[p].old}) \cup {NoMinter},
                        [n \in Minters \cup {NoMinter} |->
                            IF n = NoMinter THEN job[p].synthetic ELSE expires[n]])
    /\ job[p].pc \in {"check", "commit"} =>
          Serves([job[p].set EXCEPT ![job[p].old] = job[p].now, ![job[p].new] = Active])
ServesInv == (stored # NoSet => Serves(stored)) /\ \A p \in Procs : Ready(p)
=============================================================================
