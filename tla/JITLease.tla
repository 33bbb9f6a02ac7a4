------------------------------ MODULE JITLease ------------------------------
(***************************************************************************)
(* The life of an issued credential in the Exoscale plugin: issue, track,  *)
(* lease, revoke, and the two things that delete credentials behind the    *)
(* lease's back, the orphan reconciler and the operator's purge            *)
(* (plugins/credential-exoscale; pkg/reconciler, pkg/mintledger,           *)
(* pkg/upstreampurge, pkg/mintercapacity).                                 *)
(*                                                                         *)
(* Nothing here takes a lock.  Four records must agree about a key that    *)
(* never expires upstream: the cloud's list, the tracking entry (whose     *)
(* absence makes it an orphan), the mint ledger (which alone knows its     *)
(* age, and is pruned) and OpenBao's lease.                                *)
(*                                                                         *)
(* Simplifications: one role, which stays issuable, and one minter set; a  *)
(* minter that the cloud refuses is passed over by whoever looks for a     *)
(* healthy one, as its breaker has it (the Breaker module's), but a        *)
(* revocation or a purge that finds the issuing minter in the set uses it  *)
(* whatever its health; the clock ticks in seconds, the resolution of the  *)
(* stored timestamps; a call that only reports (dry_run, progress) is left *)
(* out.                                                                    *)
(***************************************************************************)
EXTENDS Integers, FiniteSets

CONSTANTS
    Keys,         \* API keys that Exoscale may create
    Minters,      \* the credentials that may be in the set
    Original,     \* those it holds at first
    Issuers,      \* goroutines serving creds/<role>
    Revokers,     \* OpenBao's lease revocation workers
    Reconcilers,  \* the reconcile worker and POST reconcile
    Purgers,      \* POST roles/<name>/revoke-upstream and the upstream-purge worker
    None,
    Hold,         \* confirmation hold (MinConfirmationHold)
    Retention,    \* mintledger.Retention
    MaxOp,        \* longest time from the start of an issue to its lease
    Limit,        \* credential limit per minter
    MaxDeletes,   \* deletes one reconcile or purge pass may attempt
    MaxTime,      \* bound: last instant of the clock
    MaxFaults,    \* bound: failures of the cloud, of storage and of minters
    MaxActs       \* bound: purges armed, and minters written or repaired

Procs == Issuers \cup Revokers \cup Reconcilers \cup Purgers

ASSUME BoundAssumption ==
    /\ Original \subseteq Minters
    /\ Hold \in Nat /\ Retention \in Nat /\ MaxOp \in Nat /\ Limit \in Nat
    /\ MaxDeletes \in Nat \ {0} /\ MaxTime \in Nat /\ MaxFaults \in Nat /\ MaxActs \in Nat
\* A request is cut off long before its credential could pass for an orphan.
ASSUME HoldAssumption == MaxOp < Hold
ASSUME ProcAssumption ==
    /\ Issuers \cap Revokers = {} /\ Issuers \cap Reconcilers = {} /\ Issuers \cap Purgers = {}
    /\ Revokers \cap Reconcilers = {} /\ Revokers \cap Purgers = {}
    /\ Reconcilers \cap Purgers = {} /\ None \notin Keys \cup Minters \cup Nat

VARIABLES
    clock,
    live, born,       \* Exoscale: keys that work; when each was asked for
    tracked, ledger,  \* storage: active-tokens/, mint-ledger/
    intent,           \* storage: purge/<role>
    issuer,           \* the minter that each key's lease and tracking entry name
    lease,            \* OpenBao: each key's lease
    members,          \* the minters of the loaded set
    accepted,         \* Exoscale: the minters whose credential it accepts
    job,              \* what each goroutine is doing
    unrecorded,       \* history: keys whose id or ledger entry was lost
    faults, acts

cloud == <<live, born, issuer>>
storage == <<tracked, ledger, intent>>
minters == <<members, accepted>>
bounds == <<faults, acts>>
vars == <<clock, cloud, storage, lease, minters, job, unrecorded, bounds>>

Intent == [cutoff: Nat, complete: BOOLEAN]
Job == [pc: {"idle", "create", "record", "track", "undo", "register",
             "revoke", "forget", "age", "own", "reclaim", "scan", "purge", "drop"},
        key: Keys \cup {None}, by: Minters \cup {None}, at: Nat, todo: SUBSET Keys, left: SUBSET Keys,
        budget: 0..MaxDeletes]
Idle == [pc |-> "idle", key |-> None, by |-> None, at |-> 0, todo |-> {}, left |-> {}, budget |-> 0]

At(p, l) == job[p].pc = l
Finish(p) == job' = [job EXCEPT ![p] = Idle]
\* One of the boundedly many failures of something outside the plugin.
Fault == faults < MaxFaults /\ faults' = faults + 1 /\ UNCHANGED acts
\* One of the boundedly many acts of an operator.
Act == acts < MaxActs /\ acts' = acts + 1 /\ UNCHANGED faults
\* A call made as m fails: m is refused, or it is one of those failures.
CallFails(m) == IF m \in accepted THEN Fault ELSE UNCHANGED bounds

\* anyHealthyMinter, anyHealthyMinterInSet: what those who look for a healthy
\* minter may find.
Healthy == members \cap accepted
\* What deletes a key for its lease or for a purge: the minter that issued it as
\* long as it is in the set, else a healthy one.
Deleters(k) == IF issuer[k] \in members THEN {issuer[k]} ELSE Healthy

Init ==
    /\ clock = 0
    /\ live = {} /\ born = [k \in Keys |-> None] /\ issuer = [k \in Keys |-> None]
    /\ tracked = {} /\ ledger = [k \in Keys |-> None] /\ intent = None
    /\ lease = [k \in Keys |-> "none"]
    /\ members = Original /\ accepted = Minters
    /\ job = [p \in Procs |-> Idle]
    /\ unrecorded = {} /\ faults = 0 /\ acts = 0

-----------------------------------------------------------------------------
(* pathCredsRead. *)

\* State.HasRoom, on a count of the tracking entries that name m.
HasRoom(m) == Limit = 0 \/ Cardinality({k \in tracked : issuer[k] = m}) < Limit

\* preflight and selectMinter, before anything is created.
Issue(p) ==
    /\ p \in Issuers /\ At(p, "idle")
    /\ \E m \in Healthy :
        /\ HasRoom(m)
        /\ job' = [job EXCEPT ![p].pc = "create", ![p].by = m, ![p].at = clock]
    /\ UNCHANGED <<clock, cloud, storage, lease, minters, unrecorded, bounds>>

\* Exoscale makes a key for the issue of p.
NewKey(p, k) ==
    /\ job[p].by \in accepted /\ born[k] = None
    /\ live' = live \cup {k}
    /\ born' = [born EXCEPT ![k] = job[p].at]
    /\ issuer' = [issuer EXCEPT ![k] = job[p].by]

CreateAPIKey(p, k) ==
    /\ At(p, "create")
    /\ NewKey(p, k)
    /\ job' = [job EXCEPT ![p].pc = "record", ![p].key = k]
    /\ UNCHANGED <<clock, storage, lease, minters, unrecorded, bounds>>

\* The call is refused; or the key is made and the answer lost, and nobody
\* has its id.
CreateFail(p, k) ==
    /\ At(p, "create")
    /\ CallFails(job[p].by)
    /\ \/ UNCHANGED <<cloud, unrecorded>>
       \/ NewKey(p, k) /\ unrecorded' = unrecorded \cup {k}
    /\ Finish(p)
    /\ UNCHANGED <<clock, storage, lease, minters>>

\* mintledger.Record, whose failure is only logged.
Record(p) ==
    LET k == job[p].key IN
    /\ At(p, "record")
    /\ \/ /\ ledger' = [ledger EXCEPT ![k] = job[p].at]
          /\ UNCHANGED <<unrecorded, bounds>>
       \/ /\ Fault
          /\ unrecorded' = unrecorded \cup {k}
          /\ UNCHANGED ledger
    /\ job' = [job EXCEPT ![p].pc = "track"]
    /\ UNCHANGED <<clock, cloud, tracked, intent, lease, minters>>

TrackActiveKey(p) ==
    /\ At(p, "track")
    /\ \/ /\ tracked' = tracked \cup {job[p].key}
          /\ job' = [job EXCEPT ![p].pc = "register"]
          /\ UNCHANGED bounds
       \/ /\ Fault
          /\ job' = [job EXCEPT ![p].pc = "undo"]
          /\ UNCHANGED tracked
    /\ UNCHANGED <<clock, cloud, ledger, intent, lease, minters, unrecorded>>

\* The compensating delete is best effort.
Undo(p) ==
    /\ At(p, "undo")
    /\ \/ job[p].by \in accepted /\ live' = live \ {job[p].key} /\ UNCHANGED bounds
       \/ CallFails(job[p].by) /\ UNCHANGED live
    /\ Finish(p)
    /\ UNCHANGED <<clock, born, issuer, storage, lease, minters, unrecorded>>

\* OpenBao registers the lease of the response.
Register(p) ==
    /\ At(p, "register")
    /\ lease' = [lease EXCEPT ![job[p].key] = "active"]
    /\ Finish(p)
    /\ UNCHANGED <<clock, cloud, storage, minters, unrecorded, bounds>>

-----------------------------------------------------------------------------
(* pathCredsRevoke, which OpenBao calls until it succeeds. *)

\* The lease expires, or someone revokes it.
Expire(k) ==
    /\ lease[k] = "active"
    /\ lease' = [lease EXCEPT ![k] = "ending"]
    /\ UNCHANGED <<clock, cloud, storage, minters, job, unrecorded, bounds>>

Revoke(p, k) ==
    /\ p \in Revokers /\ At(p, "idle") /\ lease[k] = "ending"
    /\ \A q \in Revokers : job[q].key # k
    /\ \E m \in Deleters(k) :
        job' = [job EXCEPT ![p].pc = "revoke", ![p].key = k, ![p].by = m]
    /\ UNCHANGED <<clock, cloud, storage, lease, minters, unrecorded, bounds>>

\* Mutant of RevokeNoMinter: the ledger entry goes with the tracking entry.
RevokeNoMinterUnledgered(p, k) ==
    /\ p \in Revokers /\ At(p, "idle") /\ lease[k] = "ending" /\ Deleters(k) = {}
    /\ tracked' = tracked \ {k} /\ ledger' = [ledger EXCEPT ![k] = None]
    /\ lease' = [lease EXCEPT ![k] = "none"]
    /\ UNCHANGED <<clock, cloud, intent, minters, job, unrecorded, bounds>>

\* The issuing minter is gone from the set and no other is healthy: the key is
\* abandoned to the reconciler and the lease released.
RevokeNoMinter(p, k) ==
    /\ p \in Revokers /\ At(p, "idle") /\ lease[k] = "ending"
    /\ \A q \in Revokers : job[q].key # k
    /\ Deleters(k) = {}
    /\ \/ tracked' = tracked \ {k} /\ UNCHANGED bounds
       \/ Fault /\ UNCHANGED tracked
    /\ lease' = [lease EXCEPT ![k] = "none"]
    /\ UNCHANGED <<clock, cloud, ledger, intent, minters, job, unrecorded>>

\* Mutant of RevokeDelete: only a key that is still there can be deleted; a 404
\* is an error like any other.
RevokeDelete404(p) ==
    /\ At(p, "revoke")
    /\ \/ /\ job[p].by \in accepted /\ job[p].key \in live
          /\ live' = live \ {job[p].key}
          /\ job' = [job EXCEPT ![p].pc = "forget"]
       \/ /\ job[p].by \notin accepted \/ job[p].key \notin live
          /\ Finish(p) /\ UNCHANGED live
    /\ UNCHANGED <<clock, born, issuer, storage, lease, minters, unrecorded, bounds>>

\* The key is deleted, or was already gone; or the call fails, for one thing
\* because the minter is refused, and the lease stays, to be retried.
RevokeDelete(p) ==
    /\ At(p, "revoke")
    /\ \/ /\ job[p].by \in accepted
          /\ live' = live \ {job[p].key}
          /\ job' = [job EXCEPT ![p].pc = "forget"]
          /\ UNCHANGED bounds
       \/ CallFails(job[p].by) /\ Finish(p) /\ UNCHANGED live
    /\ UNCHANGED <<clock, born, issuer, storage, lease, minters, unrecorded>>

\* Failure to remove the tracking entry is only logged.
RevokeForget(p) ==
    /\ At(p, "forget")
    /\ \/ tracked' = tracked \ {job[p].key} /\ UNCHANGED bounds
       \/ Fault /\ UNCHANGED tracked
    /\ lease' = [lease EXCEPT ![job[p].key] = "none"]
    /\ Finish(p)
    /\ UNCHANGED <<clock, cloud, ledger, intent, minters, unrecorded>>

-----------------------------------------------------------------------------
(* reconciler.Run and mintledger.Prune. *)

\* The pass's time is read, then the cloud's list.
ReconcileList(p) ==
    /\ p \in Reconcilers /\ At(p, "idle")
    /\ \E m \in Healthy :
        job' = [job EXCEPT ![p].pc = "age", ![p].by = m, ![p].at = clock, ![p].todo = live,
                           ![p].budget = MaxDeletes]
    /\ UNCHANGED <<clock, cloud, storage, lease, minters, unrecorded, bounds>>

\* Mutant of ReconcileAge: a key the ledger does not know is taken to be old.
ReconcileAgeUnknown(p) ==
    /\ At(p, "age")
    /\ job' = [job EXCEPT ![p].pc = "own",
                          ![p].todo = {k \in @ : ledger[k] = None \/ job[p].at - ledger[k] >= Hold}]
    /\ UNCHANGED <<clock, cloud, storage, lease, minters, unrecorded, bounds>>

\* The listed keys old enough by the ledger.  A key it does not know is spared.
ReconcileAge(p) ==
    /\ At(p, "age")
    /\ job' = [job EXCEPT ![p].pc = "own",
                          ![p].todo = {k \in @ : ledger[k] # None /\ job[p].at - ledger[k] >= Hold}]
    /\ UNCHANGED <<clock, cloud, storage, lease, minters, unrecorded, bounds>>

\* Mutant of OwnedIDs: what the ledger knows counts as owned.
OwnedIDsLedgered(p) ==
    /\ At(p, "own")
    /\ job' = [job EXCEPT ![p].pc = "reclaim",
                          ![p].todo = @ \ (tracked \cup {k \in Keys : ledger[k] # None})]
    /\ UNCHANGED <<clock, cloud, storage, lease, minters, unrecorded, bounds>>

\* OwnedIDs: what has a tracking entry is no orphan.
OwnedIDs(p) ==
    /\ At(p, "own")
    /\ job' = [job EXCEPT ![p].pc = "reclaim", ![p].todo = @ \ tracked]
    /\ UNCHANGED <<clock, cloud, storage, lease, minters, unrecorded, bounds>>

\* Mutant of DeleteEntity: a failed attempt is charged twice.
DeleteEntityTwice(p, k) ==
    /\ At(p, "reclaim") /\ k \in job[p].todo /\ job[p].budget > 0
    /\ \/ /\ job[p].by \in accepted /\ live' = live \ {k} /\ UNCHANGED bounds
          /\ job' = [job EXCEPT ![p].todo = @ \ {k}, ![p].budget = @ - 1]
       \/ /\ CallFails(job[p].by) /\ UNCHANGED live
          /\ job' = [job EXCEPT ![p].todo = @ \ {k}, ![p].budget = @ - 2]
    /\ UNCHANGED <<clock, born, issuer, storage, lease, minters, unrecorded>>

\* An attempt is charged to the pass's budget whether or not it succeeds.
DeleteEntity(p, k) ==
    /\ At(p, "reclaim") /\ k \in job[p].todo /\ job[p].budget > 0
    /\ \/ job[p].by \in accepted /\ live' = live \ {k} /\ UNCHANGED bounds
       \/ CallFails(job[p].by) /\ UNCHANGED live
    /\ job' = [job EXCEPT ![p].todo = @ \ {k}, ![p].budget = @ - 1]
    /\ UNCHANGED <<clock, born, issuer, storage, lease, minters, unrecorded>>

\* The worker's pass goes on to prune the ledger; the endpoint's does not.
ReconcileEnd(p) ==
    /\ At(p, "reclaim") /\ (job[p].todo = {} \/ job[p].budget = 0)
    /\ \/ ledger' = [k \in Keys |->
                       IF ledger[k] # None /\ clock - ledger[k] > Retention THEN None
                       ELSE ledger[k]]
       \/ UNCHANGED ledger
    /\ Finish(p)
    /\ UNCHANGED <<clock, cloud, tracked, intent, lease, minters, unrecorded, bounds>>

-----------------------------------------------------------------------------
(* upstreampurge: Arm, Sweep, and the Advance they share. *)

Scan(cutoff) == {k \in tracked : born[k] <= cutoff}

\* A purge with nothing in scope is complete as it is armed.
Arm(p) ==
    /\ p \in Purgers /\ At(p, "idle")
    /\ Act
    /\ intent' = [cutoff |-> clock, complete |-> Scan(clock) = {}]
    /\ job' = [job EXCEPT ![p] = IF Scan(clock) = {} THEN Idle
                                 ELSE [Idle EXCEPT !.pc = "scan", !.at = clock]]
    /\ UNCHANGED <<clock, cloud, tracked, ledger, lease, minters, unrecorded>>

\* The worker takes up an unfinished purge; it works on the copy it loaded.
Sweep(p) ==
    /\ p \in Purgers /\ At(p, "idle")
    /\ intent # None /\ ~intent.complete
    /\ job' = [job EXCEPT ![p].pc = "scan", ![p].at = intent.cutoff]
    /\ UNCHANGED <<clock, cloud, storage, lease, minters, unrecorded, bounds>>

PurgeScan(p) ==
    /\ At(p, "scan")
    /\ job' = [job EXCEPT ![p].pc = "purge", ![p].budget = MaxDeletes,
                          ![p].todo = Scan(job[p].at), ![p].left = Scan(job[p].at)]
    /\ UNCHANGED <<clock, cloud, storage, lease, minters, unrecorded, bounds>>

\* Some minter that the purge would delete k with can delete it.
Deletable(k) == Deleters(k) \cap accepted # {}

\* Mutant of PurgeDelete: any answer counts as a delete.
PurgeDeleteBlind(p, k) ==
    /\ At(p, "purge") /\ k \in job[p].todo /\ job[p].budget > 0
    /\ job' = [job EXCEPT ![p].pc = "drop", ![p].key = k, ![p].todo = @ \ {k}, ![p].budget = @ - 1]
    /\ \/ Deletable(k) /\ live' = live \ {k}
       \/ UNCHANGED live
    /\ UNCHANGED <<clock, born, issuer, storage, lease, minters, unrecorded, bounds>>

\* Deleted; or refused (the minter, or the call; or there is no minter), which
\* costs budget; or throttled, which ends the pass.
PurgeDelete(p, k) ==
    /\ At(p, "purge") /\ k \in job[p].todo /\ job[p].budget > 0
    /\ \/ /\ Deletable(k)
          /\ live' = live \ {k}
          /\ job' = [job EXCEPT ![p].pc = "drop", ![p].key = k, ![p].todo = @ \ {k},
                                ![p].budget = @ - 1]
          /\ UNCHANGED bounds
       \/ /\ IF Deletable(k) THEN Fault ELSE UNCHANGED bounds
          /\ job' = [job EXCEPT ![p].todo = @ \ {k}, ![p].budget = @ - 1]
          /\ UNCHANGED live
       \/ /\ Deletable(k) /\ Fault
          /\ job' = [job EXCEPT ![p].todo = {}]
          /\ UNCHANGED live
    /\ UNCHANGED <<clock, born, issuer, storage, lease, minters, unrecorded>>

\* The record goes once its key is gone.  If storage fails, so does the pass,
\* and the intent is not saved.
PurgeDrop(p) ==
    /\ At(p, "drop")
    /\ \/ /\ tracked' = tracked \ {job[p].key}
          /\ job' = [job EXCEPT ![p].pc = "purge", ![p].key = None,
                                ![p].left = @ \ {job[p].key}]
          /\ UNCHANGED bounds
       \/ Fault /\ Finish(p) /\ UNCHANGED tracked
    /\ UNCHANGED <<clock, cloud, ledger, intent, lease, minters, unrecorded>>

\* Mutant of SaveIntent: a pass that reached its end has finished the purge.
SaveIntentDone(p) ==
    /\ At(p, "purge") /\ (job[p].todo = {} \/ job[p].budget = 0)
    /\ intent' = [cutoff |-> job[p].at, complete |-> TRUE]
    /\ Finish(p)
    /\ UNCHANGED <<clock, cloud, tracked, ledger, lease, minters, unrecorded, bounds>>

\* The intent as this goroutine knows it replaces the stored one.
SaveIntent(p) ==
    /\ At(p, "purge") /\ (job[p].todo = {} \/ job[p].budget = 0)
    /\ \/ intent' = [cutoff |-> job[p].at, complete |-> job[p].left = {}] /\ UNCHANGED bounds
       \/ Fault /\ UNCHANGED intent
    /\ Finish(p)
    /\ UNCHANGED <<clock, cloud, tracked, ledger, lease, minters, unrecorded>>

-----------------------------------------------------------------------------
\* An issue has no more than MaxOp for all its calls.
Tick ==
    /\ clock < MaxTime
    /\ \A p \in Issuers : At(p, "idle") \/ clock - job[p].at < MaxOp
    /\ clock' = clock + 1
    /\ UNCHANGED <<cloud, storage, lease, minters, job, unrecorded, bounds>>

\* An operator's write says which minters are in the set.
WriteSet(S) ==
    /\ S # members /\ Act
    /\ members' = S
    /\ UNCHANGED <<clock, cloud, storage, lease, accepted, job, unrecorded>>

\* A minter's credential stops being accepted, or is accepted again.
Refuse(m) ==
    /\ m \in accepted /\ Fault
    /\ accepted' = accepted \ {m}
    /\ UNCHANGED <<clock, cloud, storage, lease, members, job, unrecorded>>

Repair(m) ==
    /\ m \notin accepted /\ Act
    /\ accepted' = accepted \cup {m}
    /\ UNCHANGED <<clock, cloud, storage, lease, members, job, unrecorded>>

\* Failover.  A key whose id was only in memory is lost.
Crash ==
    /\ Fault
    /\ job' = [p \in Procs |-> Idle]
    /\ unrecorded' = unrecorded \cup {job[p].key : p \in {q \in Issuers : At(q, "record")}}
    /\ UNCHANGED <<clock, cloud, storage, lease, minters>>

IssueStep(p) ==
    \/ \E k \in Keys : CreateAPIKey(p, k) \/ CreateFail(p, k)
    \/ Record(p) \/ TrackActiveKey(p) \/ Undo(p) \/ Register(p)

RevokeStep(p) == RevokeDelete(p) \/ RevokeForget(p)

ReconcileStep(p) ==
    ReconcileAge(p) \/ OwnedIDs(p) \/ (\E k \in Keys : DeleteEntity(p, k)) \/ ReconcileEnd(p)

PurgeStep(p) == PurgeScan(p) \/ PurgeDrop(p) \/ SaveIntent(p) \/ \E k \in Keys : PurgeDelete(p, k)

Next ==
    \/ \E p \in Procs :
        \/ Issue(p) \/ IssueStep(p) \/ RevokeStep(p) \/ ReconcileStep(p) \/ PurgeStep(p)
        \/ ReconcileList(p) \/ Arm(p) \/ Sweep(p)
        \/ \E k \in Keys : Revoke(p, k) \/ RevokeNoMinter(p, k)
    \/ \E k \in Keys : Expire(k)
    \/ \E S \in SUBSET Minters : WriteSet(S)
    \/ \E m \in Minters : Refuse(m) \/ Repair(m)
    \/ Tick \/ Crash

Spec == Init /\ [][Next]_vars

\* Calls end; OpenBao retries a revoke until it succeeds; the workers' tickers
\* keep coming back.  Nothing obliges a client to ask or an operator to act.
Fairness ==
    /\ WF_vars(Tick)
    /\ \A p \in Issuers : WF_vars(IssueStep(p))
    /\ \A p \in Revokers :
        /\ WF_vars(RevokeStep(p))
        /\ \A k \in Keys : SF_vars(Revoke(p, k) \/ RevokeNoMinter(p, k))
    /\ \A p \in Reconcilers : SF_vars(ReconcileList(p) \/ ReconcileStep(p))
FairSpec == Spec /\ Fairness

-----------------------------------------------------------------------------
(* Properties. *)

InFlight(k) == \E p \in Issuers : job[p].key = k

\* The mount's records, the cloud's keys and every handler's locals have their types.
TypeOK ==
    /\ clock \in Nat /\ faults \in Nat /\ acts \in Nat
    /\ members \subseteq Minters /\ accepted \subseteq Minters
    /\ issuer \in [Keys -> Minters \cup {None}]
    /\ live \subseteq Keys /\ tracked \subseteq Keys /\ unrecorded \subseteq Keys
    /\ born \in [Keys -> Nat \cup {None}] /\ ledger \in [Keys -> Nat \cup {None}]
    /\ intent \in Intent \cup {None}
    /\ lease \in [Keys -> {"none", "active", "ending"}]
    /\ job \in [Procs -> Job]

\* While a client holds a lease on a key, or is about to be given one, nobody
\* but an operator's purge (or the issue's own compensation) deletes it: in
\* particular the reconciler never takes it for an orphan between its creation
\* and its tracking entry, however the pass interleaves with the issue.
LeasedKeysLive ==
    [][\A k \in live \ live' :
        lease[k] = "active" \/ InFlight(k) =>
            \/ \E p \in Purgers : PurgeDelete(p, k)
            \/ \E p \in Issuers : job[p].key = k /\ Undo(p)]_vars

\* A key that works is known to someone who can end it: its issue is running,
\* or it has a tracking entry, or the ledger lets the reconciler see its age.
\* The exceptions are the keys whose id or ledger entry was lost, and those that
\* lost their tracking entry after the ledger had forgotten them.
Reclaimable ==
    \A k \in live \ unrecorded :
        \/ InFlight(k) \/ k \in tracked \/ ledger[k] # None
        \/ clock - born[k] > Retention

\* A tracking entry outlives its key ("losing it before the credential is gone
\* strands it", Pass), except when a revoke finds no minter to delete with.
TrackedUntilGone ==
    [][\A k \in tracked \ tracked' :
        k \notin live \/ \E p \in Revokers : RevokeNoMinter(p, k)]_vars

\* A purge that says it is complete left no tracked key that was asked for more
\* than MaxOp before its cutoff, through throttling, failures, failovers and
\* several passes at once.  A key asked for later may still have been on its way
\* when the purge was armed, and escapes it.
PurgeComplete ==
    intent # None /\ intent.complete =>
        \A k \in tracked : born[k] + MaxOp >= intent.cutoff

\* A lease that ends is released, whatever the cloud answers and whichever minters
\* leave the set.  The exception is a lease whose issuing minter stays in the set
\* and is refused from some time on: the revocation does not fall back to another,
\* and is retried for ever.
LeasesEnd ==
    \A k \in Keys :
        []<>(issuer[k] \notin members \ accepted) => (lease[k] = "ending" ~> lease[k] = "none")

\* An orphan the reconciler may delete is deleted, if minters do not stay away
\* for ever, unless the ledger forgets it first.
OrphansDie ==
    []<>(Healthy # {}) =>
        \A k \in Keys :
            (k \in live \ tracked /\ ~InFlight(k) /\ ledger[k] # None /\ clock - ledger[k] >= Hold)
                ~> (k \notin live \/ ledger[k] = None)

\* Arm: "this call's cutoff is the one that applies".  Violated: a pass of the
\* worker that was under way saves the earlier intent over the new one.
RearmSticks ==
    [][intent # None => intent' # None /\ intent'.cutoff >= intent.cutoff]_vars

-----------------------------------------------------------------------------
(* The inductive invariant behind the safety properties. *)

\* Keys that Exoscale has made; those asked for more than MaxOp before c.
Made == {k \in Keys : born[k] # None}
Old(k, c) == born[k] + MaxOp < c

Issuing == {"create", "record", "track", "undo", "register"}
Holding == Issuing \ {"create"}

\* An issue ends within MaxOp; what it holds is the key it asked for, which by
\* the time of the response is tracked, or purged.
IssueInv(p) ==
    LET j == job[p] IN
    /\ j.pc \in Issuing => p \in Issuers /\ j.at <= clock /\ clock - j.at <= MaxOp
    /\ p \in Issuers => (j.pc \in Holding <=> j.key # None)
    /\ j.pc \in Holding => j.key \in Keys /\ born[j.key] = j.at
    /\ j.pc = "register" => (j.key \in live => j.key \in tracked)

\* A revocation keeps its lease until its key is gone.
RevokeInv(p) ==
    LET j == job[p] IN
    /\ j.pc \in {"revoke", "forget"} => p \in Revokers /\ j.key \in Keys /\ lease[j.key] = "ending"
    /\ j.pc = "forget" => j.key \notin live

\* What a pass takes for an orphan is no longer on its way to a client, and once
\* the tracking entries have been read, nobody's lease either.
ReconcileInv(p) ==
    LET j == job[p] IN
    /\ j.pc \in {"age", "own", "reclaim"} => p \in Reconcilers /\ j.at <= clock /\ j.todo \subseteq Made
    /\ j.pc \in {"own", "reclaim"} => \A k \in j.todo : ~InFlight(k)
    /\ j.pc = "reclaim" => \A k \in j.todo \cap live : lease[k] = "none"

\* A purge has yet to drop every tracked key that is old at its cutoff.
PurgeInv(p) ==
    LET j == job[p] IN
    /\ j.pc \in {"scan", "purge", "drop"} => p \in Purgers /\ j.at <= clock
    /\ j.pc \in {"purge", "drop"} =>
          j.todo \subseteq Made /\ \A k \in tracked : Old(k, j.at) => k \in j.left
    /\ j.pc = "drop" => j.key \in Made \ live

JobInv(p) ==
    /\ job[p].pc = "idle" => job[p] = Idle
    /\ IssueInv(p) /\ RevokeInv(p) /\ ReconcileInv(p) /\ PurgeInv(p)

\* The records of a key agree: the ledger's date is when it was asked for, a
\* lease on a key that works has its tracking entry, and a key whose id and date
\* were not lost is in the ledger until it is older than what that retains.
KeyInv(k) ==
    /\ k \in live \cup tracked => k \in Made
    /\ ledger[k] # None => ledger[k] = born[k]
    /\ lease[k] # "none" => k \in Made /\ ~InFlight(k) /\ (k \in live => k \in tracked)
    /\ k \in Made \ unrecorded =>
          \/ \E p \in Issuers : At(p, "record") /\ job[p].key = k
          \/ ledger[k] # None \/ clock - born[k] > Retention

\* No two issues, and no two revocations, have the same key in hand.
OneHandler ==
    \A S \in {Issuers, Revokers} : \A p, q \in S : job[p].key # None /\ job[p].key = job[q].key => p = q

IntentInv ==
    intent # None =>
        /\ intent.cutoff <= clock
        /\ intent.complete => \A k \in tracked : ~Old(k, intent.cutoff)

IInv ==
    /\ TypeOK /\ OneHandler /\ IntentInv
    /\ \A p \in Procs : JobInv(p)
    /\ \A k \in Keys : KeyInv(k)
=============================================================================
