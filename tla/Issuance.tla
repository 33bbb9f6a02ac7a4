------------------------------ MODULE Issuance ------------------------------
(***************************************************************************)
(* The life of a credential that a plugin issues on request, under a       *)
(* lease: the parts that Plugins puts together, plugin by plugin.          *)
(*                                                                         *)
(* A mount has one role and one minter set of several minters.  Any        *)
(* goroutine may serve a read of creds/<role>, a revoke, a reconcile pass  *)
(* or a purge; nothing here takes a lock.  A minter's health is ok or      *)
(* down (its credential is rejected) and is otherwise the Breaker          *)
(* module's; the set is rewritten behind the issue's back (MinterSet).     *)
(*                                                                         *)
(* JITLease has one minter and follows the budget of a pass and the mint   *)
(* ledger's retention; here several minters, the role's states, the        *)
(* lifetimes and the order of admission and mint are followed.             *)
(***************************************************************************)
EXTENDS Integers, FiniteSets

CONSTANTS
    PluginNames,  \* which plugins the mount may be of
    Goroutines,
    Minters, None,
    Limit,        \* credential_limit_per_minter, 0 for none
    TTL,          \* default_ttl of the role
    MaxTTL,       \* max_ttl of the role
    Lives,        \* lifetimes STS and IAM may give what they are asked for
    OAuthLife,    \* lifetime of an OVH access token
    Hold,         \* confirmation hold of the reconciler
    MaxOp,        \* longest admission, and longest mint, in ticks
    MaxKeys,      \* bound: credentials ever made
    MaxTime,      \* bound: last instant of the clock
    MaxFaults,    \* bound: failed calls, lost minters, failovers
    MaxActs       \* bound: what operators do to the role and to the set

Keys == 1..MaxKeys

ASSUME LifeAssumption ==
    /\ TTL \in Nat \ {0} /\ MaxTTL \in Nat /\ TTL <= MaxTTL
    /\ Lives \subseteq Nat \ {0} /\ Lives # {}
    /\ OAuthLife \in Nat /\ TTL <= OAuthLife
ASSUME HoldAssumption == Hold \in Nat /\ MaxOp \in Nat /\ MaxOp < Hold /\ Limit \in Nat
ASSUME BoundAssumption ==
    /\ MaxKeys \in Nat \ {0} /\ MaxTime \in Nat /\ MaxFaults \in Nat /\ MaxActs \in Nat
    /\ None \notin Nat /\ None \notin Minters

VARIABLES
    plugin,     \* which plugin the mount is of
    clock,
    role,       \* storage: roles/<name> is open, disabled or gone
    minter,     \* each minter: ok, down, retired, or gone from the set
    cred,       \* the cloud: what was made, for whom, until when
    live,       \* the cloud: the credentials that work
    tracked,    \* storage: active-*/
    ledger,     \* storage: mint-ledger/, where the cloud has no creation time
    intent,     \* storage: purge/<role>
    lease,      \* OpenBao: each credential's lease
    until,      \* OpenBao: when that lease ends
    job,        \* what each goroutine is doing
    closed,     \* history: since when the role is closed
    armed,      \* history: the latest cutoff of a purge
    faults, acts

upstream == <<cred, live>>
storage == <<role, tracked, ledger, intent>>
leases == <<lease, until>>
history == <<closed, armed>>
bounds == <<faults, acts>>
vars == <<plugin, clock, storage, minter, upstream, leases, job, history, bounds>>

Cred == [asked: Nat, made: Nat, by: Minters, ends: Nat \cup {None}]
Intent == [cutoff: Nat, complete: BOOLEAN]

\* No entry is none: what is stored for a credential is told from nothing.
ASSUME NoneAssumption == None \notin Cred
Issuing == {"admitted", "create", "record", "track", "undo", "register"}
Job == [pc: Issuing \cup {"idle", "revoke", "forget", "own", "reclaim", "scan", "purge", "drop"},
        key: Keys \cup {None}, by: Minters \cup {None}, at: Nat, ttl: Nat,
        todo: SUBSET Keys, left: SUBSET Keys]
Idle == [pc |-> "idle", key |-> None, by |-> None, at |-> 0, ttl |-> 0, todo |-> {}, left |-> {}]

At(p, l) == job[p].pc = l
Finish(p) == job' = [job EXCEPT ![p] = Idle]
Fault == faults < MaxFaults /\ faults' = faults + 1 /\ UNCHANGED acts
Act == acts < MaxActs /\ acts' = acts + 1 /\ UNCHANGED faults

Init ==
    /\ plugin \in PluginNames /\ clock = 0
    /\ role = "open" /\ minter = [m \in Minters |-> "ok"]
    /\ cred = [k \in Keys |-> None] /\ live = {}
    /\ tracked = {} /\ ledger = {} /\ intent = None
    /\ lease = [k \in Keys |-> "none"] /\ until = [k \in Keys |-> None]
    /\ job = [p \in Goroutines |-> Idle]
    /\ closed = None /\ armed = None /\ faults = 0 /\ acts = 0

-----------------------------------------------------------------------------
(* Choosing a minter. *)

Healthy == {m \in Minters : minter[m] = "ok"}
Outstanding(m) == {k \in tracked : cred[k].by = m}

\* Mutant of HasRoom: the limit itself still has room.
HasRoomLoose(m) == Limit = 0 \/ Cardinality(Outstanding(m)) <= Limit

\* State.HasRoom on Snapshot's count of the tracking entries.
HasRoom(m) == Limit = 0 \/ Cardinality(Outstanding(m)) < Limit

\* Whom a delete is sent through: the minter that issued, if the set still has
\* it, whatever its health; else any healthy one.
Deleters(k) == IF minter[cred[k].by] # "gone" THEN {cred[k].by} ELSE Healthy

-----------------------------------------------------------------------------
(* The read of creds/<role>. *)

\* The role is loaded, and what it asks of the caller is granted.
Admit(p, open) ==
    /\ At(p, "idle") /\ open
    /\ job' = [job EXCEPT ![p].pc = "admitted", ![p].at = clock]
    /\ UNCHANGED <<plugin, clock, storage, minter, upstream, leases, history, bounds>>

\* The minter is chosen on a count taken now and reserved by nothing.
Choose(p, fit) ==
    /\ At(p, "admitted")
    /\ \E m \in fit : job' = [job EXCEPT ![p].pc = "create", ![p].by = m, ![p].at = clock]
    /\ UNCHANGED <<plugin, clock, storage, minter, upstream, leases, history, bounds>>

\* No minter fits: the request is refused.
Refuse(p, fit) ==
    /\ At(p, "admitted") /\ fit = {}
    /\ Finish(p)
    /\ UNCHANGED <<plugin, clock, storage, minter, upstream, leases, history, bounds>>

\* The cloud makes the next credential, until the given instant.
Make(p, k, ends) ==
    /\ cred[k] = None /\ \A j \in Keys : j < k => cred[j] # None
    /\ cred' = [cred EXCEPT ![k] = [asked |-> job[p].at, made |-> clock, by |-> job[p].by,
                                    ends |-> ends]]
    /\ live' = live \cup {k}

Create(p, ends, next) ==
    /\ At(p, "create") /\ minter[job[p].by] # "down"
    /\ \E k \in Keys :
        /\ Make(p, k, ends)
        /\ job' = [job EXCEPT ![p].pc = next, ![p].key = k]
    /\ UNCHANGED <<plugin, clock, storage, minter, leases, history, bounds>>

\* Mutant of CreateFail: the error is not looked at.
CreateFailIgnored(p, ends) ==
    /\ At(p, "create") /\ Fault
    /\ job' = [job EXCEPT ![p].pc = "track"]
    /\ UNCHANGED <<plugin, clock, storage, minter, upstream, leases, history>>

\* The call fails; or the credential is made and the answer never comes.
CreateFail(p, ends) ==
    /\ At(p, "create")
    /\ \/ minter[job[p].by] = "down" /\ UNCHANGED <<upstream, bounds>>
       \/ (\A k \in Keys : cred[k] # None) /\ UNCHANGED <<upstream, bounds>>
       \/ Fault /\ UNCHANGED upstream
       \/ Fault /\ minter[job[p].by] # "down" /\ \E k \in Keys : Make(p, k, ends)
    /\ Finish(p)
    /\ UNCHANGED <<plugin, clock, storage, minter, leases, history>>

\* mintledger.Record, whose failure is only logged.
Ledger(p) ==
    /\ At(p, "record")
    /\ \/ ledger' = ledger \cup {job[p].key} /\ UNCHANGED bounds
       \/ Fault /\ UNCHANGED ledger
    /\ job' = [job EXCEPT ![p].pc = "track"]
    /\ UNCHANGED <<plugin, clock, role, tracked, intent, minter, upstream, leases, history>>

\* The tracking entry is written, or the credential is taken back.
TrackOrUndo(p, ttl) ==
    /\ At(p, "track")
    /\ \/ /\ tracked' = tracked \cup {job[p].key}
          /\ job' = [job EXCEPT ![p].pc = "register", ![p].ttl = ttl]
          /\ UNCHANGED bounds
       \/ /\ Fault
          /\ job' = [job EXCEPT ![p].pc = "undo"]
          /\ UNCHANGED tracked
    /\ UNCHANGED <<plugin, clock, role, ledger, intent, minter, upstream, leases, history>>

\* The compensating delete, through the client that created; best effort.
Undo(p) ==
    /\ At(p, "undo")
    /\ \/ minter[job[p].by] # "down" /\ live' = live \ {job[p].key} /\ UNCHANGED bounds
       \/ minter[job[p].by] = "down" /\ UNCHANGED <<live, bounds>>
       \/ Fault /\ UNCHANGED live
    /\ Finish(p)
    /\ UNCHANGED <<plugin, clock, storage, minter, cred, leases, history>>

\* Where the credential ends by itself, a failed tracking write is only logged.
TrackIfPossible(p, ttl) ==
    /\ At(p, "track")
    /\ \/ tracked' = tracked \cup {job[p].key} /\ UNCHANGED bounds
       \/ Fault /\ UNCHANGED tracked
    /\ job' = [job EXCEPT ![p].pc = "register", ![p].ttl = ttl]
    /\ UNCHANGED <<plugin, clock, role, ledger, intent, minter, upstream, leases, history>>

\* OpenBao stores the lease, or has the plugin revoke what it cannot lease.
Register(p) ==
    /\ At(p, "register")
    /\ \/ /\ lease' = [lease EXCEPT ![job[p].key] = "active"]
          /\ until' = [until EXCEPT ![job[p].key] = clock + job[p].ttl]
          /\ Finish(p) /\ UNCHANGED bounds
       \/ /\ Fault
          /\ job' = [job EXCEPT ![p] = [Idle EXCEPT !.pc = "revoke", !.key = job[p].key]]
          /\ UNCHANGED leases
    /\ UNCHANGED <<plugin, clock, storage, minter, upstream, history>>

-----------------------------------------------------------------------------
(* Renewal and revocation. *)

\* A renewal asks for the lease's TTL again; OpenBao holds it to MaxTTL.
Renew(k) ==
    /\ lease[k] = "active" /\ clock < until[k]
    /\ LET cap == cred[k].asked + MaxTTL IN
        until' = [until EXCEPT ![k] = IF clock + TTL < cap THEN clock + TTL
                                      ELSE IF @ < cap THEN cap ELSE @]
    /\ UNCHANGED <<plugin, clock, storage, minter, upstream, lease, job, history, bounds>>

\* The lease runs out, or somebody revokes it before.
Expire(k) ==
    /\ lease[k] = "active"
    /\ (clock >= until[k] /\ UNCHANGED bounds) \/ Act
    /\ lease' = [lease EXCEPT ![k] = "ending"]
    /\ UNCHANGED <<plugin, clock, storage, minter, upstream, until, job, history>>

\* OpenBao has one goroutine at a time revoke a lease.
Revoke(p, k) ==
    /\ At(p, "idle") /\ lease[k] = "ending"
    /\ \A q \in Goroutines : ~(job[q].pc \in {"revoke", "forget"} /\ job[q].key = k)
    /\ job' = [job EXCEPT ![p].pc = "revoke", ![p].key = k]
    /\ UNCHANGED <<plugin, clock, storage, minter, upstream, leases, history, bounds>>

\* The credential is deleted or was already gone; or the call fails, and OpenBao
\* will ask again if there is a lease.
RevokeDelete(p, by) ==
    LET k == job[p].key IN
    /\ At(p, "revoke")
    /\ \/ /\ \E m \in by : minter[m] # "down"
          /\ live' = live \ {k}
          /\ job' = [job EXCEPT ![p].pc = "forget"] /\ UNCHANGED bounds
       \/ /\ by # {}
          /\ \/ Fault
             \/ (\E m \in by : minter[m] = "down") /\ UNCHANGED bounds
          /\ Finish(p) /\ UNCHANGED live
    /\ UNCHANGED <<plugin, clock, storage, minter, cred, leases, history>>

\* The tracking entry goes (a failure is only logged), and the lease with it.
Forget(p) ==
    LET k == job[p].key IN
    /\ \/ tracked' = tracked \ {k} /\ UNCHANGED bounds
       \/ Fault /\ UNCHANGED tracked
    /\ lease' = [lease EXCEPT ![k] = IF @ = "ending" THEN "over" ELSE @]
    /\ Finish(p)
    /\ UNCHANGED <<plugin, clock, role, ledger, intent, minter, upstream, until, history>>

\* So they do at once where no minter is left to ask.
RevokeForget(p, by) ==
    /\ \/ At(p, "forget")
       \/ At(p, "revoke") /\ by = {}
    /\ Forget(p)

\* Where the cloud cannot revoke, a revoke only forgets.
RevokeLocally(p) == At(p, "revoke") /\ Forget(p)

-----------------------------------------------------------------------------
(* The reconcile pass, of the worker or of POST reconcile. *)

OldByDate == {k \in live : clock - cred[k].made >= Hold}
OldByLedger == {k \in live \cap ledger : clock - cred[k].asked >= Hold}

\* Through any healthy minter, what is listed and old enough; a listing that
\* fails ends the pass.
List(p, old) ==
    /\ At(p, "idle")
    /\ \E m \in Healthy : job' = [job EXCEPT ![p].pc = "own", ![p].by = m, ![p].todo = old]
    /\ UNCHANGED <<plugin, clock, storage, minter, upstream, leases, history, bounds>>

\* What the mount owns is spared.
Own(p, owned) ==
    /\ At(p, "own")
    /\ job' = [job EXCEPT ![p].pc = "reclaim", ![p].todo = @ \ owned]
    /\ UNCHANGED <<plugin, clock, storage, minter, upstream, leases, history, bounds>>

Reclaim(p) ==
    /\ At(p, "reclaim")
    /\ \/ \E k \in job[p].todo :
            /\ \/ minter[job[p].by] # "down" /\ live' = live \ {k} /\ UNCHANGED bounds
               \/ minter[job[p].by] = "down" /\ UNCHANGED <<live, bounds>>
               \/ Fault /\ UNCHANGED live
            /\ job' = [job EXCEPT ![p].todo = @ \ {k}]
       \/ job[p].todo = {} /\ Finish(p) /\ UNCHANGED <<live, bounds>>
    /\ UNCHANGED <<plugin, clock, storage, minter, cred, leases, history>>

\* localexpiry.PruneExpired: the entries whose recorded end has passed go.
PruneExpired(p, expired) ==
    /\ At(p, "idle") /\ expired # {}
    /\ tracked' = tracked \ expired
    /\ UNCHANGED <<plugin, clock, role, ledger, intent, minter, upstream, leases, job, history, bounds>>

-----------------------------------------------------------------------------
(* Endpoint.write, Endpoint.Sweep and Intent.Advance of upstreampurge. *)

Scan(cutoff) == {k \in tracked : cred[k].asked <= cutoff}

\* The intent is stored, complete if nothing is in scope; then a pass is made.
Arm(p) ==
    /\ At(p, "idle") /\ role # "gone" /\ Act
    /\ intent' = [cutoff |-> clock, complete |-> Scan(clock) = {}]
    /\ armed' = clock
    /\ job' = [job EXCEPT ![p] = IF Scan(clock) = {} THEN Idle
                                 ELSE [Idle EXCEPT !.pc = "scan", !.at = clock]]
    /\ UNCHANGED <<plugin, clock, role, tracked, ledger, minter, upstream, leases, closed>>

\* The worker skips a purge whose role is gone.
Sweep(p) ==
    /\ At(p, "idle") /\ role # "gone" /\ intent # None /\ ~intent.complete
    /\ job' = [job EXCEPT ![p].pc = "scan", ![p].at = intent.cutoff]
    /\ UNCHANGED <<plugin, clock, storage, minter, upstream, leases, history, bounds>>

PurgeScan(p) ==
    /\ At(p, "scan")
    /\ job' = [job EXCEPT ![p].pc = "purge", ![p].todo = Scan(job[p].at), ![p].left = Scan(job[p].at)]
    /\ UNCHANGED <<plugin, clock, storage, minter, upstream, leases, history, bounds>>

\* Deleted, or refused and left for the next pass; throttled, the pass ends.
PurgeDelete(p, k, by) ==
    /\ At(p, "purge") /\ k \in job[p].todo
    /\ \/ /\ \E m \in by : minter[m] # "down"
          /\ live' = live \ {k}
          /\ job' = [job EXCEPT ![p].pc = "drop", ![p].key = k, ![p].todo = @ \ {k}]
          /\ UNCHANGED bounds
       \/ /\ by = {} \/ \E m \in by : minter[m] = "down"
          /\ job' = [job EXCEPT ![p].todo = @ \ {k}]
          /\ UNCHANGED <<live, bounds>>
       \/ /\ Fault /\ UNCHANGED live
          /\ job' = [job EXCEPT ![p].todo = @ \ {k}] \/ job' = [job EXCEPT ![p].todo = {}]
    /\ UNCHANGED <<plugin, clock, storage, minter, cred, leases, history>>

\* The record goes once its credential is gone; if that fails the pass ends there.
PurgeDrop(p) ==
    /\ At(p, "drop")
    /\ \/ /\ tracked' = tracked \ {job[p].key}
          /\ job' = [job EXCEPT ![p].pc = "purge", ![p].key = None, ![p].left = @ \ {job[p].key}]
          /\ UNCHANGED bounds
       \/ Fault /\ Finish(p) /\ UNCHANGED tracked
    /\ UNCHANGED <<plugin, clock, role, ledger, intent, minter, upstream, leases, history>>

SaveIntent(p) ==
    /\ At(p, "purge") /\ job[p].todo = {}
    /\ \/ intent' = [cutoff |-> job[p].at, complete |-> job[p].left = {}] /\ UNCHANGED bounds
       \/ Fault /\ UNCHANGED intent
    /\ Finish(p)
    /\ UNCHANGED <<plugin, clock, role, tracked, ledger, minter, upstream, leases, history>>

-----------------------------------------------------------------------------
(* Time, operators and failures. *)

\* An admission and a mint have no more than MaxOp each.  What has an end, ends.
Tick ==
    /\ clock < MaxTime
    /\ \A p \in Goroutines : job[p].pc \in Issuing => clock - job[p].at < MaxOp
    /\ clock' = clock + 1
    /\ live' = {k \in live : cred[k].ends = None \/ cred[k].ends > clock'}
    /\ UNCHANGED <<plugin, storage, minter, cred, leases, job, history, bounds>>

\* roles/<name> is written with disabled set, or cleared; or deleted.
RoleWrite(r) ==
    /\ Act /\ r # role
    /\ role' = r
    /\ closed' = IF r = "open" THEN None ELSE IF closed = None THEN clock ELSE closed
    /\ UNCHANGED <<plugin, clock, tracked, ledger, intent, minter, upstream, leases, job, armed>>

\* A minter's credential stops being accepted, or is accepted again; a minter is
\* rotated out; a set write or the sweep of retired minters drops it.
MinterFails(m) ==
    /\ minter[m] = "ok" /\ Fault
    /\ minter' = [minter EXCEPT ![m] = "down"]
    /\ UNCHANGED <<plugin, clock, storage, upstream, leases, job, history>>

MinterRepaired(m) ==
    /\ minter[m] = "down"
    /\ minter' = [minter EXCEPT ![m] = "ok"]
    /\ UNCHANGED <<plugin, clock, storage, upstream, leases, job, history, bounds>>

MinterLeaves(m) ==
    /\ Act
    /\ \/ minter[m] \in {"ok", "down"} /\ minter' = [minter EXCEPT ![m] = "retired"]
       \/ minter[m] # "gone" /\ minter' = [minter EXCEPT ![m] = "gone"]
    /\ UNCHANGED <<plugin, clock, storage, upstream, leases, job, history>>

Crash ==
    /\ Fault
    /\ job' = [p \in Goroutines |-> Idle]
    /\ UNCHANGED <<plugin, clock, storage, minter, upstream, leases, history>>
=============================================================================
