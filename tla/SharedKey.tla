----------------------------- MODULE SharedKey -----------------------------
(***************************************************************************)
(* The shared Spaces key of one rotated DigitalOcean role                  *)
(* (plugins/credential-do/spaces_shared.go, spaces_shared_creds.go,        *)
(* path_rotate_shared.go, and the parts of path_roles.go and path_purge.go *)
(* that touch the same records).                                           *)
(*                                                                         *)
(* One role has ONE persisted record (cur, retiring) under                 *)
(* shared-spaces-keys/<role>, one tracking record per live key under       *)
(* active-spaces-keys/<key>, and the keys themselves at DigitalOcean.      *)
(* Readers re-serve cur without a lock; rotations, the sweep's deletions   *)
(* and the purge's pruning take the role's lock.  Between any two storage  *)
(* or API calls other processes, the clock, an operator's role write, an   *)
(* error or a failover may intervene.                                      *)
(*                                                                         *)
(* Simplifications: roles only share hash stripes, so one role is          *)
(* modelled; which minter is chosen is left out and "no minter can serve"  *)
(* is one of the ways a call fails; secrets, names and responses are       *)
(* reduced to which key is handed out and until when; the attributes of a  *)
(* key that the record stores (minted, rotateAt, deleteAt, grants) are     *)
(* functions of the key, written in the very step that writes the record.  *)
(***************************************************************************)
EXTENDS Integers, FiniteSets

CONSTANTS
    Keys,         \* access keys DigitalOcean may hand out
    NoKey,        \* the absence of a current key
    Readers,      \* goroutines serving creds/<role>
    Operators,    \* goroutines serving roles/<role>/rotate
    Sweepers,     \* the shared-spaces-keys worker
    Purgers,      \* a revoke-upstream request or the upstream-purge worker
    NoProc,       \* the lock is free
    Privileges,   \* what a grant may allow
    RoleConfigs,  \* role definitions an operator may write
    NoRole,       \* the role entry does not exist
    Hold,         \* the reconciler's confirmation hold
    MaxOp,        \* longest time an operation acts on the instant it read
    MaxTime,      \* bound: last instant of the clock
    MaxWrites,    \* bound: role writes and deletes
    MaxCrashes,   \* bound: failovers
    UntrackFails  \* whether deleting a tracking record may fail while undoing

Procs == Readers \cup Operators \cup Sweepers \cup Purgers

\* What path_roles.go accepts: ttl stands for default_ttl, which ValidateRole
\* keeps at or below max_ttl, which the lifecycle check keeps at or below
\* overlap_ttl.
ValidRole(r) ==
    /\ r.period > 0
    /\ 0 < r.overlap /\ r.overlap <= r.period
    /\ 0 <= r.jitter /\ r.jitter < r.period
    /\ 0 < r.ttl /\ r.ttl <= r.overlap

RoleType ==
    [grants: SUBSET Privileges, period: Nat, jitter: Nat, overlap: Nat, ttl: Nat,
     disabled: BOOLEAN, rotated: BOOLEAN]

ASSUME RoleAssumption ==
    /\ RoleConfigs \subseteq RoleType
    /\ \A r \in RoleConfigs : ValidRole(r)
    /\ NoRole \notin RoleConfigs
ASSUME KeyAssumption == NoKey \notin Keys
ASSUME ProcAssumption ==
    /\ NoProc \notin Procs
    /\ Readers \cap Operators = {} /\ Readers \cap Sweepers = {}
    /\ Readers \cap Purgers = {} /\ Operators \cap Sweepers = {}
    /\ Operators \cap Purgers = {} /\ Sweepers \cap Purgers = {}
ASSUME BoundAssumption ==
    /\ MaxOp \in Nat /\ Hold \in Nat /\ MaxOp < Hold
    /\ MaxTime \in Nat /\ MaxWrites \in Nat /\ MaxCrashes \in Nat
    /\ UntrackFails \in BOOLEAN

VARIABLES
    clock,
    role, writes,            \* roles/<role>; how many times it was written
    cur, retiring,           \* shared-spaces-keys/<role>
    minted, rotateAt, grants, deleteAt,   \* attributes in that record
    tracked,                 \* active-spaces-keys/
    upstream, used, born,    \* DigitalOcean: live keys, ever created, created_at
    leaseEnd,                \* when the last lease handed out on a key expires
    lock,                    \* who holds the role's stripe
    job,                     \* what each goroutine is doing
    crashes

admin == <<role, writes>>
store == <<cur, retiring, minted, rotateAt, grants, deleteAt>>
cloud == <<upstream, used, born>>
vars == <<clock, admin, store, tracked, cloud, leaseEnd, lock, job, crashes>>

Recorded == retiring \cup ({cur} \ {NoKey})

Rotating == {"mint", "track", "save", "undo"}
Sweeping == {"sweep", "untrack"}
Locked == Rotating \cup Sweeping
\* The goroutine acts on an instant it read earlier.
Timed == Locked \cup {"sweeplock", "rotlock"}
PC == Timed \cup {"idle", "check", "lock", "purge", "forget", "purged"}

\* A goroutine's locals: the role, instant and record it read, the key it is
\* working on, and the keys it has still to visit.
Job == [pc: PC, role: RoleConfigs \cup {NoRole}, now: Nat, key: Keys \cup {NoKey},
        cur: Keys \cup {NoKey}, ret: SUBSET Keys, todo: SUBSET Keys]
Idle == [pc |-> "idle", role |-> NoRole, now |-> 0, key |-> NoKey,
         cur |-> NoKey, ret |-> {}, todo |-> {}]

Least(a, b) == IF a <= b THEN a ELSE b
Greatest(a, b) == IF a >= b THEN a ELSE b

-----------------------------------------------------------------------------
(* The schedule of a key, from the role as it stands. *)

DueAt(k, r) == Least(rotateAt[k], minted[k] + r.period)
Deadline(k, r) == DueAt(k, r) + r.overlap
ServableUntil(k, r) == Least(minted[k] + r.period, Deadline(k, r))

RotationReason(r, now) ==
    CASE cur = NoKey -> "unminted"
      [] cur # NoKey /\ grants[cur] # r.grants -> "grants"
      [] cur # NoKey /\ grants[cur] = r.grants /\ DueAt(cur, r) <= now -> "age"
      [] OTHER -> "none"

\* The lease a reader gets on key k, due for rotation at due: default_ttl
\* clamped to the earliest moment the schedule could delete k.
Lease(k, due, r, now) ==
    leaseEnd' = [leaseEnd EXCEPT
        ![k] = Greatest(@, now + Least(r.ttl, due + r.overlap - now))]

At(p, l) == job[p].pc = l
Finish(p) == job' = [job EXCEPT ![p] = Idle]

-----------------------------------------------------------------------------
Init ==
    /\ clock = 0
    /\ role \in RoleConfigs \cup {NoRole} /\ writes = 0
    /\ cur = NoKey /\ retiring = {}
    /\ minted = [k \in Keys |-> 0] /\ rotateAt = [k \in Keys |-> 0]
    /\ grants = [k \in Keys |-> {}] /\ deleteAt = [k \in Keys |-> 0]
    /\ tracked = {}
    /\ upstream = {} /\ used = {} /\ born = [k \in Keys |-> 0]
    /\ leaseEnd = [k \in Keys |-> 0]
    /\ lock = NoProc
    /\ job = [p \in Procs |-> Idle]
    /\ crashes = 0

-----------------------------------------------------------------------------
(* Reading a credential: serveSharedSpacesKey. *)

\* loadRole: the role is read, and refused when disabled, before any lock.
\* An operator's roles/<role>/rotate begins the same way.
LoadRole(p) ==
    /\ p \in Readers \cup Operators /\ At(p, "idle")
    /\ role # NoRole /\ ~role.disabled /\ role.rotated
    /\ job' = [job EXCEPT ![p].role = role,
                          ![p].pc = IF p \in Readers THEN "check" ELSE "lock"]
    /\ UNCHANGED <<clock, admin, store, tracked, cloud, leaseEnd, lock, crashes>>

\* The lock-free re-serve, or the decision that the key must be replaced.
ReadCheck(p) ==
    /\ At(p, "check")
    /\ IF RotationReason(job[p].role, clock) = "none"
         THEN /\ Lease(cur, DueAt(cur, job[p].role), job[p].role, clock)
              /\ Finish(p)
         ELSE /\ job' = [job EXCEPT ![p].pc = "lock"]
              /\ UNCHANGED leaseEnd
    /\ UNCHANGED <<clock, admin, store, tracked, cloud, lock, crashes>>

\* Mutant of Decide: the decision made before the lock is not made again.
DecideOnce(p) ==
    /\ p \in Readers \cup Operators /\ At(p, "lock") /\ lock = NoProc
    /\ job' = [job EXCEPT ![p].pc = "mint", ![p].now = clock,
                          ![p].cur = cur, ![p].ret = retiring]
    /\ lock' = p
    /\ UNCHANGED <<clock, admin, store, tracked, cloud, leaseEnd, crashes>>

\* Under the lock: a fresh instant, a fresh record, and for a reader the
\* decision again.  The role is still the one read before the lock; an
\* operator's rotation needs no reason.
Decide(p) ==
    /\ p \in Readers \cup Operators /\ At(p, "lock") /\ lock = NoProc
    /\ IF p \in Readers /\ RotationReason(job[p].role, clock) = "none"
         THEN /\ Lease(cur, DueAt(cur, job[p].role), job[p].role, clock)
              /\ Finish(p)
              /\ UNCHANGED lock
         ELSE /\ job' = [job EXCEPT ![p].pc = "mint", ![p].now = clock,
                                    ![p].cur = cur, ![p].ret = retiring]
              /\ lock' = p
              /\ UNCHANGED leaseEnd
    /\ UNCHANGED <<clock, admin, store, tracked, cloud, crashes>>

-----------------------------------------------------------------------------
(* rotateSharedSpacesKey: create, track, save; each failure undoes what     *)
(* came before it.  The lock is held throughout.                            *)

\* A rotation that came to nothing.  A reader falls back to the key it was
\* about to replace when that key is merely old (serveOverdueKey).
RotationFailed(p) ==
    LET k == job[p].cur
        r == job[p].role
        now == job[p].now
    IN  /\ lock' = NoProc
        /\ Finish(p)
        /\ IF /\ p \in Readers /\ k # NoKey
              /\ grants[k] = r.grants /\ DueAt(k, r) <= now
              /\ now < ServableUntil(k, r)
           THEN Lease(k, DueAt(k, r), r, now)
           ELSE UNCHANGED leaseEnd

\* DigitalOcean creates a key.
Create(k) ==
    /\ k \notin used
    /\ upstream' = upstream \cup {k}
    /\ used' = used \cup {k}
    /\ born' = [born EXCEPT ![k] = clock]

CreateOK(p, k) ==
    /\ At(p, "mint") /\ Create(k)
    /\ job' = [job EXCEPT ![p].pc = "track", ![p].key = k]
    /\ UNCHANGED <<clock, admin, store, tracked, leaseEnd, lock, crashes>>

\* No capacity, no minter, no name, or the create was refused.
CreateFail(p) ==
    /\ At(p, "mint")
    /\ RotationFailed(p)
    /\ UNCHANGED <<clock, admin, store, tracked, cloud, crashes>>

\* The key was created and the answer lost: the code sees an error.
CreateLost(p, k) ==
    /\ At(p, "mint") /\ Create(k)
    /\ RotationFailed(p)
    /\ UNCHANGED <<clock, admin, store, tracked, crashes>>

Track(p) ==
    /\ At(p, "track")
    /\ \/ /\ tracked' = tracked \cup {job[p].key}
          /\ job' = [job EXCEPT ![p].pc = "save"]
       \/ /\ job' = [job EXCEPT ![p].pc = "undo"]
          /\ UNCHANGED tracked
    /\ UNCHANGED <<clock, admin, store, cloud, leaseEnd, lock, crashes>>

\* Mutant of SaveOK: the replaced key gets no overlap.
SaveNoOverlap(p) ==
    LET k == job[p].key
        r == job[p].role
        now == job[p].now
        old == job[p].cur
    IN  /\ At(p, "save")
        /\ \E due \in (now + r.period - r.jitter)..(now + r.period) :
             /\ rotateAt' = [rotateAt EXCEPT ![k] = due]
             /\ IF p \in Readers THEN Lease(k, due, r, now) ELSE UNCHANGED leaseEnd
        /\ cur' = k
        /\ minted' = [minted EXCEPT ![k] = now]
        /\ grants' = [grants EXCEPT ![k] = r.grants]
        /\ retiring' = job[p].ret \cup ({old} \ {NoKey})
        /\ deleteAt' = [x \in Keys |-> IF x = old THEN now ELSE deleteAt[x]]
        /\ lock' = NoProc
        /\ Finish(p)
        /\ UNCHANGED <<clock, admin, tracked, cloud, crashes>>

\* The one write that makes the new key current and the old one retiring.
\* The jitter is subtracted from the period.
SaveOK(p) ==
    LET k == job[p].key
        r == job[p].role
        now == job[p].now
        old == job[p].cur
    IN  /\ At(p, "save")
        /\ \E due \in (now + r.period - r.jitter)..(now + r.period) :
             /\ rotateAt' = [rotateAt EXCEPT ![k] = due]
             /\ IF p \in Readers THEN Lease(k, due, r, now) ELSE UNCHANGED leaseEnd
        /\ cur' = k
        /\ minted' = [minted EXCEPT ![k] = now]
        /\ grants' = [grants EXCEPT ![k] = r.grants]
        /\ retiring' = job[p].ret \cup ({old} \ {NoKey})
        /\ deleteAt' = [x \in Keys |-> IF x = old THEN now + r.overlap ELSE deleteAt[x]]
        /\ lock' = NoProc
        /\ Finish(p)
        /\ UNCHANGED <<clock, admin, tracked, cloud, crashes>>

\* Mutant of SaveFail: the tracking record is not rolled back.
SaveFailKeepsTracking(p) ==
    /\ At(p, "save")
    /\ job' = [job EXCEPT ![p].pc = "undo"]
    /\ UNCHANGED <<clock, admin, store, tracked, cloud, leaseEnd, lock, crashes>>

\* The write failed: the tracking record is rolled back too, if it can be.
SaveFail(p) ==
    /\ At(p, "save")
    /\ \/ tracked' = tracked \ {job[p].key}
       \/ UntrackFails /\ UNCHANGED tracked
    /\ job' = [job EXCEPT ![p].pc = "undo"]
    /\ UNCHANGED <<clock, admin, store, cloud, leaseEnd, lock, crashes>>

\* Best effort: a key that cannot be deleted is left for the reconciler.
Undo(p) ==
    /\ At(p, "undo")
    /\ \/ upstream' = upstream \ {job[p].key}
       \/ UNCHANGED upstream
    /\ RotationFailed(p)
    /\ UNCHANGED <<clock, admin, store, tracked, used, born, crashes>>

-----------------------------------------------------------------------------
(* The worker: sweepSharedSpacesKeys.  One instant serves the whole pass.   *)

SweepStart(p) ==
    /\ p \in Sweepers /\ At(p, "idle")
    /\ job' = [job EXCEPT ![p].pc = "sweeplock", ![p].now = clock]
    /\ UNCHANGED <<clock, admin, store, tracked, cloud, leaseEnd, lock, crashes>>

\* Mutant of SweepLoad: the pass does not take the role's lock.
SweepLoadUnlocked(p) ==
    /\ At(p, "sweeplock")
    /\ job' = [job EXCEPT ![p].pc = "sweep", ![p].cur = cur, ![p].ret = retiring,
                          ![p].todo = {k \in retiring : deleteAt[k] <= job[p].now}]
    /\ UNCHANGED <<clock, admin, store, tracked, cloud, leaseEnd, lock, crashes>>

SweepLoad(p) ==
    /\ At(p, "sweeplock") /\ lock = NoProc
    /\ lock' = p
    /\ job' = [job EXCEPT ![p].pc = "sweep", ![p].cur = cur, ![p].ret = retiring,
                          ![p].todo = {k \in retiring : deleteAt[k] <= job[p].now}]
    /\ UNCHANGED <<clock, admin, store, tracked, cloud, leaseEnd, crashes>>

\* Mutant of SweepDelete: a refused delete is not noticed.
SweepDeleteUnchecked(p, k) ==
    /\ At(p, "sweep") /\ k \in job[p].todo
    /\ upstream' \in {upstream, upstream \ {k}}
    /\ job' = [job EXCEPT ![p].pc = "untrack", ![p].key = k]
    /\ UNCHANGED <<clock, admin, store, tracked, used, born, leaseEnd, lock, crashes>>

\* deleteRetiredSpacesKey, first half; 404 counts as deleted.
SweepDelete(p, k) ==
    /\ At(p, "sweep") /\ k \in job[p].todo
    /\ upstream' = upstream \ {k}
    /\ job' = [job EXCEPT ![p].pc = "untrack", ![p].key = k]
    /\ UNCHANGED <<clock, admin, store, tracked, used, born, leaseEnd, lock, crashes>>

\* Mutant of SweepDeleteFail: the entry is dropped although its key lives on.
SweepDropOnFail(p, k) ==
    /\ At(p, "sweep") /\ k \in job[p].todo
    /\ job' = [job EXCEPT ![p].todo = @ \ {k}, ![p].ret = @ \ {k}]
    /\ UNCHANGED <<clock, admin, store, tracked, cloud, leaseEnd, lock, crashes>>

\* No minter, or DigitalOcean refused: the entry stays for the next pass.
SweepDeleteFail(p, k) ==
    /\ At(p, "sweep") /\ k \in job[p].todo
    /\ job' = [job EXCEPT ![p].todo = @ \ {k}]
    /\ UNCHANGED <<clock, admin, store, tracked, cloud, leaseEnd, lock, crashes>>

\* Second half: the tracking record goes, and with it the retiring entry.  An
\* entry whose tracking record could not be removed stays for the next pass.
SweepUntrack(p) ==
    LET k == job[p].key IN
    /\ At(p, "untrack")
    /\ \/ /\ tracked' = tracked \ {k}
          /\ job' = [job EXCEPT ![p].pc = "sweep", ![p].todo = @ \ {k},
                                ![p].ret = @ \ {k}]
       \/ /\ job' = [job EXCEPT ![p].pc = "sweep", ![p].todo = @ \ {k}]
          /\ UNCHANGED tracked
    /\ UNCHANGED <<clock, admin, store, cloud, leaseEnd, lock, crashes>>

\* The pruned record is written back (or that write fails) and the lock freed.
SweepSave(p) ==
    /\ At(p, "sweep") /\ job[p].todo = {}
    /\ \/ cur' = job[p].cur /\ retiring' = job[p].ret
       \/ UNCHANGED <<cur, retiring>>
    /\ lock' = NoProc
    /\ job' = [job EXCEPT ![p].pc = "rotlock", ![p].key = NoKey]
    /\ UNCHANGED <<clock, admin, minted, rotateAt, grants, deleteAt, tracked,
                   cloud, leaseEnd, crashes>>

\* rotateRoleIfOverdue: role and record are both read under the lock, and are
\* judged at the instant the pass began.
SweepRotate(p) ==
    /\ At(p, "rotlock") /\ lock = NoProc
    /\ IF /\ role # NoRole /\ role.rotated /\ ~role.disabled
          /\ cur # NoKey
          /\ RotationReason(role, job[p].now) # "none"
         THEN /\ lock' = p
              /\ job' = [job EXCEPT ![p].pc = "mint", ![p].role = role,
                                    ![p].cur = cur, ![p].ret = retiring]
         ELSE /\ Finish(p)
              /\ UNCHANGED lock
    /\ UNCHANGED <<clock, admin, store, tracked, cloud, leaseEnd, crashes>>

-----------------------------------------------------------------------------
(* The purge lever, as far as it touches this role's records.               *)

\* resolvePurgeTarget (which accepts a disabled role) and the scan of the
\* tracking prefix.
PurgeScan(p) ==
    /\ p \in Purgers /\ At(p, "idle")
    /\ role # NoRole /\ tracked # {}
    /\ job' = [job EXCEPT ![p].pc = "purge", ![p].role = role, ![p].todo = tracked]
    /\ UNCHANGED <<clock, admin, store, tracked, cloud, leaseEnd, lock, crashes>>

\* purgeDeleter: upstream first; only a rotated role has a record to prune.
PurgeDelete(p, k) ==
    /\ At(p, "purge") /\ k \in job[p].todo
    /\ upstream' = upstream \ {k}
    /\ job' = [job EXCEPT ![p].key = k,
                          ![p].pc = IF job[p].role.rotated THEN "forget" ELSE "purged"]
    /\ UNCHANGED <<clock, admin, store, tracked, used, born, leaseEnd, lock, crashes>>

PurgeDeleteFail(p, k) ==
    /\ At(p, "purge") /\ k \in job[p].todo
    /\ job' = [job EXCEPT ![p].todo = @ \ {k}]
    /\ UNCHANGED <<clock, admin, store, tracked, cloud, leaseEnd, lock, crashes>>

\* Mutant of Forget: the record is pruned without the role's lock.
ForgetUnlocked(p) ==
    LET k == job[p].key IN
    /\ At(p, "forget")
    /\ cur' = (IF cur = k THEN NoKey ELSE cur)
    /\ retiring' = retiring \ {k}
    /\ job' = [job EXCEPT ![p].pc = "purged"]
    /\ UNCHANGED <<clock, admin, minted, rotateAt, grants, deleteAt,
                   tracked, cloud, leaseEnd, lock, crashes>>

\* forgetSharedSpacesKey, under the lock; a failed read or write of the record
\* fails this key's purge and keeps its tracking record.
Forget(p) ==
    LET k == job[p].key IN
    /\ At(p, "forget") /\ lock = NoProc
    /\ \/ /\ cur' = (IF cur = k THEN NoKey ELSE cur)
          /\ retiring' = retiring \ {k}
          /\ job' = [job EXCEPT ![p].pc = "purged"]
       \/ /\ job' = [job EXCEPT ![p].pc = "purge", ![p].todo = @ \ {k}]
          /\ UNCHANGED <<cur, retiring>>
    /\ UNCHANGED <<clock, admin, minted, rotateAt, grants, deleteAt,
                   tracked, cloud, leaseEnd, lock, crashes>>

\* The pass removes the tracking record of what it deleted, or fails to.
PurgeUntrack(p) ==
    /\ At(p, "purged")
    /\ \/ tracked' = tracked \ {job[p].key}
       \/ UNCHANGED tracked
    /\ job' = [job EXCEPT ![p].pc = "purge", ![p].todo = @ \ {job[p].key}]
    /\ UNCHANGED <<clock, admin, store, cloud, leaseEnd, lock, crashes>>

PurgeEnd(p) ==
    /\ At(p, "purge") /\ job[p].todo = {}
    /\ Finish(p)
    /\ UNCHANGED <<clock, admin, store, tracked, cloud, leaseEnd, lock, crashes>>

-----------------------------------------------------------------------------
(* The environment. *)

RoleWrite(r) ==
    /\ writes < MaxWrites /\ r # role
    /\ role' = r /\ writes' = writes + 1
    /\ UNCHANGED <<clock, store, tracked, cloud, leaseEnd, lock, job, crashes>>

RoleDelete ==
    /\ writes < MaxWrites /\ role # NoRole
    /\ role' = NoRole /\ writes' = writes + 1
    /\ UNCHANGED <<clock, store, tracked, cloud, leaseEnd, lock, job, crashes>>

\* The owner-tag reconciler deletes what is upstream, untracked and old enough.
Reconcile(k) ==
    /\ k \in upstream \ tracked
    /\ born[k] + Hold <= clock
    /\ upstream' = upstream \ {k}
    /\ UNCHANGED <<clock, admin, store, tracked, used, born, leaseEnd, lock, job, crashes>>

\* An operation never acts on an instant more than MaxOp in the past.
Tick ==
    /\ clock < MaxTime
    /\ \A p \in Procs : job[p].pc \in Timed => clock < job[p].now + MaxOp
    /\ clock' = clock + 1
    /\ UNCHANGED <<admin, store, tracked, cloud, leaseEnd, lock, job, crashes>>

\* Failover: every goroutine and every mutex is gone, storage remains.
Crash ==
    /\ crashes < MaxCrashes
    /\ job # [p \in Procs |-> Idle]
    /\ crashes' = crashes + 1
    /\ lock' = NoProc
    /\ job' = [p \in Procs |-> Idle]
    /\ UNCHANGED <<clock, admin, store, tracked, cloud, leaseEnd>>

-----------------------------------------------------------------------------
Rotate(p) ==
    \/ CreateFail(p) \/ Track(p) \/ SaveOK(p) \/ SaveFail(p) \/ Undo(p)
    \/ \E k \in Keys : CreateOK(p, k) \/ CreateLost(p, k)

Serve(p) == LoadRole(p) \/ ReadCheck(p) \/ Decide(p)

Sweep(p) ==
    \/ SweepStart(p) \/ SweepLoad(p) \/ SweepUntrack(p) \/ SweepSave(p) \/ SweepRotate(p)
    \/ \E k \in Keys : SweepDelete(p, k) \/ SweepDeleteFail(p, k)

Purge(p) ==
    \/ PurgeScan(p) \/ Forget(p) \/ PurgeUntrack(p) \/ PurgeEnd(p)
    \/ \E k \in Keys : PurgeDelete(p, k) \/ PurgeDeleteFail(p, k)

Env ==
    \/ \E r \in RoleConfigs : RoleWrite(r)
    \/ RoleDelete
    \/ \E k \in Keys : Reconcile(k)
    \/ Tick
    \/ Crash

Next == (\E p \in Procs : Serve(p) \/ Rotate(p) \/ Sweep(p) \/ Purge(p)) \/ Env

Spec == Init /\ [][Next]_vars

-----------------------------------------------------------------------------
(* Properties. *)

\* Every variable has its type; the lock is held exactly by the goroutine that
\* is between taking and releasing it (lockSharedRole).
TypeOK ==
    /\ clock \in Nat /\ writes \in Nat /\ crashes \in Nat
    /\ role \in RoleConfigs \cup {NoRole}
    /\ cur \in Keys \cup {NoKey} /\ retiring \subseteq Keys
    /\ minted \in [Keys -> Nat] /\ rotateAt \in [Keys -> Nat]
    /\ grants \in [Keys -> SUBSET Privileges] /\ deleteAt \in [Keys -> Nat]
    /\ tracked \subseteq Keys /\ upstream \subseteq Keys /\ used \subseteq Keys
    /\ born \in [Keys -> Nat] /\ leaseEnd \in [Keys -> Nat]
    /\ lock \in Procs \cup {NoProc}
    /\ job \in [Procs -> Job]
    /\ \A p \in Procs : job[p].pc \in Locked <=> lock = p

\* A key the role's record names and DigitalOcean still holds has a tracking
\* record, so the reconciler can never take a key the role serves or has
\* promised an overlap to (the create, track, save order of
\* rotateSharedSpacesKey and the delete order of deleteRetiredSpacesKey).
ServedKeysOwned == Recorded \cap upstream \subseteq tracked

\* A current key that is gone upstream still has the tracking record by which
\* the next purge pass finds it and prunes the role's record: "answering
\* deleted" and forgetting it would leave readers a dead credential for the
\* rest of the period (purgeDeleter, forgetSharedSpacesKey).
DeadKeyFindable == cur # NoKey /\ cur \notin upstream => cur \in tracked

\* Every key at DigitalOcean is in the role's record (the sweep will reach it),
\* or untracked (the reconciler will), or held by a rotation in progress.
InFlight(k) == \E p \in Procs : job[p].pc \in Rotating \ {"mint"} /\ job[p].key = k
KeysReclaimable ==
    \A k \in upstream : k \in Recorded \/ k \notin tracked \/ InFlight(k)

\* A lease on a replaced key ends within the time a rotation may take of the
\* instant from which the sweep may delete that key (the TTL clamp of
\* buildSharedSpacesResponse against DeleteAt of rotateSharedSpacesKey).
LeaseCovered == \A k \in retiring : leaseEnd[k] <= deleteAt[k] + MaxOp

\* No writer of the record drops a key that is still live upstream: whatever
\* the reader, the sweep, the operator and the purge interleave, an entry
\* disappears only once its key is gone.
RecordedUntilGone ==
    [][\A k \in Recorded : k \in Recorded' \/ k \notin upstream]_vars

\* A key is replaced by a reader or by the sweep only while it is still due at
\* the moment of the write, never because of a decision another rotation has
\* made obsolete (the second rotationReason under the lock).
NoWastedMint ==
    [][cur # NoKey /\ cur' \notin {cur, NoKey} =>
         \E p \in Procs :
            /\ SaveOK(p)
            /\ p \in Operators \/ RotationReason(job[p].role, job[p].now) # "none"]_vars

\* Goroutines run, an API call that is retried on every pass succeeds in the
\* end, and a mutex is handed to whoever keeps waiting for it.
Fairness ==
    /\ \A p \in Procs :
         /\ WF_vars(ReadCheck(p)) /\ SF_vars(Decide(p)) /\ WF_vars(Rotate(p))
         /\ WF_vars(SweepStart(p)) /\ SF_vars(SweepLoad(p)) /\ WF_vars(SweepSave(p))
         /\ SF_vars(SweepRotate(p)) /\ WF_vars(SweepUntrack(p))
    /\ \A p \in Procs, k \in Keys : SF_vars(SweepDelete(p, k))
FairSpec == Spec /\ Fairness

\* A key whose overlap has elapsed is eventually deleted at DigitalOcean, which
\* never expires one by itself (sweepSharedSpacesKeys).
RetiredKeysDie ==
    \A k \in Keys : (k \in retiring /\ deleteAt[k] <= clock) ~> k \notin upstream

-----------------------------------------------------------------------------
(* The inductive invariant behind the safety properties. *)

\* What a goroutine's locals say about the shared state.  The record it loaded
\* under the lock is still the record (except for keys its own sweep has
\* deleted); the key it just minted is recorded nowhere yet; a key it has seen
\* deleted stays deleted, because DigitalOcean never issues one twice.
JobInv(p) ==
    LET j == job[p] IN
    /\ j.todo \subseteq used
    /\ j.pc \in {"check", "lock"} \cup Rotating => j.role \in RoleConfigs
    /\ j.pc \in Locked => j.cur = cur
    /\ j.pc \in Rotating => j.ret = retiring
    /\ j.pc \in Sweeping => /\ j.ret \subseteq retiring
                            /\ (retiring \ j.ret) \cap upstream = {}
    /\ j.pc \in {"track", "save", "undo"} => j.key \in used \ Recorded
    /\ j.pc = "save" /\ j.key \in upstream => j.key \in tracked
    /\ j.pc \in {"untrack", "forget", "purged"} => j.key \in used \ upstream

StructInv ==
    /\ cur \notin retiring
    /\ Recorded \subseteq used /\ tracked \subseteq used /\ upstream \subseteq used
    /\ \A p \in Procs : JobInv(p)
    /\ ServedKeysOwned

IInv == TypeOK /\ StructInv

\* Every ttl any accepted role allows fits every accepted overlap: no role
\* write shortens overlap_ttl below a ttl already handed out.
OverlapsCompatible == \A r, s \in RoleConfigs : r.ttl <= s.overlap

\* Leases never reach further than an overlap from now, and no goroutine's
\* instant is in the future or more than MaxOp in the past.
LeaseInv ==
    /\ \A k \in Keys, r \in RoleConfigs : leaseEnd[k] <= clock + r.overlap
    /\ \A p \in Procs : /\ job[p].now <= clock
                        /\ job[p].pc \in Timed => clock <= job[p].now + MaxOp
    /\ LeaseCovered

\* Whoever rotates under the lock has a reason that still holds, because only
\* the lock's holder writes what the reason depends on.
ReasonInv ==
    \A p \in Procs \ Operators :
        job[p].pc \in Rotating => RotationReason(job[p].role, job[p].now) # "none"

\* A key is tracked exactly from its own rotation's record of it on, if undoing
\* that record never fails; and until a failover nothing else keeps a live key.
TracksInv ==
    /\ \A p \in Procs : job[p].pc \in {"track", "undo"} => job[p].key \notin tracked
    /\ crashes = 0 => KeysReclaimable

\* Every accepted role rotates its key: no role write makes it a per-lease role.
AlwaysRotated == \A r \in RoleConfigs : r.rotated

\* Nobody untracks the current key: the sweep works on retiring keys, and a purge
\* has had the record forget the key before it drops the tracking record.
FindJob(p) ==
    LET j == job[p] IN
    /\ j.pc = "save" => j.key \in tracked
    /\ j.pc \in Sweeping => j.todo \subseteq retiring
    /\ j.pc = "untrack" => j.key \in retiring
    /\ j.pc \in {"purge", "forget", "purged"} => j.role \in RoleConfigs
    /\ j.pc = "purged" => j.key \notin Recorded /\ ~InFlight(j.key)
FindInv == (cur # NoKey => cur \in tracked) /\ \A p \in Procs : FindJob(p)
=============================================================================
