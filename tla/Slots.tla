------------------------------- MODULE Slots -------------------------------
(***************************************************************************)
(* Phased rotation in the OCI plugin (plugins/credential-oci/slots.go,     *)
(* path_rotate_slot.go, path_reconcile.go, path_roles.go, path_creds.go,   *)
(* workers.go): one role, whose few auth tokens are provisioned in         *)
(* advance, kept in numbered slots, handed out to every reader, and        *)
(* replaced on a schedule.                                                 *)
(*                                                                         *)
(* rotateSlot and the orphan pass exclude each other with                  *)
(* rotateReconcileMu.  Provisioning a new role, deleting a role and        *)
(* reading a credential take no lock.                                      *)
(*                                                                         *)
(* Simplifications: one role and its own OCI user; the minters of its set  *)
(* are usable or not, together; tokens are numbered in the order OCI makes *)
(* them; a failed storage write is modelled where the code does something  *)
(* about it.                                                               *)
(***************************************************************************)
EXTENDS Integers, FiniteSets, FiniteSetsExt

CONSTANTS
    Writers,      \* goroutines serving writes and deletes of roles/<name>
    Operators,    \* goroutines serving rotate-slot/<role>/<index>
    Rotators,     \* the rotation worker
    Passes,       \* the reconcile worker and POST reconcile
    Readers,      \* goroutines serving creds/<role>
    NoProc, None,
    SlotCounts,   \* the slot_counts a role may be written with
    Period,       \* rotation_period
    DefaultTTL,   \* default_ttl
    UserLimit,    \* auth tokens OCI lets one user have
    MaxDeletes,   \* max_deletes_per_pass
    MaxTokens,    \* bound: tokens ever made
    MaxTime,      \* bound: last instant of the clock
    MaxWrites,    \* bound: writes and deletes of the role, and forced rotations
    MaxFaults     \* bound: failed calls, lost minters, failovers

Procs == Writers \cup Operators \cup Rotators \cup Passes \cup Readers
Tokens == 1..MaxTokens
MaxSlotCount == Max(SlotCounts)
Slot == 0..(MaxSlotCount - 1)
Interval(n) == Period \div n

ASSUME SlotAssumption ==
    /\ SlotCounts # {} /\ SlotCounts \subseteq 1..2
    /\ Period \in Nat /\ DefaultTTL \in Nat /\ UserLimit \in Nat
    /\ \A n \in SlotCounts : DefaultTTL <= Interval(n)
ASSUME ProvisionAssumption == \A n \in SlotCounts : n <= MaxTokens
ASSUME BoundAssumption ==
    /\ MaxDeletes \in Nat /\ MaxTokens \in Nat \ {0} /\ MaxTime \in Nat
    /\ MaxWrites \in Nat /\ MaxFaults \in Nat
ASSUME ProcAssumption ==
    /\ NoProc \notin Procs /\ None \notin Nat
    /\ Rotators \cap Passes = {}   \* two workers; requests may share a name
    /\ (Rotators \cup Passes) \cap (Writers \cup Operators \cup Readers) = {}

VARIABLES
    clock,
    role,        \* storage: roles/<name>, or None
    slots,       \* storage: slots/<name>/<index>, each a record or None
    live, made,  \* OCI: the user's tokens; how many were ever made
    usable,      \* the set has a healthy minter
    mu,          \* who holds rotateReconcileMu
    lease,       \* OpenBao: when the last lease on a token ends
    job,         \* what each goroutine is doing
    overtook,    \* history: tokens put in a slot that a worker waited to rotate
    exposed,     \* history: tokens a pass could see before their slot was saved
    writes, faults

storage == <<role, slots>>
cloud == <<live, made>>
history == <<overtook, exposed>>
bounds == <<writes, faults>>
vars == <<clock, storage, cloud, usable, mu, lease, job, history, bounds>>

Role == [count: SlotCounts, disabled: BOOLEAN]
SlotRecord == [token: Tokens, rotated: Nat, next: Nat]
Locked == {"create", "save", "kill", "list", "reclaim"}
Job == [pc: Locked \cup {"idle", "check", "init", "place", "wipe", "unslot", "unrole",
                         "due", "lock", "serve"},
        count: 0..2, i: 0..2, at: Nat, now: Nat, token: Tokens \cup {None}, old: Tokens \cup {None},
        seen: SUBSET SlotRecord, todo: SUBSET Tokens, budget: 0..MaxDeletes]
Idle == [pc |-> "idle", count |-> 0, i |-> 0, at |-> 0, now |-> 0, token |-> None, old |-> None,
         seen |-> {}, todo |-> {}, budget |-> 0]

At(p, l) == job[p].pc = l
Finish(p) == job' = [job EXCEPT ![p] = Idle]
Fault == faults < MaxFaults /\ faults' = faults + 1 /\ UNCHANGED writes

\* loadAllSlots: the records a role with n slots has.
LoadAllSlots(n) == {slots[i] : i \in {j \in Slot : j < n /\ slots[j] # None}}
Known(n) == {s.token : s \in LoadAllSlots(n)}

\* The mount starts without the role, or with the role written and provisioned.
Init ==
    /\ clock = 0 /\ usable = TRUE /\ mu = NoProc
    /\ \/ role = None /\ slots = [i \in Slot |-> None] /\ made = 0
       \/ \E n \in SlotCounts :
            /\ role = [count |-> n, disabled |-> FALSE] /\ made = n
            /\ slots = [i \in Slot |->
                          IF i < n THEN [token |-> i + 1, rotated |-> 0, next |-> Interval(n) * (i + 1)]
                          ELSE None]
    /\ live = 1..made
    /\ lease = [t \in Tokens |-> 0]
    /\ job = [p \in Procs |-> Idle]
    /\ overtook = {} /\ exposed = {} /\ writes = 0 /\ faults = 0

\* OCI makes a token, if the user may have one more.
CreateAuthToken ==
    /\ made < MaxTokens /\ Cardinality(live) < UserLimit
    /\ made' = made + 1
    /\ live' = live \cup {made'}

\* The call is refused, for the limit, or (the bound) for want of fresh tokens.
CreateRefused ==
    \/ Fault
    \/ (Cardinality(live) >= UserLimit \/ made = MaxTokens) /\ UNCHANGED bounds

-----------------------------------------------------------------------------
(* pathRoleWrite, maybeInitializeSlots and initializeSlots. *)

RoleWrite(p, r) ==
    /\ p \in Writers /\ At(p, "idle") /\ writes < MaxWrites
    /\ writes' = writes + 1
    /\ role' = r
    /\ job' = [job EXCEPT ![p].pc = "check", ![p].count = r.count]
    /\ UNCHANGED <<clock, slots, cloud, usable, mu, lease, history, faults>>

\* Slots are provisioned only if a minter is usable and no slot exists.
MaybeInitializeSlots(p) ==
    /\ At(p, "check")
    /\ IF usable /\ LoadAllSlots(job[p].count) = {}
       THEN job' = [job EXCEPT ![p].pc = "init", ![p].at = clock]
       ELSE Finish(p)
    /\ UNCHANGED <<clock, storage, cloud, usable, mu, lease, history, bounds>>

\* p saves the token t in slot i, which another worker may be waiting to rotate.
Overtaking(p, i, t) ==
    overtook' = overtook \cup
        (IF \E q \in Rotators \ {p} : At(q, "lock") /\ job[q].i = i THEN {t} ELSE {})

PassRunning == \E q \in Passes : At(q, "list") \/ At(q, "reclaim")

InitCreate(p) ==
    /\ At(p, "init") /\ job[p].i < job[p].count
    /\ CreateAuthToken
    /\ job' = [job EXCEPT ![p].pc = "place", ![p].token = made']
    /\ exposed' = exposed \cup (IF PassRunning THEN {made'} ELSE {})
    /\ UNCHANGED <<clock, storage, usable, mu, lease, overtook, bounds>>

\* Slot i rotates first after i + 1 intervals.
InitSave(p) ==
    /\ At(p, "place")
    /\ slots' = [slots EXCEPT ![job[p].i] =
                   [token |-> job[p].token, rotated |-> job[p].at,
                    next |-> job[p].at + Interval(job[p].count) * (job[p].i + 1)]]
    /\ job' = [job EXCEPT ![p].pc = "init", ![p].i = @ + 1, ![p].token = None]
    /\ Overtaking(p, job[p].i, job[p].token)
    /\ UNCHANGED <<clock, role, cloud, usable, mu, lease, exposed, bounds>>

InitDone(p) ==
    /\ At(p, "init") /\ job[p].i = job[p].count
    /\ Finish(p)
    /\ UNCHANGED <<clock, storage, cloud, usable, mu, lease, history, bounds>>

\* A slot cannot be made or saved: the role is deleted again.  The slots made
\* before it stay, and so does a token that could not be saved.
InitFail(p) ==
    /\ \/ At(p, "init") /\ job[p].i < job[p].count /\ CreateRefused
       \/ At(p, "place") /\ Fault
    /\ role' = None
    /\ Finish(p)
    /\ UNCHANGED <<clock, slots, cloud, usable, mu, lease, history>>

-----------------------------------------------------------------------------
(* pathRoleDelete and cleanupRoleSlots. *)

RoleDelete(p) ==
    /\ p \in Writers /\ At(p, "idle") /\ writes < MaxWrites
    /\ role # None
    /\ writes' = writes + 1
    /\ job' = [job EXCEPT ![p].pc = "wipe", ![p].count = role.count, ![p].todo = Known(role.count)]
    /\ UNCHANGED <<clock, storage, cloud, usable, mu, lease, history, faults>>

\* Each token is deleted if some minter can, and if OCI agrees.
CleanupToken(p, t) ==
    /\ At(p, "wipe") /\ t \in job[p].todo
    /\ \/ usable /\ live' = live \ {t} /\ UNCHANGED bounds
       \/ (IF usable THEN Fault ELSE UNCHANGED bounds) /\ UNCHANGED live
    /\ job' = [job EXCEPT ![p].todo = @ \ {t}]
    /\ UNCHANGED <<clock, storage, made, usable, mu, lease, history>>

DeleteSlots(p) ==
    /\ At(p, "wipe") /\ job[p].todo = {}
    /\ slots' = [i \in Slot |-> IF i < job[p].count THEN None ELSE slots[i]]
    /\ job' = [job EXCEPT ![p].pc = "unrole"]
    /\ UNCHANGED <<clock, role, cloud, usable, mu, lease, history, bounds>>

DeleteRole(p) ==
    /\ At(p, "unrole")
    /\ role' = None
    /\ Finish(p)
    /\ UNCHANGED <<clock, slots, cloud, usable, mu, lease, history, bounds>>

-----------------------------------------------------------------------------
(* pathRotateSlot, rotationWorker and rotateDueSlots. *)

PathRotateSlot(p, i) ==
    /\ p \in Operators /\ At(p, "idle") /\ writes < MaxWrites
    /\ role # None /\ i < role.count
    /\ writes' = writes + 1
    /\ job' = [job EXCEPT ![p].pc = "lock", ![p].count = role.count, ![p].i = i]
    /\ UNCHANGED <<clock, storage, cloud, usable, mu, lease, history, faults>>

\* The worker reads the clock once for its pass, and passes over a disabled role.
RotationWorker(p) ==
    /\ p \in Rotators /\ At(p, "idle")
    /\ role # None /\ ~role.disabled
    /\ job' = [job EXCEPT ![p].pc = "due", ![p].count = role.count, ![p].at = clock]
    /\ UNCHANGED <<clock, storage, cloud, usable, mu, lease, history, bounds>>

Overdue(s, now) == s # None /\ now > s.next

\* Mutant of RotateDueSlots: every slot is replaced on every pass.
RotateDueSlotsEarly(p) ==
    /\ At(p, "due")
    /\ IF job[p].i = job[p].count THEN Finish(p)
       ELSE IF slots[job[p].i] # None
            THEN job' = [job EXCEPT ![p].pc = "lock"]
            ELSE job' = [job EXCEPT ![p].i = @ + 1]
    /\ UNCHANGED <<clock, storage, cloud, usable, mu, lease, history, bounds>>

\* Whether a slot is due is decided before the lock is asked for.
RotateDueSlots(p) ==
    /\ At(p, "due")
    /\ IF job[p].i = job[p].count THEN Finish(p)
       ELSE IF Overdue(slots[job[p].i], job[p].at)
            THEN job' = [job EXCEPT ![p].pc = "lock"]
            ELSE job' = [job EXCEPT ![p].i = @ + 1]
    /\ UNCHANGED <<clock, storage, cloud, usable, mu, lease, history, bounds>>

\* After a rotation, or an attempt at one, the worker goes on to the next slot.
NextSlot(p) ==
    IF p \in Rotators
    THEN [job[p] EXCEPT !.pc = "due", !.i = @ + 1, !.now = 0, !.token = None, !.old = None]
    ELSE Idle
Rotated(p) == job' = [job EXCEPT ![p] = NextSlot(p)]

\* Mutant of RotateLock: rotateReconcileMu is not taken.
RotateLockFree(p) ==
    /\ At(p, "lock")
    /\ slots[job[p].i] # None /\ usable
    /\ job' = [job EXCEPT ![p].pc = "create", ![p].old = slots[job[p].i].token]
    /\ UNCHANGED <<clock, storage, cloud, usable, mu, lease, history, bounds>>

\* rotateSlot gives up if the slot is gone or no minter is usable.
RotateLock(p) ==
    /\ At(p, "lock") /\ mu = NoProc
    /\ IF slots[job[p].i] # None /\ usable
       THEN /\ mu' = p
            /\ job' = [job EXCEPT ![p].pc = "create", ![p].old = slots[job[p].i].token]
       ELSE Rotated(p) /\ UNCHANGED mu
    /\ UNCHANGED <<clock, storage, cloud, usable, lease, history, bounds>>

RotateCreate(p) ==
    /\ At(p, "create")
    /\ CreateAuthToken
    /\ job' = [job EXCEPT ![p].pc = "save", ![p].token = made', ![p].now = clock]
    /\ UNCHANGED <<clock, storage, usable, mu, lease, history, bounds>>

RotateCreateFail(p) ==
    /\ At(p, "create")
    /\ CreateRefused
    /\ mu' = NoProc
    /\ Rotated(p)
    /\ UNCHANGED <<clock, storage, cloud, usable, lease, history>>

\* The slot is overwritten whether or not it still exists.
RotateSave(p) ==
    /\ At(p, "save")
    /\ slots' = [slots EXCEPT ![job[p].i] =
                   [token |-> job[p].token, rotated |-> job[p].now,
                    next |-> job[p].now + Interval(job[p].count)]]
    /\ job' = [job EXCEPT ![p].pc = "kill"]
    /\ Overtaking(p, job[p].i, job[p].token)
    /\ UNCHANGED <<clock, role, cloud, usable, mu, lease, exposed, bounds>>

\* The slot cannot be saved: the new token is deleted, if OCI agrees.
RotateSaveFail(p) ==
    /\ At(p, "save") /\ Fault
    /\ \/ live' = live \ {job[p].token}
       \/ UNCHANGED live
    /\ mu' = NoProc
    /\ Rotated(p)
    /\ UNCHANGED <<clock, storage, made, usable, lease, history>>

\* The replaced token is deleted, best effort.
RotateKill(p) ==
    /\ At(p, "kill")
    /\ \/ live' = live \ {job[p].old} /\ UNCHANGED bounds
       \/ Fault /\ UNCHANGED live
    /\ mu' = NoProc
    /\ Rotated(p)
    /\ UNCHANGED <<clock, storage, made, usable, lease, history>>

-----------------------------------------------------------------------------
(* runReconcilePass. *)

InitInFlight == {job[q].token : q \in {r \in Writers : At(r, "place")}}

\* Mutant of CollectKnownTokenIDs: the known ids are collected before the lock.
CollectKnownUnlocked(p) ==
    /\ p \in Passes /\ At(p, "idle") /\ role # None
    /\ job' = [job EXCEPT ![p].pc = "list", ![p].budget = MaxDeletes, ![p].todo = Known(role.count)]
    /\ exposed' = exposed \cup InitInFlight
    /\ UNCHANGED <<clock, storage, cloud, usable, mu, lease, overtook, bounds>>

\* The ids in the slots of the roles that exist.
CollectKnownTokenIDs(p) ==
    /\ p \in Passes /\ At(p, "idle") /\ mu = NoProc /\ role # None
    /\ mu' = p
    /\ job' = [job EXCEPT ![p].pc = "list", ![p].budget = MaxDeletes, ![p].todo = Known(role.count)]
    /\ exposed' = exposed \cup InitInFlight
    /\ UNCHANGED <<clock, storage, cloud, usable, lease, overtook, bounds>>

\* The user's tokens that are not known.  The pass lists only the users of
\* roles that exist.
ReconcileOrphans(p) ==
    /\ At(p, "list")
    /\ IF role # None /\ usable
       THEN /\ job' = [job EXCEPT ![p].pc = "reclaim", ![p].todo = live \ @]
            /\ UNCHANGED mu
       ELSE Finish(p) /\ mu' = NoProc
    /\ UNCHANGED <<clock, storage, cloud, usable, lease, history, bounds>>

\* Only a delete that succeeds counts against the pass's limit.
ReconcileRoleTokens(p, t) ==
    /\ At(p, "reclaim") /\ t \in job[p].todo /\ job[p].budget > 0
    /\ \/ /\ live' = live \ {t} /\ UNCHANGED bounds
          /\ job' = [job EXCEPT ![p].todo = @ \ {t}, ![p].budget = @ - 1]
       \/ /\ Fault /\ UNCHANGED live
          /\ job' = [job EXCEPT ![p].todo = @ \ {t}]
    /\ UNCHANGED <<clock, storage, made, usable, mu, lease, history>>

PassEnd(p) ==
    /\ At(p, "reclaim") /\ (job[p].todo = {} \/ job[p].budget = 0)
    /\ mu' = NoProc
    /\ Finish(p)
    /\ UNCHANGED <<clock, storage, cloud, usable, lease, history, bounds>>

-----------------------------------------------------------------------------
(* pathCredsRead.  Revocation does nothing. *)

ReadSlots(p) ==
    /\ p \in Readers /\ At(p, "idle")
    /\ role # None /\ ~role.disabled
    /\ job' = [job EXCEPT ![p].pc = "serve", ![p].seen = LoadAllSlots(role.count)]
    /\ UNCHANGED <<clock, storage, cloud, usable, mu, lease, history, bounds>>

\* The slot replaced last among those that are not overdue.
FreshestSlot(seen, now) ==
    LET eligible == {s \in seen : s.next > now} IN
    IF eligible = {} THEN None
    ELSE CHOOSE s \in eligible : \A r \in eligible : r.rotated <= s.rotated

TTL(s, now) == IF DefaultTTL > 0 THEN Min({DefaultTTL, s.next - now}) ELSE s.next - now

\* A lease on the freshest slot, for what is left until its rotation.
Serve(p) ==
    LET s == FreshestSlot(job[p].seen, clock) IN
    /\ At(p, "serve")
    /\ lease' = (IF s = None THEN lease
                 ELSE [lease EXCEPT ![s.token] = Max({@, clock + TTL(s, clock)})])
    /\ Finish(p)
    /\ UNCHANGED <<clock, storage, cloud, usable, mu, history, bounds>>

-----------------------------------------------------------------------------
Tick ==
    /\ clock < MaxTime
    /\ clock' = clock + 1
    /\ UNCHANGED <<storage, cloud, usable, mu, lease, job, history, bounds>>

\* The set's minters are withdrawn, or come back.
MinterLost ==
    /\ usable /\ Fault /\ usable' = FALSE
    /\ UNCHANGED <<clock, storage, cloud, mu, lease, job, history>>

MinterBack ==
    /\ ~usable /\ usable' = TRUE
    /\ UNCHANGED <<clock, storage, cloud, mu, lease, job, history, bounds>>

Crash ==
    /\ Fault
    /\ job' = [p \in Procs |-> Idle] /\ mu' = NoProc
    /\ UNCHANGED <<clock, storage, cloud, usable, lease, history>>

WriteStep(p) ==
    \/ MaybeInitializeSlots(p) \/ InitCreate(p) \/ InitSave(p) \/ InitDone(p) \/ InitFail(p)
    \/ DeleteSlots(p) \/ DeleteRole(p) \/ \E t \in Tokens : CleanupToken(p, t)

RotateStep(p) ==
    \/ RotateDueSlots(p) \/ RotateCreate(p) \/ RotateCreateFail(p)
    \/ RotateSave(p) \/ RotateSaveFail(p) \/ RotateKill(p)

PassStep(p) ==
    ReconcileOrphans(p) \/ PassEnd(p) \/ \E t \in Tokens : ReconcileRoleTokens(p, t)

Next ==
    \/ \E p \in Procs :
        \/ \E r \in Role : RoleWrite(p, r)
        \/ \E i \in Slot : PathRotateSlot(p, i)
        \/ RoleDelete(p) \/ WriteStep(p)
        \/ RotationWorker(p) \/ RotateLock(p) \/ RotateStep(p)
        \/ CollectKnownTokenIDs(p) \/ PassStep(p)
        \/ ReadSlots(p) \/ Serve(p)
    \/ Tick \/ MinterLost \/ MinterBack \/ Crash

Spec == Init /\ [][Next]_vars

-----------------------------------------------------------------------------
(* Properties. *)

Recorded(t) == role # None /\ t \in Known(role.count)
InFlight(t) == \E p \in Procs : job[p].token = t

\* Domains; and rotateReconcileMu is held by exactly the goroutine inside a
\* rotation or a pass.
TypeOK ==
    /\ clock \in Nat /\ role \in Role \cup {None} /\ slots \in [Slot -> SlotRecord \cup {None}]
    /\ live \subseteq Tokens /\ made \in 0..MaxTokens /\ usable \in BOOLEAN
    /\ mu \in Procs \cup {NoProc} /\ lease \in [Tokens -> Nat] /\ job \in [Procs -> Job]
    /\ overtook \subseteq Tokens /\ exposed \subseteq Tokens /\ writes \in Nat /\ faults \in Nat
    /\ \A p \in Procs : (mu = p) <=> (job[p].pc \in Locked)

\* What the mutex is for (audit F4): the pass deletes no token that a rotation
\* has just made or that a slot holds, however the two interleave.  A token of a
\* role that was being provisioned while the pass ran has no such protection.
RotationSpared ==
    [][\A t \in live \ live' :
        (\E p \in Passes : ReconcileRoleTokens(p, t)) =>
            t \in exposed \/ ~(InFlight(t) \/ Recorded(t))]_vars

\* The worker ends no token under a lease, whatever the reader saw and whenever
\* the worker comes.  The exception is a token that came into the slot (an
\* operator rotated it, or the role was deleted and provisioned anew) after the
\* worker had found the slot due and before it had the mutex: rotateSlot does not
\* look again, see TTLHonest.
LeaseOutlived ==
    [][\A t \in live \ live' :
        lease[t] > clock /\ t \notin overtook =>
            ~\E p \in Rotators : RotateKill(p) /\ job[p].old = t]_vars

\* "a slot is written before its token is minted, so there is no
\* create-then-track window to protect" (pathReconcile): no pass deletes a token
\* that is about to be recorded.  Violated: initializeSlots creates first, and
\* takes no lock.
NoCreateTrackWindow ==
    [][\A t \in live \ live' :
        InFlight(t) => ~\E p \in Passes : ReconcileRoleTokens(p, t)]_vars

\* "TTL is always honest" (freshestSlot): no rotation by the worker ends a token
\* under a lease.  Violated: the worker finds a slot due and waits for the mutex;
\* an operator rotates the slot, or the role is deleted and provisioned anew; a
\* client is given the new token, and the worker then rotates it at once.
TTLHonest ==
    [][\A t \in live \ live' :
        lease[t] > clock => ~\E p \in Rotators : RotateKill(p) /\ job[p].old = t]_vars

\* "Stagger the initial rotation times so slots don't all rotate at once"
\* (initializeSlots), "spaced T/N apart, so slot ages stagger" (docs/design.md):
\* the slots of a role never fall due together.  Violated: every slot is
\* rescheduled one interval ahead, so the second catches up with the first.
Staggered ==
    role # None => \A i, j \in Slot :
        i < j /\ j < role.count /\ slots[i] # None /\ slots[j] # None
            => slots[i].next # slots[j].next

-----------------------------------------------------------------------------
(* The inductive invariant behind RotationSpared. *)

\* What a goroutine's locals say: each kind does its own work, works on a slot
\* the role has, carries a token only between making and recording it, and
\* has seen two slots at most.
JobInv(p, j) ==
    /\ j.pc = "idle" => j = Idle
    /\ j.pc \in {"check", "init", "place", "wipe", "unrole"} => p \in Writers
    /\ j.pc \in {"check", "init", "place", "due", "lock", "create", "save", "kill"} =>
          j.count \in SlotCounts /\ j.i <= j.count
    /\ j.pc \in {"place", "lock", "create", "save", "kill"} => j.i < j.count
    /\ j.pc \in {"place", "save"} => j.token \in Tokens
    /\ j.token # None => j.pc \in {"place", "save", "kill"}
    /\ j.seen # {} => \E r, s \in j.seen : j.seen = {r, s}

\* Of the tokens a pass is going to delete, or has yet to find that it does not
\* know, those in a slot or on their way to one could be seen by the pass before
\* their slot was saved.
InSlots(t) == \E i \in Slot : slots[i] # None /\ slots[i].token = t
Unguarded(S) == \A t \in S : InFlight(t) \/ InSlots(t) => t \in exposed
PassInv ==
    \A p \in Passes :
        /\ At(p, "list") => Unguarded(live \ job[p].todo)
        /\ At(p, "reclaim") => Unguarded(job[p].todo)

IInv == TypeOK /\ \A p \in Procs : JobInv(p, job[p])

\* The slot_count of the role is never rewritten.
OneCount == \A m, n \in SlotCounts : m = n

-----------------------------------------------------------------------------
(* The inductive invariant behind LeaseOutlived. *)

\* The slot records there are: stored, or read by a reader that has not served
\* its client yet.
Records ==
    {slots[i] : i \in {j \in Slot : slots[j] # None}} \cup UNION {job[p].seen : p \in Procs}

\* The copies of a token's record agree on when it is to be replaced, and no
\* lease on the token outlives that instant.
LeaseInv ==
    /\ \A s \in Records : lease[s.token] <= s.next
    /\ \A r, s \in Records : r.token = s.token => r.next = s.next

\* A token no reader can have come across, and no rotation is replacing.
Fresh(t) ==
    /\ lease[t] = 0
    /\ \A s \in Records : s.token # t
    /\ \A p \in Procs : job[p].old # t

FreshInv ==
    /\ \A t \in Tokens : t > made => Fresh(t) /\ ~InFlight(t)
    /\ \A p \in Procs : job[p].pc \in {"place", "save"} => Fresh(job[p].token)
    /\ \A p, q \in Procs : p # q /\ job[p].token # None => job[p].token # job[q].token

\* A token that is outdated for the pass p of the worker: its leases have ended,
\* and no record of it lets a reader give another.
Outdated(p, t) ==
    /\ lease[t] <= job[p].at
    /\ \A s \in Records : s.token = t => s.next <= job[p].at

\* Who is in a rotation, and what it may replace: the worker only what was due
\* when its pass began, or what came into the slot while it waited.
RotationInv(p) ==
    /\ At(p, "due") => p \in Rotators
    /\ job[p].pc \in {"lock", "create", "save", "kill"} => p \in Operators \cup Rotators
    /\ job[p].at <= clock
    /\ p \in Rotators /\ At(p, "lock") =>
          \/ slots[job[p].i] = None
          \/ Overdue(slots[job[p].i], job[p].at)
          \/ slots[job[p].i].token \in overtook
    /\ job[p].pc \in {"create", "save", "kill"} => job[p].old \in Tokens
    /\ p \in Rotators /\ job[p].pc \in {"create", "save", "kill"} =>
          job[p].old \in overtook \/ Outdated(p, job[p].old)

HonestInv == LeaseInv /\ FreshInv /\ \A p \in Procs : RotationInv(p)
=============================================================================
