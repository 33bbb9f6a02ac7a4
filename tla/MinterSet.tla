----------------------------- MODULE MinterSet -----------------------------
(***************************************************************************)
(* One minter set of a mount: writing and deleting it, rotating a minter,  *)
(* and sweeping the minters that rotation retired.  These are the parts    *)
(* that CloudSets puts together, cloud by cloud.                           *)
(*                                                                         *)
(* The set is kept three times: in storage, in the plugin's memory (from   *)
(* which minters are selected), and as live credentials at the cloud.      *)
(* Rotation and the sweep exclude each other with rotateSweepMu; a set     *)
(* write or delete takes no lock at all.  Each is a read, some API calls,  *)
(* a storage write and a reload of memory, between which any other may     *)
(* run.                                                                    *)
(*                                                                         *)
(* Simplifications: a minter id stands for its credential and keeps the    *)
(* expiry it was first given; the operator writes only minters of its own, *)
(* since no endpoint returns a successor's credential; minter health is    *)
(* left out, and "no healthy minter" is one of the ways a call fails.      *)
(***************************************************************************)
EXTENDS Integers, FiniteSets

CONSTANTS
    Clouds,       \* which clouds the mount may be of
    Originals,    \* minters the operator created
    Rotatable,    \* originals whose rotation_params say what a successor needs
    Recorded,     \* originals whose rotation_params name their upstream id
    Terms,        \* expiries an original may have been written with
    Never, Unset, \* never_expires; neither that nor expires_at
    Lifetime,     \* minterSecretLifetime, from which a successor's expiry is counted
    Gap,          \* MinMinterGap
    KeyLimit,     \* maxAccessKeysPerUser of AWS
    Successors,   \* minters that rotation creates
    Writers,      \* goroutines serving minter-sets/<name>
    Rotators,     \* goroutines serving minter-sets/<name>/rotate
    Sweepers,     \* the reconcile worker, which runs the retired-sweep
    NoProc,       \* rotateSweepMu is free
    NoMinter,
    Absent,       \* not a member of the set
    Active,       \* a member that may be selected; a retired member has the
                  \* instant it was retired instead
    RetireGrace,  \* minter_retire_grace
    MaxTime,      \* bound: last instant of the clock
    MaxWrites,    \* bound: set writes and deletes
    MaxCrashes    \* bound: failovers

Minters == Originals \cup Successors
Procs == Writers \cup Rotators \cup Sweepers
Entry == Nat \cup {Active, Absent}

ASSUME MinterAssumption ==
    /\ Originals \cap Successors = {} /\ Originals # {} /\ IsFiniteSet(Originals)
    /\ NoMinter \notin Minters
    /\ Absent \notin Nat /\ Active \notin Nat /\ Absent # Active
ASSUME TermAssumption ==
    /\ Recorded \subseteq Originals /\ Rotatable \subseteq Originals
    /\ Terms \subseteq Nat \cup {Never} /\ Never \notin Nat /\ Unset \notin Nat /\ Never # Unset
    /\ Lifetime \in Nat /\ Gap \in Nat /\ KeyLimit \in Nat
ASSUME ProcAssumption ==
    /\ Writers \cap Rotators = {} /\ Writers \cap Sweepers = {}
    /\ Rotators \cap Sweepers = {} /\ NoProc \notin Procs
ASSUME BoundAssumption ==
    /\ RetireGrace \in Nat /\ MaxTime \in Nat /\ MaxWrites \in Nat /\ MaxCrashes \in Nat

VARIABLES
    cloud,            \* which cloud the mount is of
    clock,
    stored,           \* minter-sets/<name>
    loaded,           \* b.minterSets[name]
    upstream, made,   \* the cloud: live minter credentials; successors ever created
    expires,          \* each minter's recorded expiry
    user,             \* AWS: the IAM user a minter's key belongs to
    mu,               \* who holds rotateSweepMu
    job,              \* what each goroutine is doing
    life,             \* history, read by no action: a minter that no rotation has
                      \* retired, one that has been, and one put back since
    misdated,         \* history: successors given another expiry than the one
                      \* that their set was validated with
    writes, crashes

store == <<stored, loaded>>
remote == <<upstream, made, expires, user>>
history == <<life, misdated>>
vars == <<cloud, clock, store, remote, mu, job, history, writes, crashes>>

NoSet == [m \in Minters |-> Absent]
Retired(set) == {m \in Minters : set[m] \in Nat}
ActiveMinters(set) == {m \in Minters : set[m] = Active}

\* Every active minter says when it expires; and one never does, or there are
\* two, and no two of them expire within the gap.
ValidExpiries(S, ex) ==
    /\ S # {} /\ \A m \in S : ex[m] # Unset
    /\ \/ \E m \in S : ex[m] = Never
       \/ /\ Cardinality(S) >= 2 /\ \A m \in S : ex[m] # Never
          /\ \A m, n \in S : m # n => ex[m] - ex[n] >= Gap \/ ex[n] - ex[m] >= Gap
ValidateMinterSet(set) == ValidExpiries(ActiveMinters(set), expires)

Held == {"mint", "check", "commit", "cleanup", "sweep"}
\* A goroutine's locals: the set it read or built, the minter it works on, the
\* successor it minted, the instant it read, and the stand-in's expiry.
Job == [pc: Held \cup {"idle", "put", "load"}, set: [Minters -> Entry],
        old: Minters \cup {NoMinter}, new: Minters \cup {NoMinter}, now: Nat,
        synthetic: Nat \cup {Never, Unset}, todo: SUBSET Minters, changed: BOOLEAN]
Idle == [pc |-> "idle", set |-> NoSet, old |-> NoMinter, new |-> NoMinter, now |-> 0,
         synthetic |-> Unset, todo |-> {}, changed |-> FALSE]

At(p, l) == job[p].pc = l
Unlock(p) == mu' = (IF mu = p THEN NoProc ELSE mu)
Finish(p) == job' = [job EXCEPT ![p] = Idle] /\ Unlock(p)

\* The set exists from the start, with every original active.
Init ==
    /\ cloud \in Clouds
    /\ expires \in [Minters -> Terms \cup {Unset}]
    /\ \A m \in Minters : expires[m] = Unset <=> m \in Successors
    /\ user = [m \in Minters |-> IF m \in Originals THEN m ELSE NoMinter]
    /\ clock = 0 /\ writes = 0 /\ crashes = 0
    /\ stored = [m \in Minters |-> IF m \in Originals THEN Active ELSE Absent]
    /\ ValidateMinterSet(stored) /\ loaded = stored
    /\ upstream = Originals /\ made = {}
    /\ mu = NoProc
    /\ job = [p \in Procs |-> Idle]
    /\ life = [m \in Minters |-> "new"] /\ misdated = {}

-----------------------------------------------------------------------------
(* pathMinterSetWrite and pathMinterSetDelete. *)

\* A minter the stored set already has keeps its retirement.
PreserveLifecycle(w, old) ==
    [m \in Minters |-> IF m \notin w THEN Absent
                       ELSE IF old[m] # Absent THEN old[m] ELSE Active]

\* Mutant of WriteRead: the request is validated before the merge, not after.
WriteReadUnvalidated(p, w) ==
    /\ p \in Writers /\ At(p, "idle") /\ writes < MaxWrites
    /\ w # {}
    /\ writes' = writes + 1
    /\ job' = [job EXCEPT ![p].pc = "put", ![p].set = PreserveLifecycle(w, stored)]
    /\ UNCHANGED <<cloud, clock, store, remote, mu, history, crashes>>

\* The stored set is read, merged with the request and validated; the
\* capability probes run next, against the result.
WriteRead(p, w) ==
    LET set == PreserveLifecycle(w, stored) IN
    /\ p \in Writers /\ At(p, "idle") /\ writes < MaxWrites
    /\ ValidateMinterSet(set)
    /\ writes' = writes + 1
    /\ job' = [job EXCEPT ![p].pc = "put", ![p].set = set]
    /\ UNCHANGED <<cloud, clock, store, remote, mu, history, crashes>>

\* The probes refused the set, or storage the write.
WriteFail(p) ==
    /\ At(p, "put")
    /\ Finish(p)
    /\ UNCHANGED <<cloud, clock, store, remote, history, writes, crashes>>

\* A write makes these minters selectable, some that a rotation had retired.
PutBack(set) ==
    life' = [m \in Minters |-> IF life[m] = "retired" /\ set[m] = Active THEN "revived" ELSE life[m]]

WritePut(p) ==
    /\ At(p, "put")
    /\ stored' = job[p].set
    /\ job' = [job EXCEPT ![p].pc = "load"]
    /\ PutBack(job[p].set)
    /\ UNCHANGED <<cloud, clock, loaded, remote, mu, misdated, writes, crashes>>

DeleteSet(p) ==
    /\ p \in Writers /\ At(p, "idle") /\ writes < MaxWrites
    /\ stored # NoSet
    /\ stored' = NoSet
    /\ writes' = writes + 1
    /\ job' = [job EXCEPT ![p].pc = "load", ![p].set = NoSet]
    /\ UNCHANGED <<cloud, clock, loaded, remote, mu, history, crashes>>

\* loadMinterSet: memory takes what this goroutine wrote.
LoadMinterSet(p) ==
    /\ At(p, "load")
    /\ loaded' = job[p].set
    /\ IF p \in Writers THEN PutBack(job[p].set) ELSE UNCHANGED life
    /\ Finish(p)
    /\ UNCHANGED <<cloud, clock, stored, remote, misdated, writes, crashes>>

-----------------------------------------------------------------------------
(* pathMinterSetRotate, under rotateSweepMu. *)

\* Mutant of RotateRead: rotateSweepMu is not awaited.
RotateReadUnlocked(p, m, synthetic) ==
    /\ p \in Rotators /\ At(p, "idle")
    /\ stored[m] = Active
    /\ job' = [job EXCEPT ![p].pc = "mint", ![p].set = stored, ![p].old = m,
                          ![p].now = clock, ![p].synthetic = synthetic]
    /\ UNCHANGED <<cloud, clock, store, remote, mu, history, writes, crashes>>

\* The minter must exist and not be retired, and with a stand-in for its
\* successor, of the given expiry, the set must stay valid.
RotateRead(p, m, synthetic) ==
    /\ p \in Rotators /\ At(p, "idle") /\ mu = NoProc
    /\ stored[m] = Active
    /\ ValidExpiries((ActiveMinters(stored) \ {m}) \cup {NoMinter},
                     [n \in Minters \cup {NoMinter} |-> IF n = NoMinter THEN synthetic ELSE expires[n]])
    /\ mu' = p
    /\ job' = [job EXCEPT ![p].pc = "mint", ![p].set = stored, ![p].old = m,
                          ![p].now = clock, ![p].synthetic = synthetic]
    /\ UNCHANGED <<cloud, clock, store, remote, history, writes, crashes>>

\* A loaded, active minter whose credential works mints the successor.
Minting(r) == r \in ActiveMinters(loaded) \cap upstream
CreateSuccessor(p, s, ex, u) ==
    /\ s \in Successors \ made
    /\ upstream' = upstream \cup {s} /\ made' = made \cup {s}
    /\ expires' = [expires EXCEPT ![s] = ex] /\ user' = [user EXCEPT ![s] = u]
    /\ misdated' = IF ex = job[p].synthetic THEN misdated ELSE misdated \cup {s}
    /\ UNCHANGED life

RotateMint(p, s, ex, u) ==
    /\ At(p, "mint")
    /\ CreateSuccessor(p, s, ex, u)
    /\ job' = [job EXCEPT ![p].pc = "check", ![p].new = s]
    /\ UNCHANGED <<cloud, clock, store, mu, writes, crashes>>

\* It was created and the answer lost: there is nothing to clean up by.
RotateMintLost(p, s, ex, u) ==
    /\ At(p, "mint")
    /\ CreateSuccessor(p, s, ex, u)
    /\ Finish(p)
    /\ UNCHANGED <<cloud, clock, store, writes, crashes>>

RotateMintFail(p) ==
    /\ At(p, "mint")
    /\ Finish(p)
    /\ UNCHANGED <<cloud, clock, store, remote, history, writes, crashes>>

\* The health check and the capability probes of the successor.
RotateCheck(p) ==
    /\ At(p, "check")
    /\ \/ job' = [job EXCEPT ![p].pc = "commit"]
       \/ job' = [job EXCEPT ![p].pc = "cleanup"]
    /\ UNCHANGED <<cloud, clock, store, remote, mu, history, writes, crashes>>

\* withRotatedSuccessor and persistSet, whose storage write may fail.
RotateCommit(p) ==
    LET set == [job[p].set EXCEPT ![job[p].old] = job[p].now, ![job[p].new] = Active] IN
    /\ At(p, "commit")
    /\ \/ /\ stored' = set
          /\ job' = [job EXCEPT ![p].pc = "load", ![p].set = set]
          /\ life' = [life EXCEPT ![job[p].old] = IF @ = "revived" THEN @ ELSE "retired"]
       \/ /\ job' = [job EXCEPT ![p].pc = "cleanup"]
          /\ UNCHANGED <<stored, life>>
    /\ UNCHANGED <<cloud, clock, loaded, remote, mu, misdated, writes, crashes>>

\* cleanupSuccessor is best effort, through the credential given.
RotateCleanup(p, by) ==
    /\ At(p, "cleanup")
    /\ \/ by \cap upstream # {} /\ upstream' = upstream \ {job[p].new}
       \/ UNCHANGED upstream
    /\ Finish(p)
    /\ UNCHANGED <<cloud, clock, store, made, expires, user, history, writes, crashes>>

-----------------------------------------------------------------------------
(* sweepRetiredMinters, under rotateSweepMu. *)

Due(set, now) == {m \in Retired(set) : set[m] + RetireGrace < now}

\* Mutant of SweepRead: age alone decides, not retirement.
SweepReadAll(p) ==
    /\ p \in Sweepers /\ At(p, "idle") /\ mu = NoProc
    /\ stored # NoSet
    /\ mu' = p
    /\ job' = [job EXCEPT ![p].pc = "sweep", ![p].set = stored, ![p].now = clock,
                          ![p].todo = {m \in Minters : stored[m] # Absent}]
    /\ UNCHANGED <<cloud, clock, store, remote, history, writes, crashes>>

\* Mutant of SweepRead: only minters without a recorded token id are visited.
SweepReadNoId(p) ==
    /\ p \in Sweepers /\ At(p, "idle") /\ mu = NoProc
    /\ stored # NoSet
    /\ mu' = p
    /\ job' = [job EXCEPT ![p].pc = "sweep", ![p].set = stored, ![p].now = clock,
                          ![p].todo = Due(stored, clock) \ Successors]
    /\ UNCHANGED <<cloud, clock, store, remote, history, writes, crashes>>

SweepRead(p) ==
    /\ p \in Sweepers /\ At(p, "idle") /\ mu = NoProc
    /\ stored # NoSet
    /\ mu' = p
    /\ job' = [job EXCEPT ![p].pc = "sweep", ![p].set = stored, ![p].now = clock,
                          ![p].todo = Due(stored, clock)]
    /\ UNCHANGED <<cloud, clock, store, remote, history, writes, crashes>>

\* deleteRetiredUpstream: a minter without a recorded upstream id is only
\* dropped; another is deleted with its own credential, which must work.
SweepDelete(p, m, recorded) ==
    /\ At(p, "sweep") /\ m \in job[p].todo
    /\ recorded => m \in upstream
    /\ upstream' = IF recorded THEN upstream \ {m} ELSE upstream
    /\ job' = [job EXCEPT ![p].todo = @ \ {m}, ![p].set[m] = Absent, ![p].changed = TRUE]
    /\ UNCHANGED <<cloud, clock, store, made, expires, user, mu, history, writes, crashes>>

\* The delete is refused (a dead credential is answered 401, not 404): the entry
\* is kept for the next pass.
SweepDeleteFail(p, m, recorded) ==
    /\ At(p, "sweep") /\ m \in job[p].todo /\ recorded
    /\ job' = [job EXCEPT ![p].todo = @ \ {m}]
    /\ UNCHANGED <<cloud, clock, store, remote, mu, history, writes, crashes>>

\* The set is persisted when something was dropped, which may fail.
SweepPut(p) ==
    /\ At(p, "sweep") /\ job[p].todo = {}
    /\ \/ /\ job[p].changed
          /\ stored' = job[p].set
          /\ job' = [job EXCEPT ![p].pc = "load"]
          /\ UNCHANGED mu
       \/ /\ Finish(p)
          /\ UNCHANGED stored
    /\ UNCHANGED <<cloud, clock, loaded, remote, history, writes, crashes>>

-----------------------------------------------------------------------------
Tick ==
    /\ clock < MaxTime
    /\ clock' = clock + 1
    /\ UNCHANGED <<cloud, store, remote, mu, job, history, writes, crashes>>

\* Failover: goroutines and memory are gone; loadAllMinterSets reads storage
\* and refuses an invalid set.
Crash ==
    /\ crashes < MaxCrashes
    /\ crashes' = crashes + 1
    /\ mu' = NoProc
    /\ job' = [p \in Procs |-> Idle]
    /\ loaded' = (IF ValidateMinterSet(stored) THEN stored ELSE NoSet)
    /\ UNCHANGED <<cloud, clock, stored, remote, history, writes>>
=============================================================================
