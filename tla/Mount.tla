------------------------------- MODULE Mount -------------------------------
(***************************************************************************)
(* The life of a mount: its backends, its configuration and its background *)
(* workers.  A backend is built from storage (Factory), initialised, and   *)
(* torn down by Clean or by the end of the process; one is live at a time. *)
(* Initialize, every config write and every minter-set write start a       *)
(* goroutine that replaces the worker manager under workerLifecycleMu,     *)
(* waiting for the old one at most DrainTimeout.  The owner instance id is *)
(* minted by the first read that needs it.                                 *)
(*                                                                         *)
(* A config is abstracted to its reconcile cadence, the other plugin's own *)
(* settings to one "endpoint" ("" when the request does not name one).     *)
(* Only the reconciler's ticks are modelled, and only the first of each    *)
(* backend is timed: the other jobs are other modules'.  A worker whose    *)
(* context is cancelled starts no tick.                                    *)
(***************************************************************************)
EXTENDS Integers, FiniteSets, FiniteSetsExt

CONSTANTS
    Clouds,             \* the plugins a behaviour may be about
    Procs,              \* threads that serve requests
    Configs,            \* cadences an operator writes
    Endpoints,          \* endpoints an operator writes, "" for none
    DefaultEndpoint,    \* what OVH fills in when none is given
    DefaultCadence, FallbackInterval, BootstrapDelay,
    MaxGens,            \* bound: backends built
    MaxStarts,          \* bound: startWorkers and stopWorkers calls
    MaxTime,            \* bound: the clock
    MaxIds              \* bound: owner ids minted

ASSUME MountAssumption ==
    /\ Configs \subseteq Int
    /\ {DefaultCadence, FallbackInterval} \subseteq Nat \ {0}
    /\ {BootstrapDelay, MaxGens, MaxStarts, MaxTime, MaxIds} \subseteq Nat

Unset == -1             \* no config
NoId == 0               \* no owner id

Gens == 1 .. MaxGens
Starts == 1 .. MaxStarts
Ids == 0 .. MaxIds
Users == Procs \cup Starts      \* who needs the owner id: a request, or a manager's reconciler

\* A request thread is not a manager.
ASSUME ProcAssumption == Procs \cap Starts = {}

VARIABLES
    cloud,      \* which plugin the behaviour is about
    stored,     \* storage: config, meta and the owner instance id
    cur,        \* the newest backend, 0 before the first
    backend,    \* the backends: phase, role and what each holds in memory
    start,      \* the goroutines that replace or stop the workers
    mgr,        \* the worker managers, each named by the start that made it
    req,        \* config writes in progress
    use,        \* resolutions of the owner id in progress
    amiss,      \* history: since the last config write that began alone, one ended with
                \* its entry put and memory not set ("failure"), or two overlapped ("overlap")
    named,      \* the ids that credentials have been named with
    minted,     \* the newest id minted
    now

vars == <<cloud, stored, cur, backend, start, mgr, req, amiss, use, named, minted, now>>

WorkerNames == {"health-check", "reconciler", "upstream-purge", "shared-spaces-keys", "rotation"}

NoBackend == [phase |-> "unborn", role |-> "active", config |-> Unset, endpoint |-> "",
              owner |-> NoId, mgr |-> 0, bootstrapAt |-> Unset, passed |-> FALSE]

NoStart == [pc |-> "none", kind |-> "start", gen |-> 0]

NoMgr == [gen |-> 0, running |-> FALSE, workers |-> {}, cadence |-> 1, started |-> 0, next |-> 0]

Done == [NoStart EXCEPT !.pc = "done"]

NoReq == [pc |-> "idle", config |-> Unset, endpoint |-> ""]

NoUse == [pc |-> "idle", id |-> NoId]

\* What the records hold.
Held == Endpoints \cup {DefaultEndpoint, ""}

Backend == [phase : {"unborn", "built", "live", "cleaning", "cleaned", "dead"}, role : {"active", "standby"},
            config : Configs \cup {Unset}, endpoint : Held, owner : Ids, mgr : Starts \cup {0},
            bootstrapAt : Nat \cup {Unset}, passed : BOOLEAN]

Start == [pc : {"none", "queued", "draining", "run", "done"}, kind : {"start", "clean"}, gen : 0 .. MaxGens]

Mgr == [gen : 0 .. MaxGens, running : BOOLEAN, workers : SUBSET WorkerNames, cadence : Nat \ {0},
        started : Nat, next : Nat]

Req == [pc : {"idle", "meta", "memory"}, config : Configs \cup {Unset}, endpoint : Held]

Use == [pc : {"idle", "mint", "cache"}, id : Ids]

Amiss == {"none", "overlap", "failure"}

Init ==
    /\ cloud \in Clouds
    /\ stored = [config |-> Unset, meta |-> "", owner |-> NoId]
    /\ cur = 0
    /\ backend = [g \in Gens |-> NoBackend]
    /\ start = [s \in Starts |-> NoStart]
    /\ mgr = [s \in Starts |-> NoMgr]
    /\ req = [p \in Procs |-> NoReq]
    /\ use = [u \in Users |-> NoUse]
    /\ amiss = "none" /\ named = {} /\ minted = 0 /\ now = 0

-----------------------------------------------------------------------------
(* State formulae.                                                          *)

Live == cur # 0 /\ backend[cur].phase = "live"

\* No config write is in progress.
Settled == Live /\ \A p \in Procs : req[p].pc = "idle"

\* Requests reach the active node; its request threads are not re-entered.
Serving(p) == Live /\ backend[cur].role = "active" /\ req[p].pc = "idle" /\ use[p].pc = "idle"

\* The lifecycle mutex of g is held by the start that is past its first step.
Locked(g) == \E s \in Starts : start[s].gen = g /\ start[s].pc \in {"draining", "run"}

Running(s) == mgr[s].running

Pending(g) == \E s \in Starts : start[s].gen = g /\ start[s].pc \in {"queued", "draining", "run"}

\* go b.startWorkers, or the call Clean makes.
Queue(kind) ==
    \E s \in Starts :
        /\ start[s].pc = "none"
        /\ \A t \in Starts : start[t].pc = "none" => s <= t
        /\ start' = [start EXCEPT ![s] = [NoStart EXCEPT !.pc = "queued", !.kind = kind, !.gen = cur']]

\* Mutant of Cadence: an interval that is not positive is not clamped.
CadenceUnclamped(c) == IF c = Unset THEN DefaultCadence ELSE c

\* The cadence a manager runs at: a config that was never written is the
\* default, and an interval that is not positive is clamped.
Cadence(c) == IF c = Unset THEN DefaultCadence ELSE IF c <= 0 THEN FallbackInterval ELSE c

-----------------------------------------------------------------------------
(* Building a backend.                                                      *)

\* The two halves of loadConfig: the config entry, and the plugin's own settings,
\* where one that is empty does not replace the one held.
LoadEntry(b) == IF stored.config = Unset THEN b ELSE [b EXCEPT !.config = stored.config]

LoadMeta(b) == IF stored.meta = "" THEN b ELSE [b EXCEPT !.endpoint = stored.meta]

\* Factory: b is built once the backend before has been torn down or has died.
Build(b) ==
    /\ cur < MaxGens
    /\ cur # 0 => backend[cur].phase \in {"cleaned", "dead"}
    /\ cur' = cur + 1
    /\ \E r \in {"active", "standby"} :
         backend' = [backend EXCEPT ![cur'] = [b EXCEPT !.phase = "built", !.role = r]]
    /\ UNCHANGED <<cloud, stored, start, mgr, req, use, named, amiss, minted, now>>

Built == cur # 0 /\ backend[cur].phase = "built"

\* Initialize: what is stored has been loaded again, and the workers are started.
Initialise(b) ==
    /\ Built
    /\ backend' = [backend EXCEPT ![cur] = [b EXCEPT !.phase = "live"]]
    /\ amiss' = "none" /\ UNCHANGED cur /\ Queue("start")
    /\ UNCHANGED <<cloud, stored, mgr, req, use, named, minted, now>>

\* Clean: no request is being served.
Clean ==
    /\ Live
    /\ \A p \in Procs : req[p].pc = "idle" /\ use[p].pc = "idle"
    /\ backend' = [backend EXCEPT ![cur].phase = "cleaning"]
    /\ UNCHANGED cur /\ Queue("clean")
    /\ UNCHANGED <<cloud, stored, mgr, req, use, named, amiss, minted, now>>

\* The process ends: its goroutines and what it held in memory are gone.
Crash ==
    /\ cur # 0 /\ backend[cur].phase \in {"built", "live", "cleaning"}
    /\ backend' = [backend EXCEPT ![cur] = [NoBackend EXCEPT !.phase = "dead"]]
    /\ start' = [s \in Starts |-> IF start[s].pc = "none" THEN NoStart ELSE Done]
    /\ mgr' = [s \in Starts |-> NoMgr]
    /\ req' = [p \in Procs |-> NoReq]
    /\ use' = [u \in Users |-> NoUse]
    /\ amiss' = "none"
    /\ UNCHANGED <<cloud, stored, cur, named, minted, now>>

-----------------------------------------------------------------------------
(* Replacing the workers.                                                   *)

\* stopWorkersLocked, first half: the manager is taken out and cancelled.  A tick
\* in flight may outlive it.
StopLocked(s) ==
    LET g == start[s].gen
        old == backend[g].mgr
    IN /\ start[s].pc = "queued" /\ ~Locked(g)
       /\ start' = [start EXCEPT ![s].pc = "draining"]
       /\ backend' = [backend EXCEPT ![g].mgr = 0]
       /\ mgr' = IF old = 0 THEN mgr
                 ELSE [mgr EXCEPT ![old] = [NoMgr EXCEPT !.gen = IF use[old].pc = "idle" THEN 0 ELSE g]]
       /\ UNCHANGED <<cloud, stored, cur, req, use, named, amiss, minted, now>>

\* WaitFor: until the ticks in flight have ended, or until DrainTimeout has passed.
WaitFor(s) ==
    /\ start[s].pc = "draining"
    /\ start' = [start EXCEPT ![s].pc = "run"]
    /\ UNCHANGED <<cloud, stored, cur, backend, mgr, req, use, named, amiss, minted, now>>

\* Mutant of RemainingBootstrapDelay: every start holds off for the whole delay.
RemainingBootstrapDelayWhole(b) == BootstrapDelay

\* What is left of the hold-off, from the first time this backend started workers.
RemainingBootstrapDelay(b) ==
    IF b.bootstrapAt = Unset THEN BootstrapDelay
    ELSE Max({0, BootstrapDelay - (now - b.bootstrapAt)})

\* Mutant of Manager: its context does not descend from the backend's.
ManagerRootless(g, b, workers) ==
    [gen |-> g, running |-> TRUE, workers |-> workers, cadence |-> Cadence(b.config),
     started |-> IF b.passed THEN 0 ELSE now,
     next |-> IF b.passed THEN 0 ELSE now + RemainingBootstrapDelay(b) + Cadence(b.config)]

\* The manager of backend b: its context descends from the backend's, so nothing
\* of it runs once Clean has cancelled that.
Manager(g, b, workers) ==
    IF b.phase = "cleaned" THEN NoMgr
    ELSE [gen |-> g, running |-> TRUE, workers |-> workers, cadence |-> Cadence(b.config),
          started |-> IF b.passed THEN 0 ELSE now,
          next |-> IF b.passed THEN 0 ELSE now + RemainingBootstrapDelay(b) + Cadence(b.config)]

\* Mutant of StartWorkers: a mount without a config has no workers.
StartWorkersConfigured(s, workers) ==
    LET g == start[s].gen
        b == backend[g]
    IN /\ start[s].pc = "run" /\ start[s].kind = "start"
       /\ start' = [start EXCEPT ![s] = Done]
       /\ IF b.role = "standby" \/ b.config = Unset THEN UNCHANGED <<backend, mgr>>
          ELSE /\ backend' = [backend EXCEPT ![g].mgr = s,
                                ![g].bootstrapAt = IF @ = Unset THEN now ELSE @]
               /\ mgr' = [mgr EXCEPT ![s] = Manager(g, b, workers)]
       /\ UNCHANGED <<cloud, stored, cur, req, use, named, amiss, minted, now>>

\* The rest of startWorkers, under the mutex: nothing on a standby, and otherwise
\* a manager of the workers given.
StartWorkers(s, workers) ==
    LET g == start[s].gen
        b == backend[g]
    IN /\ start[s].pc = "run" /\ start[s].kind = "start"
       /\ start' = [start EXCEPT ![s] = Done]
       /\ IF b.role = "standby" THEN UNCHANGED <<backend, mgr>>
          ELSE /\ backend' = [backend EXCEPT ![g].mgr = s,
                                ![g].bootstrapAt = IF @ = Unset THEN now ELSE @]
               /\ mgr' = [mgr EXCEPT ![s] = Manager(g, b, workers)]
       /\ UNCHANGED <<cloud, stored, cur, req, use, named, amiss, minted, now>>

\* The rest of stopWorkers: the backend's own context is cancelled.
StopWorkers(s) ==
    /\ start[s].pc = "run" /\ start[s].kind = "clean"
    /\ start' = [start EXCEPT ![s] = Done]
    /\ backend' = [backend EXCEPT ![start[s].gen] = [NoBackend EXCEPT !.phase = "cleaned"]]
    /\ UNCHANGED <<cloud, stored, cur, mgr, req, use, named, amiss, minted, now>>

-----------------------------------------------------------------------------
(* The owner instance id.                                                   *)

GenOf(u) == IF u \in Procs THEN cur ELSE mgr[u].gen

\* A request names a credential with the id it has; a pass lists by it.
Have(u, id) == named' = IF u \in Procs THEN named \cup {id} ELSE named

\* ownerInstanceID: the id held in memory, or the one in storage, or a new one.
InstanceID(u) ==
    LET b == backend[GenOf(u)] IN
    IF b.owner # NoId THEN UNCHANGED use /\ Have(u, b.owner)
    ELSE /\ use' = [use EXCEPT ![u] = IF stored.owner = NoId THEN [pc |-> "mint", id |-> NoId]
                                     ELSE [pc |-> "cache", id |-> stored.owner]]
         /\ UNCHANGED named

\* No entry was read: a random id is minted and put.
OwnerPut(u) ==
    /\ use[u].pc = "mint" /\ minted < MaxIds
    /\ minted' = minted + 1
    /\ stored' = [stored EXCEPT !.owner = minted']
    /\ use' = [use EXCEPT ![u] = [pc |-> "cache", id |-> minted']]
    /\ UNCHANGED <<cloud, cur, backend, start, mgr, req, amiss, named, now>>

\* The id is kept in memory and used.
OwnerCache(u) ==
    /\ use[u].pc = "cache"
    /\ backend' = [backend EXCEPT ![GenOf(u)].owner = use[u].id]
    /\ use' = [use EXCEPT ![u] = NoUse] /\ Have(u, use[u].id)
    /\ mgr' = IF u \in Starts /\ ~Running(u) THEN [mgr EXCEPT ![u] = NoMgr] ELSE mgr
    /\ UNCHANGED <<cloud, stored, cur, start, req, amiss, minted, now>>

\* A request names a new credential after the mount: every cloud's but GCP's and OVH's do.
CredsRead(p) ==
    /\ cloud \notin {"gcp", "ovh"} /\ Serving(p)
    /\ InstanceID(p)
    /\ UNCHANGED <<cloud, stored, cur, backend, start, mgr, req, amiss, minted, now>>

-----------------------------------------------------------------------------
(* The reconciler's ticks.                                                  *)

Passed(s) == backend[mgr[s].gen].passed

\* The timer fires.
Due(s) ==
    /\ Running(s) /\ "reconciler" \in mgr[s].workers
    /\ mgr[s].next <= now /\ use[s].pc = "idle"

\* A pass has begun, and from here on passes are not timed.
Began(s) ==
    /\ mgr' = [mgr EXCEPT ![s].next = 0, ![s].started = 0]
    /\ backend' = [backend EXCEPT ![mgr[s].gen].passed = TRUE]
    /\ UNCHANGED <<cloud, stored, cur, start, req, amiss, minted, now>>

\* A pass that ends without having asked for the owner id.
ReconcileLocal(s) == Due(s) /\ ~Passed(s) /\ Began(s) /\ UNCHANGED <<use, named>>

\* A pass that deletes by owner: without a healthy minter it ends, and otherwise
\* it needs the id.
ReconcileOwned(s) ==
    \/ ReconcileLocal(s)
    \/ Due(s) /\ Began(s) /\ InstanceID(s)

\* Time passes while a first pass is awaited; one that is due has begun.
Advance ==
    /\ now < MaxTime
    /\ \E s \in Starts : Running(s) /\ ~Passed(s)
    /\ \A s \in Starts : Due(s) => Passed(s)
    /\ now' = now + 1
    /\ UNCHANGED <<cloud, stored, cur, backend, start, mgr, req, use, named, amiss, minted>>

-----------------------------------------------------------------------------
(* Writing the configuration: the config entry, then the plugin's own       *)
(* settings, then memory and the workers.  A put that fails ends the write. *)

Positive(c) == c > 0

\* What a write leaves in memory of a setting it does not carry.
KeepUnset(b, e) == IF e = "" THEN b.endpoint ELSE e

WriteConfig(p, c, e) ==
    /\ Serving(p)
    /\ stored' = [stored EXCEPT !.config = c]
    /\ req' = [req EXCEPT ![p] = [pc |-> "meta", config |-> c, endpoint |-> e]]
    /\ amiss' = IF \A q \in Procs : req[q].pc = "idle" THEN "none"
                ELSE IF amiss = "failure" THEN amiss ELSE "overlap"
    /\ UNCHANGED <<cloud, cur, backend, start, mgr, use, named, minted, now>>

WriteMeta(p) ==
    /\ req[p].pc = "meta"
    /\ \/ /\ stored' = [stored EXCEPT !.meta = req[p].endpoint]
          /\ req' = [req EXCEPT ![p].pc = "memory"] /\ UNCHANGED amiss
       \/ req' = [req EXCEPT ![p] = NoReq] /\ amiss' = "failure" /\ UNCHANGED stored
    /\ UNCHANGED <<cloud, cur, backend, start, mgr, use, named, minted, now>>

WriteMemory(p, e) ==
    /\ req[p].pc = "memory"
    /\ backend' = [backend EXCEPT ![cur].config = req[p].config, ![cur].endpoint = e]
    /\ req' = [req EXCEPT ![p] = NoReq]
    /\ UNCHANGED cur /\ Queue("start")
    /\ UNCHANGED <<cloud, stored, mgr, use, named, amiss, minted, now>>

\* The write is refused.
Refuse(p) ==
    /\ req' = [req EXCEPT ![p] = NoReq]
    /\ amiss' = "failure"
    /\ UNCHANGED <<cloud, stored, cur, backend, start, mgr, use, named, minted, now>>

\* A write that is validated before anything is stored.
ConfigWrite(p, e) ==
    \/ \E c \in Configs : Positive(c) /\ WriteConfig(p, c, e)
    \/ WriteMeta(p)

\* A minter set has been written: the workers are started again.
SetWritten(p) ==
    /\ Serving(p)
    /\ UNCHANGED cur /\ Queue("start")
    /\ UNCHANGED <<cloud, stored, backend, mgr, req, use, named, amiss, minted, now>>
=============================================================================
