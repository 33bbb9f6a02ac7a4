# Specifications of openbao-cloud-creds

TLA+ modules, TLC configurations and TLAPS proofs for the secrets plugins of this
repository: what happens to a cloud credential between the call that creates it and the
call that deletes it, when requests, background workers, operators, failing clouds and
failovers interleave.

Contents: [the system](#the-system) · [modules](#modules-and-the-code) ·
[runs](#runs) · [bounds](#bounds) · [fairness](#fairness) · [proofs](#proofs) ·
[disagreements with the text](#where-code-and-text-disagree) ·
[not modelled](#not-modelled) · [plan](#plan)

To repeat the checks: `tlc -config MCSharedKeyRace.cfg MCSharedKey` (one line per run in
`PROJECT.json`), and `tlapm` on each `*_proofs.tla`.

## The system

Ten OpenBao secrets engines (`plugins/credential-*`), one per cloud, built from the shared
packages under `pkg/`. A mount holds *minter sets*: groups of long-lived credentials
("minters") that may create short-lived ones. A client reads `creds/<role>`, the plugin
creates a credential upstream and OpenBao attaches a lease to it; when the lease ends OpenBao
calls the plugin's revoke. Requests run concurrently on the active node; every worker is a
goroutine on the same node; storage writes are single-key and there are no transactions. A
failover loses everything in memory and every goroutine, at any instruction.

| Component | State it keeps | Operations | Talks to | What is hard | What makes it correct | Module |
|---|---|---|---|---|---|---|
| Shared (rotated) Spaces keys, `credential-do/spaces_shared*.go` | `shared-spaces-keys/<role>` (current and retiring keys), `active-spaces-keys/<key>`, an in-memory lock per role | read, rotate, worker sweep, purge, role write | DigitalOcean, reconciler, purge | lock-free fast path, decision before the lock, create–track–save without a transaction | the key readers get is owned; no live key falls out of the record; no key is deleted under a lease | SharedKey |
| Minter recovery state machine, `pkg/recovery` | per minter: state, rejections, strikes, cooldown, probe claim | TryAcquire, RecordSuccess, RecordError, RateLimited, ReleaseProbe, health check | every handler that calls a cloud | answers out of order, a rate limit recorded in two critical sections, a hung probe | fields never contradict each other; one probe at a time; a good minter comes back | Breaker |
| Role writes, capability gate and verdict cache, `pkg/capability`, `pkg/cloudconfig/rolewrite.go`, `*/path_roles.go` | `roles/<name>`, verdicts under `capability-cache/`, limiter over the state machines | prefill, validate, probe, put; cache sweep | state machines, clouds, sets | two writes each proving against what the other is replacing; a verdict outliving its credential | what is selectable can mint what the role asks | Roles, CloudRoles |
| Minter sets, rotation, retirement, `*/path_minter_sets.go`, `*/minter_retire.go`, `pkg/cloudconfig` | set in storage, set in memory, `rotateSweepMu` | set write, delete, rotate, retired-sweep, load | cloud, capability gate | writes take no lock and straddle API calls; whole-set overwrites | selectable minters work; retirement is not undone; no successor is lost | MinterSet, CloudSets |
| Just-in-time issue, renew and revoke, `*/path_creds.go` | `active-*/<id>`, the mint ledger | admit, select, create, record, track, respond; renew; revoke | clouds, OpenBao's lease store | four stores updated one after another; the minter that created a key may be gone | a live credential is always reachable by something that can end it | JITLease (Exoscale), Issuance, Plugins |
| Local-expiry clouds (AWS, GCP, OVH), `pkg/localexpiry` | tracking with an expiry | create, track, prune | clouds | the cloud decides the lifetime, and cannot revoke | no lease outlasts its credential | Plugins |
| OCI slots, `credential-oci/slots.go` | `slots/<role>/<i>`, `rotateReconcileMu` | provision, scheduled and forced rotation, orphan pass, delete, read | OCI | a reader's slot is replaced under it; create and save outside the lock | a token is not ended under its lease; a pass spares new tokens | Slots |
| Orphan reconciler and ledger, `pkg/reconciler`, `pkg/mintledger` | ledger entries, none of its own | list, age, own, delete, prune | clouds, tracking, minter sets | list and ownership are read at different times | never deletes a leased credential; eventually deletes an orphan | JITLease, Plugins, Slots |
| Operator purge, `pkg/upstreampurge` | one intent per role | arm, bounded pass, worker continuation | tracking, plugin deleters | re-arming during a pass, partial passes, issues in flight | a complete purge is complete; a record outlives its credential | JITLease, Plugins, SharedKey |
| Mount lifecycle, configuration, workers, `*/backend.go`, `*/path_config.go`, `*/workers.go`, `pkg/worker`, `pkg/clusterrole` | backends, config entries, a worker manager, `workerLifecycleMu` | Factory, Initialize, Clean, config write, start and stop workers | everything above | restart on every write, drain deadline, Clean overtaking a start | one manager, of the live backend, at the current cadence | Mount, CloudMounts |
| Owner tag, `pkg/ownertag` | the mount's instance id | mint, cache, name, recognise | reconcilers | first use by two callers | everything the mount names it can recognise | Mount, CloudMounts |
| Capacity and affinity, `pkg/mintercapacity`, `pkg/minteraffinity` | none (counts tracking) | count, order minters | issue | count then mint | the limit is passed only by simultaneous issues | Issuance |
| Envelope, telemetry, requester, lineage, issuedlist, HTTP clients | none | format, classify, stamp | | | | |

`PROJECT.json` lists every component with its sources and status, and under `hazards` each
place where the code is exposed to something a test would hardly reach, with the property
that would notice, or a note on why no property covers it.

## Modules and the code

Each module takes the control of the code whole (every storage and API call is a step of its
own, with its error paths, unless a lock makes the grouping invisible) and reduces data to
what the properties distinguish. `PROJECT.json` maps every definition to its lines. Operators
announced as a *mutant* (`SaveNoOverlap`, `AkamaiOwnedEnding`, ...) precede the definition they
deviate from and are not used by it: they are plausible bugs with which each property is
shown to be able to fail.

**Blocks and clouds.** Ten plugins carry their own copies of the same handlers, which differ in
places. Four pairs of modules follow that: a module of *blocks* has the state and the steps the
copies share, each parameterised by what they differ in, and a module of *clouds* has one
definition per handler and plugin, read from that plugin's copy and saying which blocks it runs in
which order. A variable fixed by Init (`cloud`, `plugin`) names the plugin of a behaviour, so that one
run checks all of them.

    MinterSet --> CloudSets      set write, delete, rotate, retired-sweep, load
    Issuance  --> Plugins        read, renew, revoke, reconcile, purge   (implements Credential)
    Mount     --> CloudMounts    Factory, Initialize, Clean, config write, workers, owner id
    Roles     --> CloudRoles     role write, set write, rotation and their capability gate

**SharedKey** — one rotated DigitalOcean role. `cur` and `retiring` are the stored record;
`minted`, `rotateAt`, `deleteAt`, `grants` the attributes the record keeps for a key; `tracked`
the tracking records; `upstream` and `born` DigitalOcean; `leaseEnd` the leases handed out;
`lock` the role's mutex; `job[p]` a goroutine's locals, including the copies of role and record
it works from. Readers `LoadRole`, `ReadCheck` (the lock-free path of `serveSharedSpacesKey`),
`Decide` (again, under the lock), then `CreateOK/Fail/Lost`, `Track`, `SaveOK/Fail`, `Undo` of
`rotateSharedSpacesKey`; operators enter the same rotation unconditionally; the sweep is
`SweepStart … SweepSave` and then `SweepRotate`; a purge is `PurgeScan`, `PurgeDelete`, `Forget`,
`PurgeUntrack`. The environment writes or deletes the role, reconciles, ticks and crashes.

**Breaker** — one minter's `StateMachine` under its callers. Times are relative (time left of a
cooldown or claim, age of a call), so that the machine has finitely many states without an end
of time. `Issue` is TryAcquire plus the call; `Abandon` a request that gives up before its call;
`Revoke`, `HealthCheck`, `ProbeRole` and `ProbeSet` the other callers; `Answer`, `CheckAnswer` and
`ProbeAnswer` record what came back, each the way its caller does; `RecordRest` is the second critical
section of a recorded rate limit; `Flip` is the cloud accepting or rejecting the credential from now on. Left
out because nothing calls or passes them: `RecordMissing`, `Retry-After`; because nothing reads
them back: `lastSuccessAt`, `consecutiveFailures`.

**MinterSet, CloudSets** — an entry of `stored` or `loaded` is absent, active, or the instant it was
retired; a minter id stands for its credential. A write is `WriteRead` (merge by `PreserveLifecycle`), a probe of
any length, `WritePut`, a load into memory, with no lock; rotation and the retired-sweep hold `mu`
(`rotateSweepMu`) from their read to their load. The clouds differ in whether the probe is made, in what a
rotation needs and records (AWS's key belongs to a `user` and has a limit of two; Akamai's and GCP's
successors have a lifetime), and in how the sweep deletes; DigitalOcean, OCI, OVH and Vultr
cannot rotate. Two history variables name the exceptions of the invariants: `life`, the originals a rotation has
retired and those a write has put back since, and `misdated`, the successors whose expiry is not the one the set
was validated with.

**JITLease** — Exoscale's issue and revoke, the reconciler, the mint ledger with its retention and the pass's
budget, and the purge, over the same four stores: the cloud (`live`), `tracked`, `ledger` and `intent`, and
OpenBao's lease. That a minter is in the set (`members`) and that Exoscale accepts it (`accepted`) are two things: an
issue and a pass take a minter that has both, but a revoke takes the key's own `issuer` if it is in the set, accepted or not,
and looks for another only if it is not (`getMinter`). `unrecorded` remembers which keys' id or ledger entry was
lost (the code logs a warning): no property could hold for them.

**Issuance, Plugins** — the same life for the other plugins, with several minters (one of which may fail, be
rotated out or leave the set), the role's states, the capacity count, and lifetimes: Akamai, DigitalOcean (API
tokens and per-lease Spaces keys), Vultr renew and never expire upstream; Azure and UpCloud fix an end at the mint;
AWS, GCP and OVH cannot revoke, give the lease what the cloud gave, and prune. `Admit` and
`Choose` are separate from `Create` because the role and the count are read before the call and reserved by
nothing.

**Credential** — the abstract promise: a credential is minted, held, ended and released, or goes astray
before any client has it; a held one stops working only because its time is up or an operator
condemned it; and a lease is released only when its credential is dead, mortal, or nobody is left who could
delete it. `Plugins` implements it under the mapping `Phase`, `live`, `Mortal`, `Condemned`, `Manned`
(`KeepsPromise`).

**Slots** — one OCI role. `slots[i]` is a stored slot, `live` the user's tokens; provisioning creates
and saves with no lock, `rotateSlot` and the pass hold `mu`. A lease runs to `lease[t]`; two
history variables name the tokens of the two findings below: `overtook`, those that came into a slot while the worker,
having found it due, waited for `mu`, and `exposed`, those made before their slot was saved.

**Mount, CloudMounts** — backends are generations of one mount; `start` the goroutines that replace the worker
manager, `mgr` the managers they made, `req` the config writes between their two puts and the
assignment in memory, `amiss` whether the last of them left memory unset or overlapped another, `use` the
resolutions of the owner id between their read, put and caching.
Plugins differ in the order of a config write, in what of it a load restores, and in their workers.

**Roles, CloudRoles** — `req` is a write between its read and its put with the checks it has yet to
probe; `cache` the verdicts; `health` the cooldown and the rejections the gate looks at; `proofs` a history of which
credential minted which shape when. Plugins differ in the mint shape of a probe (on OVH and UpCloud no
role field reaches the cloud), in the fields a write validates, and OCI has no gate.

The components meet in shared vocabulary rather than in one composed specification: `accepted`,
`minter` and "a call may fail" are what Breaker decides; the set behind an issue is what MinterSet
writes; the set a role is proved against in Roles has no retired members, which MinterSet has.

`MC<module>.tla` names the model values and the role and config definitions of an instance.

## Runs

| Run | Instance | Shows |
|---|---|---|
| `shared_race` | reader, operator, sweep, one role write among three definitions (narrower, wider, disabled) | recorded live keys are tracked (`ServedKeysOwned`), every live key is reachable (`KeysReclaimable`, without failovers), leases fit the overlap (`LeaseCovered`), no rotation on an obsolete decision (`NoWastedMint`), nothing live leaves the record (`RecordedUntilGone`) |
| `shared_purge` | reader, sweep, purge, one failover, failing untracking | a dead current key can still be found and pruned (`DeadKeyFindable`) |
| `shared_live` | reader, sweep | `RetiredKeysDie`, through failing deletes and saves |
| `breaker` | issuer, revoker, health check, writer | `Coherent`, `ClaimOutlastsCall`; `BreakerCloses`, `Benched` |
| `minterset` | each of ten clouds: two originals that expire, writer, rotator, sweep, failover | a selectable minter is alive, unless a write put it back after its retirement (`ActiveAlive`); a set can issue, unless it holds a misdated successor (`SetServes`); no successor is lost (`SuccessorsKept`) or left over (`RetiredDies`) |
| `lease_life` | Exoscale: issuer, revoker, reconciler, purger, two minters, failures, failover | `Reclaimable`, `LeasedKeysLive`, `TrackedUntilGone`, `PurgeComplete`, `OrphansDie`; a lease ends, unless its issuing minter stays in the set and is refused for ever (`LeasesEnd`) |
| `plugins` | each of eight plugins: two goroutines, two minters, a fault, an operator's act | `KeepsPromise` (the refinement of Credential), `LeaseHonest` |
| `plugins_contain` | per-lease Spaces keys only, no faults: two goroutines, two keys, two operator acts | a limit is passed only by simultaneous issues (`CapacityBound`); a role closed and then purged has nothing outstanding, whatever was in flight (`Contained`) |
| `slots` | writer, operator, worker, pass, reader, two operator acts, a fault | the pass spares what a rotation has just made (`RotationSpared`); the worker ends no token under a lease, except one that came into the slot while the worker waited (`LeaseOutlived`) |
| `roles` | each of ten clouds: one writer at a time, two minters, three configs | every selectable minter has minted what the enabled role asks for (`Capable`); a verdict stands only for its credential, shape and age (`CacheHonest`) |
| `roles_overlap` | UpCloud, two writers | violated: see below |
| `mount` | each of ten clouds: two backends, three starts, one request | one manager, the live backend's (`WorkersContained`), at the current cadence (`WorkersCurrent`), the first pass within one cadence of the hold-off's end or, if that is later, of the last restart (`FirstPassInTime`), config survives writes that do not overlap (`ConfigReloads`) |

Every property of a passing run has a mutant in `PROJECT.json`: a change to a mapped definition
of the kind a careless edit would make, under which TLC finds that property violated.

## Bounds

Every bound is a constant used in a guard. `MaxTime` ends the clock; `MaxWrites`, `MaxCrashes`, `MaxFaults`,
`MaxBreaks`, `MaxActs`, `MaxStarts`, `MaxGens`, `MaxIds`, `MaxProbes` count what the environment and operators may do.

* SharedKey: two keys, clock 0–2, period 2, jitter up to 1, overlap 1, hold 2. Two keys let one
  be minted, replaced, retired and swept while its successor is current; a key whose creation
  was lost uses the second. With `MaxOp = 1` an operation may act on an instant one unit old. The
  safety theorems below do not depend on any of this.
* Breaker: one caller of each kind, threshold 2, base 2, cap 3, call up to 1, grace 2, two faults, one break: the second
  strike reaches the cap, a call can span the end of a cooldown, and the grace exceeds the call by one unit as 35 s
  exceeds the clients' timeout of 30 s. A second issuer is covered by the revoker and the writer, which record
  outcomes of their own, and by the theorems, which hold for any number of callers and unbounded strikes.
* MinterSet: two originals, of which one is rotated and has its upstream id recorded, so that the sweep may delete it; two
  successors (one committed; one lost, or rotated again); terms of 1 and 12, a lifetime of 9 and a gap of 3, so that a
  set may meet the gap exactly and fail it by one; one write, one failover, grace 0, clock 0–1: a write can straddle a
  rotation, a rotation a sweep, and the clock the validation and the mint of a successor.
* JITLease: one key, so that every interleaving of one life with one actor of each kind fits; two minters, one of them
  yet to be added, so that the issuing one can leave or be refused while another serves; two faults, one operator act.
  `MaxOp < Hold` is an assumption: an issue takes less than the confirmation hold between
  asking for a key and its tracking record. The code sets the hold well above any client timeout; without it the
  reconciler would be wrong.
* Plugins: `plugins` has one key and two minters, so that the one that minted may fail, retire or leave
  while the other stays; `plugins_contain` two keys against a limit of one, hold 4 and no faults, so that
  a purge can be armed `2 * MaxOp` after the role is closed, and for the one plugin whose handlers have
  every step (the capacity and closing code is the same block in all).
* Slots: a count of one, period 1, four tokens, clock 0–3, two operator acts and one fault: the role can be deleted and
  provisioned anew, or its slot rotated, while the worker waits (TLC finds `TTLHonest` violated both ways). Slots of one
  role share the mutex and nothing else; the theorems cover counts of one and two.
* Roles: two minters, two credentials, two scopes, two probes that mint, three writes: a role write, a
  set write that swaps a credential, and a third that relies on the verdicts of the first.
* Mount: two generations (one reload or crash), three starts, cadences 0, 1 and 2 (0 is stored by a bad
  write and must be clamped), one request thread, clock 0–3. With two threads this instance is too large for a routine run;
  the theorems hold for any number.

`CHECK_DEADLOCK FALSE` stands where the clock's bound lets an instance stop. Symmetry is used only in
`plugins`, `plugins_contain`, `roles` and the safety runs of SharedKey, over values that no
definition tells apart; no run that checks liveness uses it.

## Fairness

SharedKey, Breaker, CloudSets and JITLease state fairness; Slots, Plugins, Mount and Roles are checked for safety and
for action properties only.

* The clock advances (Breaker, JITLease), and a goroutine that is running takes its next step
  (weak): Go's scheduler does that, and every client has a timeout, so a call returns.
* Periodic workers start again (weak where nothing disables the start, strong where a lock or a missing
  minter intermittently does): `worker.Worker` is a ticker.
* A mutex goes in the end to whoever keeps waiting (strong): `sync.Mutex` has a starvation mode.
* A delete that is retried on every pass succeeds in the end (strong: `SweepDelete`, `Delete`, and the reconciler's
  `ReconcileStep`). This is an assumption about the clouds. Without it nothing can be said of
  deletions, and the retries are what the liveness properties are about.
* OpenBao retries a failed revocation (strong, `Revoke` or `RevokeNoMinter`), as its lease manager does.
* No fairness for operators, role and set writes, crashes, faults, purges or readers arriving. In `Breaker` issuers
  keep arriving; that a writer's probe is made in the end is assumed by `RepairSpec` alone, for `Repairable`.

What JITLease promises depends on its minters besides, and its two liveness properties say so. `OrphansDie` asks that there be an
accepted minter in the set again and again. `LeasesEnd` asks that the issuing minter not stay in the set and be refused for
ever: if it does, the code retries with that minter for ever (see "Seen while modelling").

## Proofs

`SharedKey_proofs`, `Breaker_proofs`, `Slots_proofs`, `JITLease_proofs`, `Plugins_proofs`, `CloudMounts_proofs`,
`CloudRoles_proofs` and `CloudSets_proofs`; for every value of the constants that satisfies the modules' assumptions (disjoint sets of goroutines, valid role
definitions, `MaxOp < Hold`, positive timings, a grace longer than a call, one or two slots), hence any number of
goroutines, minters, keys, backends, failovers and role definitions, and any length of time.

* `SharedKey`: `TypeCorrect`, `RecordedKeysOwned`, `NoKeyDropped` rest on `IInv == TypeOK /\ StructInv`.
  `ServedKeysOwned` is not inductive by itself: a sweep or a rotation saves the record from locals,
  so one has to know that the locals still describe it. `JobInv` says so: the record read under the
  lock is the record, except for keys the sweep itself has deleted; a key just minted is in no record; a
  key seen deleted stays deleted (DigitalOcean does not reuse ids: `used`). `NoKeyDropped` then takes
  the three steps that write the record one by one (`RecordWriters`).
* `LeasesCovered` assumes `OverlapsCompatible` and adds `LeaseInv`: a lease reaches at most an overlap
  beyond now, and an operation under the lock acts on an instant at most `MaxOp` old. The assumption is
  needed: see the next section.
* `RotationsNeeded` adds `ReasonInv`: whoever rotates under the lock has a reason that still holds, because the lock's
  holder alone writes what `rotationReason` reads of the record, and it judges by the role and instant it keeps.
* `KeysFound` assumes `~UntrackFails` and speaks of the time before a failover; `TracksInv` adds that a key is tracked
  exactly from its own rotation's record of it on. Both assumptions are needed: see the next section.
* `DeadKeysFindable` adds `FindInv`: nobody untracks the current key or one about to become current. The sweep works on
  retiring keys; a purge has had the record forget the key before it untracks it, and since a key that is in no record
  and no rotation never comes back into one, it is still forgotten by then (`FindKept`). It assumes `AlwaysRotated`: the
  purge of a role rewritten as a per-lease one does not touch the record (next section).
* `Breaker`: `TypeCorrect`, `SnapshotCoherent`, `ClaimsOutlastCalls` rest on
  `IInv == MachineOK /\ CallsOK /\ TornExplains /\ ClaimInv`. `ClaimInv` is the strengthening that
  matters: a probe's age and what is left of the claim add up to at least the grace, which survives other
  callers releasing and retaking the claim. One lemma per method of the state machine, one
  per kind of caller.

* `Slots`: `TypeCorrect` rests on `IInv`: `TypeOK`, which says who holds `rotateReconcileMu`, and `JobInv`, what each
  goroutine's locals say. `LocalStep` is the frame: it takes any step of one goroutine that takes the mutex,
  gives it back or leaves it alone. `RotationsSpared` adds `PassInv`, what the mutex is for: of the tokens a pass is
  going to delete, those in a slot or on their way to one could be seen by the pass before their slot was saved
  (`exposed`). Most steps keep it because they are `Harmless` (they make no token, and put in a slot at most the one
  they carry); a rotation makes one only while it holds the mutex, so while no pass runs (`Alone`); a pass starts by
  collecting every slot there is (`AllLoaded`). That last step needs `OneCount`, the role's `slot_count` never
  being rewritten: see "Seen while modelling".
* `LeasesOutlived` (`LeaseOutlived`) adds `HonestInv`, because a reader serves from the records it read earlier: of all the
  copies of a slot's record, the readers' too (`Records`), none allows a lease beyond the instant the token is to be
  replaced (`LeaseInv`); a token still on its way to its slot is in no copy (`FreshInv`); and what the worker is
  about to replace was due when its pass began, so that no copy allows a lease on it any more (`Outdated`, in
  `RotationInv`), or came into the slot while the worker waited for the mutex (`overtook`): an operator's rotation and
  the provisioning of a role are the only other steps that fill a slot (`Overtaking`). `Steady`, `Makes` and `Saves` are
  the three kinds of step. It has no assumption. TLC checks `IInv` and `HonestInv` on the instance of `slots`.

* `JITLease`: `TypeCorrect`, `KeysStayReclaimable`, `PurgesComplete`, `LeasedKeysSpared` and `TrackedOutlivesKey` rest on
  one `IInv`, because the four actors act on copies of what they read before and each has to know what the others
  may have done since. `IssueInv`, `RevokeInv`, `ReconcileInv` and `PurgeInv` say what a copy is still worth:
  a key listed before `listed - Hold` is one of a handler that must have ended (`Young`: an issue lasts at most
  `MaxOp < Hold`), so a key the pass finds unowned has no lease and will get none; a key that a revoke or a purge is about to
  untrack is gone. `OneHandler` keeps two issues apart, `IntentInv` holds a complete intent to the
  keys born before it. `Steady` is the frame: what a step that leaves a goroutine's locals alone must not do to
  the keys they name; each action is then shown once for the goroutine that takes it.
* `Plugins`: `Shared` reduces the steps of all the plugins to one `Step`: the blocks of Issuance with what the plugins
  differ in stated once (`Fitting`, the end a credential is made with; `Granted`, the lease time that fits it). `IInv`
  says, of an issue, that it is at most `MaxOp` old and that nobody else has its credential; so what a pass has listed,
  being older than `Hold`, is of no issue any more (`Aged`), and what it does not own has no lease. A purge goes only after
  what was condemned when it was armed, and what it has not seen was asked for too late or has yet to be tracked.
  `Minor` and `Steady` are the frames: what a step of one goroutine leaves to the others. `LeasesFit` and
  `ClosedAndPurged` are conjuncts of `IInv` or follow from it. `LimitsKept` adds `CapacityInv`: when a minter is chosen it has
  room, and of what was asked for long enough before an instant of the past there can only come to be fewer
  (`Comings`, `Fewer`). TLC checks `IInv` and `CapacityInv` on the instances of both runs.
* `PromiseKept` is the refinement of Credential, for any number of credentials and minters and every plugin: `Moves`
  and `Dying` say what a step of Plugins must do to be a step of Credential. Create is its Mint, Register its
  Hand, an undone or unleasable issue its Lose, Expire its End, and the Forget of a lease that is ending its Release,
  whose guard is the point: the handler has come there through a delete that succeeded, on a cloud that ends its
  credentials, or because `Deleters` found nobody to ask. All deletes are Die, and `IInv` is why none of them takes a
  credential that is being issued or held, unless it is condemned; condemned credentials stay so (`Grown`). A
  failover turns every issue into a stray at once.
* `CloudMounts`: `Shared` first reduces the steps of the ten plugins to the operations of Mount, so each is
  dealt with once. `OneManager` (`WorkersContained`) needs `Mutex` and `StartInv`: who holds `workerLifecycleMu` has
  stopped the old manager before it makes its own, and a start never outlives the Clean of its backend. `CurrentCadence`
  (`WorkersCurrent`) is inductive because every write queues a start of its own. `FirstPassDue` needs
  `ManagerInv`, which bounds the pass that is due (`next`) by one cadence after the hold-off or the start that made the timer;
  nothing bounds how often the workers are started, so it promises no pass to a mount that is written to all the time.
  TLC checks this `IInv` on the instance of `mount` as well.
* `ConfigSurvives` (`ConfigReloads`) has no assumption. `WriteInv` is why: while nothing is `amiss`, at most one config
  write is in progress, and what it has put is what it will set in memory.
* `CloudRoles`: `Shared` reduces the ten plugins' writes to the gate they enter (`SetGate`, `RoleGate`: with at least the
  checks the candidates need) and what the gate does with a check. `IInv` is the types and the one thing to know of the
  cache: for every verdict in it there is the probe that earned it, with the credential it names. `VerdictsHonest`
  follows check by check (`Earned`), for any number of overlapping writes. `SetCapable` adds `GatesHold`: what a write is going
  to store is proven for the role, except for the checks still to pass; a set write may leave unproven what the set has
  already. It assumes `OneWriter`, writes that do not overlap: with two it is false (next section). TLC checks `IInv` and
  `GatesHold` on the instance of `roles`.
* `CloudSets`: `IInv` says what a copy of the set is worth that is stored later. A write's has no successors (no endpoint
  gives their credentials out); while a goroutine has `rotateSweepMu`, writes can at most have removed successors from storage,
  and a sweep drops from its copy only what it has deleted (`Copy`); memory lists as active no successor that storage has
  retired, unless a rotation has yet to load what it put (`LoadedInv`); and no set knows of a successor before the rotation that
  made it stores it (`Unborn`). Deleting what is due is therefore harmless (`MintersAlive`), and what a sweep or rotation
  stores drops nothing that lives (`EntriesKept`). Originals are another matter, since a write carries them and a sweep may delete
  them: `LifeInv` says that one no rotation has retired is alive, and that a retired one is selectable nowhere until a write puts
  it back. `SetsServe` adds `Ready`: the set a rotation is going to store is valid with a stand-in for the successor, and so with
  the successor itself (`StandIn`), unless that is `misdated`. Neither theorem has an assumption. TLC checks `IInv`,
  `LifeInv` and `ServesInv` on the instance of `minterset`.

Only model-checked: all liveness (`RetiredKeysDie`, `BreakerCloses`, `Benched`, `RetiredDies`, `LeasesEnd`,
`OrphansDie`), which is outside this prover. Every other property of the passing runs is a theorem.

## Where code and text disagree

One run ends in a violation of a sentence in the repository (quoted in `PROJECT.json`): `roles_overlap`. A role
write prefills the fields it does not carry before its probes; a disable stored in between is undone (`CarriesOnly`; it
holds in runs with one writer).

The others are stated by a formula that stays in its module, outside the runs. To see one violated, add it to
the named configuration with the named change:

| Formula | In | Where it fails |
|---|---|---|
| `KeysReclaimable` | MCSharedKeyRace.cfg, `MaxCrashes = 1` | a failover between `trackSpacesKey` and `saveSharedSpacesState` leaves a key live, tracked and in no record |
| `Repairable` | MCBreaker.cfg, `SPECIFICATION RepairSpec` | the strikes of one 429 stay when the credential is then rejected; `Limiter.acquire` refuses every set write while a strike is left, so also the one that would replace the credential |
| `RetirementSticks` | MCCloudSets.cfg | a set write read before a rotation committed and stored after it un-retires the rotated-out minter, and the sweep that found it retired deletes it all the same if its upstream id is recorded |
| `Reloads` | MCCloudSets.cfg | AWS's successor of an expiring minter has no expiry; elsewhere the successor's expiry is counted from a later instant than that of the stand-in it was validated with, which may leave less than the gap: the next failover refuses the set |
| `RearmSticks` | MCJITLease.cfg, `MaxActs = 2`, two purgers | a purge pass saves the intent it started with over one armed since |
| `ThrottledInWindow` | MCRoles.cfg | the limiter also refuses a probe half-open, after the window |
| `FirstPassRegular` | MCMount.cfg, `MaxTime = 4` | every config and set write starts the workers and so the ticker again; writes more frequent than the cadence put the reconciler's pass off for ever |
| `ReloadMatches` | MCMount.cfg, two requests | two config writes overlap: the last to put is not the last to set memory, and backend and storage disagree until a reload |
| `OwnerStable` | MCMount.cfg, `MaxIds = 2`, two requests | two first uses of a mount mint one id each |
| `NoCreateTrackWindow` | MCSlots.cfg | a pass deletes the token a role being provisioned has just made |
| `TTLHonest` | MCSlots.cfg | the worker, having found a slot due, waits for the mutex; the token that an operator's rotation or a new provisioning has meanwhile put there is replaced at once, under its lease |
| `Staggered` | MCSlots.cfg, `SlotCounts = {2}`, `Period = 2` | every slot is rescheduled one interval ahead, so two fall due together |

And three without a formula: an UpCloud successor's name lacks the instance id the reconciler's filter asks for; OCI's config entry
is put before it is validated; a config write without region or endpoint keeps the old value in memory and
loses it on reload (seven plugins; `ConfigReloads` is about the shared entry, not about that field).

Seen while modelling, not in contradiction to any text quoted:

* A role rewritten with a shorter overlap and then rotated lets leases outlive their key
  (`path_roles.go:528-532` says no lease can); `OverlapsCompatible` excludes it. Even without it a lease may
  exceed the deletion time by the duration of one operation (`MaxOp`).
* An OCI role's `slot_count` lowered and raised again while a pass runs: the pass collected the slots below the lower
  count only (`loadAllSlots`), and deletes the token of a slot that the role now has again. `RotationSpared` is
  violated with `SlotCounts = {1, 2}` and `Period = 2`; the theorem assumes `OneCount`.
* A role changed from rotated to per-lease and then purged leaves the shared record naming a deleted key.
* `RecordError` does not release a probe claim although `ratelimit.go:142-144` says an outcome
  does; another caller's outcome may release a claim that is not its own.
* A 503 between two 401s resets the first-error time, so alternating answers postpone `auth_failing`.
* A retired minter deletes itself; if the set is then not saved, the next pass is answered 401, not 404, and
  the entry stays for good (its token is gone, so `RetiredDies` holds). A retired AWS original whose
  rotation parameters name no access key id is never deleted; an Azure successor is stored as
  never expiring although its secret ends after two years.
* The ledger forgets after 30 days, a lease may be longer; a revoke without a minter then strands its key.
* Undeletable orphans may use up the reconciler's budget in every pass.
* A key tracked but never leased (a failover before the response) is not reclaimed; a purge removes it.
* An issue in flight when a purge is armed escapes it (`PurgeComplete` and `Contained` are stated for the others).
* Deleting a role stops its purge; on Azure it also hides what the role left behind, because the lister
  visits only the applications of the roles there are.
* A key whose issuing minter is still in the set but refused by Exoscale cannot be revoked: `getMinter` ignores the
  minter's health, its error is returned, and OpenBao's retries do the same again (`path_creds.go:234`, `254-260`); the
  fallback to another minter is for one that is gone. `LeasesEnd` is violated without its premise. The purge finds the key's
  minter the same way (`path_purge.go:66`), and a key it cannot delete stays tracked.
* A role write and a set write that overlap may each store what the other did not prove: `Capable` is checked with
  one write at a time and is violated with two.

## Not modelled

* Envelope, error classification, telemetry, requester, lineage, listing: no state and no control of their own.
* The HTTP clients' wire formats: the models use the outcomes a call can have, and CloudSets what a rotation call
  needs and returns.
* Test harnesses (`pkg/baotest`, `pkg/plugintest`, the fakes): not part of the program.
* The inert class of orphans and its budget (clouds that report an expiry); dry runs and progress
  reports of a purge; which minter of a set is preferred (a load-balancing choice, here any).
* Of the workers, only the reconciler's ticks and the restarts; the other jobs are the other modules' actors.
* Liveness of Slots, Plugins, Mount and Roles: their instances end with the clock, and what must
  happen eventually there (orphans die, leases end) is what JITLease and CloudSets check with fairness.
* Names: whether a listed credential is the mount's own is a membership, not a string comparison.

## Plan

1. *Done.* SharedKey and Breaker with their proofs; CloudSets, JITLease, Plugins with Credential, Slots,
   CloudMounts, CloudRoles, checked; the proofs of Slots, JITLease, Plugins, CloudMounts, CloudRoles and CloudSets.
2. Larger instances: two keys in JITLease and `plugins`; two writers in `roles` with `Capable` restricted to
   writes that do not overlap; two request threads in `mount`; two slots with two operator acts in `slots`.
3. Fairness for Slots and Plugins; role changes between rotated and per-lease keys in SharedKey; the inert
   class of orphans in JITLease.
