---------------------------- MODULE CloudMounts ----------------------------
(***************************************************************************)
(* The life of a mount in the ten plugins, each from its own copy of the   *)
(* handlers.  They differ in the workers they start, in what a reconcile   *)
(* pass needs, in what a config write does to a setting it does not carry, *)
(* and, in OCI, in the order of validation and storage.                    *)
(***************************************************************************)
EXTENDS Mount

-----------------------------------------------------------------------------
(* Akamai reads its host entry whether or not a config entry is there.      *)

\* Mutant of AkamaiLoadConfig: only the host entry is loaded.
AkamaiLoadHost(b) == LoadMeta(b)

AkamaiLoadConfig(b) == LoadMeta(LoadEntry(b))

AkamaiFactory == cloud = "akamai" /\ Build(AkamaiLoadConfig(NoBackend))

AkamaiInitialize == cloud = "akamai" /\ Built /\ Initialise(AkamaiLoadConfig(backend[cur]))

AkamaiStopWorkersLocked(s) == cloud = "akamai" /\ (StopLocked(s) \/ WaitFor(s))

AkamaiStartWorkers(s) ==
    cloud = "akamai" /\ StartWorkers(s, {"health-check", "reconciler", "upstream-purge"})

AkamaiStopWorkers(s) == cloud = "akamai" /\ StopWorkers(s)

AkamaiReconcileWorker(s) == cloud = "akamai" /\ ReconcileOwned(s)

AkamaiConfigWrite(p, e) ==
    /\ cloud = "akamai"
    /\ ConfigWrite(p, e) \/ WriteMemory(p, KeepUnset(backend[cur], req[p].endpoint))

-----------------------------------------------------------------------------
(* AWS: a config write that names no region or endpoint keeps the one in    *)
(* memory; a pass prunes expired entries.                                   *)

AWSLoadConfig(b) == IF stored.config = Unset THEN b ELSE LoadMeta(LoadEntry(b))

AWSFactory == cloud = "aws" /\ Build(AWSLoadConfig(NoBackend))

AWSInitialize == cloud = "aws" /\ Built /\ Initialise(AWSLoadConfig(backend[cur]))

AWSStopWorkersLocked(s) == cloud = "aws" /\ (StopLocked(s) \/ WaitFor(s))

AWSStartWorkers(s) ==
    cloud = "aws" /\ StartWorkers(s, {"health-check", "reconciler"})

AWSStopWorkers(s) == cloud = "aws" /\ StopWorkers(s)

AWSReconcileWorker(s) == cloud = "aws" /\ ReconcileLocal(s)

AWSConfigWrite(p, e) ==
    /\ cloud = "aws"
    /\ ConfigWrite(p, e) \/ WriteMemory(p, KeepUnset(backend[cur], req[p].endpoint))

-----------------------------------------------------------------------------
(* Azure: a config write always replaces the tenant and the endpoints.      *)

AzureLoadConfig(b) == IF stored.config = Unset THEN b ELSE LoadMeta(LoadEntry(b))

AzureFactory == cloud = "azure" /\ Build(AzureLoadConfig(NoBackend))

AzureInitialize == cloud = "azure" /\ Built /\ Initialise(AzureLoadConfig(backend[cur]))

AzureStopWorkersLocked(s) == cloud = "azure" /\ (StopLocked(s) \/ WaitFor(s))

AzureStartWorkers(s) ==
    cloud = "azure" /\ StartWorkers(s, {"health-check", "reconciler", "upstream-purge"})

AzureStopWorkers(s) == cloud = "azure" /\ StopWorkers(s)

AzureReconcileWorker(s) == cloud = "azure" /\ ReconcileOwned(s)

AzureConfigWrite(p, e) ==
    /\ cloud = "azure"
    /\ ConfigWrite(p, e) \/ WriteMemory(p, req[p].endpoint)

-----------------------------------------------------------------------------
(* DigitalOcean also sweeps the keys that its roles share.                  *)

DOLoadConfig(b) == IF stored.config = Unset THEN b ELSE LoadMeta(LoadEntry(b))

DOFactory == cloud = "do" /\ Build(DOLoadConfig(NoBackend))

DOInitialize == cloud = "do" /\ Built /\ Initialise(DOLoadConfig(backend[cur]))

DOStopWorkersLocked(s) == cloud = "do" /\ (StopLocked(s) \/ WaitFor(s))

DOStartWorkers(s) ==
    cloud = "do" /\ StartWorkers(s, {"health-check", "reconciler", "upstream-purge", "shared-spaces-keys"})

DOStopWorkers(s) == cloud = "do" /\ StopWorkers(s)

DOReconcileWorker(s) == cloud = "do" /\ ReconcileOwned(s)

DOConfigWrite(p, e) ==
    /\ cloud = "do"
    /\ ConfigWrite(p, e) \/ WriteMemory(p, KeepUnset(backend[cur], req[p].endpoint))

-----------------------------------------------------------------------------
(* Exoscale prunes its mint ledger after a pass.                            *)

ExoscaleLoadConfig(b) == IF stored.config = Unset THEN b ELSE LoadMeta(LoadEntry(b))

ExoscaleFactory == cloud = "exoscale" /\ Build(ExoscaleLoadConfig(NoBackend))

ExoscaleInitialize == cloud = "exoscale" /\ Built /\ Initialise(ExoscaleLoadConfig(backend[cur]))

ExoscaleStopWorkersLocked(s) == cloud = "exoscale" /\ (StopLocked(s) \/ WaitFor(s))

ExoscaleStartWorkers(s) ==
    cloud = "exoscale" /\ StartWorkers(s, {"health-check", "reconciler", "upstream-purge"})

ExoscaleStopWorkers(s) == cloud = "exoscale" /\ StopWorkers(s)

ExoscaleReconcileWorker(s) == cloud = "exoscale" /\ ReconcileOwned(s)

ExoscaleConfigWrite(p, e) ==
    /\ cloud = "exoscale"
    /\ ConfigWrite(p, e) \/ WriteMemory(p, KeepUnset(backend[cur], req[p].endpoint))

-----------------------------------------------------------------------------
(* GCP: the setting is the project; a pass prunes expired entries.          *)

GCPLoadConfig(b) == IF stored.config = Unset THEN b ELSE LoadMeta(LoadEntry(b))

GCPFactory == cloud = "gcp" /\ Build(GCPLoadConfig(NoBackend))

GCPInitialize == cloud = "gcp" /\ Built /\ Initialise(GCPLoadConfig(backend[cur]))

GCPStopWorkersLocked(s) == cloud = "gcp" /\ (StopLocked(s) \/ WaitFor(s))

GCPStartWorkers(s) ==
    cloud = "gcp" /\ StartWorkers(s, {"health-check", "reconciler"})

GCPStopWorkers(s) == cloud = "gcp" /\ StopWorkers(s)

GCPReconcileWorker(s) == cloud = "gcp" /\ ReconcileLocal(s)

GCPConfigWrite(p, e) ==
    /\ cloud = "gcp"
    /\ ConfigWrite(p, e) \/ WriteMemory(p, KeepUnset(backend[cur], req[p].endpoint))

-----------------------------------------------------------------------------
(* OCI stores the config before it validates the intervals, rotates         *)
(* slots, and purges nothing.                                               *)

OCILoadConfig(b) == IF stored.config = Unset THEN b ELSE LoadMeta(LoadEntry(b))

OCIFactory == cloud = "oci" /\ Build(OCILoadConfig(NoBackend))

OCIInitialize == cloud = "oci" /\ Built /\ Initialise(OCILoadConfig(backend[cur]))

OCIStopWorkersLocked(s) == cloud = "oci" /\ (StopLocked(s) \/ WaitFor(s))

OCIStartWorkers(s) ==
    cloud = "oci" /\ StartWorkers(s, {"health-check", "rotation", "reconciler"})

OCIStopWorkers(s) == cloud = "oci" /\ StopWorkers(s)

OCIReconcileWorker(s) == cloud = "oci" /\ ReconcileOwned(s)

OCIConfigWrite(p, e) ==
    /\ cloud = "oci"
    /\ \/ \E k \in Configs : WriteConfig(p, k, e)
       \/ req[p].pc = "meta" /\ ~Positive(req[p].config) /\ Refuse(p)
       \/ Positive(req[p].config) /\ WriteMeta(p)
       \/ WriteMemory(p, req[p].endpoint)

-----------------------------------------------------------------------------
(* OVH fills in the endpoint of the region; a pass prunes expired           *)
(* entries.                                                                 *)

OVHLoadConfig(b) == IF stored.config = Unset THEN b ELSE LoadMeta(LoadEntry(b))

OVHFactory == cloud = "ovh" /\ Build(OVHLoadConfig([NoBackend EXCEPT !.endpoint = DefaultEndpoint]))

OVHInitialize == cloud = "ovh" /\ Built /\ Initialise(OVHLoadConfig(backend[cur]))

OVHStopWorkersLocked(s) == cloud = "ovh" /\ (StopLocked(s) \/ WaitFor(s))

OVHStartWorkers(s) ==
    cloud = "ovh" /\ StartWorkers(s, {"health-check", "reconciler"})

OVHStopWorkers(s) == cloud = "ovh" /\ StopWorkers(s)

OVHReconcileWorker(s) == cloud = "ovh" /\ ReconcileLocal(s)

OVHConfigWrite(p, e) ==
    /\ cloud = "ovh"
    /\ ConfigWrite(p, IF e = "" THEN DefaultEndpoint ELSE e) \/ WriteMemory(p, req[p].endpoint)

-----------------------------------------------------------------------------
(* UpCloud keeps its settings under config/username.                        *)

UpCloudLoadConfig(b) == IF stored.config = Unset THEN b ELSE LoadMeta(LoadEntry(b))

UpCloudFactory == cloud = "upcloud" /\ Build(UpCloudLoadConfig(NoBackend))

UpCloudInitialize == cloud = "upcloud" /\ Built /\ Initialise(UpCloudLoadConfig(backend[cur]))

UpCloudStopWorkersLocked(s) == cloud = "upcloud" /\ (StopLocked(s) \/ WaitFor(s))

UpCloudStartWorkers(s) ==
    cloud = "upcloud" /\ StartWorkers(s, {"health-check", "reconciler", "upstream-purge"})

UpCloudStopWorkers(s) == cloud = "upcloud" /\ StopWorkers(s)

UpCloudReconcileWorker(s) == cloud = "upcloud" /\ ReconcileOwned(s)

UpCloudConfigWrite(p, e) ==
    /\ cloud = "upcloud"
    /\ ConfigWrite(p, e) \/ WriteMemory(p, KeepUnset(backend[cur], req[p].endpoint))

-----------------------------------------------------------------------------
(* Vultr prunes its mint ledger after a pass.                               *)

VultrLoadConfig(b) == IF stored.config = Unset THEN b ELSE LoadMeta(LoadEntry(b))

VultrFactory == cloud = "vultr" /\ Build(VultrLoadConfig(NoBackend))

VultrInitialize == cloud = "vultr" /\ Built /\ Initialise(VultrLoadConfig(backend[cur]))

VultrStopWorkersLocked(s) == cloud = "vultr" /\ (StopLocked(s) \/ WaitFor(s))

VultrStartWorkers(s) ==
    cloud = "vultr" /\ StartWorkers(s, {"health-check", "reconciler", "upstream-purge"})

VultrStopWorkers(s) == cloud = "vultr" /\ StopWorkers(s)

VultrReconcileWorker(s) == cloud = "vultr" /\ ReconcileOwned(s)

VultrConfigWrite(p, e) ==
    /\ cloud = "vultr"
    /\ ConfigWrite(p, e) \/ WriteMemory(p, KeepUnset(backend[cur], req[p].endpoint))

-----------------------------------------------------------------------------
(* The specification.                                                         *)

Next ==
    \/ AkamaiFactory \/ AWSFactory \/ AzureFactory \/ DOFactory
    \/ ExoscaleFactory \/ GCPFactory \/ OCIFactory \/ OVHFactory
    \/ UpCloudFactory \/ VultrFactory
    \/ AkamaiInitialize \/ AWSInitialize \/ AzureInitialize
    \/ DOInitialize \/ ExoscaleInitialize \/ GCPInitialize
    \/ OCIInitialize \/ OVHInitialize \/ UpCloudInitialize
    \/ VultrInitialize
    \/ Clean \/ Crash \/ Advance
    \/ \E s \in Starts :
         \/ AkamaiStopWorkersLocked(s) \/ AWSStopWorkersLocked(s)
         \/ AzureStopWorkersLocked(s) \/ DOStopWorkersLocked(s)
         \/ ExoscaleStopWorkersLocked(s) \/ GCPStopWorkersLocked(s)
         \/ OCIStopWorkersLocked(s) \/ OVHStopWorkersLocked(s)
         \/ UpCloudStopWorkersLocked(s) \/ VultrStopWorkersLocked(s)
         \/ AkamaiStartWorkers(s) \/ AWSStartWorkers(s)
         \/ AzureStartWorkers(s) \/ DOStartWorkers(s)
         \/ ExoscaleStartWorkers(s) \/ GCPStartWorkers(s)
         \/ OCIStartWorkers(s) \/ OVHStartWorkers(s) \/ UpCloudStartWorkers(s)
         \/ VultrStartWorkers(s)
         \/ AkamaiStopWorkers(s) \/ AWSStopWorkers(s) \/ AzureStopWorkers(s)
         \/ DOStopWorkers(s) \/ ExoscaleStopWorkers(s) \/ GCPStopWorkers(s)
         \/ OCIStopWorkers(s) \/ OVHStopWorkers(s) \/ UpCloudStopWorkers(s)
         \/ VultrStopWorkers(s)
         \/ AkamaiReconcileWorker(s) \/ AWSReconcileWorker(s)
         \/ AzureReconcileWorker(s) \/ DOReconcileWorker(s)
         \/ ExoscaleReconcileWorker(s) \/ GCPReconcileWorker(s)
         \/ OCIReconcileWorker(s) \/ OVHReconcileWorker(s)
         \/ UpCloudReconcileWorker(s) \/ VultrReconcileWorker(s)
    \/ \E p \in Procs :
         \/ SetWritten(p) \/ CredsRead(p)
         \/ \E e \in Endpoints :
              \/ AkamaiConfigWrite(p, e) \/ AWSConfigWrite(p, e)
              \/ AzureConfigWrite(p, e) \/ DOConfigWrite(p, e)
              \/ ExoscaleConfigWrite(p, e) \/ GCPConfigWrite(p, e)
              \/ OCIConfigWrite(p, e) \/ OVHConfigWrite(p, e)
              \/ UpCloudConfigWrite(p, e) \/ VultrConfigWrite(p, e)
    \/ \E u \in Users : OwnerPut(u) \/ OwnerCache(u)

Spec == Init /\ [][Next]_vars

-----------------------------------------------------------------------------
(* Properties.                                                                *)

TypeOK ==
    /\ cloud \in Clouds
    /\ stored \in [config : Configs \cup {Unset}, meta : Held, owner : Ids]
    /\ cur \in 0 .. MaxGens /\ minted \in Ids /\ now \in 0 .. MaxTime /\ named \subseteq Ids
    /\ amiss \in Amiss
    /\ backend \in [Gens -> Backend]
    /\ start \in [Starts -> Start]
    /\ mgr \in [Starts -> Mgr]
    /\ req \in [Procs -> Req]
    /\ use \in [Users -> Use]

\* Whatever starts overlap with whatever writes, reloads and crashes, a manager
\* that is not cancelled is the only one, is the one that the live backend of the
\* active node will cancel, and none survives Clean: not even one started by a
\* goroutine that Clean overtook.  It is what workerLifecycleMu, baseCtx and the
\* check of the node's role are for.
WorkersContained ==
    \A s \in Starts : Running(s) =>
        /\ mgr[s].gen = cur /\ backend[cur].phase \in {"live", "cleaning"}
        /\ backend[cur].role = "active" /\ backend[cur].mgr = s

\* When nothing is left to start, the live backend of the active node has workers,
\* at the cadence of the config it holds.  Every write restarts them, and a write
\* that lands while an older start is draining must not be overtaken by it.
WorkersCurrent ==
    Live /\ backend[cur].role = "active" /\ ~Pending(cur) =>
        /\ backend[cur].mgr # 0 /\ Running(backend[cur].mgr)
        /\ mgr[backend[cur].mgr].cadence = Cadence(backend[cur].config)

\* remainingBootstrapDelay (audit A29): a start of the workers does not begin the
\* hold-off again, it waits for what is left of the first start's.  So the first
\* pass is begun within one cadence of the end of that hold-off, or of the last
\* start if that is later: a start begins the cadence again, see FirstPassRegular.
FirstPassInTime ==
    \A s \in Starts : Running(s) /\ ~Passed(s) =>
        LET held == backend[mgr[s].gen].bootstrapAt + BootstrapDelay
        IN now <= Max({held, mgr[s].started}) + mgr[s].cadence

\* "A reconciliation worker runs every 6h (configurable, with a 24h bootstrap delay
\* after plugin start)" (docs/techrfc.md): the first pass is begun within one
\* cadence, the longest there is, of the end of the hold-off.  Violated: every
\* write of the config or of a minter set starts the workers, and so the ticker,
\* again, and writes more frequent than the cadence put the pass off without end.
FirstPassRegular ==
    \A s \in Starts : Running(s) /\ ~Passed(s) =>
        now <= backend[mgr[s].gen].bootstrapAt + BootstrapDelay
                 + Max({Cadence(c) : c \in Configs \cup {Unset}})

\* Every credential is named with the id in storage, the one by which a pass of
\* any later backend knows the mount's own: the id "is stable for the life of the
\* mount".  Two first uses of a new mount can each mint one.
OwnerStable == named \subseteq {stored.owner}

\* With no write in progress, a backend that is built now would have the config
\* that the live one has, unless the last write was refused after its put, failed
\* half way, or overlapped another: short of that, no operator's config is lost by
\* a failover or a reload, and none comes back.
ConfigReloads == Settled /\ amiss = "none" => backend[cur].config = stored.config

\* "a reloaded backend (failover/restart) matches one that just had config written"
\* (loadConfig), whatever writes overlapped.  Violated: of two writes, the one that
\* puts its entry last need not be the one that sets memory last.
ReloadMatches == Settled /\ amiss # "failure" => backend[cur].config = stored.config

-----------------------------------------------------------------------------
(* The inductive invariant behind the safety properties. *)

\* A start that is yet to end belongs to a backend that was live, and to the one
\* that Clean is tearing down if it is Clean's; with the mutex, it has taken the
\* old manager out.  Its own manager comes with its last step.
StartInv(s) ==
    LET g == start[s].gen IN
    /\ start[s].pc \in {"queued", "draining", "run"} =>
          /\ g \in 1 .. cur
          /\ backend[g].phase \in {"live", "cleaning", "cleaned"}
          /\ start[s].kind = "clean" => backend[g].phase # "live"
    /\ start[s].pc \in {"draining", "run"} => backend[g].mgr = 0
    /\ start[s].pc # "done" => ~Running(s) /\ use[s].pc = "idle"

Mutex ==
    \A s, t \in Starts :
        /\ start[s].gen = start[t].gen
        /\ start[s].pc \in {"draining", "run"} /\ start[t].pc \in {"draining", "run"}
        => s = t

\* Earlier backends have ended; a backend's manager is the work of a start that
\* has ended, and no other backend's.
BackendInv(g) ==
    /\ g < cur => backend[g].phase \in {"cleaned", "dead"}
    /\ backend[g].mgr # 0 => start[backend[g].mgr].pc = "done"
    /\ \A h \in Gens : backend[g].mgr # 0 /\ backend[g].mgr = backend[h].mgr => g = h

\* The first pass of a manager that runs is due one cadence after the hold-off or
\* its start, and the clock does not pass it by.
ManagerInv(s) ==
    Running(s) =>
        /\ cur # 0 /\ mgr[s].gen = cur /\ backend[cur].phase \in {"live", "cleaning"}
        /\ backend[cur].role = "active" /\ backend[cur].mgr = s
        /\ "reconciler" \in mgr[s].workers /\ backend[cur].bootstrapAt # Unset
        /\ ~Passed(s) =>
              /\ use[s].pc = "idle" /\ now <= mgr[s].next
              /\ mgr[s].next <= Max({backend[cur].bootstrapAt + BootstrapDelay, mgr[s].started}) + mgr[s].cadence

\* Requests are served by a live backend, which was built with the config stored.
RequestInv ==
    /\ ~Live => \A p \in Procs : req[p].pc = "idle"
    /\ Built => backend[cur].config = stored.config

IInv ==
    /\ TypeOK /\ Mutex /\ RequestInv /\ WorkersCurrent
    /\ \A s \in Starts : StartInv(s) /\ ManagerInv(s)
    /\ \A g \in Gens : BackendInv(g)

\* While nothing is amiss, one write at most is in progress, and the config that it
\* has put is the one stored.
WriteInv ==
    amiss = "none" => \A p, q \in Procs : req[p].pc # "idle" =>
        /\ req[p].config = stored.config
        /\ req[q].pc # "idle" => p = q
=============================================================================
