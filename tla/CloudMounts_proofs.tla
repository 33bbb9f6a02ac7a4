------------------------- MODULE CloudMounts_proofs -------------------------
(***************************************************************************)
(* Proofs about the life of a mount, for every plugin, any number of       *)
(* backends, starts and request threads, any configuration and any         *)
(* timings: the steps of the ten plugins are first reduced to the          *)
(* operations they share, and each of these is shown to keep the           *)
(* invariant.                                                              *)
(***************************************************************************)
EXTENDS CloudMounts, TLAPS

\* The larger of two numbers.
LEMMA MaxOf ==
    ASSUME NEW a \in Int, NEW b \in Int
    PROVE  Max({a, b}) \in {a, b} /\ Max({a, b}) >= a /\ Max({a, b}) >= b
<1> DEFINE P(x) == x \in {a, b} /\ \A y \in {a, b} : x >= y
<1>1. \E x : P(x)
  <2>1. CASE a >= b
    BY <2>1
  <2>2. CASE b >= a
    BY <2>2
  <2> QED
    BY <2>1, <2>2
<1>2. Max({a, b}) = CHOOSE x : P(x)
  BY DEF Max
<1>3. P(CHOOSE x : P(x))
  BY <1>1
<1> QED
  BY <1>2, <1>3

\* The records that nothing has been put in.
LEMMA Blank ==
    /\ NoBackend \in Backend /\ NoStart \in Start /\ Done \in Start /\ NoMgr \in Mgr /\ NoReq \in Req /\ NoUse \in Use
    /\ NoBackend.mgr = 0 /\ NoBackend.config = Unset /\ NoBackend.role = "active" /\ NoBackend.bootstrapAt = Unset
    /\ NoStart.pc = "none" /\ NoStart.gen = 0 /\ Done.pc = "done" /\ Done.gen = 0
    /\ NoMgr.running = FALSE /\ NoReq.pc = "idle" /\ NoUse.pc = "idle"
<1> USE MountAssumption
<1>1. NoBackend \in Backend
  BY DEF NoBackend, Backend, Unset, Held, Ids, NoId
<1>2. NoStart \in Start /\ Done \in Start
  BY DEF NoStart, Done, Start
<1>3. NoMgr \in Mgr
  BY DEF NoMgr, Mgr
<1>4. NoReq \in Req /\ NoUse \in Use
  BY DEF NoReq, NoUse, Req, Use, Held, Unset, NoId, Ids
<1> QED
  BY <1>1, <1>2, <1>3, <1>4 DEF NoBackend, NoStart, Done, NoMgr, NoReq, NoUse

-----------------------------------------------------------------------------
(* What the ten plugins share. *)

\* A backend as built, and as loaded again: no manager, and the stored config.
Fresh(b) == b \in Backend /\ b.mgr = 0 /\ b.config = stored.config

Again(b) ==
    /\ b \in Backend /\ (stored.config = backend[cur].config => b.config = stored.config)
    /\ b.mgr = backend[cur].mgr

\* The operations of one start, and of one request.
StartStep(s) ==
    \/ StopLocked(s) \/ WaitFor(s) \/ StopWorkers(s) \/ ReconcileLocal(s) \/ ReconcileOwned(s)
    \/ \E W \in SUBSET WorkerNames : "reconciler" \in W /\ StartWorkers(s, W)

RequestStep(p) ==
    \/ SetWritten(p) \/ CredsRead(p) \/ WriteMeta(p)
    \/ req[p].pc = "meta" /\ Refuse(p)
    \/ \E c \in Configs, e \in Held : WriteConfig(p, c, e)
    \/ \E e \in Held : WriteMemory(p, e)

Step ==
    \/ \E b : Fresh(b) /\ Build(b)
    \/ \E b : Again(b) /\ Built /\ Initialise(b)
    \/ Clean \/ Crash \/ Advance
    \/ \E s \in Starts : StartStep(s)
    \/ \E p \in Procs : RequestStep(p)
    \/ \E u \in Users : OwnerPut(u) \/ OwnerCache(u)
    \/ UNCHANGED vars

\* What a load makes of a backend.
LEMMA Loads ==
    ASSUME TypeOK, NEW b \in Backend
    PROVE  /\ LoadEntry(b) \in Backend /\ LoadMeta(b) \in Backend
           /\ LoadEntry(b).mgr = b.mgr /\ LoadMeta(b).mgr = b.mgr
           /\ LoadMeta(b).config = b.config
           /\ LoadEntry(b).config = IF stored.config = Unset THEN b.config ELSE stored.config
BY DEF LoadEntry, LoadMeta, TypeOK, Backend

LEMMA LoadsAll ==
    ASSUME TypeOK, NEW b \in Backend
    PROVE  \A c \in {LoadMeta(LoadEntry(b)), IF stored.config = Unset THEN b ELSE LoadMeta(LoadEntry(b))} :
              /\ c \in Backend /\ c.mgr = b.mgr
              /\ b.config \in {Unset, stored.config} => c.config = stored.config \/ (stored.config = Unset /\ c.config = b.config)
<1>1. LoadEntry(b) \in Backend
  BY Loads
<1>2. LoadMeta(LoadEntry(b)) \in Backend /\ LoadMeta(LoadEntry(b)).mgr = b.mgr
      /\ LoadMeta(LoadEntry(b)).config = IF stored.config = Unset THEN b.config ELSE stored.config
  BY <1>1, Loads
<1> QED
  BY <1>2

\* Every step of a plugin is one of the shared operations.
LEMMA Shared == ASSUME IInv, [Next]_vars PROVE Step
<1> TypeOK /\ RequestInv
  BY DEF IInv
<1> DEFINE Loaded(b) == {LoadMeta(LoadEntry(b)), IF stored.config = Unset THEN b ELSE LoadMeta(LoadEntry(b))}
<1>1. ASSUME NEW b \in Backend, NEW c \in Loaded(b), b.mgr = 0, b.config = Unset PROVE Fresh(c)
  BY <1>1, LoadsAll DEF Fresh
<1>2. ASSUME Built, NEW c \in Loaded(backend[cur]) PROVE Again(c)
  <2>1. backend[cur] \in Backend
    BY <1>2, MountAssumption DEF Built, TypeOK, Gens
  <2> QED
    BY <1>2, <2>1, LoadsAll DEF Again, RequestInv
<1>3. ASSUME NEW p \in Procs, req[p].pc = "memory"
      PROVE  req[p].endpoint \in Held /\ KeepUnset(backend[cur], req[p].endpoint) \in Held
  <2>1. req[p] \in Req /\ cur \in Gens
    BY <1>3, MountAssumption DEF RequestInv, Live, TypeOK, Gens
  <2> QED
    BY <2>1 DEF TypeOK, Req, Backend, KeepUnset
<1>4. DefaultEndpoint \in Held /\ "" \in Held /\ Endpoints \subseteq Held
  BY DEF Held
<1>5. CASE \/ AkamaiFactory \/ AWSFactory \/ AzureFactory \/ DOFactory
           \/ ExoscaleFactory \/ GCPFactory \/ OCIFactory \/ OVHFactory
           \/ UpCloudFactory \/ VultrFactory
  <2>1. NoBackend \in Backend /\ NoBackend.mgr = 0 /\ NoBackend.config = Unset
    BY Blank
  <2>2. [NoBackend EXCEPT !.endpoint = DefaultEndpoint] \in Backend
        /\ [NoBackend EXCEPT !.endpoint = DefaultEndpoint].mgr = 0
        /\ [NoBackend EXCEPT !.endpoint = DefaultEndpoint].config = Unset
    BY <1>4, <2>1 DEF Backend
  <2>3. \A c \in Loaded(NoBackend) \cup Loaded([NoBackend EXCEPT !.endpoint = DefaultEndpoint]) : Fresh(c)
    BY <1>1, <2>1, <2>2
  <2>4. \E c \in Loaded(NoBackend) \cup Loaded([NoBackend EXCEPT !.endpoint = DefaultEndpoint]) : Build(c)
    BY <1>5, Zenon DEF AkamaiFactory, AWSFactory, AzureFactory, DOFactory, ExoscaleFactory, GCPFactory, OCIFactory,
      OVHFactory, UpCloudFactory, VultrFactory, AkamaiLoadConfig, AWSLoadConfig, AzureLoadConfig, DOLoadConfig,
      ExoscaleLoadConfig, GCPLoadConfig, OCILoadConfig, OVHLoadConfig, UpCloudLoadConfig, VultrLoadConfig
  <2> QED
    BY <2>3, <2>4 DEF Step
<1>6. CASE \/ AkamaiInitialize \/ AWSInitialize \/ AzureInitialize
           \/ DOInitialize \/ ExoscaleInitialize \/ GCPInitialize
           \/ OCIInitialize \/ OVHInitialize \/ UpCloudInitialize
           \/ VultrInitialize
  <2>1. Built /\ \E c \in Loaded(backend[cur]) : Initialise(c)
    BY <1>6, Zenon DEF AkamaiInitialize, AWSInitialize, AzureInitialize, DOInitialize, ExoscaleInitialize, GCPInitialize,
      OCIInitialize, OVHInitialize, UpCloudInitialize, VultrInitialize, AkamaiLoadConfig, AWSLoadConfig, AzureLoadConfig,
      DOLoadConfig, ExoscaleLoadConfig, GCPLoadConfig, OCILoadConfig, OVHLoadConfig, UpCloudLoadConfig, VultrLoadConfig
  <2> QED
    BY <1>2, <2>1 DEF Step
<1>7. ASSUME NEW s \in Starts,
             \/ AkamaiStopWorkersLocked(s) \/ AWSStopWorkersLocked(s)
             \/ AzureStopWorkersLocked(s) \/ DOStopWorkersLocked(s)
             \/ ExoscaleStopWorkersLocked(s) \/ GCPStopWorkersLocked(s)
             \/ OCIStopWorkersLocked(s) \/ OVHStopWorkersLocked(s)
             \/ UpCloudStopWorkersLocked(s) \/ VultrStopWorkersLocked(s)
      PROVE  StopLocked(s) \/ WaitFor(s)
  BY <1>7, Zenon DEF AkamaiStopWorkersLocked, AWSStopWorkersLocked, AzureStopWorkersLocked, DOStopWorkersLocked,
    ExoscaleStopWorkersLocked, GCPStopWorkersLocked, OCIStopWorkersLocked, OVHStopWorkersLocked,
    UpCloudStopWorkersLocked, VultrStopWorkersLocked
<1>8. ASSUME NEW s \in Starts,
             \/ AkamaiStartWorkers(s) \/ AWSStartWorkers(s)
             \/ AzureStartWorkers(s) \/ DOStartWorkers(s)
             \/ ExoscaleStartWorkers(s) \/ GCPStartWorkers(s)
             \/ OCIStartWorkers(s) \/ OVHStartWorkers(s) \/ UpCloudStartWorkers(s)
             \/ VultrStartWorkers(s)
      PROVE  \E W \in SUBSET WorkerNames : "reconciler" \in W /\ StartWorkers(s, W)
  <2> DEFINE Sets == {{"health-check", "reconciler", "upstream-purge"}, {"health-check", "reconciler"},
                      {"health-check", "reconciler", "upstream-purge", "shared-spaces-keys"},
                      {"health-check", "rotation", "reconciler"}}
  <2>1. \A W \in Sets : W \in SUBSET WorkerNames /\ "reconciler" \in W
    BY DEF WorkerNames
  <2>2. \E W \in Sets : StartWorkers(s, W)
    BY <1>8, Zenon DEF AkamaiStartWorkers, AWSStartWorkers, AzureStartWorkers, DOStartWorkers, ExoscaleStartWorkers,
      GCPStartWorkers, OCIStartWorkers, OVHStartWorkers, UpCloudStartWorkers, VultrStartWorkers
  <2> QED
    BY <2>1, <2>2
<1>9. ASSUME NEW s \in Starts,
             \/ AkamaiStopWorkers(s) \/ AWSStopWorkers(s) \/ AzureStopWorkers(s)
             \/ DOStopWorkers(s) \/ ExoscaleStopWorkers(s) \/ GCPStopWorkers(s)
             \/ OCIStopWorkers(s) \/ OVHStopWorkers(s) \/ UpCloudStopWorkers(s)
             \/ VultrStopWorkers(s)
      PROVE  StopWorkers(s)
  BY <1>9, Zenon DEF AkamaiStopWorkers, AWSStopWorkers, AzureStopWorkers, DOStopWorkers, ExoscaleStopWorkers,
    GCPStopWorkers, OCIStopWorkers, OVHStopWorkers, UpCloudStopWorkers, VultrStopWorkers
<1>10. ASSUME NEW s \in Starts,
              \/ AkamaiReconcileWorker(s) \/ AWSReconcileWorker(s)
              \/ AzureReconcileWorker(s) \/ DOReconcileWorker(s)
              \/ ExoscaleReconcileWorker(s) \/ GCPReconcileWorker(s)
              \/ OCIReconcileWorker(s) \/ OVHReconcileWorker(s)
              \/ UpCloudReconcileWorker(s) \/ VultrReconcileWorker(s)
       PROVE  ReconcileLocal(s) \/ ReconcileOwned(s)
  BY <1>10, Zenon DEF AkamaiReconcileWorker, AWSReconcileWorker, AzureReconcileWorker, DOReconcileWorker,
    ExoscaleReconcileWorker, GCPReconcileWorker, OCIReconcileWorker, OVHReconcileWorker, UpCloudReconcileWorker,
    VultrReconcileWorker
<1>11. ASSUME NEW p \in Procs, NEW e \in Endpoints,
              \/ AkamaiConfigWrite(p, e) \/ AWSConfigWrite(p, e)
              \/ AzureConfigWrite(p, e) \/ DOConfigWrite(p, e)
              \/ ExoscaleConfigWrite(p, e) \/ GCPConfigWrite(p, e)
              \/ OCIConfigWrite(p, e) \/ OVHConfigWrite(p, e)
              \/ UpCloudConfigWrite(p, e) \/ VultrConfigWrite(p, e)
       PROVE  RequestStep(p)
  <2>1. \/ ConfigWrite(p, e) \/ ConfigWrite(p, IF e = "" THEN DefaultEndpoint ELSE e)
        \/ WriteMemory(p, KeepUnset(backend[cur], req[p].endpoint)) \/ WriteMemory(p, req[p].endpoint)
        \/ WriteMeta(p) \/ (req[p].pc = "meta" /\ Refuse(p))
        \/ \E c \in Configs : WriteConfig(p, c, e)
    BY <1>11, Zenon DEF AkamaiConfigWrite, AWSConfigWrite, AzureConfigWrite, DOConfigWrite, ExoscaleConfigWrite,
      GCPConfigWrite, OCIConfigWrite, OVHConfigWrite, UpCloudConfigWrite, VultrConfigWrite
  <2>2. ASSUME NEW f \in Held, ConfigWrite(p, f) PROVE RequestStep(p)
    BY <2>2, Zenon DEF ConfigWrite, RequestStep
  <2>3. ASSUME NEW f, WriteMemory(p, f), req[p].pc = "memory" => f \in Held PROVE RequestStep(p)
    <3>1. req[p].pc = "memory"
      BY <2>3 DEF WriteMemory
    <3> QED
      BY <2>3, <3>1, Zenon DEF RequestStep
  <2>4. e \in Held /\ (IF e = "" THEN DefaultEndpoint ELSE e) \in Held
    BY <1>4
  <2>5. ASSUME NEW c \in Configs, WriteConfig(p, c, e) PROVE RequestStep(p)
    BY <2>4, <2>5, Zenon DEF RequestStep
  <2>6. ASSUME WriteMeta(p) \/ (req[p].pc = "meta" /\ Refuse(p)) PROVE RequestStep(p)
    BY <2>6, Zenon DEF RequestStep
  <2> QED
    BY <1>3, <2>1, <2>2, <2>3, <2>4, <2>5, <2>6
<1>12. ASSUME NEW p \in Procs, SetWritten(p) \/ CredsRead(p) PROVE RequestStep(p)
  BY <1>12 DEF RequestStep
<1>13. \/ \E s \in Starts : StartStep(s)
       \/ \E p \in Procs : RequestStep(p)
       \/ \E u \in Users : OwnerPut(u) \/ OwnerCache(u)
       \/ Step \/ Clean \/ Crash \/ Advance \/ UNCHANGED vars
  BY <1>5, <1>6, <1>7, <1>8, <1>9, <1>10, <1>11, <1>12 DEF Next, StartStep
<1> QED
  BY <1>13 DEF Step

-----------------------------------------------------------------------------
(* What each operation keeps. *)

\* The part of the invariant about starts, managers and backends.
WorkInv ==
    /\ Mutex /\ WorkersCurrent
    /\ \A s \in Starts : StartInv(s) /\ ManagerInv(s)
    /\ \A g \in Gens : BackendInv(g)

\* Nothing moves but owner ids, ticks and the locals of requests.
Alike ==
    /\ cur' = cur /\ now' = now /\ start' = start
    /\ \A g \in Gens :
          /\ backend'[g].phase = backend[g].phase /\ backend'[g].role = backend[g].role
          /\ backend'[g].mgr = backend[g].mgr /\ backend'[g].bootstrapAt = backend[g].bootstrapAt
          /\ backend'[g].config = backend[g].config /\ (backend[g].passed => backend'[g].passed)
    /\ \A s \in Starts :
          /\ Running(s)' = Running(s)
          /\ Running(s) => mgr'[s].gen = mgr[s].gen /\ mgr'[s].workers = mgr[s].workers /\ mgr'[s].cadence = mgr[s].cadence
          /\ Running(s) /\ ~Passed(s)' => mgr'[s] = mgr[s] /\ (use[s].pc = "idle" => use'[s].pc = "idle")
          /\ use'[s].pc = "idle" \/ use[s].pc # "idle" \/ Running(s)

LEMMA AlikeKept == ASSUME IInv, Alike PROVE WorkInv'
<1> TypeOK /\ Mutex /\ WorkersCurrent /\ (\A s \in Starts : StartInv(s) /\ ManagerInv(s)) /\ (\A g \in Gens : BackendInv(g))
  BY DEF IInv
<1>1. Mutex'
  BY DEF Mutex, Alike
<1>2. ASSUME NEW s \in Starts PROVE StartInv(s)'
  <2>1. StartInv(s) /\ start[s] \in Start
    BY DEF TypeOK
  <2>2. start[s].pc \in {"queued", "draining", "run"} => start[s].gen \in Gens
    BY <2>1, MountAssumption DEF StartInv, Gens, TypeOK
  <2>3. (start[s].pc \in {"queued", "draining", "run"} =>
           /\ start[s].gen \in 1 .. cur
           /\ backend[start[s].gen].phase \in {"live", "cleaning", "cleaned"}
           /\ start[s].kind = "clean" => backend[start[s].gen].phase # "live")'
    BY <2>1, <2>2 DEF StartInv, Alike
  <2>4. (start[s].pc \in {"draining", "run"} => backend[start[s].gen].mgr = 0)'
    BY <2>1, <2>2 DEF StartInv, Alike
  <2>5. (start[s].pc # "done" => ~Running(s) /\ use[s].pc = "idle")'
    BY <2>1 DEF StartInv, Alike
  <2> QED
    BY <2>3, <2>4, <2>5 DEF StartInv
<1>3. ASSUME NEW s \in Starts, Running(s) PROVE ManagerInv(s)'
  <2>0. ManagerInv(s)
    OBVIOUS
  <2>01. cur # 0 /\ cur \in 0 .. MaxGens
    BY <1>3, <2>0 DEF ManagerInv, TypeOK
  <2>1. ManagerInv(s) /\ cur \in Gens
    BY <2>0, <2>01, MountAssumption DEF Gens
  <2>2. CASE ~Passed(s)'
    <3>1. ~Passed(s) /\ mgr'[s] = mgr[s] /\ use'[s].pc = "idle"
      BY <1>3, <2>1, <2>2 DEF Alike, Passed, ManagerInv
    <3> QED
      BY <1>3, <2>1, <3>1 DEF Alike, ManagerInv
  <2>3. CASE Passed(s)'
    BY <1>3, <2>1, <2>3 DEF Alike, ManagerInv
  <2> QED
    BY <2>2, <2>3
<1>4. ASSUME NEW s \in Starts, ~Running(s) PROVE ManagerInv(s)'
  BY <1>4 DEF ManagerInv, Alike
<1>5. \A g \in Gens : BackendInv(g)'
  BY DEF BackendInv, Alike
<1>6. WorkersCurrent'
  <2> DEFINE m == backend[cur].mgr
  <2> SUFFICES ASSUME Live', (backend[cur].role = "active")', ~Pending(cur)'
               PROVE  (/\ backend[cur].mgr # 0 /\ Running(backend[cur].mgr)
                       /\ mgr[backend[cur].mgr].cadence = Cadence(backend[cur].config))'
    BY DEF WorkersCurrent
  <2>1. cur \in Gens /\ cur' = cur /\ Live
    BY MountAssumption DEF Live, Alike, TypeOK, Gens
  <2>2. ~Pending(cur)
    BY <2>1 DEF Pending, Alike
  <2>3. backend[cur] \in Backend /\ backend'[cur].mgr = m /\ backend'[cur].config = backend[cur].config
        /\ backend[cur].role = "active"
    BY <2>1 DEF Alike, TypeOK
  <2>4. m \in Starts /\ m # 0 /\ Running(m) /\ mgr[m].cadence = Cadence(backend[cur].config)
    BY <2>1, <2>2, <2>3 DEF WorkersCurrent, Backend
  <2>5. mgr'[m].running /\ mgr'[m].cadence = mgr[m].cadence
    BY <2>4 DEF Alike, Running
  <2> QED
    BY <2>1, <2>3, <2>4, <2>5 DEF Running, Cadence
<1> QED
  BY <1>1, <1>2, <1>3, <1>4, <1>5, <1>6 DEF WorkInv

\* A start is queued for the backend that is loaded, written to or torn down.
LEMMA QueuedKept ==
    ASSUME IInv, NEW kind \in {"start", "clean"}, Queue(kind), cur' = cur, mgr' = mgr, use' = use, now' = now,
           cur # 0, backend[cur].phase \in {"built", "live"},
           \A g \in Gens \ {cur} : backend'[g] = backend[g],
           backend'[cur].phase = IF kind = "clean" THEN "cleaning" ELSE "live",
           backend'[cur].mgr = backend[cur].mgr,
           backend[cur].phase = "live" =>
              /\ backend'[cur].role = backend[cur].role /\ backend'[cur].bootstrapAt = backend[cur].bootstrapAt
              /\ backend'[cur].passed = backend[cur].passed
    PROVE  WorkInv' /\ start' \in [Starts -> Start]
<1> TypeOK /\ Mutex /\ WorkersCurrent /\ (\A s \in Starts : StartInv(s) /\ ManagerInv(s)) /\ (\A g \in Gens : BackendInv(g))
  BY DEF IInv
<1>0. cur \in Gens
  BY MountAssumption DEF Gens, TypeOK
<1>1. PICK q \in Starts :
         start[q].pc = "none" /\ start' = [start EXCEPT ![q] = [NoStart EXCEPT !.pc = "queued", !.kind = kind, !.gen = cur']]
  BY Zenon DEF Queue
<1> DEFINE n == [NoStart EXCEPT !.pc = "queued", !.kind = kind, !.gen = cur']
<1>2. n \in Start /\ n.pc = "queued" /\ n.kind = kind /\ n.gen = cur
  BY <1>0 DEF NoStart, Start, TypeOK
<1>21. start' = [start EXCEPT ![q] = n]
  BY <1>1
<1>3. start' \in [Starts -> Start] /\ start'[q] = n /\ \A s \in Starts \ {q} : start'[s] = start[s]
  <2> HIDE DEF n
  <2> QED
    BY <1>21, <1>2 DEF TypeOK
<1> HIDE DEF n
<1>4. Mutex'
  BY <1>2, <1>3 DEF Mutex
<1>5. ASSUME NEW s \in Starts, s # q PROVE StartInv(s)'
  <2>1. StartInv(s) /\ start[s] \in Start /\ start'[s] = start[s]
    BY <1>3, <1>5 DEF TypeOK
  <2>2. start[s].pc \in {"queued", "draining", "run"} => start[s].gen \in Gens
    BY <2>1, MountAssumption DEF StartInv, Gens, TypeOK
  <2>3. (start[s].pc \in {"queued", "draining", "run"} =>
           /\ start[s].gen \in 1 .. cur
           /\ backend[start[s].gen].phase \in {"live", "cleaning", "cleaned"}
           /\ start[s].kind = "clean" => backend[start[s].gen].phase # "live")'
    BY <2>1, <2>2 DEF StartInv
  <2>4. (start[s].pc \in {"draining", "run"} => backend[start[s].gen].mgr = 0)'
    BY <2>1, <2>2 DEF StartInv
  <2>5. (start[s].pc # "done" => ~Running(s) /\ use[s].pc = "idle")'
    BY <2>1 DEF StartInv, Running
  <2> QED
    BY <2>3, <2>4, <2>5 DEF StartInv
<1>6. StartInv(q)'
  <2>1. ~Running(q) /\ use[q].pc = "idle"
    BY <1>1 DEF StartInv
  <2>2. cur \in 1 .. cur /\ kind \in {"start", "clean"}
    BY <1>0 DEF Gens
  <2> QED
    BY <1>0, <1>2, <1>3, <2>1, <2>2 DEF StartInv, Running
<1>7. ASSUME NEW s \in Starts PROVE ManagerInv(s)'
  BY <1>7 DEF ManagerInv, Running, Passed
<1>8. ASSUME NEW g \in Gens PROVE BackendInv(g)'
  <2>1. \A h \in Gens : backend'[h].mgr = backend[h].mgr
    OBVIOUS
  <2>2. g < cur => backend'[g].phase \in {"cleaned", "dead"}
    BY DEF BackendInv
  <2>3. backend[g].mgr # 0 => start'[backend[g].mgr].pc = "done"
    BY <1>1, <1>3 DEF BackendInv, TypeOK, Backend
  <2> QED
    BY <2>1, <2>2, <2>3 DEF BackendInv
<1>9. WorkersCurrent'
  <2>1. Pending(cur)'
    BY <1>2, <1>3 DEF Pending
  <2> QED
    BY <2>1 DEF WorkersCurrent
<1> QED
  BY <1>3, <1>4, <1>5, <1>6, <1>7, <1>8, <1>9 DEF WorkInv

\* A new backend has no manager and no start, and no earlier one runs.
LEMMA BuildKept == ASSUME IInv, NEW b, Fresh(b), Build(b) PROVE IInv'
<1> TypeOK /\ RequestInv /\ Mutex /\ (\A s \in Starts : StartInv(s) /\ ManagerInv(s)) /\ (\A g \in Gens : BackendInv(g))
  BY DEF IInv
<1>1. PICK r \in {"active", "standby"} : backend' = [backend EXCEPT ![cur'] = [b EXCEPT !.phase = "built", !.role = r]]
  BY Zenon DEF Build
<1> DEFINE n == [b EXCEPT !.phase = "built", !.role = r]
<1>2. n \in Backend /\ n.phase = "built" /\ n.mgr = 0 /\ n.config = stored.config
  BY DEF Fresh, Backend
<1>3. cur \in 0 .. MaxGens /\ cur < MaxGens /\ cur' = cur + 1 /\ cur' \in Gens /\ (cur # 0 => backend[cur].phase \in {"cleaned", "dead"})
  BY MountAssumption DEF Build, TypeOK, Gens
<1>4. backend' = [backend EXCEPT ![cur'] = n]
  BY <1>1
<1>5. backend' \in [Gens -> Backend] /\ backend'[cur'] = n /\ \A g \in Gens \ {cur'} : backend'[g] = backend[g]
  <2> HIDE DEF n
  <2> QED
    BY <1>2, <1>3, <1>4 DEF TypeOK
<1> HIDE DEF n
<1>6. stored' = stored /\ start' = start /\ mgr' = mgr /\ req' = req /\ use' = use /\ now' = now
      /\ cloud' = cloud /\ named' = named /\ amiss' = amiss /\ minted' = minted
  BY DEF Build
<1>7. TypeOK'
  BY <1>3, <1>5, <1>6, MountAssumption DEF TypeOK, Gens
<1>8. ~Live /\ \A s \in Starts : ~Running(s)
  BY <1>3 DEF Live, ManagerInv
<1>9. RequestInv'
  BY <1>2, <1>3, <1>5, <1>6, <1>8 DEF RequestInv, Live, Built
<1>10. Mutex' /\ WorkersCurrent'
  BY <1>2, <1>5, <1>6 DEF Mutex, WorkersCurrent, Live
<1>11. ASSUME NEW s \in Starts PROVE StartInv(s)' /\ ManagerInv(s)'
  <2>1. StartInv(s) /\ start[s] \in Start
    BY DEF TypeOK
  <2>2. start[s].pc \in {"queued", "draining", "run"} => start[s].gen \in Gens \ {cur'} /\ start[s].gen \in 1 .. cur'
    BY <1>3, <2>1, MountAssumption DEF StartInv, Gens
  <2>3. StartInv(s)'
    BY <1>5, <1>6, <1>8, <2>1, <2>2 DEF StartInv, Running
  <2>4. ManagerInv(s)'
    BY <1>6, <1>8 DEF ManagerInv, Running
  <2> QED
    BY <2>3, <2>4
<1>12. ASSUME NEW g \in Gens PROVE BackendInv(g)'
  <2>1. CASE g = cur'
    BY <1>2, <1>5, <2>1, MountAssumption DEF BackendInv, Gens
  <2>2. CASE g # cur'
    <3>1. g < cur' => backend'[g].phase \in {"cleaned", "dead"}
      BY <1>3, <1>5, <2>2, MountAssumption DEF BackendInv, Gens
    <3>2. backend'[g].mgr # 0 => start'[backend'[g].mgr].pc = "done"
      BY <1>5, <1>6, <2>2 DEF BackendInv
    <3>3. \A h \in Gens : backend'[g].mgr # 0 /\ backend'[g].mgr = backend'[h].mgr => g = h
      BY <1>2, <1>5, <2>2 DEF BackendInv
    <3> QED
      BY <3>1, <3>2, <3>3 DEF BackendInv
  <2> QED
    BY <2>1, <2>2
<1> QED
  BY <1>7, <1>9, <1>10, <1>11, <1>12 DEF IInv

LEMMA InitialiseKept == ASSUME IInv, NEW b, Again(b), Built, Initialise(b) PROVE IInv'
<1> TypeOK /\ RequestInv
  BY DEF IInv
<1> DEFINE n == [b EXCEPT !.phase = "live"]
<1>1. cur \in Gens /\ cur # 0 /\ cur' = cur /\ backend[cur].phase = "built"
  BY MountAssumption DEF Built, Initialise, TypeOK, Gens
<1>2. n \in Backend /\ n.phase = "live" /\ n.mgr = backend[cur].mgr
  BY DEF Again, Backend
<1>3. backend' = [backend EXCEPT ![cur] = n]
  BY DEF Initialise
<1>4. backend' \in [Gens -> Backend] /\ backend'[cur] = n /\ \A g \in Gens \ {cur} : backend'[g] = backend[g]
  <2> HIDE DEF n
  <2> QED
    BY <1>1, <1>2, <1>3 DEF TypeOK
<1> HIDE DEF n
<1>5. Queue("start") /\ stored' = stored /\ mgr' = mgr /\ req' = req /\ use' = use /\ now' = now
      /\ cloud' = cloud /\ named' = named /\ amiss' = "none" /\ minted' = minted
  BY DEF Initialise
<1>6. WorkInv' /\ start' \in [Starts -> Start]
  BY <1>1, <1>2, <1>4, <1>5, QueuedKept
<1>7. TypeOK'
  BY <1>1, <1>4, <1>5, <1>6 DEF TypeOK, Amiss
<1>8. RequestInv'
  BY <1>1, <1>2, <1>4 DEF RequestInv, Live, Built
<1> QED
  BY <1>6, <1>7, <1>8 DEF IInv, WorkInv

LEMMA CleanKept == ASSUME IInv, Clean PROVE IInv'
<1> TypeOK
  BY DEF IInv
<1> DEFINE n == [backend[cur] EXCEPT !.phase = "cleaning"]
<1>1. cur \in Gens /\ cur # 0 /\ cur' = cur /\ backend[cur].phase = "live"
  BY MountAssumption DEF Clean, Live, TypeOK, Gens
<1>2. /\ n \in Backend /\ n.phase = "cleaning" /\ n.mgr = backend[cur].mgr /\ n.role = backend[cur].role
      /\ n.bootstrapAt = backend[cur].bootstrapAt /\ n.passed = backend[cur].passed
  BY <1>1 DEF TypeOK, Backend
<1>3. backend' = [backend EXCEPT ![cur] = n]
  BY DEF Clean
<1>4. backend' \in [Gens -> Backend] /\ backend'[cur] = n /\ \A g \in Gens \ {cur} : backend'[g] = backend[g]
  <2> HIDE DEF n
  <2> QED
    BY <1>1, <1>2, <1>3 DEF TypeOK
<1> HIDE DEF n
<1>5. Queue("clean") /\ UNCHANGED <<cloud, stored, mgr, req, use, named, amiss, minted, now>>
      /\ \A p \in Procs : req[p].pc = "idle"
  BY DEF Clean
<1>6. WorkInv' /\ start' \in [Starts -> Start]
  BY <1>1, <1>2, <1>4, <1>5, QueuedKept
<1>7. TypeOK'
  BY <1>1, <1>4, <1>5, <1>6 DEF TypeOK
<1>8. RequestInv'
  BY <1>1, <1>2, <1>4, <1>5 DEF RequestInv, Live, Built
<1> QED
  BY <1>6, <1>7, <1>8 DEF IInv, WorkInv

\* After a crash no start, manager or request is left.
LEMMA CrashKept == ASSUME IInv, Crash PROVE IInv'
<1> TypeOK /\ (\A s \in Starts : StartInv(s)) /\ (\A g \in Gens : BackendInv(g))
  BY DEF IInv
<1> DEFINE n == [NoBackend EXCEPT !.phase = "dead"]
<1>1. n \in Backend /\ n.phase = "dead" /\ n.mgr = 0
  BY Blank DEF Backend
<1>2. cur \in Gens /\ cur # 0 /\ cur' = cur /\ backend' = [backend EXCEPT ![cur] = n]
  BY MountAssumption DEF Crash, TypeOK, Gens
<1>3. backend' \in [Gens -> Backend] /\ backend'[cur] = n /\ \A g \in Gens \ {cur} : backend'[g] = backend[g]
  <2> HIDE DEF n
  <2> QED
    BY <1>1, <1>2 DEF TypeOK
<1> HIDE DEF n
<1>4. /\ UNCHANGED <<cloud, stored, cur, named, minted, now>> /\ amiss' = "none"
      /\ start' = [s \in Starts |-> IF start[s].pc = "none" THEN NoStart ELSE Done]
      /\ mgr' = [s \in Starts |-> NoMgr] /\ req' = [p \in Procs |-> NoReq] /\ use' = [u \in Users |-> NoUse]
  BY DEF Crash
<1>5. TypeOK'
  BY <1>2, <1>3, <1>4, Blank DEF TypeOK, Amiss
<1>6. RequestInv' /\ WorkersCurrent'
  BY <1>1, <1>2, <1>3, <1>4, Blank DEF RequestInv, WorkersCurrent, Live, Built
<1>7. \A s \in Starts : start'[s].pc \in {"none", "done"} /\ (start[s].pc = "done" => start'[s].pc = "done") /\ ~Running(s)' /\ use'[s].pc = "idle"
  BY <1>4, Blank DEF Running, Users
<1>8. Mutex' /\ \A s \in Starts : StartInv(s)' /\ ManagerInv(s)'
  BY <1>7 DEF Mutex, StartInv, ManagerInv
<1>9. ASSUME NEW g \in Gens PROVE BackendInv(g)'
  <2>1. g < cur' => backend'[g].phase \in {"cleaned", "dead"}
    BY <1>2, <1>3, MountAssumption DEF BackendInv, Gens
  <2>2. backend'[g].mgr # 0 => start'[backend'[g].mgr].pc = "done"
    <3>1. backend'[g].mgr # 0 => backend'[g].mgr = backend[g].mgr /\ backend[g].mgr \in Starts
      BY <1>1, <1>3 DEF TypeOK, Backend
    <3> QED
      BY <1>7, <3>1 DEF BackendInv
  <2>3. \A h \in Gens : backend'[g].mgr # 0 /\ backend'[g].mgr = backend'[h].mgr => g = h
    BY <1>1, <1>3 DEF BackendInv
  <2> QED
    BY <2>1, <2>2, <2>3 DEF BackendInv
<1> QED
  BY <1>5, <1>6, <1>8, <1>9 DEF IInv

\* The clock does not pass a first pass that is due.
LEMMA AdvanceKept == ASSUME IInv, Advance PROVE IInv'
<1> TypeOK /\ RequestInv /\ WorkersCurrent /\ Mutex /\ (\A s \in Starts : StartInv(s) /\ ManagerInv(s)) /\ (\A g \in Gens : BackendInv(g))
  BY DEF IInv
<1>1. now < MaxTime /\ now' = now + 1 /\ (\A s \in Starts : Due(s) => Passed(s))
      /\ UNCHANGED <<cloud, stored, cur, backend, start, mgr, req, use, named, amiss, minted>>
  BY DEF Advance
<1>2. TypeOK'
  BY <1>1, MountAssumption DEF TypeOK
<1>3. RequestInv' /\ WorkersCurrent' /\ Mutex' /\ (\A g \in Gens : BackendInv(g)')
  BY <1>1 DEF RequestInv, Live, Built, WorkersCurrent, Pending, Running, Cadence, Mutex, BackendInv
<1>4. ASSUME NEW s \in Starts PROVE StartInv(s)'
  <2>1. StartInv(s)
    OBVIOUS
  <2> QED
    BY <1>1, <2>1 DEF StartInv, Running
<1>5. ASSUME NEW s \in Starts, Running(s) PROVE ManagerInv(s)'
  <2>1. ManagerInv(s)
    OBVIOUS
  <2>2. CASE Passed(s)
    BY <1>1, <1>5, <2>1, <2>2 DEF ManagerInv, Running, Passed
  <2>3. CASE ~Passed(s)
    <3>1. ~Due(s) /\ use[s].pc = "idle" /\ "reconciler" \in mgr[s].workers
      BY <1>1, <1>5, <2>1, <2>3 DEF ManagerInv
    <3>2. ~(mgr[s].next <= now)
      BY <1>5, <3>1 DEF Due
    <3>3. now' <= mgr[s].next
      <4>1. now \in Nat /\ mgr[s].next \in Nat
        BY MountAssumption DEF TypeOK, Mgr
      <4> QED
        BY <1>1, <3>2, <4>1
    <3> QED
      BY <1>1, <1>5, <2>1, <2>3, <3>3 DEF ManagerInv, Running, Passed
  <2> QED
    BY <2>2, <2>3
<1>6. ASSUME NEW s \in Starts, ~Running(s) PROVE ManagerInv(s)'
  BY <1>1, <1>6 DEF ManagerInv, Running
<1> QED
  BY <1>2, <1>3, <1>4, <1>5, <1>6 DEF IInv

\* The owner id found, or to be minted, is an id.
LEMMA InstanceIDs ==
    ASSUME TypeOK, NEW u \in Users, GenOf(u) \in Gens, InstanceID(u)
    PROVE  use' \in [Users -> Use] /\ named' \subseteq Ids /\ \A v \in Users \ {u} : use'[v] = use[v]
<1> DEFINE n == IF stored.owner = NoId THEN [pc |-> "mint", id |-> NoId] ELSE [pc |-> "cache", id |-> stored.owner]
<1>1. backend[GenOf(u)].owner \in Ids /\ n \in Use /\ use \in [Users -> Use] /\ named \subseteq Ids
  BY MountAssumption DEF TypeOK, Backend, Use, Ids, NoId
<1>2. use' = use \/ use' = [use EXCEPT ![u] = n]
  BY DEF InstanceID
<1>3. named' = named \/ named' = named \cup {backend[GenOf(u)].owner}
  BY DEF InstanceID, Have
<1> HIDE DEF n
<1>4. use' \in [Users -> Use] /\ \A v \in Users \ {u} : use'[v] = use[v]
  BY <1>1, <1>2
<1> QED
  BY <1>1, <1>3, <1>4

\* A first pass begins, or a later one.
LEMMA ReconcileKept == ASSUME IInv, NEW s \in Starts, ReconcileLocal(s) \/ ReconcileOwned(s) PROVE IInv'
<1> TypeOK /\ RequestInv /\ StartInv(s) /\ ManagerInv(s)
  BY DEF IInv
<1>1. Due(s) /\ Began(s) /\ ((use' = use /\ named' = named) \/ InstanceID(s))
  BY DEF ReconcileLocal, ReconcileOwned
<1>2. Running(s) /\ start[s].pc = "done" /\ mgr[s].gen = cur /\ cur \in Gens
  BY <1>1, MountAssumption DEF Due, StartInv, ManagerInv, TypeOK, Gens
<1>3. s \in Users /\ GenOf(s) = cur
  BY <1>2, ProcAssumption DEF GenOf, Users
<1>4. use' \in [Users -> Use] /\ named' \subseteq Ids /\ \A v \in Users \ {s} : use'[v] = use[v]
  BY <1>1, <1>2, <1>3, InstanceIDs DEF TypeOK
<1> DEFINE m == [mgr[s] EXCEPT !.next = 0, !.started = 0]
           b == [backend[cur] EXCEPT !.passed = TRUE]
<1>5. /\ m \in Mgr /\ m.running = mgr[s].running /\ m.gen = mgr[s].gen /\ m.workers = mgr[s].workers
      /\ m.cadence = mgr[s].cadence
  BY DEF TypeOK, Mgr
<1>6. /\ b \in Backend /\ b.passed = TRUE /\ b.phase = backend[cur].phase /\ b.role = backend[cur].role
      /\ b.mgr = backend[cur].mgr /\ b.bootstrapAt = backend[cur].bootstrapAt /\ b.config = backend[cur].config
  <2>1. backend[cur] \in Backend
    BY <1>2 DEF TypeOK
  <2> QED
    BY <2>1 DEF Backend
<1>7. mgr' = [mgr EXCEPT ![s] = m] /\ backend' = [backend EXCEPT ![cur] = b]
      /\ UNCHANGED <<cloud, stored, cur, start, req, amiss, minted, now>>
  BY <1>1, <1>2 DEF Began
<1> HIDE DEF m, b
<1>8. mgr' \in [Starts -> Mgr] /\ mgr'[s] = m /\ \A t \in Starts \ {s} : mgr'[t] = mgr[t]
  BY <1>5, <1>7 DEF TypeOK
<1>9. backend' \in [Gens -> Backend] /\ backend'[cur] = b /\ \A g \in Gens \ {cur} : backend'[g] = backend[g]
  BY <1>2, <1>6, <1>7 DEF TypeOK
<1>10. TypeOK'
  BY <1>4, <1>7, <1>8, <1>9 DEF TypeOK
<1>11. RequestInv'
  BY <1>2, <1>6, <1>7, <1>9 DEF RequestInv, Live, Built
<1>12. Alike
  <2>1. \A g \in Gens :
          /\ backend'[g].phase = backend[g].phase /\ backend'[g].role = backend[g].role
          /\ backend'[g].mgr = backend[g].mgr /\ backend'[g].bootstrapAt = backend[g].bootstrapAt
          /\ backend'[g].config = backend[g].config /\ (backend[g].passed => backend'[g].passed)
    BY <1>6, <1>9
  <2>2. ASSUME NEW t \in Starts
        PROVE  /\ Running(t)' = Running(t)
               /\ Running(t) => mgr'[t].gen = mgr[t].gen /\ mgr'[t].workers = mgr[t].workers /\ mgr'[t].cadence = mgr[t].cadence
               /\ Running(t) /\ ~Passed(t)' => mgr'[t] = mgr[t] /\ (use[t].pc = "idle" => use'[t].pc = "idle")
               /\ use'[t].pc = "idle" \/ use[t].pc # "idle" \/ Running(t)
    <3>1. CASE t = s
      BY <1>2, <1>5, <1>6, <1>8, <1>9, <3>1 DEF Running, Passed
    <3>2. CASE t # s
      BY <1>4, <1>8, <3>2 DEF Running, Users
    <3> QED
      BY <3>1, <3>2
  <2> QED
    BY <1>7, <2>1, <2>2 DEF Alike
<1>13. WorkInv'
  BY <1>12, AlikeKept
<1> QED
  BY <1>10, <1>11, <1>13 DEF IInv, WorkInv

\* A minted id takes its place in storage.
LEMMA OwnerPutKept == ASSUME IInv, NEW u \in Users, OwnerPut(u) PROVE IInv'
<1> TypeOK /\ RequestInv
  BY DEF IInv
<1> DEFINE n == [pc |-> "cache", id |-> minted']
<1>1. /\ use[u].pc = "mint" /\ minted' = minted + 1 /\ minted < MaxIds /\ stored' = [stored EXCEPT !.owner = minted']
      /\ use' = [use EXCEPT ![u] = n] /\ UNCHANGED <<cloud, cur, backend, start, mgr, req, amiss, named, now>>
  BY DEF OwnerPut
<1>2. minted' \in Ids /\ n \in Use /\ n.pc = "cache"
  BY <1>1, MountAssumption DEF TypeOK, Ids, Use
<1> HIDE DEF n
<1>3. use' \in [Users -> Use] /\ use'[u] = n /\ \A v \in Users \ {u} : use'[v] = use[v]
  BY <1>1, <1>2 DEF TypeOK
<1>4. TypeOK' /\ RequestInv'
  BY <1>1, <1>2, <1>3 DEF TypeOK, RequestInv, Live, Built
<1>5. \A s \in Starts : use'[s].pc = "idle" <=> use[s].pc = "idle"
  BY <1>1, <1>2, <1>3 DEF Users
<1>6. Alike
  BY <1>1, <1>5 DEF Alike, Running
<1> QED
  BY <1>4, <1>6, AlikeKept DEF IInv, WorkInv

\* The id is kept in memory.
LEMMA OwnerCacheKept == ASSUME IInv, NEW u \in Users, OwnerCache(u) PROVE IInv'
<1> TypeOK /\ RequestInv
  BY DEF IInv
<1> DEFINE g == GenOf(u)
           b == [backend[g] EXCEPT !.owner = use[u].id]
<1>1. /\ backend' = [backend EXCEPT ![g] = b] /\ use' = [use EXCEPT ![u] = NoUse]
      /\ mgr' = IF u \in Starts /\ ~Running(u) THEN [mgr EXCEPT ![u] = NoMgr] ELSE mgr
      /\ Have(u, use[u].id) /\ UNCHANGED <<cloud, stored, cur, start, req, amiss, minted, now>>
  BY DEF OwnerCache
<1>2. use' \in [Users -> Use] /\ (\A v \in Users : use'[v].pc = "idle" \/ use'[v] = use[v]) /\ named' \subseteq Ids
  BY <1>1, Blank DEF TypeOK, Have, Use
<1>3. \A h \in Gens :
        /\ backend'[h] \in Backend /\ backend'[h].phase = backend[h].phase /\ backend'[h].role = backend[h].role
        /\ backend'[h].mgr = backend[h].mgr /\ backend'[h].bootstrapAt = backend[h].bootstrapAt
        /\ backend'[h].config = backend[h].config /\ backend'[h].passed = backend[h].passed
  <2>1. use[u].id \in Ids
    BY DEF TypeOK, Use
  <2>2. g \in Gens => /\ b \in Backend /\ b.phase = backend[g].phase /\ b.role = backend[g].role /\ b.mgr = backend[g].mgr
                      /\ b.bootstrapAt = backend[g].bootstrapAt /\ b.config = backend[g].config /\ b.passed = backend[g].passed
    BY <2>1 DEF TypeOK, Backend
  <2> HIDE DEF b, g
  <2> QED
    BY <1>1, <2>2 DEF TypeOK
<1>4. backend' \in [Gens -> Backend]
  <2>1. backend' = [h \in Gens |-> backend'[h]]
    BY <1>1 DEF TypeOK
  <2> QED
    BY <1>3, <2>1
<1>5. mgr' \in [Starts -> Mgr] /\ (\A s \in Starts : Running(s) => mgr'[s] = mgr[s]) /\ (\A s \in Starts : Running(s)' = Running(s))
  <2>1. CASE u \in Starts /\ ~Running(u)
    <3>1. mgr' = [mgr EXCEPT ![u] = NoMgr]
      BY <1>1, <2>1
    <3>2. mgr' \in [Starts -> Mgr] /\ mgr'[u] = NoMgr /\ \A s \in Starts \ {u} : mgr'[s] = mgr[s]
      BY <2>1, <3>1, Blank DEF TypeOK
    <3>3. mgr[u].running = FALSE
      BY <2>1 DEF Running, TypeOK, Mgr
    <3> QED
      BY <3>2, <3>3, Blank DEF Running
  <2>2. CASE ~(u \in Starts /\ ~Running(u))
    BY <1>1, <2>2 DEF TypeOK, Running
  <2> QED
    BY <2>1, <2>2
<1>6. TypeOK'
  BY <1>1, <1>2, <1>4, <1>5 DEF TypeOK
<1>7. cur # 0 => cur \in Gens
  BY MountAssumption DEF TypeOK, Gens
<1>8. RequestInv'
  BY <1>1, <1>3, <1>7 DEF RequestInv, Live, Built
<1>9. Alike
  <2>1. ASSUME NEW s \in Starts, Running(s), ~Passed(s)' PROVE mgr'[s] = mgr[s] /\ (use[s].pc = "idle" => use'[s].pc = "idle")
    BY <1>2, <1>5, <2>1 DEF Users
  <2>2. \A s \in Starts : use'[s].pc = "idle" \/ use[s].pc # "idle"
    BY <1>2 DEF Users
  <2> QED
    BY <1>1, <1>3, <1>5, <2>1, <2>2 DEF Alike
<1> QED
  BY <1>6, <1>8, <1>9, AlikeKept DEF IInv, WorkInv

\* A request that writes nothing to memory.
LEMMA PutKept ==
    ASSUME IInv, NEW p \in Procs,
           \/ CredsRead(p) \/ WriteMeta(p) \/ (req[p].pc = "meta" /\ Refuse(p))
           \/ \E c \in Configs, e \in Held : WriteConfig(p, c, e)
    PROVE  IInv'
<1> TypeOK /\ RequestInv
  BY DEF IInv
<1>1. UNCHANGED <<cloud, cur, backend, start, mgr, minted, now>>
  BY DEF CredsRead, WriteConfig, WriteMeta, Refuse
<1>2. Live /\ backend[cur].phase = "live"
  BY DEF CredsRead, Serving, WriteConfig, WriteMeta, RequestInv, Live
<1>3. cur \in Gens
  BY <1>2, MountAssumption DEF Live, TypeOK, Gens
<1>4. use' \in [Users -> Use] /\ named' \subseteq Ids /\ \A s \in Starts : use'[s] = use[s]
  <2>1. CASE CredsRead(p)
    <3>1. p \in Users /\ GenOf(p) = cur /\ InstanceID(p) /\ p \notin Starts
      BY <2>1, ProcAssumption DEF CredsRead, GenOf, Users
    <3> QED
      BY <1>3, <3>1, InstanceIDs DEF Users
  <2>2. CASE ~CredsRead(p)
    BY <2>2 DEF WriteConfig, WriteMeta, Refuse, TypeOK
  <2> QED
    BY <2>1, <2>2
<1>5. stored' \in [config : Configs \cup {Unset}, meta : Held, owner : Ids] /\ req' \in [Procs -> Req] /\ amiss' \in Amiss
  <2>0. stored \in [config : Configs \cup {Unset}, meta : Held, owner : Ids] /\ req \in [Procs -> Req] /\ req[p] \in Req /\ amiss \in Amiss
    BY DEF TypeOK
  <2>1. CASE CredsRead(p)
    BY <2>0, <2>1 DEF CredsRead
  <2>2. ASSUME NEW c \in Configs, NEW e \in Held, WriteConfig(p, c, e)
        PROVE  stored' \in [config : Configs \cup {Unset}, meta : Held, owner : Ids] /\ req' \in [Procs -> Req] /\ amiss' \in Amiss
    <3> DEFINE r == [pc |-> "meta", config |-> c, endpoint |-> e]
    <3>1. r \in Req /\ req' = [req EXCEPT ![p] = r] /\ stored' = [stored EXCEPT !.config = c] /\ amiss' \in Amiss
      <4>1. amiss' \in Amiss
        BY <2>0, <2>2 DEF WriteConfig, Amiss
      <4> QED
        BY <2>2, <4>1 DEF WriteConfig, Req
    <3> HIDE DEF r
    <3>2. stored' \in [config : Configs \cup {Unset}, meta : Held, owner : Ids]
      BY <2>0, <3>1
    <3>3. req' \in [Procs -> Req]
      BY <2>0, <3>1
    <3> QED
      BY <2>0, <3>1, <3>2, <3>3
  <2>3. CASE WriteMeta(p)
    <3> DEFINE r == [req[p] EXCEPT !.pc = "memory"]
    <3>1. /\ r \in Req /\ NoReq \in Req /\ (req' = [req EXCEPT ![p] = r] \/ req' = [req EXCEPT ![p] = NoReq])
          /\ (amiss' = amiss \/ amiss' = "failure")
          /\ (stored' = stored \/ stored' = [stored EXCEPT !.meta = req[p].endpoint]) /\ req[p].endpoint \in Held
      BY <2>0, <2>3, Blank DEF WriteMeta, Req
    <3> HIDE DEF r
    <3>2. stored' \in [config : Configs \cup {Unset}, meta : Held, owner : Ids]
      BY <2>0, <3>1
    <3>3. req' \in [Procs -> Req]
      BY <2>0, <3>1
    <3> QED
      BY <2>0, <3>1, <3>2, <3>3 DEF Amiss
  <2>4. CASE Refuse(p)
    BY <2>0, <2>4, Blank DEF Refuse, Amiss
  <2> QED
    BY <2>1, <2>2, <2>3, <2>4
<1>6. TypeOK'
  BY <1>1, <1>4, <1>5 DEF TypeOK
<1>7. RequestInv'
  BY <1>1, <1>2 DEF RequestInv, Live, Built
<1>8. Alike
  BY <1>1, <1>4 DEF Alike, Running
<1> QED
  BY <1>6, <1>7, <1>8, AlikeKept DEF IInv, WorkInv

\* A request that ends with the workers started again.
LEMMA RestartKept ==
    ASSUME IInv, NEW p \in Procs, NEW e \in Held, SetWritten(p) \/ WriteMemory(p, e)
    PROVE  IInv'
<1> TypeOK /\ RequestInv
  BY DEF IInv
<1>1. Live /\ cur # 0 /\ cur \in Gens /\ backend[cur].phase = "live" /\ cur' = cur
      /\ UNCHANGED <<cloud, mgr, stored, use, named, minted, now>> /\ Queue("start")
  <2>1. Live
    BY DEF SetWritten, Serving, WriteMemory, RequestInv
  <2> QED
    BY <2>1, MountAssumption DEF SetWritten, WriteMemory, Live, TypeOK, Gens
<1>2. /\ backend' \in [Gens -> Backend] /\ backend'[cur].phase = "live" /\ backend'[cur].mgr = backend[cur].mgr
      /\ backend'[cur].role = backend[cur].role /\ backend'[cur].bootstrapAt = backend[cur].bootstrapAt
      /\ backend'[cur].passed = backend[cur].passed /\ \A g \in Gens \ {cur} : backend'[g] = backend[g]
  <2>1. CASE SetWritten(p)
    BY <1>1, <2>1 DEF SetWritten, TypeOK
  <2>2. CASE WriteMemory(p, e)
    <3> DEFINE b == [backend[cur] EXCEPT !.config = req[p].config, !.endpoint = e]
    <3>1. backend' = [backend EXCEPT ![cur] = b]
      BY <2>2 DEF WriteMemory
    <3>2. /\ b \in Backend /\ b.phase = backend[cur].phase /\ b.mgr = backend[cur].mgr /\ b.role = backend[cur].role
          /\ b.bootstrapAt = backend[cur].bootstrapAt /\ b.passed = backend[cur].passed
      BY <1>1, ZenonT(30) DEF TypeOK, Backend, Req
    <3> HIDE DEF b
    <3> QED
      BY <1>1, <3>1, <3>2 DEF TypeOK
  <2> QED
    BY <2>1, <2>2
<1>3. WorkInv' /\ start' \in [Starts -> Start]
  BY <1>1, <1>2, QueuedKept
<1>4. req' \in [Procs -> Req] /\ amiss' \in Amiss
  BY Blank DEF SetWritten, WriteMemory, TypeOK
<1>5. TypeOK'
  BY <1>1, <1>2, <1>3, <1>4 DEF TypeOK
<1>6. RequestInv'
  BY <1>1, <1>2 DEF RequestInv, Live, Built
<1> QED
  BY <1>3, <1>5, <1>6 DEF IInv, WorkInv

-----------------------------------------------------------------------------
(* The steps of a start. *)

\* With the mutex, it takes the old manager out.
LEMMA StopLockedKept == ASSUME IInv, NEW s \in Starts, StopLocked(s) PROVE IInv'
<1> TypeOK /\ RequestInv /\ WorkersCurrent /\ Mutex /\ (\A t \in Starts : StartInv(t) /\ ManagerInv(t)) /\ (\A h \in Gens : BackendInv(h))
  BY DEF IInv
<1> DEFINE g == start[s].gen
           old == backend[g].mgr
           i == [start[s] EXCEPT !.pc = "draining"]
           b == [backend[g] EXCEPT !.mgr = 0]
           m == [NoMgr EXCEPT !.gen = IF use[old].pc = "idle" THEN 0 ELSE g]
<1>1. /\ start[s].pc = "queued" /\ ~Locked(g) /\ start' = [start EXCEPT ![s] = i] /\ backend' = [backend EXCEPT ![g] = b]
      /\ mgr' = (IF old = 0 THEN mgr ELSE [mgr EXCEPT ![old] = m])
      /\ UNCHANGED <<cloud, stored, cur, req, use, named, amiss, minted, now>>
  BY DEF StopLocked
<1>2. /\ start[s] \in Start /\ StartInv(s) /\ g \in 1 .. cur /\ g \in Gens /\ backend[g] \in Backend
      /\ backend[g].phase \in {"live", "cleaning", "cleaned"} /\ (start[s].kind = "clean" => backend[g].phase # "live")
      /\ ~Running(s) /\ use[s].pc = "idle"
  BY <1>1, MountAssumption DEF StartInv, Gens, TypeOK
<1>3. i \in Start /\ i.pc = "draining" /\ i.gen = g /\ i.kind = start[s].kind
  BY <1>2 DEF Start
<1>4. /\ b \in Backend /\ b.mgr = 0 /\ b.phase = backend[g].phase /\ b.role = backend[g].role /\ b.passed = backend[g].passed
      /\ b.bootstrapAt = backend[g].bootstrapAt /\ b.config = backend[g].config
  BY <1>2 DEF Backend
<1>5. m \in Mgr /\ m.running = FALSE /\ old \in Starts \cup {0}
  <2>1. (IF use[old].pc = "idle" THEN 0 ELSE g) \in 0 .. MaxGens
    BY <1>2, MountAssumption DEF Gens
  <2> QED
    BY <1>2, <2>1, Blank DEF Mgr, Backend
<1> HIDE DEF i, b, m
<1>6. start' \in [Starts -> Start] /\ start'[s] = i /\ \A t \in Starts \ {s} : start'[t] = start[t]
  BY <1>1, <1>3 DEF TypeOK
<1>7. backend' \in [Gens -> Backend] /\ backend'[g] = b /\ \A h \in Gens \ {g} : backend'[h] = backend[h]
  BY <1>1, <1>2, <1>4 DEF TypeOK
<1>8. mgr' \in [Starts -> Mgr] /\ (old # 0 => ~mgr'[old].running) /\ (\A t \in Starts \ {old} : mgr'[t] = mgr[t])
  BY <1>1, <1>5 DEF TypeOK, Running
<1>9. TypeOK'
  BY <1>1, <1>6, <1>7, <1>8 DEF TypeOK
<1>10. cur # 0 => cur \in Gens
  BY MountAssumption DEF TypeOK, Gens
<1>11. RequestInv'
  BY <1>1, <1>4, <1>7, <1>10 DEF RequestInv, Live, Built
<1>12. \A t \in Starts \ {s} : start[t].gen = g => start[t].pc \notin {"draining", "run"}
  BY <1>1 DEF Locked
<1>13. Mutex'
  BY <1>3, <1>6, <1>12 DEF Mutex
<1> HIDE DEF g, old
<1>14. ASSUME NEW t \in Starts PROVE StartInv(t)'
  <2>1. ~Running(t) => ~Running(t)'
    BY <1>5, <1>8, MountAssumption DEF Running, Starts
  <2>2. CASE t = s
    BY <1>1, <1>2, <1>3, <1>4, <1>6, <1>7, <2>1, <2>2 DEF StartInv
  <2>3. CASE t # s
    <3>1. StartInv(t) /\ start[t] \in Start /\ start'[t] = start[t]
      BY <1>6, <2>3 DEF TypeOK
    <3>2. start[t].pc \in {"queued", "draining", "run"} => start[t].gen \in Gens
      BY <3>1, MountAssumption DEF StartInv, Gens, TypeOK
    <3>3. (start[t].pc \in {"queued", "draining", "run"} =>
             /\ start[t].gen \in 1 .. cur
             /\ backend[start[t].gen].phase \in {"live", "cleaning", "cleaned"}
             /\ start[t].kind = "clean" => backend[start[t].gen].phase # "live")'
      BY <1>1, <1>4, <1>7, <3>1, <3>2 DEF StartInv
    <3>4. (start[t].pc \in {"draining", "run"} => backend[start[t].gen].mgr = 0)'
      BY <1>4, <1>7, <3>1, <3>2 DEF StartInv
    <3>5. (start[t].pc # "done" => ~Running(t) /\ use[t].pc = "idle")'
      BY <1>1, <2>1, <3>1 DEF StartInv
    <3> QED
      BY <3>3, <3>4, <3>5 DEF StartInv
  <2> QED
    BY <2>2, <2>3
<1>15. ASSUME NEW t \in Starts PROVE ManagerInv(t)'
  <2>1. CASE Running(t) /\ t # old
    <3>0. ManagerInv(t) /\ cur \in Gens /\ backend[cur].mgr = t
      BY <1>10, <2>1 DEF ManagerInv
    <3>1. cur # g
      BY <2>1, <3>0 DEF old
    <3>2. backend'[cur] = backend[cur] /\ mgr'[t] = mgr[t]
      BY <1>7, <1>8, <2>1, <3>0, <3>1
    <3> QED
      BY <1>1, <2>1, <3>0, <3>2 DEF ManagerInv, Running, Passed
  <2>2. CASE t = old
    BY <1>8, <2>2, MountAssumption DEF ManagerInv, Running, Starts
  <2>3. CASE ~Running(t) /\ t # old
    BY <1>8, <2>3 DEF ManagerInv, Running
  <2> QED
    BY <2>1, <2>2, <2>3
<1>16. ASSUME NEW h \in Gens PROVE BackendInv(h)'
  <2>1. BackendInv(h) /\ (h < cur' => backend'[h].phase \in {"cleaned", "dead"})
    BY <1>1, <1>4, <1>7 DEF BackendInv
  <2>2. backend'[h].mgr # 0 => start'[backend'[h].mgr].pc = "done"
    BY <1>1, <1>4, <1>6, <1>7, <2>1 DEF BackendInv, TypeOK, Backend
  <2>3. \A k \in Gens : backend'[h].mgr # 0 /\ backend'[h].mgr = backend'[k].mgr => h = k
    BY <1>4, <1>7, <2>1 DEF BackendInv
  <2> QED
    BY <2>1, <2>2, <2>3 DEF BackendInv
<1>17. WorkersCurrent'
  <2> SUFFICES ASSUME Live', (backend[cur].role = "active")', ~Pending(cur)'
               PROVE  (/\ backend[cur].mgr # 0 /\ Running(backend[cur].mgr)
                       /\ mgr[backend[cur].mgr].cadence = Cadence(backend[cur].config))'
    BY DEF WorkersCurrent
  <2>1. cur # g
    BY <1>1, <1>3, <1>6 DEF Pending
  <2>2. cur' = cur /\ cur \in Gens /\ backend'[cur] = backend[cur]
    BY <1>1, <1>7, <1>10, <2>1 DEF Live
  <2>3. ~Pending(cur)
    BY <1>1, <1>2, <1>6, <2>1, <2>2 DEF Pending, g
  <2>4. backend[cur].mgr \in Starts /\ Running(backend[cur].mgr) /\ backend[cur].mgr # 0
        /\ mgr[backend[cur].mgr].cadence = Cadence(backend[cur].config)
    BY <2>2, <2>3 DEF WorkersCurrent, Live, TypeOK, Backend
  <2>5. backend[cur].mgr # old
    BY <1>2, <2>1, <2>2, <2>4 DEF BackendInv, old
  <2>6. mgr'[backend[cur].mgr] = mgr[backend[cur].mgr]
    BY <1>8, <2>4, <2>5
  <2> QED
    BY <2>2, <2>4, <2>6 DEF Running, Cadence
<1> QED
  BY <1>9, <1>11, <1>13, <1>14, <1>15, <1>16, <1>17 DEF IInv

LEMMA WaitForKept == ASSUME IInv, NEW s \in Starts, WaitFor(s) PROVE IInv'
<1> TypeOK /\ RequestInv /\ WorkersCurrent /\ Mutex /\ (\A t \in Starts : StartInv(t) /\ ManagerInv(t)) /\ (\A h \in Gens : BackendInv(h))
  BY DEF IInv
<1> DEFINE i == [start[s] EXCEPT !.pc = "run"]
<1>1. /\ start[s].pc = "draining" /\ start' = [start EXCEPT ![s] = i]
      /\ UNCHANGED <<cloud, stored, cur, backend, mgr, req, use, named, amiss, minted, now>>
  BY DEF WaitFor
<1>2. start[s] \in Start
  BY DEF TypeOK
<1>3. i \in Start /\ i.pc = "run" /\ i.gen = start[s].gen /\ i.kind = start[s].kind
  BY <1>2 DEF Start
<1> HIDE DEF i
<1>4. start' \in [Starts -> Start] /\ start'[s] = i /\ \A t \in Starts \ {s} : start'[t] = start[t]
  BY <1>1, <1>3 DEF TypeOK
<1>5. \A t \in Starts : start'[t].gen = start[t].gen /\ start'[t].kind = start[t].kind
        /\ (start'[t].pc \in {"draining", "run"} <=> start[t].pc \in {"draining", "run"})
        /\ (start'[t].pc = "done" <=> start[t].pc = "done")
        /\ (start'[t].pc = "queued" <=> start[t].pc = "queued")
  BY <1>1, <1>3, <1>4
<1>6. TypeOK' /\ RequestInv'
  BY <1>1, <1>4 DEF TypeOK, RequestInv, Live, Built
<1>7. Mutex'
  BY <1>5 DEF Mutex
<1>8. ASSUME NEW t \in Starts PROVE StartInv(t)'
  <2>1. StartInv(t)
    OBVIOUS
  <2> QED
    BY <1>1, <1>5, <2>1 DEF StartInv, Running
<1>9. ASSUME NEW t \in Starts PROVE ManagerInv(t)'
  <2>1. ManagerInv(t)
    OBVIOUS
  <2> QED
    BY <1>1, <2>1 DEF ManagerInv, Running, Passed
<1>10. ASSUME NEW h \in Gens PROVE BackendInv(h)'
  BY <1>1, <1>5 DEF BackendInv, TypeOK, Backend
<1>11. Pending(cur)' <=> Pending(cur)
  BY <1>1, <1>5 DEF Pending
<1>12. WorkersCurrent'
  BY <1>1, <1>11 DEF WorkersCurrent, Live, Running, Cadence
<1> QED
  BY <1>6, <1>7, <1>8, <1>9, <1>10, <1>12 DEF IInv

\* The rest of stopWorkers.
LEMMA StopWorkersKept == ASSUME IInv, NEW s \in Starts, StopWorkers(s) PROVE IInv'
<1> TypeOK /\ RequestInv /\ WorkersCurrent /\ Mutex /\ (\A t \in Starts : StartInv(t) /\ ManagerInv(t)) /\ (\A h \in Gens : BackendInv(h))
  BY DEF IInv
<1> DEFINE g == start[s].gen
           b == [NoBackend EXCEPT !.phase = "cleaned"]
<1>1. /\ start[s].pc = "run" /\ start[s].kind = "clean" /\ start' = [start EXCEPT ![s] = Done]
      /\ backend' = [backend EXCEPT ![g] = b]
      /\ UNCHANGED <<cloud, stored, cur, mgr, req, use, named, amiss, minted, now>>
  BY DEF StopWorkers
<1>2. g \in 1 .. cur /\ g \in Gens /\ backend[g].mgr = 0 /\ backend[g].phase \in {"cleaning", "cleaned"}
  BY <1>1, MountAssumption DEF StartInv, Gens, TypeOK
<1>3. b \in Backend /\ b.mgr = 0 /\ b.phase = "cleaned"
  BY Blank DEF Backend
<1> HIDE DEF b
<1>4. start' \in [Starts -> Start] /\ start'[s].pc = "done" /\ \A t \in Starts \ {s} : start'[t] = start[t]
  BY <1>1, Blank DEF TypeOK
<1>5. backend' \in [Gens -> Backend] /\ backend'[g] = b /\ \A h \in Gens \ {g} : backend'[h] = backend[h]
  BY <1>1, <1>2, <1>3 DEF TypeOK
<1>6. TypeOK'
  BY <1>1, <1>4, <1>5 DEF TypeOK
<1>7. cur # 0 => cur \in Gens
  BY MountAssumption DEF TypeOK, Gens
<1>8. RequestInv'
  BY <1>1, <1>2, <1>3, <1>5, <1>7 DEF RequestInv, Live, Built
<1>9. Mutex'
  BY <1>4 DEF Mutex
<1> HIDE DEF g
<1>10. ASSUME NEW t \in Starts PROVE StartInv(t)'
  <2>1. CASE t = s
    BY <1>4, <2>1 DEF StartInv
  <2>2. CASE t # s
    <3>1. StartInv(t) /\ start[t] \in Start /\ start'[t] = start[t]
      BY <1>4, <2>2 DEF TypeOK
    <3>2. start[t].pc \in {"queued", "draining", "run"} => start[t].gen \in Gens
      BY <3>1, MountAssumption DEF StartInv, Gens, TypeOK
    <3>3. (start[t].pc \in {"queued", "draining", "run"} =>
             /\ start[t].gen \in 1 .. cur
             /\ backend[start[t].gen].phase \in {"live", "cleaning", "cleaned"}
             /\ start[t].kind = "clean" => backend[start[t].gen].phase # "live")'
      BY <1>1, <1>3, <1>5, <3>1, <3>2 DEF StartInv
    <3>4. (start[t].pc \in {"draining", "run"} => backend[start[t].gen].mgr = 0)'
      BY <1>3, <1>5, <3>1, <3>2 DEF StartInv
    <3>5. (start[t].pc # "done" => ~Running(t) /\ use[t].pc = "idle")'
      BY <1>1, <3>1 DEF StartInv, Running
    <3> QED
      BY <3>3, <3>4, <3>5 DEF StartInv
  <2> QED
    BY <2>1, <2>2
<1>11. ASSUME NEW t \in Starts, Running(t) PROVE ManagerInv(t)'
  <2>1. ManagerInv(t) /\ cur \in Gens /\ cur # g
    BY <1>2, <1>7, <1>11, MountAssumption DEF ManagerInv, Starts
  <2>2. backend'[cur] = backend[cur]
    BY <1>5, <2>1
  <2> QED
    BY <1>1, <1>11, <2>1, <2>2 DEF ManagerInv, Running, Passed
<1>12. ASSUME NEW t \in Starts, ~Running(t) PROVE ManagerInv(t)'
  BY <1>1, <1>12 DEF ManagerInv, Running
<1>13. ASSUME NEW h \in Gens PROVE BackendInv(h)'
  <2>1. BackendInv(h) /\ (h < cur' => backend'[h].phase \in {"cleaned", "dead"})
    BY <1>1, <1>3, <1>5 DEF BackendInv
  <2>2. backend'[h].mgr # 0 => start'[backend'[h].mgr].pc = "done"
    BY <1>3, <1>4, <1>5, <2>1 DEF BackendInv, TypeOK, Backend
  <2>3. \A k \in Gens : backend'[h].mgr # 0 /\ backend'[h].mgr = backend'[k].mgr => h = k
    BY <1>3, <1>5, <2>1 DEF BackendInv
  <2> QED
    BY <2>1, <2>2, <2>3 DEF BackendInv
<1>14. WorkersCurrent'
  <2> SUFFICES ASSUME Live', (backend[cur].role = "active")', ~Pending(cur)'
               PROVE  (/\ backend[cur].mgr # 0 /\ Running(backend[cur].mgr)
                       /\ mgr[backend[cur].mgr].cadence = Cadence(backend[cur].config))'
    BY DEF WorkersCurrent
  <2>1. cur # g
    BY <1>1, <1>3, <1>5 DEF Live
  <2>2. cur' = cur /\ cur \in Gens /\ backend'[cur] = backend[cur]
    BY <1>1, <1>5, <1>7, <2>1 DEF Live
  <2>3. ~Pending(cur)
    BY <1>4, <2>1, <2>2 DEF Pending, g
  <2>4. Live
    BY <2>2 DEF Live
  <2> QED
    BY <1>1, <2>2, <2>3, <2>4 DEF WorkersCurrent, Running, Cadence
<1> QED
  BY <1>6, <1>8, <1>9, <1>10, <1>11, <1>12, <1>13, <1>14 DEF IInv

\* A cadence is positive; what is left of the hold-off ends with it, or has ended.
LEMMA Timings ==
    ASSUME TypeOK, NEW b \in Backend
    PROVE  LET held == (IF b.bootstrapAt = Unset THEN now ELSE b.bootstrapAt) + BootstrapDelay
           IN  /\ Cadence(b.config) \in Nat \ {0} /\ RemainingBootstrapDelay(b) \in Nat
               /\ now + RemainingBootstrapDelay(b) <= Max({held, now})
<1> DEFINE at == IF b.bootstrapAt = Unset THEN now ELSE b.bootstrapAt
           left == BootstrapDelay - (now - b.bootstrapAt)
<1>1. b.config \in Int /\ b.bootstrapAt \in Nat \cup {Unset} /\ now \in Nat /\ BootstrapDelay \in Nat
      /\ DefaultCadence \in Nat \ {0} /\ FallbackInterval \in Nat \ {0}
  <2>1. BootstrapDelay \in Nat /\ DefaultCadence \in Nat \ {0} /\ FallbackInterval \in Nat \ {0} /\ now \in Nat
    BY MountAssumption DEF TypeOK
  <2>2. b.config \in Int
    <3>1. b.config \in Configs \cup {Unset}
      BY DEF Backend
    <3>2. Unset \in Int
      BY DEF Unset
    <3> QED
      BY <3>1, <3>2, MountAssumption
  <2>3. b.bootstrapAt \in Nat \cup {Unset}
    BY DEF Backend
  <2> QED
    BY <2>1, <2>2, <2>3
<1>2. Cadence(b.config) \in Nat \ {0}
  BY <1>1 DEF Cadence
<1>3. at \in Nat
  BY <1>1
<1>4. Max({at + BootstrapDelay, now}) >= at + BootstrapDelay /\ Max({at + BootstrapDelay, now}) >= now
  <2>1. at + BootstrapDelay \in Int /\ now \in Int
    BY <1>1, <1>3
  <2> HIDE DEF at
  <2> QED
    BY <2>1, MaxOf
<1>5. CASE b.bootstrapAt = Unset
  BY <1>1, <1>2, <1>4, <1>5 DEF RemainingBootstrapDelay
<1>6. CASE b.bootstrapAt # Unset
  <2>1. left \in Int /\ 0 \in Int
    BY <1>1, <1>6
  <2>2. Max({0, left}) \in {0, left} /\ Max({0, left}) >= 0
    BY <2>1, MaxOf
  <2>3. RemainingBootstrapDelay(b) = Max({0, left})
    BY <1>6 DEF RemainingBootstrapDelay
  <2>4. at = b.bootstrapAt
    BY <1>6
  <2>5. Max({0, left}) \in Nat
    BY <2>1, <2>2
  <2>6. CASE Max({0, left}) = 0
    BY <1>1, <1>2, <1>4, <2>3, <2>6
  <2>7. CASE Max({0, left}) = left
    <3>1. now + left = at + BootstrapDelay
      BY <1>1, <1>3, <2>4
    <3> QED
      BY <1>2, <1>4, <2>3, <2>5, <2>7, <3>1
  <2> QED
    BY <2>2, <2>6, <2>7
<1> QED
  BY <1>5, <1>6

\* The rest of startWorkers: a manager at the cadence of the config in memory.
LEMMA StartWorkersKept ==
    ASSUME IInv, NEW s \in Starts, NEW W \in SUBSET WorkerNames, "reconciler" \in W, StartWorkers(s, W)
    PROVE  IInv'
<1> TypeOK /\ RequestInv /\ WorkersCurrent /\ Mutex /\ (\A t \in Starts : StartInv(t) /\ ManagerInv(t)) /\ (\A h \in Gens : BackendInv(h))
  BY DEF IInv
<1> DEFINE g == start[s].gen
<1>1. /\ start[s].pc = "run" /\ start[s].kind = "start" /\ start' = [start EXCEPT ![s] = Done]
      /\ UNCHANGED <<cloud, stored, cur, req, use, named, amiss, minted, now>>
  BY DEF StartWorkers
<1>2. /\ g \in 1 .. cur /\ g \in Gens /\ backend[g].mgr = 0 /\ backend[g].phase \in {"live", "cleaning", "cleaned"}
      /\ backend[g] \in Backend /\ ~Running(s) /\ use[s].pc = "idle"
  BY <1>1, MountAssumption DEF StartInv, Gens, TypeOK
<1>3. start' \in [Starts -> Start] /\ start'[s].pc = "done" /\ \A t \in Starts \ {s} : start'[t] = start[t]
  BY <1>1, Blank DEF TypeOK
<1>4. cur # 0 => cur \in Gens
  BY MountAssumption DEF TypeOK, Gens
<1>5. \A t \in Starts \ {s} : start[t].gen = g => start[t].pc \notin {"draining", "run"}
  BY <1>1 DEF Mutex
<1>6. Mutex'
  BY <1>3 DEF Mutex
<1>7. cur # g => (Pending(cur)' <=> Pending(cur))
  BY <1>1, <1>3 DEF Pending
<1>8. CASE backend[g].role = "standby"
  <2>1. backend' = backend /\ mgr' = mgr
    BY <1>8 DEF StartWorkers
  <2>2. TypeOK' /\ RequestInv'
    BY <1>1, <1>3, <2>1 DEF TypeOK, RequestInv, Live, Built
  <2>3. ASSUME NEW t \in Starts PROVE StartInv(t)' /\ ManagerInv(t)'
    <3>1. StartInv(t) /\ ManagerInv(t)
      OBVIOUS
    <3>2. ManagerInv(t)'
      BY <1>1, <2>1, <3>1 DEF ManagerInv, Running, Passed
    <3>3. CASE t = s
      BY <1>3, <3>2, <3>3 DEF StartInv
    <3>4. CASE t # s
      BY <1>1, <1>3, <2>1, <3>1, <3>2, <3>4 DEF StartInv, Running
    <3> QED
      BY <3>3, <3>4
  <2>4. ASSUME NEW h \in Gens PROVE BackendInv(h)'
    BY <1>1, <1>3, <2>1 DEF BackendInv, TypeOK, Backend
  <2>5. WorkersCurrent'
    <3>1. (Live /\ backend[cur].role = "active")' => cur # g
      BY <1>1, <1>8, <2>1
    <3> QED
      BY <1>1, <1>7, <2>1, <3>1 DEF WorkersCurrent, Live, Running, Cadence
  <2> QED
    BY <1>6, <2>2, <2>3, <2>4, <2>5 DEF IInv
<1>9. CASE backend[g].role # "standby"
  <2> DEFINE old == backend[g]
             at == IF old.bootstrapAt = Unset THEN now ELSE old.bootstrapAt
             b == [old EXCEPT !.mgr = s, !.bootstrapAt = at]
             m == Manager(g, old, W)
  <2>1. backend' = [backend EXCEPT ![g] = b] /\ mgr' = [mgr EXCEPT ![s] = m]
    BY <1>9 DEF StartWorkers
  <2>2. at \in Nat /\ now \in Nat /\ Unset \notin Nat
    BY <1>2, MountAssumption DEF TypeOK, Backend, Unset
  <2>3. /\ b \in Backend /\ b.mgr = s /\ b.phase = old.phase /\ b.role = "active" /\ b.passed = old.passed
        /\ b.bootstrapAt = at /\ b.config = old.config
    BY <1>2, <1>9, <2>2 DEF Backend
  <2>4. /\ Cadence(old.config) \in Nat \ {0} /\ RemainingBootstrapDelay(old) \in Nat
        /\ now + RemainingBootstrapDelay(old) <= Max({at + BootstrapDelay, now})
    BY <1>2, Timings
  <2>5. /\ m \in Mgr
        /\ old.phase = "cleaned" => m.running = FALSE
        /\ old.phase # "cleaned" =>
              /\ m.running = TRUE /\ m.gen = g /\ m.workers = W /\ m.cadence = Cadence(old.config)
              /\ ~old.passed => m.started = now /\ m.next = now + RemainingBootstrapDelay(old) + Cadence(old.config)
    <3>1. CASE old.phase = "cleaned"
      BY <3>1, Blank DEF Manager
    <3>2. CASE old.phase # "cleaned"
      <4> DEFINE st == IF old.passed THEN 0 ELSE now
                 nx == IF old.passed THEN 0 ELSE now + RemainingBootstrapDelay(old) + Cadence(old.config)
      <4>1. m = [gen |-> g, running |-> TRUE, workers |-> W, cadence |-> Cadence(old.config), started |-> st, next |-> nx]
        BY <3>2 DEF Manager
      <4>2. st \in Nat /\ nx \in Nat /\ g \in 0 .. MaxGens
        BY <1>2, <2>2, <2>4, MountAssumption DEF Gens
      <4>3. ~old.passed => st = now /\ nx = now + RemainingBootstrapDelay(old) + Cadence(old.config)
        OBVIOUS
      <4> HIDE DEF st, nx, m
      <4> QED
        BY <2>4, <3>2, <4>1, <4>2, <4>3 DEF Mgr
    <3> QED
      BY <3>1, <3>2
  <2> HIDE DEF b, m, at
  <2>6. backend' \in [Gens -> Backend] /\ backend'[g] = b /\ \A h \in Gens \ {g} : backend'[h] = backend[h]
    BY <1>2, <2>1, <2>3 DEF TypeOK
  <2>7. mgr' \in [Starts -> Mgr] /\ mgr'[s] = m /\ \A t \in Starts \ {s} : mgr'[t] = mgr[t]
    BY <2>1, <2>5 DEF TypeOK
  <2>8. TypeOK'
    BY <1>1, <1>3, <2>6, <2>7 DEF TypeOK
  <2>9. RequestInv'
    BY <1>1, <1>4, <2>3, <2>6 DEF RequestInv, Live, Built
  <2>10. old.phase # "cleaned" => cur = g
    BY <1>2 DEF BackendInv, TypeOK
  <2> HIDE DEF g
  <2>11. ASSUME NEW t \in Starts PROVE StartInv(t)'
    <3>1. CASE t = s
      BY <1>3, <3>1 DEF StartInv
    <3>2. CASE t # s
      <4>1. StartInv(t) /\ start[t] \in Start /\ start'[t] = start[t] /\ mgr'[t] = mgr[t]
        BY <1>3, <2>7, <3>2 DEF TypeOK
      <4>2. start[t].pc \in {"queued", "draining", "run"} => start[t].gen \in Gens
        BY <4>1, MountAssumption DEF StartInv, Gens, TypeOK
      <4>3. (start[t].pc \in {"queued", "draining", "run"} =>
               /\ start[t].gen \in 1 .. cur
               /\ backend[start[t].gen].phase \in {"live", "cleaning", "cleaned"}
               /\ start[t].kind = "clean" => backend[start[t].gen].phase # "live")'
        BY <1>1, <2>3, <2>6, <4>1, <4>2 DEF StartInv
      <4>4. (start[t].pc \in {"draining", "run"} => backend[start[t].gen].mgr = 0)'
        BY <1>5, <2>6, <3>2, <4>1, <4>2 DEF StartInv
      <4>5. (start[t].pc # "done" => ~Running(t) /\ use[t].pc = "idle")'
        BY <1>1, <4>1 DEF StartInv, Running
      <4> QED
        BY <4>3, <4>4, <4>5 DEF StartInv
    <3> QED
      BY <3>1, <3>2
  <2>12. ASSUME NEW t \in Starts, t # s, Running(t) PROVE ManagerInv(t)'
    <3>1. ManagerInv(t) /\ cur \in Gens /\ cur # g /\ mgr'[t] = mgr[t]
      BY <1>2, <1>4, <2>7, <2>12, MountAssumption, SMTT(30) DEF ManagerInv, Starts
    <3>2. backend'[cur] = backend[cur]
      BY <2>6, <3>1
    <3> QED
      BY <1>1, <2>12, <3>1, <3>2 DEF ManagerInv, Running, Passed
  <2>13. ASSUME NEW t \in Starts, t # s, ~Running(t) PROVE ManagerInv(t)'
    BY <2>7, <2>13 DEF ManagerInv, Running
  <2>14. ManagerInv(s)'
    <3>1. CASE old.phase = "cleaned"
      BY <2>5, <2>7, <3>1 DEF ManagerInv, Running
    <3>2. CASE old.phase # "cleaned"
      <4>1. cur' = g /\ g # 0 /\ mgr'[s].gen = g /\ "reconciler" \in mgr'[s].workers /\ backend'[g] = b /\ b.bootstrapAt # Unset
        BY <1>1, <1>2, <2>2, <2>3, <2>5, <2>6, <2>7, <2>10, <3>2 DEF g
      <4>2. b.phase \in {"live", "cleaning"} /\ b.role = "active" /\ b.mgr = s
        BY <1>2, <2>3, <3>2
      <4>3. ASSUME ~old.passed
            PROVE  /\ use'[s].pc = "idle" /\ now' <= m.next
                   /\ m.next <= Max({b.bootstrapAt + BootstrapDelay, m.started}) + m.cadence
        <5>1. m.next = now + RemainingBootstrapDelay(old) + Cadence(old.config) /\ m.started = now /\ m.cadence = Cadence(old.config)
          BY <2>5, <3>2, <4>3
        <5>2. Max({at + BootstrapDelay, now}) \in Int
          <6>1. at + BootstrapDelay \in Int /\ now \in Int
            BY <2>2, MountAssumption
          <6>2. Max({at + BootstrapDelay, now}) \in {at + BootstrapDelay, now}
            BY <6>1, MaxOf
          <6> QED
            BY <6>1, <6>2
        <5> QED
          BY <1>1, <1>2, <2>2, <2>3, <2>4, <5>1, <5>2
      <4>4. Passed(s)' = old.passed
        BY <2>3, <4>1 DEF Passed
      <4> QED
        BY <2>7, <4>1, <4>2, <4>3, <4>4 DEF ManagerInv
    <3> QED
      BY <3>1, <3>2
  <2>15. ASSUME NEW h \in Gens PROVE BackendInv(h)'
    <3>0. \A k \in Gens : backend[k].mgr # s
      BY <1>1, MountAssumption DEF BackendInv, Starts
    <3>1. BackendInv(h) /\ (h < cur' => backend'[h].phase \in {"cleaned", "dead"})
      BY <1>1, <2>3, <2>6 DEF BackendInv
    <3>2. backend'[h].mgr # 0 => start'[backend'[h].mgr].pc = "done"
      BY <1>3, <2>3, <2>6, <3>1 DEF BackendInv, TypeOK, Backend
    <3>3. \A k \in Gens : backend'[h].mgr # 0 /\ backend'[h].mgr = backend'[k].mgr => h = k
      BY <2>3, <2>6, <3>0, <3>1 DEF BackendInv
    <3> QED
      BY <3>1, <3>2, <3>3 DEF BackendInv
  <2>16. WorkersCurrent'
    <3> SUFFICES ASSUME Live', (backend[cur].role = "active")', ~Pending(cur)'
                 PROVE  (/\ backend[cur].mgr # 0 /\ Running(backend[cur].mgr)
                         /\ mgr[backend[cur].mgr].cadence = Cadence(backend[cur].config))'
      BY DEF WorkersCurrent
    <3>0. cur' = cur /\ cur \in Gens
      BY <1>1, <1>4 DEF Live
    <3>1. CASE cur = g
      <4>1. old.phase = "live" /\ backend'[cur].mgr = s /\ s # 0
        BY <2>3, <2>6, <3>0, <3>1, MountAssumption DEF Live, Starts
      <4> QED
        BY <2>3, <2>5, <2>6, <2>7, <3>0, <3>1, <4>1 DEF Running, Cadence
    <3>2. CASE cur # g
      <4>1. backend'[cur] = backend[cur] /\ Live /\ ~Pending(cur) /\ backend[cur].role = "active"
        BY <1>7, <2>6, <3>0, <3>2 DEF Live, Pending
      <4>2. backend[cur].mgr \in Starts /\ Running(backend[cur].mgr) /\ backend[cur].mgr # 0
            /\ mgr[backend[cur].mgr].cadence = Cadence(backend[cur].config)
        BY <3>0, <4>1 DEF WorkersCurrent, TypeOK, Backend
      <4>3. backend[cur].mgr # s
        BY <1>1, <3>0, <4>2 DEF BackendInv
      <4> QED
        BY <2>7, <3>0, <4>1, <4>2, <4>3 DEF Running, Cadence
    <3> QED
      BY <3>1, <3>2
  <2> QED
    BY <1>6, <2>8, <2>9, <2>11, <2>12, <2>13, <2>14, <2>15, <2>16 DEF IInv
<1> QED
  BY <1>8, <1>9

-----------------------------------------------------------------------------
(* The theorems. *)

LEMMA InitInv == Init => IInv
<1> SUFFICES ASSUME Init PROVE IInv
  OBVIOUS
<1>1. TypeOK
  <2>0. 0 \in Ids /\ 0 \in 0 .. MaxGens /\ 0 \in 0 .. MaxTime /\ "" \in Held
    BY MountAssumption DEF Ids, Held
  <2>1. stored \in [config : Configs \cup {Unset}, meta : Held, owner : Ids]
    BY <2>0 DEF Init, NoId
  <2>2. cur \in 0 .. MaxGens /\ minted \in Ids /\ now \in 0 .. MaxTime
    BY <2>0 DEF Init
  <2>3. backend \in [Gens -> Backend] /\ start \in [Starts -> Start] /\ mgr \in [Starts -> Mgr]
    BY Blank DEF Init
  <2>4. req \in [Procs -> Req] /\ use \in [Users -> Use]
    BY Blank DEF Init
  <2> QED
    BY <2>1, <2>2, <2>3, <2>4 DEF Init, TypeOK, Amiss
<1>2. /\ cur = 0 /\ (\A s \in Starts : start[s].pc = "none" /\ ~Running(s) /\ use[s].pc = "idle")
      /\ (\A g \in Gens : backend[g].mgr = 0) /\ (\A p \in Procs : req[p].pc = "idle")
  BY Blank DEF Init, Running, Users
<1>3. Mutex /\ RequestInv /\ WorkersCurrent /\ \A s \in Starts : StartInv(s) /\ ManagerInv(s)
  BY <1>2 DEF Mutex, RequestInv, WorkersCurrent, Live, Built, StartInv, ManagerInv
<1>4. \A g \in Gens : BackendInv(g)
  BY <1>2, MountAssumption DEF BackendInv, Gens
<1> QED
  BY <1>1, <1>3, <1>4 DEF IInv

LEMMA NextInv == IInv /\ [Next]_vars => IInv'
<1> SUFFICES ASSUME IInv, [Next]_vars PROVE IInv'
  OBVIOUS
<1>1. Step
  BY Shared
<1>2. ASSUME NEW s \in Starts, StartStep(s) PROVE IInv'
  BY <1>2, StopLockedKept, WaitForKept, StopWorkersKept, ReconcileKept, StartWorkersKept DEF StartStep
<1>3. ASSUME NEW p \in Procs, RequestStep(p) PROVE IInv'
  <2>1. CASE \E e \in Held : WriteMemory(p, e)
    BY <2>1, RestartKept
  <2>2. CASE SetWritten(p)
    <3>1. "" \in Held
      BY DEF Held
    <3> QED
      BY <2>2, <3>1, RestartKept
  <2>3. CASE \E c \in Configs, e \in Held : WriteConfig(p, c, e)
    BY <2>3, PutKept
  <2>4. CASE CredsRead(p) \/ WriteMeta(p) \/ (req[p].pc = "meta" /\ Refuse(p))
    BY <2>4, PutKept
  <2> QED
    BY <1>3, <2>1, <2>2, <2>3, <2>4 DEF RequestStep
<1>4. CASE UNCHANGED vars
  <2>1. TypeOK' /\ RequestInv' /\ Alike
    BY <1>4 DEF vars, IInv, TypeOK, RequestInv, Live, Built, Alike, Running
  <2> QED
    BY <2>1, AlikeKept DEF IInv, WorkInv
<1> QED
  BY <1>1, <1>2, <1>3, <1>4, BuildKept, InitialiseKept, CleanKept, CrashKept, AdvanceKept, OwnerPutKept, OwnerCacheKept DEF Step

\* The invariant holds of every execution.
LEMMA Invariant == Spec => []IInv
<1> QED
  BY InitInv, NextInv, PTL DEF Spec

\* Storage, backends, managers, starts and requests keep their types.
THEOREM TypeCorrect == Spec => []TypeOK
<1>1. IInv => TypeOK
  BY DEF IInv
<1> QED
  BY <1>1, Invariant, PTL

\* A manager that is not cancelled is the live backend's, of the active node, and
\* the one its next stop will cancel (startWorkers, stopWorkersLocked, Clean).
THEOREM OneManager == Spec => []WorkersContained
<1>1. IInv => WorkersContained
  BY DEF IInv, ManagerInv, WorkersContained
<1> QED
  BY <1>1, Invariant, PTL

\* Once every start has ended, the live backend of the active node has workers, at
\* the cadence of the config it holds (startWorkers).
THEOREM CurrentCadence == Spec => []WorkersCurrent
<1>1. IInv => WorkersCurrent
  BY DEF IInv
<1> QED
  BY <1>1, Invariant, PTL

\* A restart of the workers waits for what is left of the hold-off that the first
\* start began, and then for one cadence from the restart (remainingBootstrapDelay,
\* worker.run).  Nothing bounds how often they are restarted.
THEOREM FirstPassDue == Spec => []FirstPassInTime
<1>1. ASSUME IInv PROVE FirstPassInTime
  <2> SUFFICES ASSUME NEW s \in Starts, Running(s), ~Passed(s)
               PROVE  now <= Max({backend[mgr[s].gen].bootstrapAt + BootstrapDelay, mgr[s].started}) + mgr[s].cadence
    BY DEF FirstPassInTime
  <2> DEFINE held == backend[cur].bootstrapAt + BootstrapDelay
  <2>1. ManagerInv(s) /\ TypeOK
    BY <1>1 DEF IInv
  <2>2. mgr[s].gen = cur /\ now <= mgr[s].next /\ mgr[s].next <= Max({held, mgr[s].started}) + mgr[s].cadence
    BY <2>1 DEF ManagerInv
  <2>3. cur \in Gens /\ backend[cur].bootstrapAt # Unset
    BY <2>1, MountAssumption DEF ManagerInv, TypeOK, Gens
  <2>4. held \in Int /\ mgr[s].started \in Int /\ mgr[s].cadence \in Int /\ mgr[s].next \in Int /\ now \in Int
    BY <2>1, <2>3, MountAssumption DEF TypeOK, Backend, Mgr
  <2>5. Max({held, mgr[s].started}) \in Int
    <3> HIDE DEF held
    <3> QED
      BY <2>4, MaxOf
  <2> QED
    BY <2>2, <2>4, <2>5
<1> QED
  BY <1>1, Invariant, PTL

-----------------------------------------------------------------------------
(* The configuration.  Nothing serialises two writes: the one that put its   *)
(* entry last need not be the one that sets memory last; short of that, what *)
(* the write in progress has put is what is stored.                          *)

ConfigInv == WriteInv /\ ConfigReloads

\* The rest of the program leaves the configuration alone.
LEMMA ConfigKept ==
    ASSUME ConfigInv, stored'.config = stored.config, req' = req, amiss' = amiss, cur' = cur,
           Live' => backend[cur].phase = "live" /\ backend'[cur].config = backend[cur].config
    PROVE  ConfigInv'
BY DEF ConfigInv, WriteInv, ConfigReloads, Settled, Live

LEMMA NextConfig == ASSUME IInv, ConfigInv, [Next]_vars PROVE ConfigInv'
<1> TypeOK /\ RequestInv /\ (\A s \in Starts : StartInv(s) /\ ManagerInv(s))
  BY DEF IInv
<1>0. Step /\ (cur # 0 => cur \in Gens) /\ backend \in [Gens -> Backend]
  BY Shared, MountAssumption DEF TypeOK, Gens
<1>1. ASSUME NEW b, Fresh(b), Build(b) PROVE ConfigInv'
  <2>1. ~Live /\ req' = req /\ cur' \in Gens /\ cur' = cur + 1
    BY <1>1, MountAssumption DEF Build, Live, TypeOK, Gens
  <2>2. ~Live'
    <3>1. PICK r \in {"active", "standby"} : backend' = [backend EXCEPT ![cur'] = [b EXCEPT !.phase = "built", !.role = r]]
      BY <1>1, Zenon DEF Build
    <3>2. [b EXCEPT !.phase = "built", !.role = r].phase = "built"
      BY <1>1 DEF Fresh, Backend
    <3>3. backend'[cur'] = [b EXCEPT !.phase = "built", !.role = r]
      BY <1>0, <2>1, <3>1
    <3> QED
      BY <3>2, <3>3 DEF Live
  <2> QED
    BY <2>1, <2>2 DEF ConfigInv, WriteInv, ConfigReloads, Settled, RequestInv
<1>2. ASSUME NEW b, Again(b), Built, Initialise(b) PROVE ConfigInv'
  <2>1. cur \in Gens /\ cur' = cur /\ backend' = [backend EXCEPT ![cur] = [b EXCEPT !.phase = "live"]] /\ req' = req /\ stored' = stored
    BY <1>0, <1>2 DEF Built, Initialise
  <2>2. [b EXCEPT !.phase = "live"].config = stored.config
    BY <1>2 DEF Again, RequestInv, Backend
  <2>3. backend'[cur].config = stored.config
    BY <1>0, <2>1, <2>2
  <2>4. \A p \in Procs : req'[p].pc = "idle"
    BY <1>2, <2>1 DEF RequestInv, Live, Built
  <2> QED
    BY <2>1, <2>3, <2>4 DEF ConfigInv, WriteInv, ConfigReloads, Settled
<1>3. CASE Clean
  <2>1. cur \in Gens /\ cur' = cur /\ backend' = [backend EXCEPT ![cur].phase = "cleaning"] /\ req' = req
        /\ \A p \in Procs : req[p].pc = "idle"
    BY <1>0, <1>3 DEF Clean, Live
  <2>2. ~Live'
    BY <1>0, <2>1 DEF Live, Backend
  <2> QED
    BY <2>1, <2>2 DEF ConfigInv, WriteInv, ConfigReloads, Settled
<1>4. CASE Crash
  <2>1. cur \in Gens /\ cur' = cur /\ backend' = [backend EXCEPT ![cur] = [NoBackend EXCEPT !.phase = "dead"]]
        /\ req' = [p \in Procs |-> NoReq]
    BY <1>0, <1>4 DEF Crash
  <2>2. ~Live'
    BY <1>0, <2>1, Blank DEF Live, Backend
  <2>3. \A p \in Procs : req'[p].pc = "idle"
    BY <2>1, Blank
  <2> QED
    BY <2>2, <2>3 DEF ConfigInv, WriteInv, ConfigReloads, Settled
<1>5. CASE Advance \/ UNCHANGED vars
  BY <1>5, ConfigKept DEF Advance, vars, Live
<1>6. ASSUME NEW s \in Starts, StartStep(s) PROVE ConfigInv'
  <2>1. stored' = stored /\ req' = req /\ amiss' = amiss /\ cur' = cur
    BY <1>6 DEF StartStep, StopLocked, WaitFor, StopWorkers, StartWorkers, ReconcileLocal, ReconcileOwned, Began
  <2>2. ASSUME Live' PROVE backend[cur].phase = "live" /\ backend'[cur].config = backend[cur].config
    <3>1. cur \in Gens /\ backend'[cur].phase = "live" /\ backend[cur] \in Backend
      BY <1>0, <2>1, <2>2 DEF Live
    <3>2. CASE StopLocked(s)
      <4> DEFINE b == [backend[start[s].gen] EXCEPT !.mgr = 0]
      <4>1. backend' = [backend EXCEPT ![start[s].gen] = b]
        BY <3>2 DEF StopLocked
      <4>2. start[s].gen \in Gens => b.phase = backend[start[s].gen].phase /\ b.config = backend[start[s].gen].config
        BY <1>0 DEF Backend
      <4> HIDE DEF b
      <4> QED
        BY <1>0, <3>1, <4>1, <4>2
    <3>3. CASE WaitFor(s)
      BY <3>1, <3>3 DEF WaitFor
    <3>4. CASE StopWorkers(s)
      <4> DEFINE b == [NoBackend EXCEPT !.phase = "cleaned"]
      <4>1. backend' = [backend EXCEPT ![start[s].gen] = b] /\ b.phase = "cleaned"
        BY <3>4, Blank DEF StopWorkers, Backend
      <4> HIDE DEF b
      <4> QED
        BY <1>0, <3>1, <4>1
    <3>5. CASE ReconcileLocal(s) \/ ReconcileOwned(s)
      <4> DEFINE g == mgr[s].gen
                 b == [backend[g] EXCEPT !.passed = TRUE]
      <4>1. backend' = [backend EXCEPT ![g] = b]
        BY <3>5 DEF ReconcileLocal, ReconcileOwned, Began
      <4>2. g \in Gens => b.phase = backend[g].phase /\ b.config = backend[g].config
        BY <1>0 DEF Backend
      <4> HIDE DEF b, g
      <4> QED
        BY <1>0, <3>1, <4>1, <4>2
    <3>6. ASSUME NEW W \in SUBSET WorkerNames, StartWorkers(s, W)
          PROVE  backend[cur].phase = "live" /\ backend'[cur].config = backend[cur].config
      <4> DEFINE g == start[s].gen
                 at == IF backend[g].bootstrapAt = Unset THEN now ELSE backend[g].bootstrapAt
                 b == [backend[g] EXCEPT !.mgr = s, !.bootstrapAt = at]
      <4>1. backend' = backend \/ backend' = [backend EXCEPT ![g] = b]
        BY <3>6 DEF StartWorkers
      <4>2. g \in Gens => b.phase = backend[g].phase /\ b.config = backend[g].config
        BY <1>0 DEF Backend
      <4> HIDE DEF b, g
      <4> QED
        BY <1>0, <3>1, <4>1, <4>2
    <3> QED
      BY <1>6, <3>2, <3>3, <3>4, <3>5, <3>6 DEF StartStep
  <2> QED
    BY <2>1, <2>2, ConfigKept
<1>7. ASSUME NEW u \in Users, OwnerPut(u) \/ OwnerCache(u) PROVE ConfigInv'
  <2>1. req' = req /\ amiss' = amiss /\ cur' = cur
    BY <1>7 DEF OwnerPut, OwnerCache
  <2>2. stored'.config = stored.config
    BY <1>7 DEF OwnerPut, OwnerCache, TypeOK
  <2>3. ASSUME Live' PROVE backend[cur].phase = "live" /\ backend'[cur].config = backend[cur].config
    <3> DEFINE g == GenOf(u)
               b == [backend[g] EXCEPT !.owner = use[u].id]
    <3>1. cur \in Gens /\ backend'[cur].phase = "live"
      BY <1>0, <2>1, <2>3 DEF Live
    <3>2. backend' = backend \/ backend' = [backend EXCEPT ![g] = b]
      BY <1>7 DEF OwnerPut, OwnerCache
    <3>3. g \in Gens => b.phase = backend[g].phase /\ b.config = backend[g].config
      BY <1>0 DEF Backend
    <3> HIDE DEF b, g
    <3> QED
      BY <1>0, <3>1, <3>2, <3>3
  <2> QED
    BY <2>1, <2>2, <2>3, ConfigKept
<1>8. ASSUME NEW p \in Procs, SetWritten(p) \/ CredsRead(p) PROVE ConfigInv'
  BY <1>8, ConfigKept DEF SetWritten, CredsRead, Live
<1>9. ASSUME NEW p \in Procs, NEW c \in Configs, NEW e \in Held, WriteConfig(p, c, e) PROVE ConfigInv'
  <2>1. req' = [req EXCEPT ![p] = [pc |-> "meta", config |-> c, endpoint |-> e]] /\ stored' = [stored EXCEPT !.config = c]
    BY <1>9 DEF WriteConfig
  <2>2. req'[p].pc = "meta" /\ req'[p].config = c /\ stored'.config = c
    BY <2>1 DEF TypeOK
  <2>3. ASSUME amiss' = "none" PROVE \A q \in Procs \ {p} : req'[q].pc = "idle"
    <3>1. \A q \in Procs : req[q].pc = "idle"
      BY <1>9, <2>3 DEF WriteConfig
    <3> QED
      BY <2>1, <3>1
  <2> QED
    BY <2>2, <2>3 DEF ConfigInv, WriteInv, ConfigReloads, Settled
<1>10. ASSUME NEW p \in Procs, WriteMeta(p) \/ (req[p].pc = "meta" /\ Refuse(p)) PROVE ConfigInv'
  <2>1. req[p] \in Req /\ req[p].pc = "meta"
    BY <1>10 DEF WriteMeta, TypeOK
  <2>2. stored'.config = stored.config
    BY <1>10 DEF WriteMeta, Refuse, TypeOK
  <2>3. CASE amiss' = "failure"
    BY <2>3 DEF ConfigInv, WriteInv, ConfigReloads
  <2>4. CASE amiss' = amiss /\ req' = [req EXCEPT ![p].pc = "memory"]
    <3>1. req'[p].pc = "memory" /\ req'[p].config = req[p].config /\ \A q \in Procs \ {p} : req'[q] = req[q]
      BY <2>1, <2>4 DEF TypeOK, Req
    <3>2. WriteInv'
      BY <2>1, <2>2, <2>4, <3>1 DEF ConfigInv, WriteInv
    <3> QED
      BY <3>1, <3>2 DEF ConfigInv, ConfigReloads, Settled
  <2> QED
    BY <1>10, <2>3, <2>4 DEF WriteMeta, Refuse
<1>11. ASSUME NEW p \in Procs, NEW e \in Held, WriteMemory(p, e) PROVE ConfigInv'
  <2>1. req[p].pc = "memory" /\ stored' = stored /\ req' = [req EXCEPT ![p] = NoReq] /\ cur' = cur /\ amiss' = amiss
    BY <1>11 DEF WriteMemory
  <2>2. cur \in Gens
    BY <1>0, <1>11 DEF WriteMemory, RequestInv, Live
  <2>3. backend'[cur].config = req[p].config
    <3> DEFINE b == [backend[cur] EXCEPT !.config = req[p].config, !.endpoint = e]
    <3>1. backend' = [backend EXCEPT ![cur] = b]
      BY <1>11 DEF WriteMemory
    <3>2. b.config = req[p].config
      BY <1>0, <2>2 DEF Backend
    <3> HIDE DEF b
    <3> QED
      BY <1>0, <2>2, <3>1, <3>2
  <2>4. \A q \in Procs \ {p} : req'[q] = req[q]
    BY <2>1 DEF TypeOK
  <2>5. req'[p].pc = "idle"
    BY <2>1, Blank DEF TypeOK
  <2>6. WriteInv'
    BY <2>1, <2>4, <2>5 DEF ConfigInv, WriteInv
  <2>7. amiss = "none" => req[p].config = stored.config
    BY <2>1 DEF ConfigInv, WriteInv
  <2> QED
    BY <2>1, <2>3, <2>6, <2>7 DEF ConfigInv, ConfigReloads
<1> QED
  BY <1>0, <1>1, <1>2, <1>3, <1>4, <1>5, <1>6, <1>7, <1>8, <1>9, <1>10, <1>11 DEF Step, RequestStep

\* With no write in progress, a backend built now would have the config that the
\* live one has, unless the last write was refused after its put, failed half way,
\* or overlapped another (pathConfigWrite, loadConfig).
THEOREM ConfigSurvives == Spec => []ConfigReloads
<1>1. Init => ConfigInv
  BY Blank DEF Init, ConfigInv, WriteInv, ConfigReloads, Settled, Live
<1>2. (IInv /\ ConfigInv) /\ [Next]_vars => (IInv /\ ConfigInv)'
  BY NextInv, NextConfig
<1>3. ConfigInv => ConfigReloads
  BY DEF ConfigInv
<1> QED
  BY <1>1, <1>2, <1>3, InitInv, PTL DEF Spec
=============================================================================
