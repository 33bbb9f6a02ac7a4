------------------------- MODULE CloudSets_proofs -------------------------
(***************************************************************************)
(* Proofs, for every cloud and every number of minters, successors,        *)
(* writers, rotations and sweeps, of what the set of a mount keeps true in *)
(* storage, in memory and at the cloud.                                    *)
(***************************************************************************)
EXTENDS CloudSets, FiniteSetTheorems, TLAPS

-----------------------------------------------------------------------------
(* The ten plugins, reduced to the operations of MinterSet.                *)

WriteStep(p) ==
    \/ WritePut(p) \/ WriteFail(p) \/ DeleteSet(p)
    \/ \E w \in SUBSET Originals : WriteRead(p, w)

Expiry == Nat \cup {Never, Unset}
Mints(p) ==
    \E s \in Successors, u \in Minters \cup {NoMinter}, ex \in Expiry :
        RotateMint(p, s, ex, u) \/ RotateMintLost(p, s, ex, u)

RotateStep(p) ==
    \/ \E m \in Minters, ex \in Expiry : RotateRead(p, m, ex)
    \/ Mints(p)
    \/ RotateMintFail(p) \/ RotateCheck(p) \/ RotateCommit(p)
    \/ \E by \in SUBSET Minters : RotateCleanup(p, by)

DeleteStep(p) ==
    \E m \in Minters :
        \/ SweepDelete(p, m, m \in Successors \cup Recorded)
        \/ SweepDeleteFail(p, m, m \in Successors \cup Recorded)

SweepStep(p) == DeleteStep(p) \/ SweepRead(p) \/ SweepPut(p)

Step(p) == WriteStep(p) \/ RotateStep(p) \/ SweepStep(p) \/ LoadMinterSet(p)

LEMMA Types ==
    ASSUME TypeOK, NEW p \in Procs
    PROVE  /\ job \in [Procs -> Job] /\ job[p] \in Job
           /\ job[p].set \in [Minters -> Entry] /\ job[p].now \in Nat
           /\ job[p].old \in Minters \cup {NoMinter} /\ job[p].new \in Minters \cup {NoMinter}
           /\ job[p].todo \subseteq Minters /\ job[p].changed \in BOOLEAN /\ job[p].synthetic \in Expiry
           /\ job[p].pc \in Held \cup {"idle", "put", "load"}
           /\ Idle \in Job /\ NoSet \in [Minters -> Entry]
           /\ Idle.pc = "idle" /\ Idle.set = NoSet /\ ActiveMinters(NoSet) = {} /\ Retired(NoSet) = {}
           /\ \A m \in Minters : NoSet[m] = Absent
BY MinterAssumption DEF TypeOK, Job, Idle, NoSet, Entry, ActiveMinters, Retired, Expiry

LEMMA SharedRotate ==
    ASSUME TypeOK, StageInv, NEW p \in Procs, Rotate(p)
    PROVE  RotateStep(p)
<1>0. /\ ActiveMinters(loaded) \in SUBSET Minters /\ {job[p].new} \in SUBSET (Minters \cup {NoMinter})
      /\ \A m \in Minters : user[m] \in Minters \cup {NoMinter}
      /\ At(p, "cleanup") => {job[p].new} \in SUBSET Minters
      /\ \A m \in Minters : expires[m] \in Expiry /\ Fresh(m) \in Expiry
      /\ At(p, "mint") => job[p].old \in Minters
      /\ NoMinter \in Minters \cup {NoMinter} /\ Unset \in Expiry /\ Never \in Expiry
  BY Types, TermAssumption DEF TypeOK, StageInv, Stage, ActiveMinters, At, Minters, Fresh, Expiry
<1>1. ASSUME NEW by, RotateCleanup(p, by), by = ActiveMinters(loaded) \/ by = {job[p].new} PROVE RotateStep(p)
  BY <1>0, <1>1 DEF RotateStep, RotateCleanup
<1>2. CASE AkamaiRotate(p)
  BY <1>0, <1>2 DEF AkamaiRotate, AkamaiRotateMinter, RotateStep, Mints, RotateMint, RotateMintLost
<1>3. CASE AWSRotate(p)
  BY <1>0, <1>3 DEF AWSRotate, AWSRotateMinter, RotateStep, Mints, RotateMint, RotateMintLost
<1>4. CASE AzureRotate(p)
  BY <1>0, <1>4 DEF AzureRotate, AzureRotateMinter, RotateStep, Mints, RotateMint, RotateMintLost
<1>5. CASE ExoscaleRotate(p)
  BY <1>0, <1>5, TermAssumption DEF ExoscaleRotate, ExoscaleRotateMinter, RotateStep, Mints, RotateMint, RotateMintLost, Minters
<1>6. CASE GCPRotate(p)
  BY <1>0, <1>6 DEF GCPRotate, GCPRotateMinter, RotateStep, Mints, RotateMint, RotateMintLost
<1>7. CASE UpCloudRotate(p)
  BY <1>0, <1>7 DEF UpCloudRotate, UpCloudRotateMinter, RotateStep, Mints, RotateMint, RotateMintLost
<1> QED
  BY <1>1, <1>2, <1>3, <1>4, <1>5, <1>6, <1>7 DEF Rotate, AkamaiCleanupSuccessor, AWSCleanupSuccessor,
     AzureCleanupSuccessor, ExoscaleCleanupSuccessor, GCPCleanupSuccessor, UpCloudCleanupSuccessor

\* Every step of a mount is one of the parts, whichever its cloud.
LEMMA Shared ==
    ASSUME TypeOK, StageInv, Next
    PROVE  (\E p \in Procs : Step(p)) \/ Tick \/ Crash
<1>1. ASSUME NEW p \in Procs, Write(p) PROVE WriteStep(p)
  BY <1>1 DEF Write, WriteStep, AkamaiSetWrite, AWSSetWrite, AzureSetWrite, DOSetWrite, ExoscaleSetWrite,
     GCPSetWrite, OCISetWrite, OVHSetWrite, UpCloudSetWrite, VultrSetWrite,
     AkamaiSetDelete, AWSSetDelete, AzureSetDelete, DOSetDelete, ExoscaleSetDelete,
     GCPSetDelete, OCISetDelete, OVHSetDelete, UpCloudSetDelete, VultrSetDelete
<1>2. ASSUME NEW p \in Procs, NEW m \in Minters, Delete(p, m) PROVE DeleteStep(p)
  BY <1>2 DEF Delete, DeleteStep, AkamaiDeleteRetiredUpstream, AWSDeleteRetiredUpstream,
     AzureDeleteRetiredUpstream, ExoscaleDeleteRetiredUpstream, GCPDeleteRetiredUpstream,
     UpCloudDeleteRetiredUpstream, AkamaiHasUpstreamID, AWSHasUpstreamID, AzureHasUpstreamID,
     ExoscaleHasUpstreamID, GCPHasUpstreamID, UpCloudHasUpstreamID
<1>3. ASSUME NEW p \in Procs, Sweep(p) PROVE SweepStep(p)
  BY <1>2, <1>3 DEF Sweep, SweepStep, AkamaiSweepSet, AWSSweepSet, AzureSweepSet, ExoscaleSweepSet,
     GCPSweepSet, UpCloudSweepSet
<1>4. ASSUME NEW p \in Procs, Load(p) PROVE LoadMinterSet(p)
  BY <1>4 DEF Load, AkamaiLoadMinterSet, AWSLoadMinterSet, AzureLoadMinterSet, DOLoadMinterSet,
     ExoscaleLoadMinterSet, GCPLoadMinterSet, OCILoadMinterSet, OVHLoadMinterSet,
     UpCloudLoadMinterSet, VultrLoadMinterSet
<1>5. Restart => Crash
  BY DEF Restart, AkamaiLoadAllMinterSets, AWSLoadAllMinterSets, AzureLoadAllMinterSets, DOLoadAllMinterSets,
     ExoscaleLoadAllMinterSets, GCPLoadAllMinterSets, OCILoadAllMinterSets, OVHLoadAllMinterSets,
     UpCloudLoadAllMinterSets, VultrLoadAllMinterSets
<1> QED
  BY <1>1, <1>3, <1>4, <1>5, SharedRotate DEF Next, Step

-----------------------------------------------------------------------------
(* Types, and who is inside a rotation or a sweep.                         *)

\* rotateSweepMu: of the goroutines that take it, one is at work at a time.
LEMMA OneHolder ==
    ASSUME TypeOK, StageInv, NEW p \in Procs \ Writers, job[p].pc # "idle"
    PROVE  mu = p /\ p # NoProc /\ \A q \in Procs \ Writers : job[q].pc # "idle" => q = p
BY Types, ProcAssumption DEF TypeOK, StageInv, Stage, Procs, Held, At

\* Which goroutine is which, from where it is.
LEMMA Roles ==
    ASSUME TypeOK, StageInv, NEW p \in Procs
    PROVE  /\ At(p, "put") => p \in Writers
           /\ job[p].pc \in {"mint", "check", "commit", "cleanup"} => p \in Rotators
           /\ At(p, "sweep") => p \in Sweepers
           /\ p \in Writers => p \notin Rotators /\ p \notin Sweepers
           /\ p \in Rotators => p \notin Writers /\ p \notin Sweepers
           /\ p \in Sweepers => p \notin Writers /\ p \notin Rotators
BY Types, ProcAssumption DEF StageInv, Stage, Procs, At

\* The frame of StageInv: the step of one goroutine.
LEMMA Staged ==
    ASSUME StageInv, NEW p \in Procs, Stage(p)', made \subseteq made',
           \A q \in Procs \ {p} : job'[q] = job[q]
    PROVE  StageInv'
BY DEF StageInv, Stage

Inside(p) == job[p].pc \in Held \/ (At(p, "load") /\ p \in Rotators \cup Sweepers)

\* A goroutine that ends gives rotateSweepMu back if it had it.
LEMMA Finished ==
    ASSUME TypeOK, StageInv, NEW p \in Procs, Finish(p)
    PROVE  /\ job' \in [Procs -> Job] /\ job'[p] = Idle /\ \A q \in Procs \ {p} : job'[q] = job[q]
           /\ mu' \in Procs \cup {NoProc}
           /\ \A q \in Procs : (mu' = q) <=> Inside(q)'
<1>1. /\ job' \in [Procs -> Job] /\ job'[p] = Idle /\ \A q \in Procs \ {p} : job'[q] = job[q]
      /\ mu' \in Procs \cup {NoProc}
  BY Types DEF Finish, Unlock, TypeOK
<1>2. ASSUME NEW q \in Procs
      PROVE (mu' = q) <=> Inside(q)'
  <2>1. CASE q = p
    BY <1>1, <2>1, Types, ProcAssumption DEF Finish, Unlock, Held, Inside, At
  <2>2. CASE q # p
    BY <1>1, <2>2, ProcAssumption DEF Finish, Unlock, TypeOK, At, Inside
  <2> QED
    BY <2>1, <2>2
<1> QED
  BY <1>1, <1>2

LEMMA WriteTyped ==
    ASSUME TypeOK, StageInv, NEW p \in Procs, WriteStep(p) \/ LoadMinterSet(p)
    PROVE  TypeOK' /\ StageInv'
<1>0. job \in [Procs -> Job] /\ job[p] \in Job /\ NoSet \in [Minters -> Entry] /\ Idle.pc = "idle"
  BY Types
<1>1. CASE WritePut(p)
  <2>1. p \in Writers /\ p \notin Rotators /\ p \notin Sweepers
    BY <1>1, Roles DEF WritePut
  <2>2. job' \in [Procs -> Job] /\ job'[p] = [job[p] EXCEPT !.pc = "load"]
        /\ \A q \in Procs \ {p} : job'[q] = job[q]
    BY <1>0, <1>1 DEF WritePut, Job
  <2>3. stored' \in [Minters -> Entry]
    BY <1>1, Types DEF WritePut
  <2>4. TypeOK'
    BY <1>0, <1>1, <2>1, <2>2, <2>3 DEF WritePut, TypeOK, At, Held, remote, history, PutBack
  <2> QED
    BY <1>0, <1>1, <2>1, <2>2, <2>4 DEF WritePut, StageInv, Stage, remote, Job
<1>2. CASE WriteFail(p)
  <2>1. TypeOK'
    BY <1>2, Finished DEF WriteFail, TypeOK, At, Inside, remote, store, history
  <2> QED
    BY <1>0, <1>2, <2>1, Finished DEF WriteFail, StageInv, Stage, remote, Idle
<1>3. CASE LoadMinterSet(p)
  <2>1. TypeOK'
    BY <1>3, Finished, Types DEF LoadMinterSet, TypeOK, At, Inside, remote, history, PutBack
  <2> QED
    BY <1>0, <1>3, <2>1, Finished DEF LoadMinterSet, StageInv, Stage, remote, Idle
<1>4. CASE DeleteSet(p)
  <2>1. p \in Writers /\ p \notin Rotators /\ p \notin Sweepers
    BY <1>4, Roles DEF DeleteSet
  <2>2. job' \in [Procs -> Job] /\ job'[p] = [job[p] EXCEPT !.pc = "load", !.set = NoSet]
        /\ \A q \in Procs \ {p} : job'[q] = job[q]
    BY <1>0, <1>4 DEF DeleteSet, Job
  <2>3. TypeOK'
    BY <1>0, <1>4, <2>1, <2>2 DEF DeleteSet, TypeOK, At, Held, remote, history
  <2> QED
    BY <1>0, <1>4, <2>1, <2>2, <2>3 DEF DeleteSet, StageInv, Stage, remote, Job, At
<1>5. ASSUME NEW w \in SUBSET Originals, WriteRead(p, w) PROVE TypeOK' /\ StageInv'
  <2>1. p \in Writers /\ p \notin Rotators /\ p \notin Sweepers
    BY <1>5, Roles DEF WriteRead
  <2>2. PreserveLifecycle(w, stored) \in [Minters -> Entry]
    BY DEF TypeOK, PreserveLifecycle, Entry, history
  <2>3. job' \in [Procs -> Job] /\ job'[p] = [job[p] EXCEPT !.pc = "put", !.set = PreserveLifecycle(w, stored)]
        /\ \A q \in Procs \ {p} : job'[q] = job[q]
    BY <1>0, <1>5, <2>2 DEF WriteRead, Job
  <2>4. TypeOK'
    BY <1>0, <1>5, <2>1, <2>3 DEF WriteRead, TypeOK, At, Held, remote, store, history
  <2> QED
    BY <1>0, <1>5, <2>1, <2>3, <2>4 DEF WriteRead, StageInv, Stage, remote, store, Job, At
<1> QED
  BY <1>1, <1>2, <1>3, <1>4, <1>5 DEF WriteStep

LEMMA RotateTyped ==
    ASSUME TypeOK, StageInv, NEW p \in Procs, RotateStep(p)
    PROVE  TypeOK' /\ StageInv'
<1>0. job \in [Procs -> Job] /\ job[p] \in Job /\ Idle.pc = "idle"
  BY Types
<1>1. ASSUME NEW m \in Minters, NEW ex \in Expiry, RotateRead(p, m, ex) PROVE TypeOK' /\ StageInv'
  <2>1. p \in Rotators /\ p \notin Writers /\ p \notin Sweepers
    BY <1>1, Roles DEF RotateRead
  <2>2. job' \in [Procs -> Job] /\ job'[p] = [job[p] EXCEPT !.pc = "mint", !.set = stored, !.old = m, !.now = clock, !.synthetic = ex]
        /\ \A q \in Procs \ {p} : job'[q] = job[q]
    BY <1>0, <1>1 DEF RotateRead, Job, TypeOK, Held, Expiry
  <2>3. TypeOK'
    BY <1>0, <1>1, <2>1, <2>2, ProcAssumption DEF RotateRead, TypeOK, At, Held, remote, store, history
  <2>4. Stage(p)' /\ made' = made
    BY <1>0, <1>1, <2>1, <2>2, SMTT(30) DEF RotateRead, Stage, remote, Job
  <2> QED
    BY <2>2, <2>3, <2>4, Staged
<1>2. CASE Mints(p)
  <2>1. PICK s \in Successors, u \in Minters \cup {NoMinter}, ex \in Expiry :
           RotateMint(p, s, ex, u) \/ RotateMintLost(p, s, ex, u)
    BY <1>2 DEF Mints
  <2>2. At(p, "mint") /\ p \in Rotators /\ p \notin Writers /\ p \notin Sweepers /\ CreateSuccessor(p, s, ex, u)
    BY <2>1, Roles DEF RotateMint, RotateMintLost, At
  <2>3. job[p].old \in Minters /\ ex \in Nat \cup {Never, Unset}
    BY <1>0, <2>1, <2>2 DEF StageInv, Stage, At, Expiry
  <2>4. upstream' \subseteq Minters /\ made' \subseteq Successors /\ made \subseteq made'
        /\ expires' \in [Minters -> Nat \cup {Never, Unset}] /\ user' \in [Minters -> Minters \cup {NoMinter}]
        /\ life' = life /\ misdated' \subseteq Successors
    BY <2>2, <2>3 DEF CreateSuccessor, TypeOK, Minters, history
  <2>5. CASE RotateMint(p, s, ex, u)
    <3>1. job' \in [Procs -> Job] /\ job'[p] = [job[p] EXCEPT !.pc = "check", !.new = s]
          /\ \A q \in Procs \ {p} : job'[q] = job[q]
      BY <1>0, <2>5 DEF RotateMint, Job, Held, Minters
    <3>2. TypeOK'
      BY <1>0, <2>2, <2>4, <2>5, <3>1 DEF RotateMint, TypeOK, At, Held, store, history
    <3>3. s \in made'
      BY <2>2 DEF CreateSuccessor
    <3>4. Stage(p)'
      BY <1>0, <2>2, <3>1, <3>3 DEF StageInv, Stage, At, Job
    <3> QED
      BY <2>4, <3>1, <3>2, <3>4, Staged
  <2>6. CASE RotateMintLost(p, s, ex, u)
    <3>1. TypeOK'
      BY <2>4, <2>6, Finished DEF RotateMintLost, TypeOK, At, Inside, store, history
    <3> QED
      BY <1>0, <2>4, <2>6, <3>1, Finished DEF RotateMintLost, StageInv, Stage
  <2> QED
    BY <2>1, <2>5, <2>6
<1>3. CASE RotateMintFail(p)
  <2>1. TypeOK'
    BY <1>3, Finished DEF RotateMintFail, TypeOK, At, Inside, store, remote, history
  <2> QED
    BY <1>0, <1>3, <2>1, Finished DEF RotateMintFail, StageInv, Stage, remote
<1>4. CASE RotateCheck(p)
  <2>1. p \in Rotators /\ p \notin Writers /\ p \notin Sweepers
    BY <1>4, Roles DEF RotateCheck, At
  <2>2. PICK l \in {"commit", "cleanup"} : job' = [job EXCEPT ![p].pc = l]
    BY <1>4 DEF RotateCheck
  <2>3. job' \in [Procs -> Job] /\ job'[p] = [job[p] EXCEPT !.pc = l] /\ \A q \in Procs \ {p} : job'[q] = job[q]
    BY <1>0, <2>2 DEF Job, Held
  <2>4. \A q \in Procs : Inside(q)' <=> Inside(q)
    BY <1>0, <1>4, <2>1, <2>3 DEF RotateCheck, At, Held, Inside, Job
  <2>5. TypeOK'
    BY <1>4, <2>3, <2>4 DEF RotateCheck, TypeOK, At, Inside, store, remote, history
  <2>6. Stage(p)' /\ made' = made
    BY <1>0, <1>4, <2>1, <2>3 DEF RotateCheck, StageInv, Stage, At, Job, remote
  <2> QED
    BY <2>3, <2>5, <2>6, Staged
<1>5. CASE RotateCommit(p)
  <2> DEFINE set == [job[p].set EXCEPT ![job[p].old] = job[p].now, ![job[p].new] = Active]
  <2>1. p \in Rotators /\ p \notin Writers /\ p \notin Sweepers /\ At(p, "commit")
    BY <1>5, Roles DEF RotateCommit, At
  <2>2. set \in [Minters -> Entry]
    BY Types DEF Entry
  <2>3. CASE job' = [job EXCEPT ![p].pc = "load", ![p].set = set] /\ stored' = set
    <3>1. job' \in [Procs -> Job] /\ job'[p] = [job[p] EXCEPT !.pc = "load", !.set = set]
          /\ \A q \in Procs \ {p} : job'[q] = job[q]
      BY <1>0, <2>2, <2>3 DEF Job
    <3>2. TypeOK'
      BY <1>0, <1>5, <2>1, <2>2, <2>3, <3>1 DEF RotateCommit, TypeOK, At, Held, remote, history
    <3> QED
      BY <1>0, <1>5, <2>1, <3>1, <3>2 DEF RotateCommit, StageInv, Stage, At, Job, remote
  <2>4. CASE job' = [job EXCEPT ![p].pc = "cleanup"] /\ UNCHANGED stored
    <3>1. job' \in [Procs -> Job] /\ job'[p] = [job[p] EXCEPT !.pc = "cleanup"]
          /\ \A q \in Procs \ {p} : job'[q] = job[q]
      BY <1>0, <2>4 DEF Job, Held
    <3>2. TypeOK'
      BY <1>0, <1>5, <2>1, <2>4, <3>1 DEF RotateCommit, TypeOK, At, Held, remote, history
    <3> QED
      BY <1>0, <1>5, <2>1, <3>1, <3>2, SMTT(30) DEF RotateCommit, StageInv, Stage, At, Job, remote
  <2> QED
    BY <1>5, <2>3, <2>4 DEF RotateCommit
<1>6. ASSUME NEW by \in SUBSET Minters, RotateCleanup(p, by) PROVE TypeOK' /\ StageInv'
  <2>1. TypeOK'
    BY <1>6, Finished DEF RotateCleanup, TypeOK, At, Inside, store, history
  <2> QED
    BY <1>0, <1>6, <2>1, Finished DEF RotateCleanup, StageInv, Stage
<1> QED
  BY <1>1, <1>2, <1>3, <1>4, <1>5, <1>6 DEF RotateStep

LEMMA SweepTyped ==
    ASSUME TypeOK, StageInv, NEW p \in Procs, SweepStep(p)
    PROVE  TypeOK' /\ StageInv'
<1>0. job \in [Procs -> Job] /\ job[p] \in Job /\ Idle.pc = "idle"
  BY Types
<1>1. CASE SweepRead(p)
  <2>1. p \in Sweepers /\ p \notin Writers /\ p \notin Rotators
    BY <1>1, Roles DEF SweepRead
  <2>2. Due(stored, clock) \subseteq Minters
    BY DEF Due, Retired
  <2>3. job' \in [Procs -> Job]
        /\ job'[p] = [job[p] EXCEPT !.pc = "sweep", !.set = stored, !.now = clock, !.todo = Due(stored, clock)]
        /\ \A q \in Procs \ {p} : job'[q] = job[q]
    BY <1>0, <1>1, <2>2 DEF SweepRead, Job, TypeOK, Held, history
  <2>4. TypeOK'
    BY <1>0, <1>1, <2>1, <2>3, ProcAssumption DEF SweepRead, TypeOK, At, Held, remote, store, history
  <2>5. Stage(p)' /\ made' = made
    BY <1>0, <1>1, <2>1, <2>3, SMTT(30) DEF SweepRead, Stage, remote, Job
  <2> QED
    BY <2>3, <2>4, <2>5, Staged
<1>2. ASSUME NEW m \in Minters, NEW r, SweepDelete(p, m, r) PROVE TypeOK' /\ StageInv'
  <2>1. p \in Sweepers /\ p \notin Writers /\ p \notin Rotators /\ At(p, "sweep")
    BY <1>2, Roles DEF SweepDelete
  <2>2. [job[p].set EXCEPT ![m] = Absent] \in [Minters -> Entry]
    BY Types DEF Entry
  <2>3. job' \in [Procs -> Job]
        /\ job'[p] = [job[p] EXCEPT !.todo = job[p].todo \ {m}, !.set = [job[p].set EXCEPT ![m] = Absent], !.changed = TRUE]
        /\ \A q \in Procs \ {p} : job'[q] = job[q]
    BY <1>0, <1>2, <2>2, Types, ZenonT(30) DEF SweepDelete, Job
  <2>4. TypeOK'
    BY <1>0, <1>2, <2>1, <2>3 DEF SweepDelete, TypeOK, At, Held, store, history
  <2> QED
    BY <1>0, <1>2, <2>1, <2>3, <2>4, ZenonT(30) DEF SweepDelete, StageInv, Stage, Job, At
<1>3. ASSUME NEW m \in Minters, NEW r, SweepDeleteFail(p, m, r) PROVE TypeOK' /\ StageInv'
  <2>1. p \in Sweepers /\ p \notin Writers /\ p \notin Rotators /\ At(p, "sweep")
    BY <1>3, Roles DEF SweepDeleteFail
  <2>2. job' \in [Procs -> Job]
        /\ job'[p] = [job[p] EXCEPT !.todo = job[p].todo \ {m}]
        /\ \A q \in Procs \ {p} : job'[q] = job[q]
    BY <1>0, <1>3, Types DEF SweepDeleteFail, Job
  <2>3. TypeOK'
    BY <1>0, <1>3, <2>1, <2>2 DEF SweepDeleteFail, TypeOK, At, Held, store, remote, history
  <2> QED
    BY <1>0, <1>3, <2>1, <2>2, <2>3 DEF SweepDeleteFail, StageInv, Stage, Job, At, remote
<1>4. CASE SweepPut(p)
  <2>1. p \in Sweepers /\ p \notin Writers /\ p \notin Rotators /\ At(p, "sweep")
    BY <1>4, Roles DEF SweepPut
  <2>2. CASE stored' = job[p].set /\ job' = [job EXCEPT ![p].pc = "load"] /\ UNCHANGED mu
    <3>1. job' \in [Procs -> Job]
          /\ job'[p] = [job[p] EXCEPT !.pc = "load"]
          /\ \A q \in Procs \ {p} : job'[q] = job[q]
      BY <1>0, <2>2 DEF Job
    <3>2. TypeOK'
      BY <1>0, <1>4, <2>1, <2>2, <3>1, Types DEF SweepPut, TypeOK, At, Held, remote, history
    <3>3. Stage(p)' /\ made' = made
      BY <1>0, <1>4, <2>1, <3>1 DEF SweepPut, Stage, Job, remote
    <3> QED
      BY <3>1, <3>2, <3>3, Staged
  <2>3. CASE Finish(p) /\ UNCHANGED stored
    <3>1. TypeOK'
      BY <1>4, <2>3, Finished DEF SweepPut, TypeOK, At, Inside, remote, history
    <3> QED
      BY <1>0, <1>4, <2>3, <3>1, Finished DEF SweepPut, StageInv, Stage, remote
  <2> QED
    BY <1>4, <2>2, <2>3 DEF SweepPut
<1> QED
  BY <1>1, <1>2, <1>3, <1>4 DEF SweepStep, DeleteStep

LEMMA RestTyped ==
    ASSUME TypeOK, StageInv, Tick \/ Crash \/ UNCHANGED vars
    PROVE  TypeOK' /\ StageInv'
<1>1. CASE Tick
  BY <1>1 DEF Tick, TypeOK, StageInv, Stage, store, remote, At, history
<1>2. CASE Crash
  <2>1. job' \in [Procs -> Job] /\ (\A p \in Procs : job'[p].pc = "idle") /\ loaded' \in [Minters -> Entry]
    BY <1>2 DEF Crash, TypeOK, Idle, NoSet, Entry, Job, history
  <2> QED
    BY <1>2, <2>1, ProcAssumption DEF Crash, TypeOK, StageInv, Stage, remote, At, Held, history
<1>3. CASE UNCHANGED vars
  BY <1>3 DEF vars, TypeOK, StageInv, Stage, store, remote, At, history
<1> QED
  BY <1>1, <1>2, <1>3

-----------------------------------------------------------------------------
(* What the copies of the set are worth.                                   *)

\* The step of one goroutine leaves the others' copies as good as they were: it
\* has rotateSweepMu, or it only removes successors from storage and memory.
LEMMA Others ==
    ASSUME IInv, NEW p \in Procs, \A q \in Procs \ {p} : job'[q] = job[q], Originals \ Recorded \subseteq upstream',
           \/ p \notin Writers /\ (job[p].pc # "idle" \/ mu = NoProc)
           \/ /\ upstream' = upstream
              /\ \A s \in Successors : /\ stored'[s] \in {Absent, stored[s]}
                                       /\ loaded'[s] = Active => loaded[s] = Active
    PROVE  \A q \in Procs \ {p} : Copy(q)'
<1> SUFFICES ASSUME NEW q \in Procs \ {p} PROVE Copy(q)'
  OBVIOUS
<1>0. job'[q] = job[q] /\ Copy(q) /\ TypeOK /\ StageInv
  BY DEF IInv, CopyInv
<1>1. CASE q \in Writers
  <2>1. ~At(q, "sweep")
    BY <1>0, <1>1, Roles
  <2> QED
    BY <1>0, <1>1, <2>1, MinterAssumption DEF Copy, At, Minters
<1>2. CASE q \notin Writers /\ job[q].pc = "idle"
  BY <1>0, <1>2 DEF Copy, At
<1>3. CASE q \notin Writers /\ job[q].pc # "idle"
  <2>1. ~(p \notin Writers /\ (job[p].pc # "idle" \/ mu = NoProc))
    BY <1>0, <1>3, OneHolder
  <2> QED
    BY <1>0, <1>3, <2>1 DEF Copy, At
<1> QED
  BY <1>1, <1>2, <1>3

\* A successor no set knew of is known to none that takes it from another.
LEMMA StillUnborn ==
    ASSUME IInv, NEW p \in Procs, \A q \in Procs \ {p} : job'[q] = job[q], made' = made, Minted(p)' \subseteq Minted(p)
    PROVE  Unborn' \subseteq Unborn
BY DEF Unborn, Minted

LEMMA UnbornTyped ==
    ASSUME TypeOK, StageInv
    PROVE  Unborn \subseteq Successors /\ Unborn \subseteq Minters
BY DEF Unborn, Minted, StageInv, Stage, TypeOK, Minters

\* The steps that touch neither the set nor the cloud.
LEMMA LocalStep ==
    ASSUME IInv, NEW p \in Procs, \A q \in Procs \ {p} : job'[q] = job[q],
           UNCHANGED <<stored, loaded, upstream, made>>, Minted(p)' \subseteq Minted(p),
           job'[p].pc \in {"check", "commit"} => At(p, "check"),
           At(p, "load") => p \notin Rotators,
           job'[p].set \in {job[p].set, stored, NoSet} \/ \A s \in Successors : job'[p].set[s] = Absent,
           TypeOK', StageInv', Copy(p)'
    PROVE  IInv'
<1>0. TypeOK /\ StageInv /\ BirthInv /\ CopyInv /\ LoadedInv /\ AliveInv
  BY DEF IInv
<1>1. Unborn' \subseteq Unborn /\ Unborn \subseteq Successors
  BY <1>0, StillUnborn, UnbornTyped
<1>2. \A s \in Unborn' : stored'[s] = Absent /\ loaded'[s] = Absent /\ \A q \in Procs : job'[q].set[s] = Absent
  BY <1>0, <1>1 DEF BirthInv, NoSet, Minters
<1>3. \A q \in Procs : job'[q].pc \in {"check", "commit"} => job'[q].new \in upstream'
  BY <1>0 DEF BirthInv, Minted, At
<1>4. BirthInv'
  BY <1>0, <1>2, <1>3 DEF BirthInv
<1>5. CopyInv'
  BY <1>0, Others DEF CopyInv, AliveInv
<1>6. LoadedInv'
  BY <1>0 DEF LoadedInv, At, Procs
<1>7. AliveInv'
  BY <1>0 DEF AliveInv
<1> QED
  BY <1>4, <1>5, <1>6, <1>7 DEF IInv

\* A write or a delete of the set, which takes no lock.
LEMMA WriteKeeps ==
    ASSUME IInv, NEW p \in Procs, WriteStep(p)
    PROVE  IInv'
<1>0. /\ TypeOK /\ StageInv /\ BirthInv /\ CopyInv /\ LoadedInv /\ AliveInv /\ Copy(p)
      /\ job \in [Procs -> Job] /\ job[p] \in Job /\ TypeOK' /\ StageInv'
  BY Types, WriteTyped DEF IInv, CopyInv
<1>1. ASSUME NEW w \in SUBSET Originals, WriteRead(p, w) PROVE IInv'
  <2> DEFINE set == PreserveLifecycle(w, stored)
  <2>1. /\ p \in Writers /\ ~At(p, "load") /\ UNCHANGED <<stored, loaded, upstream, made>>
        /\ job'[p] = [job[p] EXCEPT !.pc = "put", !.set = set]
        /\ \A q \in Procs \ {p} : job'[q] = job[q]
    BY <1>0, <1>1 DEF WriteRead, At, store, remote
  <2>2. job'[p].pc = "put" /\ job'[p].set = set /\ Minted(p)' = {}
    BY <1>0, <2>1 DEF Job, Minted
  <2>3. \A s \in Successors : set[s] = Absent
    BY MinterAssumption DEF PreserveLifecycle, Minters
  <2>4. Copy(p)'
    BY <1>0, <2>1, <2>2, <2>3, MinterAssumption DEF Copy, AliveInv, Minters, At
  <2> QED
    BY <1>0, <2>1, <2>2, <2>3, <2>4, LocalStep
<1>2. CASE WriteFail(p)
  <2>1. /\ p \in Writers /\ At(p, "put") /\ UNCHANGED <<stored, loaded, upstream, made>>
        /\ job'[p] = Idle /\ \A q \in Procs \ {p} : job'[q] = job[q]
    BY <1>0, <1>2, Roles, Finished DEF WriteFail, store, remote
  <2>2. Copy(p)' /\ Minted(p)' = {}
    BY <1>0, <2>1, Types DEF Copy, Minted, Minters, At
  <2> QED
    BY <1>0, <2>1, <2>2, LocalStep DEF Idle, At
<1>3. ASSUME NEW set, stored' = set, \A s \in Successors : set[s] = Absent,
             \A m \in Minters \ Recorded : set[m] = Active => m \in upstream,
             p \in Writers, UNCHANGED <<loaded, upstream, made>>, job'[p] = [job[p] EXCEPT !.pc = "load", !.set = set],
             \A q \in Procs \ {p} : job'[q] = job[q], ~At(p, "load")
      PROVE  IInv'
  <2>1. job'[p].pc = "load" /\ job'[p].set = set /\ Minted(p)' = {}
    BY <1>0, <1>3 DEF Job, Minted
  <2>2. Copy(p)'
    BY <1>0, <1>3, <2>1 DEF Copy, At
  <2>3. CopyInv'
    BY <1>0, <1>3, <2>2, Others DEF CopyInv, AliveInv
  <2>4. Unborn' \subseteq Unborn /\ Unborn \subseteq Successors
    BY <1>0, <1>3, <2>1, StillUnborn, UnbornTyped
  <2>5. \A q \in Procs : job'[q].pc \in {"check", "commit"} => job'[q].new \in upstream'
    BY <1>0, <1>3, <2>1 DEF BirthInv
  <2>6. \A s \in Unborn' : stored'[s] = Absent /\ loaded'[s] = Absent /\ \A q \in Procs : job'[q].set[s] = Absent
    BY <1>0, <1>3, <2>1, <2>4, ZenonT(30) DEF BirthInv
  <2>7. BirthInv'
    BY <1>0, <1>3, <2>5, <2>6 DEF BirthInv
  <2>8. LoadedInv'
    BY <1>3 DEF LoadedInv
  <2>9. AliveInv'
    BY <1>0, <1>3 DEF AliveInv
  <2> QED
    BY <1>0, <2>3, <2>7, <2>8, <2>9 DEF IInv
<1>4. CASE WritePut(p)
  <2>1. p \in Writers
    BY <1>0, <1>4, Roles DEF WritePut
  <2>2. /\ job'[p] = [job[p] EXCEPT !.pc = "load", !.set = job[p].set]
        /\ \A q \in Procs \ {p} : job'[q] = job[q]
    BY <1>0, <1>4 DEF WritePut, Job
  <2>3. stored' = job[p].set /\ UNCHANGED <<loaded, upstream, made>> /\ ~At(p, "load")
    BY <1>4 DEF WritePut, At, remote
  <2>4. (\A s \in Successors : job[p].set[s] = Absent) /\ \A m \in Minters \ Recorded : job[p].set[m] = Active => m \in upstream
    BY <1>0, <1>4, <2>1 DEF WritePut, Copy, At
  <2> QED
    BY <1>3, <2>1, <2>2, <2>3, <2>4
<1>5. CASE DeleteSet(p)
  <2>1. /\ job'[p] = [job[p] EXCEPT !.pc = "load", !.set = NoSet]
        /\ \A q \in Procs \ {p} : job'[q] = job[q]
    BY <1>0, <1>5 DEF DeleteSet
  <2>2. stored' = NoSet /\ UNCHANGED <<loaded, upstream, made>> /\ ~At(p, "load") /\ p \in Writers
    BY <1>5 DEF DeleteSet, At, remote
  <2>3. (\A s \in Successors : NoSet[s] = Absent) /\ \A m \in Minters \ Recorded : NoSet[m] = Active => m \in upstream
    BY MinterAssumption DEF NoSet, Minters
  <2> QED
    BY <1>3, <2>1, <2>2, <2>3
<1> QED
  BY <1>1, <1>2, <1>4, <1>5 DEF WriteStep

\* Memory takes the set a goroutine wrote.
LEMMA LoadKeeps ==
    ASSUME IInv, NEW p \in Procs, LoadMinterSet(p)
    PROVE  IInv'
<1> DEFINE set == job[p].set
<1>0. /\ TypeOK /\ StageInv /\ BirthInv /\ CopyInv /\ LoadedInv /\ AliveInv /\ Copy(p)
      /\ job \in [Procs -> Job] /\ job[p] \in Job /\ TypeOK' /\ StageInv'
  BY Types, WriteTyped DEF IInv, CopyInv
<1>1. /\ job[p].pc = "load" /\ loaded' = set /\ UNCHANGED <<stored, upstream, made>>
      /\ job'[p] = Idle /\ \A q \in Procs \ {p} : job'[q] = job[q]
  BY <1>0, Finished DEF LoadMinterSet, remote, At
<1>2. Idle.pc = "idle" /\ Idle.set = NoSet /\ \A m \in Minters : NoSet[m] = Absent
  BY <1>0, Types
<1>3. Copy(p)' /\ Minted(p)' = {}
  BY <1>1, <1>2 DEF Copy, Minted, At, Minters
<1>4. CopyInv'
  <2>1. CASE p \in Writers
    <3>1. \A s \in Successors : loaded'[s] # Active
      BY <1>0, <1>1, <2>1, MinterAssumption DEF Copy
    <3> QED
      BY <1>0, <1>1, <1>3, <3>1, Others DEF CopyInv, AliveInv
  <2>2. CASE p \notin Writers
    BY <1>0, <1>1, <1>3, <2>2, Others DEF CopyInv, AliveInv
  <2> QED
    BY <2>1, <2>2
<1>5. Unborn' \subseteq Unborn /\ Unborn \subseteq Successors
  BY <1>0, <1>1, <1>3, StillUnborn, UnbornTyped
<1>6. \A s \in Unborn' : stored'[s] = Absent /\ loaded'[s] = Absent /\ \A q \in Procs : job'[q].set[s] = Absent
  BY <1>0, <1>1, <1>2, <1>5 DEF BirthInv, Minters
<1>7. BirthInv'
  BY <1>0, <1>1, <1>2, <1>6 DEF BirthInv
<1>8. LoadedInv'
  <2>1. CASE p \in Writers
    BY <1>0, <1>1, <2>1, MinterAssumption DEF Copy, LoadedInv
  <2>2. CASE p \notin Writers
    BY <1>0, <1>1, <2>2 DEF Copy, LoadedInv, At
  <2> QED
    BY <2>1, <2>2
<1>9. AliveInv'
  BY <1>0, <1>1 DEF AliveInv, Copy
<1> QED
  BY <1>0, <1>4, <1>7, <1>8, <1>9 DEF IInv

\* A rotation, which has rotateSweepMu from its read of the set to its end.
LEMMA RotateKeeps ==
    ASSUME IInv, NEW p \in Procs, RotateStep(p)
    PROVE  IInv'
<1>0. /\ TypeOK /\ StageInv /\ BirthInv /\ CopyInv /\ LoadedInv /\ AliveInv /\ Copy(p) /\ Stage(p)
      /\ job \in [Procs -> Job] /\ job[p] \in Job /\ TypeOK' /\ StageInv'
      /\ Idle.pc = "idle" /\ Idle.set = NoSet /\ \A m \in Minters : NoSet[m] = Absent
  BY Types, RotateTyped DEF IInv, CopyInv, StageInv
<1>1. ASSUME NEW m \in Minters, NEW ex \in Expiry, RotateRead(p, m, ex) PROVE IInv'
  <2>1. /\ p \in Rotators /\ p \notin Writers /\ p \notin Sweepers /\ At(p, "idle")
        /\ UNCHANGED <<stored, loaded, upstream, made>>
        /\ job'[p] = [job[p] EXCEPT !.pc = "mint", !.set = stored, !.old = m, !.now = clock, !.synthetic = ex]
        /\ \A q \in Procs \ {p} : job'[q] = job[q]
    BY <1>0, <1>1, Roles DEF RotateRead, store, remote
  <2>2. job'[p].pc = "mint" /\ job'[p].set = stored /\ Minted(p)' = {}
    BY <1>0, <2>1 DEF Job, Minted
  <2>3. Copy(p)'
    BY <1>0, <2>1, <2>2 DEF Copy, AliveInv, At
  <2> QED
    BY <1>0, <2>1, <2>2, <2>3, LocalStep DEF At
<1>2. CASE RotateMintFail(p)
  <2>1. /\ p \in Rotators /\ ~At(p, "load") /\ UNCHANGED <<stored, loaded, upstream, made>>
        /\ job'[p] = Idle /\ \A q \in Procs \ {p} : job'[q] = job[q]
    BY <1>0, <1>2, Roles, Finished DEF RotateMintFail, store, remote, At
  <2>2. Copy(p)' /\ Minted(p)' = {}
    BY <1>0, <2>1 DEF Copy, Minted, Minters, At
  <2> QED
    BY <1>0, <2>1, <2>2, LocalStep DEF At
<1>3. CASE RotateCheck(p)
  <2>1. PICK l \in {"commit", "cleanup"} : job' = [job EXCEPT ![p].pc = l]
    BY <1>3 DEF RotateCheck
  <2>2. /\ At(p, "check") /\ UNCHANGED <<stored, loaded, upstream, made>> /\ p \notin Writers
        /\ job'[p] = [job[p] EXCEPT !.pc = l] /\ \A q \in Procs \ {p} : job'[q] = job[q]
    BY <1>0, <1>3, <2>1, Roles DEF RotateCheck, store, remote, At
  <2>3. job'[p].pc = l /\ job'[p].set = job[p].set /\ job'[p].new = job[p].new
    BY <1>0, <2>2 DEF Job
  <2>4. Minted(p)' = Minted(p)
    BY <2>2, <2>3 DEF Minted, At
  <2>5. Copy(p)'
    BY <1>0, <2>2, <2>3 DEF Copy, At
  <2>6. ~At(p, "load")
    BY <2>2 DEF At
  <2> QED
    BY <1>0, <2>2, <2>3, <2>4, <2>5, <2>6, LocalStep
<1>4. CASE Mints(p)
  <2>1. PICK s \in Successors, u \in Minters \cup {NoMinter}, ex \in Expiry :
           RotateMint(p, s, ex, u) \/ RotateMintLost(p, s, ex, u)
    BY <1>4 DEF Mints
  <2>2. /\ At(p, "mint") /\ p \notin Writers /\ UNCHANGED <<stored, loaded>>
        /\ s \notin made /\ upstream' = upstream \cup {s} /\ made' = made \cup {s}
        /\ Minted(p) = {}
    BY <1>0, <2>1, Roles DEF RotateMint, RotateMintLost, At, CreateSuccessor, store, Minted
  <2>3. /\ \A q \in Procs \ {p} : job'[q] = job[q]
        /\ job'[p].set \in {job[p].set, NoSet}
        /\ \/ job'[p].pc = "check" /\ job'[p].new = s /\ job'[p].set = job[p].set
           \/ job'[p].pc = "idle"
    <3>1. CASE RotateMint(p, s, ex, u)
      <4>1. job'[p] = [job[p] EXCEPT !.pc = "check", !.new = s] /\ \A q \in Procs \ {p} : job'[q] = job[q]
        BY <1>0, <3>1 DEF RotateMint
      <4> QED
        BY <1>0, <4>1 DEF Job
    <3>2. CASE RotateMintLost(p, s, ex, u)
      BY <1>0, <3>2, Finished DEF RotateMintLost
    <3> QED
      BY <2>1, <3>1, <3>2
  <2>4. Copy(p)'
    BY <1>0, <2>2, <2>3 DEF Copy, At
  <2>5. CopyInv'
    BY <1>0, <2>2, <2>3, <2>4, Others DEF CopyInv, AliveInv, At
  <2>6. Unborn' \subseteq Unborn
    <3>1. Minted(p)' \subseteq {s} /\ s \in Unborn
      BY <2>2, <2>3 DEF Minted, Unborn
    <3> QED
      BY <2>2, <2>3, <3>1 DEF Minted, Unborn
  <2>7. \A t \in Unborn' : stored'[t] = Absent /\ loaded'[t] = Absent /\ \A q \in Procs : job'[q].set[t] = Absent
    <3>1. Unborn \subseteq Minters
      BY <1>0, UnbornTyped
    <3> QED
      BY <1>0, <2>2, <2>3, <2>6, <3>1 DEF BirthInv
  <2>8. BirthInv'
    <3>1. IsFiniteSet(made')
      BY <1>0, <2>2, FS_AddElement DEF BirthInv
    <3>2. \A q \in Procs : job'[q].pc \in {"check", "commit"} => job'[q].new \in upstream'
      BY <1>0, <2>2, <2>3 DEF BirthInv
    <3> QED
      BY <2>7, <3>1, <3>2 DEF BirthInv
  <2>9. LoadedInv'
    BY <1>0, <2>2, <2>3 DEF LoadedInv, At, Procs
  <2>10. AliveInv'
    BY <1>0, <2>2 DEF AliveInv
  <2> QED
    BY <1>0, <2>5, <2>8, <2>9, <2>10 DEF IInv
<1>5. CASE RotateCommit(p)
  <2> DEFINE set == [job[p].set EXCEPT ![job[p].old] = job[p].now, ![job[p].new] = Active]
  <2>1. /\ At(p, "commit") /\ p \in Rotators /\ p \notin Writers /\ UNCHANGED <<loaded, upstream, made>>
        /\ Minted(p) = {job[p].new} /\ job[p].new \in Successors \cap upstream
        /\ job[p].old \in Minters /\ job[p].set[job[p].old] = Active /\ job[p].new # job[p].old
        /\ job[p].now \in Nat /\ job[p].set \in [Minters -> Entry]
    <3>1. /\ At(p, "commit") /\ p \in Rotators /\ p \notin Writers /\ UNCHANGED <<loaded, upstream, made>>
          /\ Minted(p) = {job[p].new} /\ job[p].new \in Successors \cap upstream
      BY <1>0, <1>5, Roles DEF RotateCommit, At, Stage, Minted, BirthInv, TypeOK, remote
    <3>2. job[p].set[job[p].new] = Absent
      BY <1>0, <3>1 DEF BirthInv, Unborn
    <3> QED
      BY <1>0, <3>1, <3>2, Types, MinterAssumption DEF Stage, At
  <2>2. CASE job' = [job EXCEPT ![p].pc = "cleanup"] /\ UNCHANGED stored
    <3>1. job'[p] = [job[p] EXCEPT !.pc = "cleanup"] /\ \A q \in Procs \ {p} : job'[q] = job[q]
      BY <1>0, <2>2
    <3>2. job'[p].pc = "cleanup" /\ job'[p].set = job[p].set /\ job'[p].new = job[p].new
      BY <1>0, <3>1 DEF Job
    <3>3. Copy(p)' /\ Minted(p)' = Minted(p)
      BY <1>0, <2>1, <3>2 DEF Copy, At, Minted
    <3>4. ~At(p, "load")
      BY <2>1 DEF At
    <3> QED
      BY <1>0, <2>1, <2>2, <3>1, <3>2, <3>3, <3>4, LocalStep
  <2>3. CASE job' = [job EXCEPT ![p].pc = "load", ![p].set = set] /\ stored' = set
    <3>1. job'[p] = [job[p] EXCEPT !.pc = "load", !.set = set] /\ \A q \in Procs \ {p} : job'[q] = job[q]
      BY <1>0, <2>3
    <3>2. job'[p].pc = "load" /\ job'[p].set = set /\ Minted(p)' = {}
      BY <1>0, <3>1 DEF Job, Minted
    <3>3. \A m \in Minters \ Recorded : set[m] = Active => m \in upstream
      BY <1>0, <2>1, MinterAssumption DEF Copy, At
    <3>4. Copy(p)'
      BY <2>1, <2>3, <3>2, <3>3 DEF Copy, At
    <3>5. CopyInv'
      BY <1>0, <2>1, <3>1, <3>4, Others DEF CopyInv, AliveInv, At
    <3>6. Unborn' \subseteq Unborn \ {job[p].new} /\ Unborn \subseteq Minters
      <4>1. Unborn' \subseteq Unborn /\ Unborn \subseteq Minters
        BY <1>0, <2>1, <3>1, <3>2, StillUnborn, UnbornTyped
      <4>2. \A q \in Procs \ {p} : q \notin Writers => job[q].pc = "idle"
        BY <1>0, <2>1, OneHolder DEF At
      <4>3. \A q \in Procs \ {p} : Minted(q) = {}
        BY <1>0, <4>2, Roles DEF Minted
      <4>4. \A q \in Procs : Minted(q)' = {}
        BY <3>1, <3>2, <4>3 DEF Minted
      <4>5. job[p].new \in made'
        BY <1>0, <2>1 DEF Stage, At
      <4> QED
        BY <4>1, <4>4, <4>5 DEF Unborn
    <3>7. \A t \in Unborn' : stored'[t] = Absent /\ loaded'[t] = Absent /\ \A q \in Procs : job'[q].set[t] = Absent
      <4> SUFFICES ASSUME NEW t \in Unborn' PROVE stored'[t] = Absent /\ loaded'[t] = Absent /\ \A q \in Procs : job'[q].set[t] = Absent
        OBVIOUS
      <4>1. t \in Unborn /\ t # job[p].new /\ t \in Minters
        BY <3>6
      <4>2. job[p].set[t] = Absent /\ loaded[t] = Absent /\ \A q \in Procs : job[q].set[t] = Absent
        BY <1>0, <4>1 DEF BirthInv
      <4>3. set[t] = Absent
        BY <2>1, <4>1, <4>2, MinterAssumption
      <4> QED
        BY <2>1, <2>3, <3>1, <3>2, <4>2, <4>3, ZenonT(30)
    <3>8. BirthInv'
      BY <1>0, <2>1, <3>1, <3>2, <3>7 DEF BirthInv
    <3>9. LoadedInv'
      BY <2>1, <3>2 DEF LoadedInv, At
    <3>10. AliveInv'
      BY <1>0, <2>1, <2>3, <3>3 DEF AliveInv
    <3> QED
      BY <1>0, <3>5, <3>8, <3>9, <3>10 DEF IInv
  <2> QED
    BY <1>5, <2>2, <2>3 DEF RotateCommit
<1>6. ASSUME NEW by \in SUBSET Minters, RotateCleanup(p, by) PROVE IInv'
  <2>1. /\ At(p, "cleanup") /\ p \notin Writers /\ UNCHANGED <<stored, loaded, made>>
        /\ Minted(p) = {job[p].new} /\ job[p].new \in Successors /\ upstream \ {job[p].new} \subseteq upstream'
        /\ upstream' \subseteq upstream
        /\ job'[p] = Idle /\ \A q \in Procs \ {p} : job'[q] = job[q]
    BY <1>0, <1>6, Roles, Finished DEF RotateCleanup, At, Minted, Stage, TypeOK, store
  <2>2. Copy(p)' /\ Minted(p)' = {}
    BY <1>0, <2>1 DEF Copy, Minted, Minters, At
  <2>3. Originals \ Recorded \subseteq upstream'
    BY <1>0, <2>1, MinterAssumption DEF AliveInv
  <2>4. CopyInv'
    BY <1>0, <2>1, <2>2, <2>3, Others DEF CopyInv, At
  <2>5. Unborn' \subseteq Unborn /\ Unborn \subseteq Minters
    BY <1>0, <2>1, <2>2, StillUnborn, UnbornTyped
  <2>6. \A t \in Unborn' : stored'[t] = Absent /\ loaded'[t] = Absent /\ \A q \in Procs : job'[q].set[t] = Absent
    BY <1>0, <2>1, <2>5 DEF BirthInv
  <2>7. \A q \in Procs : job'[q].pc \in {"check", "commit"} => job'[q].new \in upstream'
    <3>1. \A q \in Procs \ {p} : job'[q].pc \notin {"check", "commit"}
      BY <1>0, <2>1, OneHolder, Roles DEF At
    <3> QED
      BY <1>0, <2>1, <3>1
  <2>8. BirthInv'
    BY <1>0, <2>1, <2>6, <2>7 DEF BirthInv
  <2>9. LoadedInv'
    BY <1>0, <2>1 DEF LoadedInv, At, Procs
  <2>10. AliveInv'
    <3>1. stored[job[p].new] = Absent /\ loaded[job[p].new] = Absent
      BY <1>0, <2>1 DEF BirthInv, Unborn
    <3> QED
      BY <1>0, <2>1, <2>3, <3>1, MinterAssumption DEF AliveInv
  <2> QED
    BY <1>0, <2>4, <2>8, <2>9, <2>10 DEF IInv
<1> QED
  BY <1>1, <1>2, <1>3, <1>4, <1>5, <1>6 DEF RotateStep

\* A sweep of the retired minters, which has rotateSweepMu likewise.
LEMMA SweepKeeps ==
    ASSUME IInv, NEW p \in Procs, SweepStep(p)
    PROVE  IInv'
<1>0. /\ TypeOK /\ StageInv /\ BirthInv /\ CopyInv /\ LoadedInv /\ AliveInv /\ Copy(p)
      /\ job \in [Procs -> Job] /\ job[p] \in Job /\ TypeOK' /\ StageInv'
      /\ Idle.pc = "idle" /\ Idle.set = NoSet /\ \A m \in Minters : NoSet[m] = Absent
      /\ job[p].set \in [Minters -> Entry] /\ stored \in [Minters -> Entry] /\ job[p].todo \subseteq Minters
  BY Types, SweepTyped DEF IInv, CopyInv, TypeOK
<1>1. CASE SweepRead(p)
  <2>1. /\ p \in Sweepers /\ p \notin Writers /\ p \notin Rotators /\ At(p, "idle") /\ mu = NoProc
        /\ UNCHANGED <<stored, loaded, upstream, made>>
        /\ job'[p] = [job[p] EXCEPT !.pc = "sweep", !.set = stored, !.now = clock, !.todo = Due(stored, clock)]
        /\ \A q \in Procs \ {p} : job'[q] = job[q]
    BY <1>0, <1>1, Roles DEF SweepRead, store, remote
  <2>2. /\ job'[p].pc = "sweep" /\ job'[p].set = stored /\ job'[p].todo = Due(stored, clock)
        /\ Minted(p)' = {}
    BY <1>0, <2>1 DEF Job, Minted
  <2>3. \A q \in Rotators : ~At(q, "load")
    BY <1>0, <2>1, OneHolder, Roles, ProcAssumption DEF At, Procs
  <2>4. \A s \in Successors : stored[s] \in Nat => loaded[s] # Active
    BY <1>0, <2>3, MinterAssumption DEF LoadedInv
  <2>5. Copy(p)'
    BY <1>0, <2>1, <2>2, <2>4 DEF Copy, AliveInv, At, Due, Retired
  <2> QED
    BY <1>0, <2>1, <2>2, <2>5, LocalStep DEF At
<1>2. ASSUME NEW m \in Minters, NEW r, SweepDeleteFail(p, m, r) PROVE IInv'
  <2>1. /\ At(p, "sweep") /\ p \notin Writers /\ UNCHANGED <<stored, loaded, upstream, made>>
        /\ job'[p] = [job[p] EXCEPT !.todo = job[p].todo \ {m}] /\ \A q \in Procs \ {p} : job'[q] = job[q]
    BY <1>0, <1>2, Roles DEF SweepDeleteFail, store, remote
  <2>2. job'[p].pc = "sweep" /\ job'[p].set = job[p].set /\ job'[p].todo = job[p].todo \ {m} /\ Minted(p)' = {}
    BY <1>0, <2>1 DEF Job, Minted, At
  <2>3. Copy(p)'
    BY <1>0, <2>1, <2>2 DEF Copy, At
  <2>4. ~At(p, "load")
    BY <2>1 DEF At
  <2> QED
    BY <1>0, <2>1, <2>2, <2>3, <2>4, LocalStep
<1>3. ASSUME NEW m \in Minters, SweepDelete(p, m, m \in Successors \cup Recorded) PROVE IInv'
  <2> DEFINE set == [job[p].set EXCEPT ![m] = Absent]
  <2>1. /\ At(p, "sweep") /\ p \notin Writers /\ UNCHANGED <<stored, loaded, made>> /\ m \in job[p].todo
        /\ job'[p] = [job[p] EXCEPT !.todo = job[p].todo \ {m}, !.set = set, !.changed = TRUE]
        /\ \A q \in Procs \ {p} : job'[q] = job[q]
    BY <1>0, <1>3, Roles DEF SweepDelete, store
  <2>2. upstream' = IF m \in Successors \cup Recorded THEN upstream \ {m} ELSE upstream
    BY <1>3 DEF SweepDelete
  <2>3. job'[p].pc = "sweep" /\ job'[p].set = set /\ job'[p].todo = job[p].todo \ {m} /\ Minted(p)' = {}
    BY <1>0, <2>1 DEF Job, Minted, At
  <2>4. job[p].set[m] \in Nat
    BY <1>0, <2>1 DEF Copy, At, Retired
  <2>5. Originals \ Recorded \subseteq upstream'
    BY <1>0, <2>2, MinterAssumption DEF AliveInv
  <2>6. Copy(p)'
    <3>1. \A s \in Successors : stored'[s] \in {Absent, set[s]} \/ (set[s] = Absent /\ s \notin upstream')
      <4> TAKE s \in Successors
      <4>1. CASE s = m
        BY <1>0, <2>2, <4>1
      <4>2. CASE s # m
        BY <1>0, <2>1, <2>2, <4>2 DEF Copy, At, Minters
      <4> QED
        BY <4>1, <4>2
    <3>2. \A n \in Minters \ Recorded : set[n] = Active => n \in upstream'
      BY <1>0, <2>1, <2>2, MinterAssumption DEF Copy, At
    <3>3. job[p].todo \ {m} \subseteq Retired(set)
      BY <1>0, <2>1 DEF Copy, At, Retired
    <3>4. \A s \in Successors : set[s] \in Nat => loaded'[s] # Active
      BY <1>0, <2>1, MinterAssumption DEF Copy, At, Minters
    <3> HIDE DEF set
    <3> QED
      BY <2>1, <2>3, <3>1, <3>2, <3>3, <3>4 DEF Copy, At, Retired
  <2>7. CopyInv'
    BY <1>0, <2>1, <2>5, <2>6, Others DEF CopyInv, At
  <2>8. Unborn' \subseteq Unborn /\ Unborn \subseteq Minters
    BY <1>0, <2>1, <2>3, StillUnborn, UnbornTyped
  <2>9. \A t \in Unborn' : stored'[t] = Absent /\ loaded'[t] = Absent /\ \A q \in Procs : job'[q].set[t] = Absent
    <3>1. \A t \in Minters : job[p].set[t] = Absent => set[t] = Absent
      BY <1>0
    <3>2. \A t \in Unborn' : stored[t] = Absent /\ loaded[t] = Absent /\ \A q \in Procs : job[q].set[t] = Absent
      BY <1>0, <2>8 DEF BirthInv
    <3>3. \A t \in Unborn' : t \in Minters
      BY <2>8
    <3>4. job'[p].set = set /\ (\A q \in Procs \ {p} : job'[q] = job[q]) /\ UNCHANGED <<stored, loaded>>
      BY <2>1, <2>3
    <3> HIDE DEF set
    <3> QED
      BY <3>1, <3>2, <3>3, <3>4
  <2>10. \A q \in Procs : job'[q].pc \in {"check", "commit"} => job'[q].new \in upstream'
    <3>1. \A q \in Procs \ {p} : job'[q].pc \notin {"check", "commit"}
      BY <1>0, <2>1, OneHolder, Roles DEF At
    <3> QED
      BY <2>3, <3>1
  <2>11. BirthInv'
    BY <1>0, <2>1, <2>9, <2>10 DEF BirthInv
  <2>12. LoadedInv'
    BY <1>0, <2>1 DEF LoadedInv, At, Procs
  <2>13. AliveInv'
    <3>1. m \in Successors => stored[m] # Active /\ loaded[m] # Active
      BY <1>0, <2>1, <2>4, MinterAssumption DEF Copy, At
    <3> QED
      BY <1>0, <2>1, <2>2, <2>5, <3>1, MinterAssumption DEF AliveInv, Minters
  <2> QED
    BY <1>0, <2>7, <2>11, <2>12, <2>13 DEF IInv
<1>4. CASE SweepPut(p)
  <2>1. /\ At(p, "sweep") /\ p \notin Writers /\ p \notin Rotators /\ UNCHANGED <<loaded, upstream, made>>
    BY <1>0, <1>4, Roles DEF SweepPut, remote
  <2>2. CASE Finish(p) /\ UNCHANGED stored
    <3>1. job'[p] = Idle /\ \A q \in Procs \ {p} : job'[q] = job[q]
      BY <1>0, <2>2, Finished
    <3>2. Copy(p)' /\ Minted(p)' = {}
      BY <1>0, <3>1 DEF Copy, Minted, Minters, At
    <3> QED
      BY <1>0, <2>1, <2>2, <3>1, <3>2, LocalStep DEF At
  <2>3. CASE stored' = job[p].set /\ job' = [job EXCEPT ![p].pc = "load"]
    <3>1. job'[p] = [job[p] EXCEPT !.pc = "load"] /\ \A q \in Procs \ {p} : job'[q] = job[q]
      BY <1>0, <2>3
    <3>2. job'[p].pc = "load" /\ job'[p].set = job[p].set /\ Minted(p)' = {}
      BY <1>0, <3>1 DEF Job, Minted
    <3>3. Copy(p)'
      BY <1>0, <2>1, <2>3, <3>2 DEF Copy, At
    <3>4. CopyInv'
      BY <1>0, <2>1, <3>1, <3>3, Others DEF CopyInv, AliveInv, At
    <3>5. Unborn' \subseteq Unborn /\ Unborn \subseteq Minters
      BY <1>0, <2>1, <3>1, <3>2, StillUnborn, UnbornTyped
    <3>6. \A t \in Unborn' : stored'[t] = Absent /\ loaded'[t] = Absent /\ \A q \in Procs : job'[q].set[t] = Absent
      BY <1>0, <2>1, <2>3, <3>1, <3>2, <3>5 DEF BirthInv
    <3>7. BirthInv'
      BY <1>0, <2>1, <3>1, <3>2, <3>6 DEF BirthInv
    <3>8. LoadedInv'
      BY <1>0, <2>1, <2>3 DEF Copy, LoadedInv, At, Entry, Minters
    <3>9. AliveInv'
      BY <1>0, <2>1, <2>3 DEF AliveInv, Copy, At
    <3> QED
      BY <1>0, <3>4, <3>7, <3>8, <3>9 DEF IInv
  <2> QED
    BY <1>4, <2>2, <2>3 DEF SweepPut
<1> QED
  BY <1>1, <1>2, <1>3, <1>4 DEF SweepStep, DeleteStep

LEMMA RestKeeps ==
    ASSUME IInv, Tick \/ Crash \/ UNCHANGED vars
    PROVE  IInv'
<1>0. /\ TypeOK /\ StageInv /\ BirthInv /\ CopyInv /\ LoadedInv /\ AliveInv /\ TypeOK' /\ StageInv'
  BY RestTyped DEF IInv
<1>1. CASE UNCHANGED <<stored, loaded, upstream, made, job>>
  <2>1. BirthInv'
    BY <1>0, <1>1 DEF BirthInv, Unborn, Minted
  <2>2. CopyInv' /\ LoadedInv' /\ AliveInv'
    BY <1>0, <1>1 DEF CopyInv, Copy, LoadedInv, AliveInv, At, Retired
  <2> QED
    BY <1>0, <2>1, <2>2 DEF IInv
<1>2. CASE Crash
  <2>1. /\ UNCHANGED <<stored, upstream, made>> /\ loaded' \in {stored, NoSet}
        /\ \A p \in Procs : job'[p] = Idle
    BY <1>2 DEF Crash, remote
  <2>2. Idle.pc = "idle" /\ Idle.set = NoSet /\ \A m \in Minters : NoSet[m] = Absent
    BY DEF Idle, NoSet
  <2>3. Unborn' = Successors \ made
    BY <2>1, <2>2 DEF Unborn, Minted
  <2>4. BirthInv'
    <3>1. \A s \in Successors \ made : stored[s] = Absent
      BY <1>0 DEF BirthInv, Unborn
    <3> QED
      BY <1>0, <2>1, <2>2, <2>3, <3>1 DEF BirthInv, Minters
  <2>5. CopyInv'
    BY <2>1, <2>2 DEF CopyInv, Copy, At, Minters
  <2>6. LoadedInv'
    BY <2>1, <2>2, MinterAssumption DEF LoadedInv, Minters
  <2>7. AliveInv'
    BY <1>0, <2>1, <2>2, MinterAssumption DEF AliveInv
  <2> QED
    BY <1>0, <2>4, <2>5, <2>6, <2>7 DEF IInv
<1> QED
  BY <1>1, <1>2 DEF Tick, vars, store, remote

-----------------------------------------------------------------------------
(* The theorems.                                                           *)

LEMMA InitHolds == Init => IInv
<1> SUFFICES ASSUME Init PROVE IInv
  OBVIOUS
<1>1. /\ Idle.pc = "idle" /\ Idle.set = NoSet /\ Idle \in Job /\ \A m \in Minters : NoSet[m] = Absent
      /\ \A p \in Procs : job[p] = Idle
  BY DEF Init, Idle, NoSet, Job, Entry, Held
<1>2. TypeOK /\ StageInv
  BY <1>1, MinterAssumption, TermAssumption, ProcAssumption, ZenonT(30) DEF Init, TypeOK, StageInv, Stage, Entry, Minters, At, Held
<1>3. BirthInv
  BY <1>1, FS_EmptySet, MinterAssumption DEF Init, BirthInv, Unborn, Minted, Minters
<1>4. CopyInv /\ LoadedInv /\ AliveInv
  BY <1>1, MinterAssumption DEF Init, CopyInv, Copy, LoadedInv, AliveInv, At, Minters
<1> QED
  BY <1>2, <1>3, <1>4 DEF IInv

LEMMA Inductive == Spec => []IInv
<1>1. IInv /\ [Next]_vars => IInv'
  <2> SUFFICES ASSUME IInv, [Next]_vars PROVE IInv'
    OBVIOUS
  <2>1. CASE Next
    BY <2>1, Shared, WriteKeeps, RotateKeeps, SweepKeeps, LoadKeeps, RestKeeps DEF IInv, Step
  <2>2. CASE UNCHANGED vars
    BY <2>2, RestKeeps
  <2> QED
    BY <2>1, <2>2
<1> QED
  BY <1>1, InitHolds, PTL DEF Spec

\* Every variable keeps its type, and rotateSweepMu is held by exactly the
\* goroutine that is inside a rotation or a sweep.
THEOREM TypeCorrect == Spec => []TypeOK
<1>1. IInv => TypeOK
  BY DEF IInv
<1> QED
  BY <1>1, Inductive, PTL

\* The frame of LifeInv: the step of one goroutine, minter by minter.
LEMMA LifeStep ==
    ASSUME LifeInv, NEW p \in Procs, \A q \in Procs \ {p} : job'[q] = job[q],
           \A m \in Minters : life'[m] = "new" =>
               life[m] = "new" /\ stored'[m] \notin Nat /\ job'[p].set[m] \notin Nat,
           \A m \in Originals : life'[m] = "new" => m \in upstream',
           \A m \in Originals : life'[m] = "retired" =>
               /\ stored'[m] # Active
               /\ p \notin Writers /\ job'[p].pc \notin {"idle", "cleanup"} => job'[p].set[m] # Active
               /\ loaded'[m] = Active => m \in upstream' /\ \E r \in Rotators : At(r, "load")'
               /\ life[m] # "retired" => \A q \in Procs \ Writers : q # p => job[q].pc = "idle"
    PROVE  LifeInv'
BY DEF LifeInv

\* A rotation that has yet to load is the only one inside, so no other step
\* of a rotation or sweep finds a retired original in memory.
LEMMA Unloaded ==
    ASSUME TypeOK, StageInv, LifeInv, NEW p \in Procs \ Writers, ~At(p, "load"), job[p].pc # "idle" \/ mu = NoProc
    PROVE  \A m \in Originals : life[m] = "retired" => loaded[m] # Active
<1>1. ASSUME NEW r \in Rotators, At(r, "load") PROVE FALSE
  BY <1>1, OneHolder, Roles, ProcAssumption DEF At, Procs
<1> QED
  BY <1>1 DEF LifeInv

LEMMA WriteLife ==
    ASSUME IInv, LifeInv, NEW p \in Procs, WriteStep(p) \/ LoadMinterSet(p)
    PROVE  LifeInv'
<1>0. /\ TypeOK /\ StageInv /\ CopyInv /\ job \in [Procs -> Job] /\ job[p] \in Job
      /\ Idle.pc = "idle" /\ Idle.set = NoSet /\ (\A m \in Minters : NoSet[m] = Absent)
      /\ Originals \subseteq Minters /\ Absent \notin Nat /\ Absent # Active /\ Active \notin Nat
      /\ life \in [Minters -> {"new", "retired", "revived"}] /\ stored \in [Minters -> Entry]
  BY Types, MinterAssumption DEF IInv, TypeOK, Minters
<1>1. ASSUME NEW w \in SUBSET Originals, WriteRead(p, w) PROVE LifeInv'
  <2>1. PICK t : t = PreserveLifecycle(w, stored)
    OBVIOUS
  <2>2. /\ p \in Writers /\ ~At(p, "load") /\ UNCHANGED <<stored, loaded, upstream, life>>
        /\ job'[p].set = t /\ \A q \in Procs \ {p} : job'[q] = job[q]
    BY <1>0, <1>1, <2>1 DEF WriteRead, At, store, remote, history, Job
  <2>3. \A m \in Minters : t[m] \in Nat => stored[m] \in Nat
    BY <1>0, <2>1 DEF PreserveLifecycle
  <2>4. \A r \in Rotators : At(r, "load") => At(r, "load")'
    BY <1>0, <2>2, Roles DEF At, Procs
  <2> QED
    BY <1>0, <2>2, <2>3, <2>4, LifeStep DEF LifeInv
<1>2. CASE WriteFail(p)
  <2>1. /\ p \in Writers /\ UNCHANGED <<stored, loaded, upstream, life>>
        /\ job'[p] = Idle /\ \A q \in Procs \ {p} : job'[q] = job[q]
    BY <1>0, <1>2, Roles, Finished DEF WriteFail, store, remote, history
  <2>2. \A r \in Rotators : At(r, "load") => At(r, "load")'
    BY <1>0, <2>1, Roles DEF At, Procs
  <2> QED
    BY <1>0, <2>1, <2>2, LifeStep DEF LifeInv
<1>3. CASE WritePut(p)
  <2>1. /\ p \in Writers /\ UNCHANGED <<loaded, upstream>> /\ stored' = job[p].set /\ PutBack(job[p].set)
        /\ job'[p].set = job[p].set /\ \A q \in Procs \ {p} : job'[q] = job[q]
    BY <1>0, <1>3, Roles DEF WritePut, remote, Job
  <2>2. \A r \in Rotators : At(r, "load") => At(r, "load")'
    BY <1>0, <2>1, Roles DEF At, Procs
  <2>3. \A m \in Minters : /\ life'[m] = "new" => life[m] = "new"
                           /\ life'[m] = "retired" => life[m] = "retired" /\ job[p].set[m] # Active
    BY <1>0, <2>1 DEF PutBack
  <2> QED
    BY <1>0, <2>1, <2>2, <2>3, LifeStep DEF LifeInv
<1>4. CASE DeleteSet(p)
  <2>1. /\ p \in Writers /\ UNCHANGED <<loaded, upstream, life>> /\ stored' = NoSet
        /\ job'[p].set = NoSet /\ \A q \in Procs \ {p} : job'[q] = job[q]
    BY <1>0, <1>4 DEF DeleteSet, remote, history, Job
  <2>2. \A r \in Rotators : At(r, "load") => At(r, "load")'
    BY <1>0, <2>1, Roles DEF At, Procs
  <2> QED
    BY <1>0, <2>1, <2>2, LifeStep DEF LifeInv
<1>5. CASE LoadMinterSet(p)
  <2>1. /\ At(p, "load") /\ UNCHANGED <<stored, upstream>> /\ loaded' = job[p].set
        /\ job'[p] = Idle /\ \A q \in Procs \ {p} : job'[q] = job[q]
        /\ IF p \in Writers THEN PutBack(job[p].set) ELSE UNCHANGED life
    BY <1>0, <1>5, Finished DEF LoadMinterSet, remote
  <2>2. \A m \in Minters : /\ life'[m] = "new" => life[m] = "new"
                           /\ life'[m] = "retired" => life[m] = "retired"
                           /\ p \in Writers /\ life'[m] = "retired" => job[p].set[m] # Active
    BY <1>0, <2>1 DEF PutBack
  <2>3. \A m \in Originals : life'[m] = "retired" => job[p].set[m] # Active
    BY <1>0, <2>1, <2>2 DEF LifeInv, At
  <2> QED
    BY <1>0, <2>1, <2>2, <2>3, LifeStep DEF LifeInv
<1> QED
  BY <1>1, <1>2, <1>3, <1>4, <1>5 DEF WriteStep

LEMMA RotateLife ==
    ASSUME IInv, LifeInv, NEW p \in Procs, RotateStep(p)
    PROVE  LifeInv'
<1>0. /\ TypeOK /\ StageInv /\ CopyInv /\ BirthInv /\ Copy(p) /\ Stage(p) /\ job \in [Procs -> Job] /\ job[p] \in Job
      /\ Idle.pc = "idle" /\ Idle.set = NoSet /\ (\A m \in Minters : NoSet[m] = Absent)
      /\ Originals \subseteq Minters /\ Absent \notin Nat /\ Absent # Active /\ Active \notin Nat
      /\ life \in [Minters -> {"new", "retired", "revived"}] /\ stored \in [Minters -> Entry]
      /\ job[p].set \in [Minters -> Entry] /\ Originals \cap made = {}
  BY Types, MinterAssumption DEF IInv, CopyInv, StageInv, TypeOK, Minters
\* Every step but the commit leaves storage, memory and the histories of life.
<1>1. ASSUME UNCHANGED <<stored, loaded, life>>, Originals \cap upstream \subseteq upstream', ~At(p, "load"),
             job[p].pc # "idle" \/ mu = NoProc, p \notin Writers, \A q \in Procs \ {p} : job'[q] = job[q],
             \/ job'[p].pc \in {"idle", "cleanup"} /\ job'[p].set \in {NoSet, job[p].set}
             \/ job'[p].set = stored
             \/ job[p].pc \notin {"idle", "cleanup"} /\ job'[p].set = job[p].set
      PROVE  LifeInv'
  <2>1. \A m \in Originals : life[m] = "retired" => loaded[m] # Active
    BY <1>0, <1>1, Unloaded
  <2> QED
    BY <1>0, <1>1, <2>1, LifeStep DEF LifeInv
<1>2. ASSUME NEW m \in Minters, NEW ex \in Expiry, RotateRead(p, m, ex) PROVE LifeInv'
  <2>1. /\ p \notin Writers /\ At(p, "idle") /\ mu = NoProc /\ UNCHANGED <<stored, loaded, upstream, life>>
        /\ job'[p].set = stored /\ \A q \in Procs \ {p} : job'[q] = job[q]
    BY <1>0, <1>2, Roles DEF RotateRead, store, remote, history, Job
  <2> QED
    BY <1>1, <2>1 DEF At
<1>3. CASE Mints(p)
  <2>1. PICK s \in Successors, u \in Minters \cup {NoMinter}, ex \in Expiry :
           RotateMint(p, s, ex, u) \/ RotateMintLost(p, s, ex, u)
    BY <1>3 DEF Mints
  <2>2. /\ p \notin Writers /\ At(p, "mint") /\ UNCHANGED <<stored, loaded, life>> /\ upstream \subseteq upstream'
    BY <1>0, <2>1, Roles DEF RotateMint, RotateMintLost, CreateSuccessor, store, At
  <2>3. CASE RotateMint(p, s, ex, u)
    <3>1. job'[p].set = job[p].set /\ \A q \in Procs \ {p} : job'[q] = job[q]
      BY <1>0, <2>3 DEF RotateMint, Job
    <3> QED
      BY <1>1, <2>2, <3>1 DEF At
  <2>4. CASE RotateMintLost(p, s, ex, u)
    BY <1>0, <1>1, <2>2, <2>4, Finished DEF RotateMintLost, At
  <2> QED
    BY <2>1, <2>3, <2>4
<1>4. CASE RotateMintFail(p)
  BY <1>0, <1>1, <1>4, Roles, Finished DEF RotateMintFail, store, remote, history, At
<1>5. CASE RotateCheck(p)
  <2>1. PICK l \in {"commit", "cleanup"} : job' = [job EXCEPT ![p].pc = l]
    BY <1>5 DEF RotateCheck
  <2>2. job'[p].set = job[p].set /\ \A q \in Procs \ {p} : job'[q] = job[q]
    BY <1>0, <2>1 DEF Job
  <2> QED
    BY <1>0, <1>1, <1>5, <2>2, Roles DEF RotateCheck, store, remote, history, At
<1>6. CASE RotateCommit(p)
  <2>1. PICK t : t = [job[p].set EXCEPT ![job[p].old] = job[p].now, ![job[p].new] = Active]
    OBVIOUS
  <2>2. /\ At(p, "commit") /\ p \in Rotators /\ p \notin Writers /\ UNCHANGED <<loaded, upstream>>
        /\ job[p].old \in Minters /\ job[p].set[job[p].old] = Active /\ job[p].now \in Nat
        /\ job[p].new \in Minters \ Originals /\ job[p].set[job[p].new] = Absent
    <3>1. /\ At(p, "commit") /\ p \in Rotators /\ p \notin Writers /\ UNCHANGED <<loaded, upstream>>
          /\ job[p].old \in Minters /\ job[p].set[job[p].old] = Active /\ job[p].now \in Nat
          /\ job[p].new \in Minters \ Originals
      BY <1>0, <1>6, Roles, Types, MinterAssumption DEF RotateCommit, At, Stage, TypeOK, remote, Minters
    <3>2. job[p].new \in Unborn
      BY <3>1 DEF Unborn, Minted, At
    <3> QED
      BY <1>0, <3>1, <3>2 DEF BirthInv
  <2>3. CASE job' = [job EXCEPT ![p].pc = "cleanup"] /\ UNCHANGED <<stored, life>>
    <3>1. job'[p].set = job[p].set /\ \A q \in Procs \ {p} : job'[q] = job[q]
      BY <1>0, <2>3 DEF Job
    <3> QED
      BY <1>1, <2>2, <2>3, <3>1 DEF At
  <2>4. CASE /\ job' = [job EXCEPT ![p].pc = "load", ![p].set = t] /\ stored' = t
             /\ life' = [life EXCEPT ![job[p].old] = IF @ = "revived" THEN @ ELSE "retired"]
    <3>1. job'[p].pc = "load" /\ job'[p].set = t /\ \A q \in Procs \ {p} : job'[q] = job[q]
      BY <1>0, <2>4 DEF Job
    <3>2. At(p, "load")'
      BY <3>1 DEF At
    <3>3. \A q \in Procs \ Writers : q # p => job[q].pc = "idle"
      BY <1>0, <2>2, OneHolder DEF At
    <3>4. \A m \in Minters : /\ life'[m] = "new" => life[m] = "new" /\ m # job[p].old
                             /\ life'[m] = "retired" => life[m] \in {"new", "retired"}
                             /\ m # job[p].old => life'[m] = life[m]
      BY <1>0, <2>2, <2>4
    <3>5. \A m \in Originals : life[m] = "retired" => job[p].set[m] # Active
      BY <1>0, <2>2 DEF LifeInv, At
    <3>6. \A m \in Minters : /\ m = job[p].old => t[m] \in Nat
                             /\ m # job[p].old /\ m # job[p].new => t[m] = job[p].set[m]
                             /\ m = job[p].new => t[m] = Active
      BY <1>0, <2>1, <2>2
    <3>7. \A m \in Minters : life'[m] = "new" => stored'[m] \notin Nat /\ job'[p].set[m] \notin Nat
      BY <1>0, <2>4, <3>1, <3>4, <3>6 DEF LifeInv
    <3>8. \A m \in Originals : life'[m] = "retired" => stored'[m] # Active /\ job'[p].set[m] # Active
      BY <1>0, <2>2, <2>4, <3>1, <3>4, <3>5, <3>6
    <3>9. \A m \in Originals : /\ life'[m] = "new" => m \in upstream'
                               /\ life'[m] = "retired" /\ loaded'[m] = Active => m \in upstream'
      BY <1>0, <2>2, <3>4 DEF LifeInv
    <3> QED
      BY <1>0, <2>2, <3>1, <3>2, <3>3, <3>4, <3>7, <3>8, <3>9, LifeStep
  <2> QED
    BY <1>6, <2>1, <2>3, <2>4 DEF RotateCommit
<1>7. ASSUME NEW by \in SUBSET Minters, RotateCleanup(p, by) PROVE LifeInv'
  <2>1. At(p, "cleanup") /\ p \notin Writers /\ UNCHANGED <<stored, loaded, life>> /\ job[p].new \notin Originals
    BY <1>0, <1>7, Roles DEF RotateCleanup, store, history, At, Stage
  <2>2. Originals \cap upstream \subseteq upstream'
    BY <1>7, <2>1 DEF RotateCleanup
  <2> QED
    BY <1>0, <1>1, <1>7, <2>1, <2>2, Finished DEF RotateCleanup, At
<1> QED
  BY <1>2, <1>3, <1>4, <1>5, <1>6, <1>7 DEF RotateStep

LEMMA SweepLife ==
    ASSUME IInv, LifeInv, NEW p \in Procs, SweepStep(p)
    PROVE  LifeInv'
<1>0. /\ TypeOK /\ StageInv /\ Copy(p) /\ job \in [Procs -> Job] /\ job[p] \in Job
      /\ Idle.pc = "idle" /\ Idle.set = NoSet /\ (\A m \in Minters : NoSet[m] = Absent)
      /\ Originals \subseteq Minters /\ Absent \notin Nat /\ Absent # Active
      /\ stored \in [Minters -> Entry] /\ job[p].set \in [Minters -> Entry]
  BY Types, MinterAssumption DEF IInv, CopyInv, TypeOK, Minters
<1>1. ASSUME p \notin Writers, ~At(p, "load"), job[p].pc # "idle" \/ mu = NoProc, UNCHANGED <<loaded, life>>,
             \A q \in Procs \ {p} : job'[q] = job[q],
             \A m \in Originals : life[m] = "new" => m \in upstream',
             stored' = stored \/ (At(p, "sweep") /\ stored' = job[p].set),
             \/ job'[p] = Idle
             \/ job'[p].set = stored
             \/ At(p, "sweep") /\ \A m \in Minters : job'[p].set[m] \in {Absent, job[p].set[m]}
      PROVE  LifeInv'
  <2>1. \A m \in Originals : life[m] = "retired" => loaded[m] # Active
    BY <1>0, <1>1, Unloaded
  <2>2. At(p, "sweep") => \A m \in Originals : life[m] = "retired" => job[p].set[m] # Active
    BY <1>1 DEF LifeInv, At
  <2> QED
    BY <1>0, <1>1, <2>1, <2>2, LifeStep DEF LifeInv
<1>2. CASE SweepRead(p)
  <2>1. /\ p \notin Writers /\ At(p, "idle") /\ mu = NoProc /\ UNCHANGED <<stored, loaded, upstream, life>>
        /\ job'[p].set = stored /\ \A q \in Procs \ {p} : job'[q] = job[q]
    BY <1>0, <1>2, Roles DEF SweepRead, store, remote, history, Job
  <2> QED
    BY <1>1, <2>1 DEF At, LifeInv
<1>3. ASSUME NEW m \in Minters, NEW r, SweepDelete(p, m, r) PROVE LifeInv'
  <2>1. /\ p \notin Writers /\ At(p, "sweep") /\ UNCHANGED <<stored, loaded, life>> /\ upstream \ {m} \subseteq upstream'
        /\ m \in job[p].todo /\ job'[p].set = [job[p].set EXCEPT ![m] = Absent]
        /\ \A q \in Procs \ {p} : job'[q] = job[q]
    BY <1>0, <1>3, Roles DEF SweepDelete, store, history, At, Job
  <2>2. life[m] # "new"
    BY <1>0, <2>1 DEF LifeInv, Copy, At, Retired
  <2>3. \A n \in Minters : job'[p].set[n] \in {Absent, job[p].set[n]}
    BY <1>0, <2>1
  <2> QED
    BY <1>0, <1>1, <2>1, <2>2, <2>3 DEF At, LifeInv
<1>4. ASSUME NEW m \in Minters, NEW r, SweepDeleteFail(p, m, r) PROVE LifeInv'
  <2>1. /\ p \notin Writers /\ At(p, "sweep") /\ UNCHANGED <<stored, loaded, upstream, life>>
        /\ job'[p].set = job[p].set /\ \A q \in Procs \ {p} : job'[q] = job[q]
    BY <1>0, <1>4, Roles DEF SweepDeleteFail, store, remote, history, At, Job
  <2> QED
    BY <1>0, <1>1, <2>1 DEF At, LifeInv
<1>5. CASE SweepPut(p)
  <2>1. p \notin Writers /\ At(p, "sweep") /\ UNCHANGED <<loaded, upstream, life>>
    BY <1>0, <1>5, Roles DEF SweepPut, remote, history, At
  <2>2. CASE Finish(p) /\ UNCHANGED stored
    BY <1>0, <1>1, <2>1, <2>2, Finished DEF At, LifeInv
  <2>3. CASE stored' = job[p].set /\ job' = [job EXCEPT ![p].pc = "load"]
    <3>1. job'[p].set = job[p].set /\ \A q \in Procs \ {p} : job'[q] = job[q]
      BY <1>0, <2>3 DEF Job
    <3> QED
      BY <1>1, <2>1, <2>3, <3>1 DEF At, LifeInv
  <2> QED
    BY <1>5, <2>2, <2>3 DEF SweepPut
<1> QED
  BY <1>2, <1>3, <1>4, <1>5 DEF SweepStep, DeleteStep

LEMMA RestLife ==
    ASSUME LifeInv, Tick \/ Crash \/ UNCHANGED vars
    PROVE  LifeInv'
<1>1. CASE Crash
  <2>1. /\ UNCHANGED <<stored, upstream, life>> /\ loaded' \in {stored, NoSet}
        /\ \A p \in Procs : job'[p] = Idle
    BY <1>1 DEF Crash, remote, history
  <2>2. Idle.pc = "idle" /\ \A m \in Minters : NoSet[m] = Absent /\ Idle.set[m] = Absent
    BY DEF Idle, NoSet
  <2> QED
    BY <2>1, <2>2, MinterAssumption DEF LifeInv, Minters
<1> QED
  BY <1>1 DEF LifeInv, Tick, vars, store, remote, history, At

\* A minter that storage or memory lists as selectable has a live token: a sweep
\* works from a copy of the set, and deletes nothing that is in service, except
\* what a write, which takes no lock, has put back after its retirement.
THEOREM MintersAlive == Spec => []ActiveAlive
<1>1. Init => LifeInv
  <2> SUFFICES ASSUME Init PROVE LifeInv
    OBVIOUS
  <2>1. \A m \in Minters : Idle.set[m] = Absent
    BY DEF Idle, NoSet
  <2> QED
    BY <2>1, MinterAssumption DEF Init, LifeInv, Minters
<1>2. IInv /\ LifeInv /\ [Next]_vars => LifeInv'
  BY Shared, WriteLife, RotateLife, SweepLife, RestLife DEF IInv, Step
<1>3. IInv /\ LifeInv => ActiveAlive
  BY TermAssumption DEF IInv, AliveInv, LifeInv, ActiveAlive, ActiveMinters, TypeOK, Minters
<1> QED
  BY <1>1, <1>2, <1>3, Inductive, PTL DEF Spec

\* The entry of a successor, the one place its id is recorded, goes only after
\* its token or by an operator's write or delete: the sets that sweeps and
\* rotations store never drop one that is alive.
THEOREM EntriesKept == Spec => SuccessorsKept
<1> DEFINE Kept == \A s \in Successors :
                     stored[s] # Absent /\ stored'[s] = Absent =>
                         \/ s \notin upstream
                         \/ \E p \in Writers : WritePut(p) \/ DeleteSet(p)
<1>1. IInv /\ [Next]_vars => [Kept]_vars
  <2> SUFFICES ASSUME IInv, Next, NEW s \in Successors, stored[s] # Absent, stored'[s] = Absent, s \in upstream
               PROVE  \E p \in Writers : WritePut(p) \/ DeleteSet(p)
    OBVIOUS
  <2>0. TypeOK /\ StageInv /\ CopyInv /\ s \in Minters /\ stored' # stored
    BY DEF IInv, Minters
  <2>1. PICK p \in Procs : WriteStep(p) \/ RotateStep(p) \/ SweepStep(p) \/ LoadMinterSet(p)
    BY <2>0, Shared DEF Step, Tick, Crash, store
  <2>2. Copy(p) /\ Stage(p)
    BY <2>0 DEF CopyInv, StageInv
  <2>3. CASE WriteStep(p)
    BY <2>0, <2>3, Roles DEF WriteStep, WriteFail, WriteRead, WritePut, DeleteSet, store
  <2>4. ~LoadMinterSet(p)
    BY <2>0 DEF LoadMinterSet
  <2>5. CASE RotateStep(p)
    <3>1. RotateCommit(p)
      BY <2>0, <2>5 DEF RotateStep, RotateRead, Mints, RotateMint, RotateMintLost, RotateMintFail, RotateCheck,
         RotateCleanup, store
    <3>2. p \notin Writers /\ At(p, "commit") /\ stored[s] = job[p].set[s]
      BY <2>0, <2>2, <3>1, Roles DEF RotateCommit, Copy, At
    <3>3. stored' = [job[p].set EXCEPT ![job[p].old] = job[p].now, ![job[p].new] = Active]
      BY <2>0, <3>1 DEF RotateCommit
    <3>4. job[p].now \in Nat /\ job[p].set \in [Minters -> Entry]
      BY <2>0, Types
    <3> QED
      BY <2>0, <3>2, <3>3, <3>4, MinterAssumption
  <2>6. CASE SweepStep(p)
    <3>1. SweepPut(p) /\ stored' = job[p].set
      BY <2>0, <2>6 DEF SweepStep, DeleteStep, SweepRead, SweepDelete, SweepDeleteFail, SweepPut, store
    <3>2. p \notin Writers /\ At(p, "sweep")
      BY <2>0, <3>1, Roles DEF SweepPut
    <3> QED
      BY <2>2, <3>1, <3>2 DEF Copy, At
  <2> QED
    BY <2>1, <2>3, <2>4, <2>5, <2>6
<1> HIDE DEF Kept
<1>2. Spec => [][Kept]_vars
  BY <1>1, Inductive, PTL DEF Spec
<1> QED
  BY <1>2 DEF Kept, SuccessorsKept

-----------------------------------------------------------------------------
(* The sets that are stored can be loaded.                                 *)

\* The expiries that count are those of the set's own minters.
LEMMA OwnExpiries ==
    ASSUME NEW S, NEW ex, NEW ey, \A m \in S : ey[m] = ex[m], ValidExpiries(S, ex)
    PROVE  ValidExpiries(S, ey)
BY DEF ValidExpiries

LEMMA ServesKept ==
    ASSUME NEW set, Serves(set), \A m \in ActiveMinters(set) : expires'[m] = expires[m],
           misdated \subseteq misdated'
    PROVE  Serves(set)'
<1>1. CASE ValidateMinterSet(set)
  <2>1. ValidExpiries(ActiveMinters(set), expires)
    BY <1>1 DEF ValidateMinterSet
  <2>2. ValidExpiries(ActiveMinters(set), expires')
    BY <2>1, OwnExpiries
  <2> QED
    BY <2>2 DEF Serves, ValidateMinterSet, ValidExpiries, ActiveMinters
<1>2. CASE ~ValidateMinterSet(set)
  BY <1>2 DEF Serves, ActiveMinters
<1> QED
  BY <1>1, <1>2

\* A set that is valid with a stand-in is valid with a successor of the same expiry.
LEMMA StandIn ==
    ASSUME NEW A \in SUBSET Minters, IsFiniteSet(A), NEW s \in Minters \ A, NEW ex, NEW ey,
           ValidExpiries(A \cup {NoMinter},
                         [n \in Minters \cup {NoMinter} |-> IF n = NoMinter THEN ey[s] ELSE ex[n]]),
           \A m \in A : ey[m] = ex[m]
    PROVE  ValidExpiries(A \cup {s}, ey)
<1> DEFINE f == [n \in Minters \cup {NoMinter} |-> IF n = NoMinter THEN ey[s] ELSE ex[n]]
<1>1. Cardinality(A \cup {NoMinter}) = Cardinality(A \cup {s})
  BY FS_AddElement, MinterAssumption
<1>2. f[NoMinter] = ey[s] /\ \A m \in A : f[m] = ey[m]
  BY MinterAssumption
<1>3. ValidExpiries(A \cup {NoMinter}, f)
  OBVIOUS
<1> HIDE DEF f
<1>4. NoMinter \notin A /\ s \notin A
  BY MinterAssumption
<1>5. \A m \in A \cup {s} : ey[m] # Unset
  BY <1>2, <1>3 DEF ValidExpiries
<1>6. CASE \E m \in A \cup {NoMinter} : f[m] = Never
  BY <1>2, <1>5, <1>6 DEF ValidExpiries
<1>7. CASE /\ Cardinality(A \cup {NoMinter}) >= 2 /\ \A m \in A \cup {NoMinter} : f[m] # Never
           /\ \A m, n \in A \cup {NoMinter} : m # n => f[m] - f[n] >= Gap \/ f[n] - f[m] >= Gap
  <2>1. \A m \in A \cup {s} : ey[m] # Never
    BY <1>2, <1>7
  <2>2. \A m, n \in A : m # n => ey[m] - ey[n] >= Gap \/ ey[n] - ey[m] >= Gap
    BY <1>2, <1>7
  <2>3. \A m \in A : ey[m] - ey[s] >= Gap \/ ey[s] - ey[m] >= Gap
    BY <1>2, <1>4, <1>7
  <2>4. \A m, n \in A \cup {s} : m # n => ey[m] - ey[n] >= Gap \/ ey[n] - ey[m] >= Gap
    BY <2>2, <2>3
  <2> QED
    BY <1>1, <1>5, <1>7, <2>1, <2>4 DEF ValidExpiries
<1> QED
  BY <1>3, <1>6, <1>7 DEF ValidExpiries

\* A step that leaves the expiries alone leaves the others ready.
LEMMA OthersReady ==
    ASSUME NEW q \in Procs, Ready(q), job'[q] = job[q], expires' = expires, misdated \subseteq misdated'
    PROVE  Ready(q)'
BY ServesKept DEF Ready, At, ActiveMinters

\* The successor is made with the expiry its set was validated with, or none.
LEMMA MintReady ==
    ASSUME IInv, ServesInv, NEW p \in Procs, Mints(p)
    PROVE  ServesInv'
<1>0. /\ TypeOK /\ StageInv /\ BirthInv /\ CopyInv /\ Copy(p) /\ Stage(p) /\ Ready(p)
      /\ job \in [Procs -> Job] /\ job[p] \in Job /\ Idle.pc = "idle"
  BY Types DEF IInv, CopyInv, StageInv, ServesInv
<1>1. PICK s \in Successors, u \in Minters \cup {NoMinter}, ex \in Expiry :
         RotateMint(p, s, ex, u) \/ RotateMintLost(p, s, ex, u)
  BY DEF Mints
<1>2. /\ At(p, "mint") /\ p \notin Writers /\ stored' = stored /\ s \in Unborn /\ s \in Minters
      /\ expires' = [expires EXCEPT ![s] = ex]
      /\ misdated \subseteq misdated' /\ (ex = job[p].synthetic \/ s \in misdated')
  BY <1>0, <1>1, Roles DEF RotateMint, RotateMintLost, At, CreateSuccessor, store, Unborn, Minters
<1>3. \A m \in Minters \ {s} : expires'[m] = expires[m]
  BY <1>2 DEF IInv, TypeOK
<1>4. stored[s] = Absent /\ \A q \in Procs : job[q].set[s] = Absent
  BY <1>0, <1>2 DEF BirthInv
<1>5. (stored # NoSet => Serves(stored))'
  <2>1. CASE stored # NoSet
    <3>1. PICK t : t = stored
      OBVIOUS
    <3>2. Serves(t) /\ \A m \in ActiveMinters(t) : expires'[m] = expires[m]
      BY <1>3, <1>4, <2>1, <3>1, MinterAssumption DEF ServesInv, ActiveMinters
    <3> QED
      BY <1>2, <3>1, <3>2, ServesKept
  <2> QED
    BY <1>2, <2>1
<1>6. ASSUME NEW q \in Procs \ {p} PROVE Ready(q)'
  <2>1. job'[q] = job[q] /\ Ready(q)
    BY <1>0, <1>1, Finished DEF RotateMint, RotateMintLost, ServesInv
  <2>2. q \notin Writers => job[q].pc = "idle"
    BY <1>0, <1>2, OneHolder DEF At
  <2>3. CASE At(q, "put")
    <3>1. PICK t : t = job[q].set
      OBVIOUS
    <3>2. Serves(t) /\ \A m \in ActiveMinters(t) : expires'[m] = expires[m]
      BY <1>3, <1>4, <2>1, <2>3, <3>1, MinterAssumption DEF Ready, At, ActiveMinters
    <3>3. Serves(t)'
      BY <1>2, <3>2, ServesKept
    <3> QED
      BY <2>1, <2>3, <3>1, <3>3 DEF Ready, At
  <2>4. CASE ~At(q, "put")
    <3>1. job[q].pc \notin {"put", "sweep", "mint", "check", "commit"}
      BY <1>0, <2>2, <2>4, Roles DEF At
    <3> QED
      BY <2>1, <3>1 DEF Ready, At
  <2> QED
    BY <2>3, <2>4
<1>7. Ready(p)'
  <2>1. CASE RotateMintLost(p, s, ex, u)
    BY <1>0, <2>1, Finished DEF RotateMintLost, Ready, At
  <2>2. CASE RotateMint(p, s, ex, u)
    <3>1. job'[p] = [job[p] EXCEPT !.pc = "check", !.new = s]
      BY <1>0, <2>2 DEF RotateMint
    <3>2. /\ job'[p].pc = "check" /\ job'[p].new = s /\ job'[p].set = job[p].set
          /\ job'[p].old = job[p].old /\ job'[p].now = job[p].now
      BY <1>0, <3>1 DEF Job
    <3>3. PICK set, o, t : set = job[p].set /\ o = job[p].old /\ t = job[p].now
      OBVIOUS
    <3>4. set \in [Minters -> Entry] /\ set[o] = Active /\ o \in Minters /\ t \in Nat /\ set[s] = Absent
      BY <1>0, <1>2, <1>4, <3>3, Types DEF Stage, At
    <3> DEFINE A == ActiveMinters(set) \ {o}
               done == [set EXCEPT ![o] = t, ![s] = Active]
    <3>5. ActiveMinters(done) = A \cup {s} /\ s \notin A /\ A \in SUBSET Minters
      BY <1>2, <3>4, MinterAssumption DEF ActiveMinters
    <3>6. IsFiniteSet(A)
      <4>1. A \subseteq Originals \cup made
        BY <1>0, <3>3, MinterAssumption DEF BirthInv, Unborn, ActiveMinters, Minters
      <4> QED
        BY <1>0, <4>1, FS_Union, FS_Subset, MinterAssumption DEF BirthInv
    <3>7. Serves(done)'
      <4>1. expires'[s] = ex
        BY <1>2 DEF IInv, TypeOK
      <4>2. CASE s \in misdated'
        BY <1>2, <3>5, <4>2 DEF Serves, ActiveMinters
      <4>3. CASE ex = job[p].synthetic
        <5>1. ValidExpiries(A \cup {NoMinter},
                  [n \in Minters \cup {NoMinter} |-> IF n = NoMinter THEN expires'[s] ELSE expires[n]])
          BY <1>0, <1>2, <3>3, <4>1, <4>3 DEF Ready
        <5>2. \A m \in A : expires'[m] = expires[m]
          BY <1>3, <3>5
        <5>3. ValidExpiries(A \cup {s}, expires')
          <6>1. s \in Minters \ A /\ A \in SUBSET Minters /\ IsFiniteSet(A)
            BY <1>2, <3>5, <3>6
          <6> HIDE DEF A
          <6> QED
            BY <5>1, <5>2, <6>1, StandIn
        <5> QED
          BY <3>5, <5>3 DEF Serves, ValidateMinterSet, ActiveMinters, ValidExpiries
      <4> QED
        BY <1>2, <4>2, <4>3
    <3>8. done = [job'[p].set EXCEPT ![job'[p].old] = job'[p].now, ![job'[p].new] = Active]
      BY <3>2, <3>3
    <3> QED
      BY <3>2, <3>7, <3>8 DEF Ready, At
  <2> QED
    BY <1>1, <2>1, <2>2
<1> QED
  BY <1>5, <1>6, <1>7 DEF ServesInv

\* The step of a goroutine that makes no successor: it stores what it was ready
\* to store, or takes a set that is fit to be stored.
LEMMA StepReady ==
    ASSUME IInv, ServesInv, NEW p \in Procs, Step(p), ~Mints(p)
    PROVE  ServesInv'
<1>0. /\ TypeOK /\ StageInv /\ Copy(p) /\ Stage(p) /\ Ready(p) /\ stored \in [Minters -> Entry]
      /\ job \in [Procs -> Job] /\ job[p] \in Job /\ Idle.pc = "idle" /\ job[p].set \in [Minters -> Entry]
  BY Types DEF IInv, CopyInv, StageInv, ServesInv, TypeOK
<1>1. UNCHANGED <<expires, misdated>> /\ \A q \in Procs \ {p} : job'[q] = job[q]
  <2>1. CASE LoadMinterSet(p)
    BY <1>0, <2>1, Finished DEF LoadMinterSet, remote, history
  <2>2. CASE WriteStep(p)
    BY <1>0, <2>2, Finished DEF WriteStep, WritePut, WriteFail, DeleteSet, WriteRead, remote, history
  <2>3. CASE RotateStep(p)
    BY <1>0, <2>3, Finished DEF RotateStep, RotateRead, RotateMintFail, RotateCheck, RotateCommit, RotateCleanup, remote, history
  <2>4. CASE SweepStep(p)
    BY <1>0, <2>4, Finished DEF SweepStep, DeleteStep, SweepRead, SweepDelete, SweepDeleteFail, SweepPut, remote, history
  <2> QED
    BY <2>1, <2>2, <2>3, <2>4 DEF Step
<1>2. \A q \in Procs \ {p} : Ready(q)'
  BY <1>1, OthersReady DEF ServesInv
<1>3. \A t : Serves(t) => Serves(t)'
  BY <1>1, ServesKept
<1>4. ASSUME UNCHANGED stored, Ready(p)' PROVE ServesInv'
  <2>1. (stored # NoSet => Serves(stored))'
    BY <1>3, <1>4 DEF ServesInv
  <2> QED
    BY <1>2, <1>4, <2>1 DEF ServesInv
<1>5. ASSUME NEW t, stored' = t, t # NoSet => Serves(t), job'[p].pc = "load" PROVE ServesInv'
  <2>1. (stored # NoSet => Serves(stored))'
    BY <1>3, <1>5
  <2>2. Ready(p)'
    BY <1>5 DEF Ready, At
  <2> QED
    BY <1>2, <2>1, <2>2 DEF ServesInv
<1>6. ASSUME UNCHANGED stored, job'[p].pc \in {"idle", "load", "cleanup"} PROVE ServesInv'
  BY <1>4, <1>6 DEF Ready, At
<1>7. ASSUME Finish(p), UNCHANGED stored PROVE ServesInv'
  BY <1>0, <1>6, <1>7, Finished
<1>8. CASE WriteStep(p)
  <2>1. CASE WritePut(p)
    BY <1>0, <1>5, <2>1 DEF WritePut, Ready, At, Job
  <2>2. CASE DeleteSet(p)
    BY <1>0, <1>5, <2>2 DEF DeleteSet, Job
  <2>3. ASSUME NEW w \in SUBSET Originals, WriteRead(p, w) PROVE ServesInv'
    <3>1. PICK t : t = PreserveLifecycle(w, stored)
      OBVIOUS
    <3>2. UNCHANGED stored /\ job'[p].pc = "put" /\ job'[p].set = t
      BY <1>0, <2>3, <3>1 DEF WriteRead, Job, store
    <3>3. Serves(t)'
      BY <1>3, <2>3, <3>1 DEF WriteRead, Serves
    <3> QED
      BY <1>4, <3>2, <3>3 DEF Ready, At
  <2> QED
    BY <1>7, <1>8, <2>1, <2>2, <2>3 DEF WriteStep, WriteFail, store
<1>9. CASE LoadMinterSet(p)
  BY <1>7, <1>9 DEF LoadMinterSet
<1>10. CASE RotateStep(p)
  <2>1. ASSUME NEW m \in Minters, NEW ex \in Expiry, RotateRead(p, m, ex) PROVE ServesInv'
    <3>1. UNCHANGED stored /\ job'[p].pc = "mint" /\ job'[p].set = stored /\ job'[p].old = m /\ job'[p].synthetic = ex
      BY <1>0, <2>1 DEF RotateRead, Job, store
    <3>2. ValidExpiries((ActiveMinters(stored) \ {m}) \cup {NoMinter},
                        [n \in Minters \cup {NoMinter} |-> IF n = NoMinter THEN ex ELSE expires[n]])
      BY <2>1 DEF RotateRead
    <3>3. Ready(p)'
      BY <1>1, <3>1, <3>2 DEF Ready, At, ActiveMinters
    <3> QED
      BY <1>4, <3>1, <3>3
  <2>2. CASE RotateCheck(p)
    <3>1. PICK l \in {"commit", "cleanup"} : job' = [job EXCEPT ![p].pc = l]
      BY <2>2 DEF RotateCheck
    <3>2. /\ job'[p].pc = l /\ job'[p].set = job[p].set /\ job'[p].old = job[p].old /\ job'[p].new = job[p].new
          /\ job'[p].now = job[p].now /\ At(p, "check") /\ UNCHANGED stored
      BY <1>0, <2>2, <3>1 DEF Job, RotateCheck, store
    <3>3. PICK t : t = [job[p].set EXCEPT ![job[p].old] = job[p].now, ![job[p].new] = Active]
      OBVIOUS
    <3>4. Serves(t)'
      BY <1>0, <1>3, <3>2, <3>3 DEF Ready, At
    <3> QED
      BY <1>4, <3>2, <3>3, <3>4 DEF Ready, At
  <2>3. CASE RotateCommit(p)
    <3>1. PICK t : t = [job[p].set EXCEPT ![job[p].old] = job[p].now, ![job[p].new] = Active]
      OBVIOUS
    <3>2. Serves(t)
      BY <1>0, <2>3, <3>1 DEF Ready, At, RotateCommit
    <3>3. CASE stored' = t /\ job' = [job EXCEPT ![p].pc = "load", ![p].set = t]
      <4>1. job'[p].pc = "load"
        BY <1>0, <3>3 DEF Job
      <4> QED
        BY <1>5, <3>2, <3>3, <4>1
    <3>4. CASE UNCHANGED stored /\ job' = [job EXCEPT ![p].pc = "cleanup"]
      <4>1. job'[p].pc = "cleanup"
        BY <1>0, <3>4 DEF Job
      <4> QED
        BY <1>6, <3>4, <4>1
    <3> QED
      BY <2>3, <3>1, <3>3, <3>4 DEF RotateCommit
  <2>4. CASE RotateMintFail(p) \/ \E by \in SUBSET Minters : RotateCleanup(p, by)
    BY <1>7, <2>4 DEF RotateMintFail, RotateCleanup, store
  <2> QED
    BY <1>10, <2>1, <2>2, <2>3, <2>4 DEF RotateStep
<1>11. CASE SweepStep(p)
  <2>1. CASE SweepRead(p)
    <3>1. UNCHANGED stored /\ job'[p].pc = "sweep" /\ job'[p].set = stored /\ stored # NoSet
      BY <1>0, <2>1 DEF SweepRead, Job, store
    <3>2. PICK t : t = stored
      OBVIOUS
    <3>3. Serves(t)'
      BY <1>3, <3>1, <3>2 DEF ServesInv
    <3> QED
      BY <1>4, <3>1, <3>2, <3>3 DEF Ready, At
  <2>2. ASSUME NEW m \in Minters, SweepDelete(p, m, m \in Successors \cup Recorded) PROVE ServesInv'
    <3>1. PICK t, t2 : t = job[p].set /\ t2 = [t EXCEPT ![m] = Absent]
      OBVIOUS
    <3>2. UNCHANGED stored /\ job'[p].pc = "sweep" /\ job'[p].set = t2 /\ At(p, "sweep") /\ t[m] \in Nat
      BY <1>0, <2>2, <3>1 DEF SweepDelete, Job, store, Copy, At, Retired
    <3>3. ActiveMinters(t2) = ActiveMinters(t)
      BY <1>0, <3>1, <3>2, MinterAssumption DEF ActiveMinters
    <3>4. Serves(t2)'
      BY <1>0, <1>3, <3>1, <3>2, <3>3 DEF Ready, Serves, ValidateMinterSet, At
    <3> QED
      BY <1>4, <3>2, <3>4 DEF Ready, At
  <2>3. ASSUME NEW m \in Minters, SweepDeleteFail(p, m, m \in Successors \cup Recorded) PROVE ServesInv'
    <3>1. PICK t : t = job[p].set
      OBVIOUS
    <3>2. UNCHANGED stored /\ job'[p].pc = "sweep" /\ job'[p].set = t /\ At(p, "sweep")
      BY <1>0, <2>3, <3>1 DEF SweepDeleteFail, Job, store, At
    <3>3. Serves(t)'
      BY <1>0, <1>3, <3>1, <3>2 DEF Ready, At
    <3> QED
      BY <1>4, <3>2, <3>3 DEF Ready, At
  <2>4. CASE SweepPut(p)
    <3>1. CASE Finish(p) /\ UNCHANGED stored
      BY <1>7, <3>1
    <3>2. CASE stored' = job[p].set /\ job' = [job EXCEPT ![p].pc = "load"]
      <4>1. job'[p].pc = "load" /\ Serves(job[p].set)
        BY <1>0, <2>4, <3>2 DEF Job, SweepPut, Ready, At
      <4> QED
        BY <1>5, <3>2, <4>1
    <3> QED
      BY <2>4, <3>1, <3>2 DEF SweepPut
  <2> QED
    BY <1>11, <2>1, <2>2, <2>3, <2>4 DEF SweepStep, DeleteStep
<1> QED
  BY <1>8, <1>9, <1>10, <1>11 DEF Step

\* A set that exists can issue after a failover, whatever rotations, sweeps and
\* writes overwrote one another: what is stored is valid, unless it holds a
\* successor that was given another expiry than the one it was validated with.
THEOREM SetsServe == Spec => []SetServes
<1>1. Init => ServesInv
  BY DEF Init, ServesInv, Serves, Ready, Idle, At
<1>2. ASSUME IInv, ServesInv, [Next]_vars PROVE ServesInv'
  <2>0. TypeOK /\ StageInv
    BY <1>2 DEF IInv
  <2>1. CASE UNCHANGED <<stored, job, expires, misdated>>
    <3>1. \A p \in Procs : Ready(p)'
      BY <1>2, <2>1, OthersReady DEF ServesInv
    <3> QED
      BY <1>2, <2>1, <3>1 DEF ServesInv, Serves, ValidateMinterSet, ActiveMinters, ValidExpiries
  <2>2. CASE UNCHANGED vars
    BY <2>1, <2>2 DEF vars, store, remote, history
  <2>3. CASE Tick
    BY <2>1, <2>3 DEF Tick, store, remote, history
  <2>4. CASE Crash
    <3>1. UNCHANGED <<stored, expires, misdated>> /\ \A p \in Procs : job'[p].pc = "idle"
      BY <2>4 DEF Crash, remote, Idle, history
    <3> QED
      BY <1>2, <3>1 DEF ServesInv, Ready, Serves, ValidateMinterSet, At, ActiveMinters, ValidExpiries
  <2>5. ASSUME NEW p \in Procs, Step(p) PROVE ServesInv'
    BY <1>2, <2>5, MintReady, StepReady
  <2> QED
    BY <1>2, <2>0, <2>2, <2>3, <2>4, <2>5, Shared
<1>3. ServesInv => SetServes
  BY DEF ServesInv, Serves, SetServes
<1>4. IInv /\ ServesInv /\ [Next]_vars => ServesInv'
  BY <1>2
<1> QED
  BY <1>1, <1>3, <1>4, Inductive, PTL DEF Spec
=============================================================================
