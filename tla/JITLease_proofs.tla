--------------------------- MODULE JITLease_proofs ---------------------------
(***************************************************************************)
(* Proofs about the life of an issued credential: what the reconciler, the *)
(* revocations and the purges may delete, and which records survive, for   *)
(* any number of keys and of goroutines of each kind, any schedule, and    *)
(* any number of failures and failovers.                                   *)
(***************************************************************************)
EXTENDS JITLease, TLAPS

\* Nothing is left of a goroutine that has finished.
LEMMA IdleOK == Idle \in Job /\ Idle.pc = "idle" /\ Idle.key = None
BY BoundAssumption DEF Idle, Job

\* A key in an issuer's hands was asked for at most MaxOp ago.
LEMMA Young ==
    ASSUME TypeOK, \A p \in Procs : JobInv(p), NEW k \in Keys, InFlight(k)
    PROVE  k \in Made /\ clock - born[k] <= MaxOp
<1>1. PICK p \in Issuers : job[p].key = k
  BY DEF InFlight
<1>2. p \in Procs /\ IssueInv(p) /\ job[p] \in Job /\ k # None
  BY <1>1, ProcAssumption DEF JobInv, TypeOK, Procs
<1>3. job[p].pc \in Holding /\ born[k] = job[p].at /\ clock - job[p].at <= MaxOp /\ job[p].at \in Nat
  BY <1>1, <1>2 DEF IssueInv, Holding, Issuing, Job
<1> QED
  BY <1>3, ProcAssumption DEF Made

\* What the goroutines that do not move rely on: a key that was made is not made
\* again, nor taken up again by an issue; a tracking entry comes from an issue and
\* goes with its key or with its lease; a lease that ends is ended by its own
\* revocation.
Steady(P) ==
    /\ clock' = clock /\ \A q \in Procs \ P : job'[q] = job[q]
    /\ \A k \in Keys :
        /\ k \in Made => born'[k] = born[k] /\ (k \in live' => k \in live) /\ (InFlight(k)' => InFlight(k))
        /\ k \in tracked' => k \in tracked \/ InFlight(k)
        /\ k \in tracked \ tracked' => k \notin live \/ lease[k] = "ending"
        /\ k \in Made /\ lease[k] = "none" => lease'[k] = "none" \/ InFlight(k)
        /\ lease[k] = "ending" /\ (\E q \in Revokers \ P : job[q].key = k) => lease'[k] = "ending"

\* Then what they know of their own keys stays true.
LEMMA OthersKeep ==
    ASSUME IInv, TypeOK', NEW P, Steady(P), NEW q \in Procs \ P
    PROVE  JobInv(q)'
<1> TypeOK /\ (\A p \in Procs : JobInv(p)) /\ (\A h \in Keys : KeyInv(h))
  BY DEF IInv
<1>0. JobInv(q) /\ job'[q] = job[q] /\ clock' = clock /\ job[q] \in Job /\ clock \in Nat
  BY DEF Steady, TypeOK
<1>1. \A k \in Made : k \in Keys /\ k \in Made' /\ born'[k] = born[k] /\ born[k] \in Nat
  BY DEF Made, Steady, TypeOK
<1>2. IssueInv(q)'
  <2>1. ASSUME job[q].pc = "register", job[q].key \in live' PROVE job[q].key \in tracked'
    <3>1. job[q].key \in Keys /\ q \in Issuers /\ job[q].key # None
      BY <1>0, <2>1 DEF JobInv, IssueInv, Issuing, Holding
    <3>2. InFlight(job[q].key) /\ job[q].key \in Made
      BY <3>1, Young DEF InFlight
    <3>3. job[q].key \in live /\ job[q].key \in tracked
      BY <1>0, <2>1, <3>1, <3>2 DEF JobInv, IssueInv, Steady
    <3>4. lease[job[q].key] = "none"
      BY <3>1, <3>2 DEF KeyInv, TypeOK
    <3> QED
      BY <3>1, <3>3, <3>4 DEF Steady
  <2>2. ASSUME job[q].pc \in Holding PROVE born'[job[q].key] = job[q].at
    <3>1. job[q].key \in Keys /\ born[job[q].key] = job[q].at /\ job[q].at # None
      BY <1>0, <2>2, ProcAssumption DEF JobInv, IssueInv, Job
    <3> QED
      BY <1>1, <3>1 DEF Made
  <2> QED
    BY <1>0, <2>1, <2>2 DEF JobInv, IssueInv
<1>3. RevokeInv(q)'
  <2>1. ASSUME job[q].pc \in {"revoke", "forget"}
        PROVE  /\ q \in Revokers /\ job[q].key \in Keys /\ lease'[job[q].key] = "ending"
               /\ job[q].key \notin live => job[q].key \notin live'
    <3>1. q \in Revokers /\ job[q].key \in Keys /\ lease[job[q].key] = "ending"
      BY <1>0, <2>1 DEF JobInv, RevokeInv
    <3>2. job[q].key \in Made
      BY <3>1 DEF KeyInv
    <3> QED
      BY <3>1, <3>2 DEF Steady
  <2> QED
    BY <1>0, <2>1 DEF JobInv, RevokeInv
<1>4. ReconcileInv(q)'
  BY <1>0, <1>1 DEF JobInv, ReconcileInv, Steady
<1>5. PurgeInv(q)'
  <2>1. ASSUME job[q].pc \in {"purge", "drop"}, NEW k \in tracked', Old(k, job[q].at)'
        PROVE  k \in job[q].left
    <3>1. k \in Keys /\ (k \in tracked \/ InFlight(k))
      BY <2>1 DEF Steady, TypeOK
    <3>2. k \in Made /\ born'[k] = born[k] /\ born[k] \in Nat
      BY <1>1, <3>1, Young DEF KeyInv
    <3>3. job[q].at \in Nat /\ job[q].at <= clock
      BY <1>0, <2>1 DEF JobInv, PurgeInv, Job
    <3>4. Old(k, job[q].at)
      BY <1>0, <2>1, <3>2 DEF Old
    <3>5. ~InFlight(k)
      BY <1>0, <3>1, <3>2, <3>3, <3>4, Young, BoundAssumption DEF Old
    <3> QED
      BY <1>0, <2>1, <3>1, <3>4, <3>5 DEF JobInv, PurgeInv
  <2> QED
    BY <1>0, <1>1, <2>1 DEF JobInv, PurgeInv, Made, Steady
<1> QED
  BY <1>0, <1>2, <1>3, <1>4, <1>5 DEF JobInv

\* When one goroutine moves, a key can only have come into its own hands.
LEMMA FlightStep ==
    ASSUME NEW p \in Procs, \A q \in Procs \ {p} : job'[q] = job[q]
    PROVE  \A k : InFlight(k)' => InFlight(k) \/ (p \in Issuers /\ job'[p].key = k)
<1> SUFFICES ASSUME NEW k, NEW q \in Issuers, job'[q].key = k PROVE InFlight(k) \/ (p \in Issuers /\ job'[p].key = k)
  BY DEF InFlight
<1>1. CASE q = p
  BY <1>1
<1>2. CASE q # p
  <2>1. job'[q] = job[q]
    BY <1>2 DEF Procs
  <2>2. q \in Issuers /\ job[q].key = k
    BY <2>1
  <2>3. InFlight(k)
    BY <2>2 DEF InFlight
  <2> QED
    BY <2>3
<1> QED
  BY <1>1, <1>2

\* What is true of the goroutine p alone, of every key and of the intent after
\* the step makes the invariant true again.
HandlesOwn(p) ==
    \/ job'[p].key \in {None, job[p].key} \/ p \in Reconcilers \cup Purgers
    \/ \A q \in Issuers \cup Revokers : job[q].key # job'[p].key

LEMMA HandlersKept ==
    ASSUME IInv, NEW p \in Procs, HandlesOwn(p), \A q \in Procs \ {p} : job'[q] = job[q]
    PROVE  OneHandler'
<1> SUFFICES ASSUME NEW S \in {Issuers, Revokers}, NEW q \in S, NEW r \in S,
                    job'[q].key # None, job'[q].key = job'[r].key
             PROVE  q = r
  BY DEF OneHandler
<1>1. q \in Procs /\ r \in Procs /\ q \notin Reconcilers \cup Purgers /\ r \notin Reconcilers \cup Purgers
  BY ProcAssumption DEF Procs
<1>2. CASE q # p /\ r # p
  BY <1>1, <1>2 DEF IInv, OneHandler
<1>3. CASE q = p /\ r # p
  BY <1>1, <1>3 DEF IInv, OneHandler, HandlesOwn
<1>4. CASE r = p /\ q # p
  BY <1>1, <1>4 DEF IInv, OneHandler, HandlesOwn
<1> QED
  BY <1>2, <1>3, <1>4

LEMMA Together ==
    ASSUME IInv, NEW p \in Procs, TypeOK', Steady({p}), HandlesOwn(p), JobInv(p)',
           \A h \in Keys : KeyInv(h)', IntentInv'
    PROVE  IInv'
<1>1. \A q \in Procs : JobInv(q)'
  BY OthersKeep
<1>2. OneHandler'
  BY HandlersKept DEF Steady
<1> QED
  BY <1>1, <1>2 DEF IInv

\* A purge that is complete stays so: what is tracked later was asked for later.
LEMMA IntentKept ==
    ASSUME IInv, TypeOK', NEW P, Steady(P), intent' = intent
    PROVE  IntentInv'
<1> TypeOK /\ IntentInv /\ (\A p \in Procs : JobInv(p)) /\ (\A h \in Keys : KeyInv(h))
  BY DEF IInv
<1> SUFFICES ASSUME intent # None, intent.complete, NEW k \in tracked' PROVE ~Old(k, intent.cutoff)'
  BY DEF IntentInv, Steady
<1>1. intent.cutoff \in Nat /\ intent.cutoff <= clock /\ clock \in Nat
  BY DEF IntentInv, TypeOK, Intent
<1>2. k \in Keys /\ (k \in tracked \/ InFlight(k))
  BY DEF TypeOK, Steady
<1>3. k \in Made /\ born[k] \in Nat /\ born'[k] = born[k]
  <2>1. k \in Made
    BY <1>2, Young DEF KeyInv
  <2> QED
    BY <2>1 DEF Made, Steady, TypeOK
<1>4. CASE k \in tracked
  BY <1>3, <1>4 DEF IntentInv, Old
<1>5. CASE InFlight(k)
  BY <1>1, <1>2, <1>3, <1>5, Young, BoundAssumption DEF Old
<1> QED
  BY <1>2, <1>4, <1>5

\* A step that changes no record of any key.
Untouched == UNCHANGED <<clock, live, born, tracked, ledger, lease, unrecorded>>

LEMMA UntouchedKeys ==
    ASSUME IInv, Untouched, NEW p \in Procs, \A q \in Procs \ {p} : job'[q] = job[q],
           p \in Issuers => job'[p].key = None /\ ~At(p, "record")
    PROVE  /\ Steady({p})
           /\ \A h \in Keys : KeyInv(h)'
<1>1. \A k \in Keys : InFlight(k)' => InFlight(k)
  BY ProcAssumption DEF InFlight, Procs
<1>2. Steady({p})
  BY <1>1 DEF Steady, Untouched
<1>3. ASSUME NEW k \in Keys PROVE KeyInv(k)'
  <2>1. KeyInv(k)
    BY DEF IInv
  <2>2. (\E q \in Issuers : At(q, "record") /\ job[q].key = k) =>
           (\E q \in Issuers : At(q, "record") /\ job[q].key = k)'
    BY DEF At, Procs
  <2> QED
    BY <1>1, <2>1, <2>2 DEF KeyInv, Untouched, Made
<1> QED
  BY <1>2, <1>3

\* Nor need anybody move.
LEMMA NobodyMoves ==
    ASSUME IInv, TypeOK', Steady({}), \A h \in Keys : KeyInv(h)', intent' = intent
    PROVE  IInv'
<1>1. \A q \in Procs : JobInv(q)'
  BY OthersKeep
<1>2. IntentInv'
  BY IntentKept
<1>3. OneHandler'
  BY DEF Steady, IInv, OneHandler, Procs
<1> QED
  BY <1>1, <1>2, <1>3 DEF IInv

LEMMA InitInv == Init => IInv
<1> SUFFICES ASSUME Init PROVE IInv
  OBVIOUS
<1>1. TypeOK
  BY IdleOK, BoundAssumption DEF Init, TypeOK
<1>2. \A p \in Procs : job[p] = Idle
  BY DEF Init
<1>3. \A p \in Procs : JobInv(p)
  BY <1>2 DEF JobInv, IssueInv, RevokeInv, ReconcileInv, PurgeInv, Idle, Issuing, Holding
<1>4. \A h \in Keys : KeyInv(h)
  BY DEF Init, KeyInv, Made
<1>5. OneHandler /\ IntentInv
  BY <1>2 DEF Init, OneHandler, IntentInv, Idle, Procs
<1> QED
  BY <1>1, <1>3, <1>4, <1>5 DEF IInv

\* Each action keeps the invariant.
LEMMA NextInv == IInv /\ [Next]_vars => IInv'
<1> SUFFICES ASSUME IInv, [Next]_vars PROVE IInv'
  OBVIOUS
<1> TypeOK /\ OneHandler /\ IntentInv /\ (\A p \in Procs : JobInv(p)) /\ (\A h \in Keys : KeyInv(h))
  BY DEF IInv
<1> USE DEF cloud, storage, minters, bounds, CallFails, Act
<1>1. ASSUME NEW p \in Procs, Issue(p) PROVE IInv'
  <2>m. PICK m \in Minters : job' = [job EXCEPT ![p].pc = "create", ![p].by = m, ![p].at = clock]
    BY <1>1 DEF Issue, Healthy, TypeOK
  <2> DEFINE j == [job[p] EXCEPT !.pc = "create", !.by = m, !.at = clock]
  <2>0. job[p] \in Job /\ JobInv(p)
    BY DEF TypeOK
  <2>01. p \in Issuers /\ job[p].key = None
    BY <1>1, <2>0, ProcAssumption DEF Issue, At, JobInv, IssueInv, RevokeInv, ReconcileInv, PurgeInv, Issuing, Holding, Made, InFlight, Job, KeyInv, Idle
  <2>1. job' = [job EXCEPT ![p] = j]
    BY <2>m DEF TypeOK
  <2>2. j \in Job
    BY <1>1, <2>0, <2>01, IdleOK, BoundAssumption DEF Issue, At, Job, TypeOK
  <2>3. job'[p] = j /\ \A q \in Procs \ {p} : job'[q] = job[q]
    BY <2>1, <2>2 DEF TypeOK
  <2>31. job'[p].key = job[p].key
    BY <2>0, <2>3, IdleOK DEF Job
  <2>4. TypeOK'
    <3>1. job' \in [Procs -> Job]
      <4> HIDE DEF j
      <4> QED
        BY <2>1, <2>2 DEF TypeOK
    <3> QED
      BY <1>1, <2>01, <3>1, BoundAssumption DEF Issue, Fault, TypeOK
  <2>5. HandlesOwn(p)
    BY <2>0, <2>01, <2>3 DEF HandlesOwn, Job, Idle
  <2>60. Untouched
    BY <1>1 DEF Issue, Untouched, Fault
  <2>61. p \in Issuers => job'[p].key = None /\ ~At(p, "record")
    BY <1>1, <2>0, <2>01, <2>31 DEF Issue, At, Procs
  <2>6. Steady({p}) /\ \A h \in Keys : KeyInv(h)'
    BY <2>3, <2>60, <2>61, UntouchedKeys
  <2>7. JobInv(p)'
    BY <1>1, <2>0, <2>3, IdleOK, BoundAssumption DEF Issue, At, Job, Idle, TypeOK, JobInv, IssueInv, RevokeInv, ReconcileInv, PurgeInv, Issuing, Holding
  <2>8. IntentInv'
    BY <1>1, <2>4, <2>6, IntentKept DEF Issue, Fault
  <2> QED
    BY <2>4, <2>5, <2>6, <2>7, <2>8, Together
<1>2. ASSUME NEW p \in Procs, NEW k \in Keys, CreateAPIKey(p, k) PROVE IInv'
  <2> DEFINE j == [job[p] EXCEPT !.pc = "record", !.key = k]
  <2>0. job[p] \in Job /\ JobInv(p)
    BY DEF TypeOK
  <2>01. p \in Issuers /\ k \notin Made /\ job[p].key = None /\ job[p].at \in Nat
    BY <1>2, <2>0, ProcAssumption DEF CreateAPIKey, At, JobInv, IssueInv, RevokeInv, ReconcileInv, PurgeInv, Issuing, Holding, Made, InFlight, Job, KeyInv, NewKey
  <2>1. job' = [job EXCEPT ![p] = j]
    BY <1>2 DEF CreateAPIKey, Finish, TypeOK
  <2>2. j \in Job
    BY <1>2, <2>0, <2>01, IdleOK, BoundAssumption, ProcAssumption DEF CreateAPIKey, At, Job, TypeOK, NewKey
  <2>3. job'[p] = j /\ \A q \in Procs \ {p} : job'[q] = job[q]
    BY <2>1, <2>2 DEF TypeOK
  <2>4. TypeOK'
    <3>1. job' \in [Procs -> Job]
      <4> HIDE DEF j
      <4> QED
        BY <2>1, <2>2 DEF TypeOK
    <3> QED
      BY <1>2, <2>0, <2>01, <3>1, BoundAssumption DEF CreateAPIKey, Fault, TypeOK, NewKey, Job
  <2>5. HandlesOwn(p)
    BY <2>0, <2>01, <2>3, <1>2, Young DEF HandlesOwn, Job, Idle, InFlight, CreateAPIKey, NewKey, Made, JobInv, RevokeInv, KeyInv, TypeOK, Procs
  <2>61. \A h \in Keys : InFlight(h)' => InFlight(h) \/ h = k
    BY <2>0, <2>01, <2>3, FlightStep, IdleOK, ProcAssumption, ZenonT(30) DEF Job
  <2>62. Steady({p})
    BY <1>2, <2>0, <2>01, <2>3, <2>61, IdleOK DEF CreateAPIKey, Fault, Steady, At, KeyInv, TypeOK, Made, IssueInv, RevokeInv, ReconcileInv, PurgeInv, Issuing, Holding, NewKey
  <2>63. \A h \in Keys : (\E q \in Issuers : At(q, "record") /\ job[q].key = h) => (\E q \in Issuers : At(q, "record") /\ job[q].key = h)'
    BY <1>2, <2>0, <2>01, <2>3, ProcAssumption DEF CreateAPIKey, At, Procs, Idle, Job, JobInv, IssueInv, RevokeInv, ReconcileInv, PurgeInv, Issuing, Holding
  <2>64. \A h \in Keys : KeyInv(h)'
    BY <1>2, <2>0, <2>01, <2>3, <2>61, <2>63, ProcAssumption DEF CreateAPIKey, NewKey, Fault, KeyInv, Made, At, TypeOK, JobInv, IssueInv, RevokeInv, ReconcileInv, PurgeInv, Issuing, Holding, Job
  <2>6. Steady({p}) /\ \A h \in Keys : KeyInv(h)'
    BY <2>62, <2>64
  <2>7. JobInv(p)'
    BY <1>2, <2>0, <2>3, IdleOK, BoundAssumption, ProcAssumption DEF CreateAPIKey, At, Job, Idle, TypeOK, JobInv, IssueInv, RevokeInv, ReconcileInv, PurgeInv, Issuing, Holding, NewKey, Made
  <2>8. IntentInv'
    BY <1>2, <2>4, <2>6, IntentKept DEF CreateAPIKey, Fault
  <2> QED
    BY <2>4, <2>5, <2>6, <2>7, <2>8, Together
<1>3. ASSUME NEW p \in Procs, NEW k \in Keys, CreateFail(p, k) PROVE IInv'
  <2>1. CASE UNCHANGED <<cloud, unrecorded>>
    <3> DEFINE j == Idle
    <3>0. job[p] \in Job /\ JobInv(p)
      BY DEF TypeOK
    <3>01. At(p, "create")
      BY <1>3, <2>1, <3>0, ProcAssumption DEF CreateFail, At, JobInv, IssueInv, RevokeInv, ReconcileInv, PurgeInv, Issuing, Holding, Made, InFlight, Job, KeyInv
    <3>1. job' = [job EXCEPT ![p] = j]
      BY <1>3, <2>1 DEF CreateFail, Finish, TypeOK
    <3>2. j \in Job
      BY <1>3, <2>1, <3>0, <3>01, IdleOK, BoundAssumption DEF CreateFail, At, Job, TypeOK
    <3>3. job'[p] = j /\ \A q \in Procs \ {p} : job'[q] = job[q]
      BY <3>1, <3>2 DEF TypeOK
    <3>4. TypeOK'
      <4>1. job' \in [Procs -> Job]
        <5> HIDE DEF j
        <5> QED
          BY <3>1, <3>2 DEF TypeOK
      <4> QED
        BY <1>3, <2>1, <3>01, <4>1, BoundAssumption DEF CreateFail, Fault, TypeOK
    <3>5. HandlesOwn(p)
      BY <3>0, <3>01, <3>3 DEF HandlesOwn, Job, Idle
    <3>60. Untouched
      BY <1>3, <2>1 DEF CreateFail, Untouched, Fault
    <3>61. p \in Issuers => job'[p].key = None /\ ~At(p, "record")
      BY <1>3, <2>1, <3>0, <3>01, <3>3, IdleOK DEF CreateFail, At, Procs, Job
    <3>6. Steady({p}) /\ \A h \in Keys : KeyInv(h)'
      BY <3>3, <3>60, <3>61, UntouchedKeys
    <3>7. JobInv(p)'
      BY <1>3, <2>1, <3>0, <3>3, IdleOK, BoundAssumption DEF CreateFail, At, Job, Idle, TypeOK, JobInv, IssueInv, RevokeInv, ReconcileInv, PurgeInv, Issuing, Holding
    <3>8. IntentInv'
      BY <1>3, <2>1, <3>4, <3>6, IntentKept DEF CreateFail, Fault
    <3> QED
      BY <3>4, <3>5, <3>6, <3>7, <3>8, Together
  <2>2. CASE NewKey(p, k) /\ unrecorded' = unrecorded \cup {k}
    <3> DEFINE j == Idle
    <3>0. job[p] \in Job /\ JobInv(p)
      BY DEF TypeOK
    <3>01. k \notin Made /\ ~InFlight(k) /\ job[p].at \in Nat
      BY <1>3, <2>2, <3>0, ProcAssumption, Young DEF CreateFail, At, JobInv, IssueInv, RevokeInv, ReconcileInv, PurgeInv, Issuing, Holding, Made, InFlight, Job, KeyInv, NewKey
    <3>1. job' = [job EXCEPT ![p] = j]
      BY <1>3, <2>2 DEF CreateFail, Finish, TypeOK
    <3>2. j \in Job
      BY <1>3, <2>2, <3>0, <3>01, IdleOK, BoundAssumption DEF CreateFail, At, Job, TypeOK, NewKey
    <3>3. job'[p] = j /\ \A q \in Procs \ {p} : job'[q] = job[q]
      BY <3>1, <3>2 DEF TypeOK
    <3>4. TypeOK'
      <4>1. job' \in [Procs -> Job]
        <5> HIDE DEF j
        <5> QED
          BY <3>1, <3>2 DEF TypeOK
      <4> QED
        BY <1>3, <2>2, <3>0, <3>01, <4>1, BoundAssumption DEF CreateFail, Fault, TypeOK, NewKey, Job
    <3>5. HandlesOwn(p)
      BY <3>0, <3>01, <3>3 DEF HandlesOwn, Job, Idle
    <3>61. \A h \in Keys : InFlight(h)' => InFlight(h)
      BY <3>0, <3>01, <3>3, FlightStep, IdleOK, ProcAssumption DEF Job
    <3>62. Steady({p})
      BY <1>3, <2>2, <3>0, <3>01, <3>3, <3>61, IdleOK DEF CreateFail, Fault, Steady, At, KeyInv, TypeOK, Made, NewKey
    <3>63. \A h \in Keys : (\E q \in Issuers : At(q, "record") /\ job[q].key = h) => (\E q \in Issuers : At(q, "record") /\ job[q].key = h)'
      BY <1>3, <2>2, <3>0, <3>01, <3>3, ProcAssumption DEF CreateFail, At, Procs, Idle, Job, JobInv, IssueInv, RevokeInv, ReconcileInv, PurgeInv, Issuing, Holding
    <3>64. \A h \in Keys : KeyInv(h)'
      BY <1>3, <2>2, <3>0, <3>01, <3>3, <3>61, <3>63, ProcAssumption DEF CreateFail, NewKey, Fault, KeyInv, Made, At, TypeOK
    <3>6. Steady({p}) /\ \A h \in Keys : KeyInv(h)'
      BY <3>62, <3>64
    <3>7. JobInv(p)'
      BY <1>3, <2>2, <3>0, <3>3, IdleOK, BoundAssumption DEF CreateFail, At, Job, Idle, TypeOK, JobInv, IssueInv, RevokeInv, ReconcileInv, PurgeInv, Issuing, Holding
    <3>8. IntentInv'
      BY <1>3, <2>2, <3>4, <3>6, IntentKept DEF CreateFail, Fault
    <3> QED
      BY <3>4, <3>5, <3>6, <3>7, <3>8, Together
  <2> QED
    BY <1>3, <2>1, <2>2 DEF CreateFail
<1>4. ASSUME NEW p \in Procs, Record(p) PROVE IInv'
  <2>1. CASE ledger' = [ledger EXCEPT ![job[p].key] = job[p].at] /\ UNCHANGED <<unrecorded, bounds>>
    <3> DEFINE j == [job[p] EXCEPT !.pc = "track"]
    <3>0. job[p] \in Job /\ JobInv(p)
      BY DEF TypeOK
    <3>01. p \in Issuers /\ job[p].key \in Made /\ job[p].key \in Keys /\ InFlight(job[p].key) /\ job[p].at = born[job[p].key] /\ job[p].at \in Nat
      BY <1>4, <2>1, <3>0, ProcAssumption DEF Record, At, JobInv, IssueInv, RevokeInv, ReconcileInv, PurgeInv, Issuing, Holding, Made, InFlight, Job, KeyInv
    <3>1. job' = [job EXCEPT ![p] = j]
      BY <1>4, <2>1 DEF Record, Finish, TypeOK
    <3>2. j \in Job
      BY <1>4, <2>1, <3>0, <3>01, IdleOK, BoundAssumption DEF Record, At, Job, TypeOK
    <3>3. job'[p] = j /\ \A q \in Procs \ {p} : job'[q] = job[q]
      BY <3>1, <3>2 DEF TypeOK
    <3>4. TypeOK'
      <4>1. job' \in [Procs -> Job]
        <5> HIDE DEF j
        <5> QED
          BY <3>1, <3>2 DEF TypeOK
      <4> QED
        BY <1>4, <2>1, <3>01, <4>1, BoundAssumption DEF Record, Fault, TypeOK
    <3>5. HandlesOwn(p)
      BY <3>0, <3>01, <3>3 DEF HandlesOwn, Job, Idle
    <3>61. \A h \in Keys : InFlight(h)' => InFlight(h)
      BY <3>0, <3>01, <3>3, FlightStep, IdleOK, ProcAssumption DEF Job
    <3>62. Steady({p})
      BY <1>4, <2>1, <3>0, <3>01, <3>3, <3>61, IdleOK DEF Record, Fault, Steady, At, KeyInv, TypeOK, Made
    <3>63. \A h \in Keys : (\E q \in Issuers : At(q, "record") /\ job[q].key = h) => (\E q \in Issuers : At(q, "record") /\ job[q].key = h)' \/ h = job[p].key
      BY <1>4, <2>1, <3>0, <3>01, <3>3, ProcAssumption DEF Record, At, Procs, Idle, Job, JobInv, IssueInv, RevokeInv, ReconcileInv, PurgeInv, Issuing, Holding
    <3>64. \A h \in Keys : KeyInv(h)'
      BY <1>4, <2>1, <3>0, <3>01, <3>3, <3>61, <3>63, ProcAssumption DEF Record, NewKey, Fault, KeyInv, Made, At, TypeOK
    <3>6. Steady({p}) /\ \A h \in Keys : KeyInv(h)'
      BY <3>62, <3>64
    <3>7. JobInv(p)'
      BY <1>4, <2>1, <3>0, <3>3, IdleOK, BoundAssumption DEF Record, At, Job, Idle, TypeOK, JobInv, IssueInv, RevokeInv, ReconcileInv, PurgeInv, Issuing, Holding
    <3>8. IntentInv'
      BY <1>4, <2>1, <3>4, <3>6, IntentKept DEF Record, Fault
    <3> QED
      BY <3>4, <3>5, <3>6, <3>7, <3>8, Together
  <2>2. CASE Fault /\ unrecorded' = unrecorded \cup {job[p].key} /\ UNCHANGED ledger
    <3> DEFINE j == [job[p] EXCEPT !.pc = "track"]
    <3>0. job[p] \in Job /\ JobInv(p)
      BY DEF TypeOK
    <3>01. p \in Issuers /\ job[p].key \in Made /\ job[p].key \in Keys /\ InFlight(job[p].key)
      BY <1>4, <2>2, <3>0, ProcAssumption DEF Record, At, JobInv, IssueInv, RevokeInv, ReconcileInv, PurgeInv, Issuing, Holding, Made, InFlight, Job, KeyInv
    <3>1. job' = [job EXCEPT ![p] = j]
      BY <1>4, <2>2 DEF Record, Finish, TypeOK
    <3>2. j \in Job
      BY <1>4, <2>2, <3>0, <3>01, IdleOK, BoundAssumption DEF Record, At, Job, TypeOK
    <3>3. job'[p] = j /\ \A q \in Procs \ {p} : job'[q] = job[q]
      BY <3>1, <3>2 DEF TypeOK
    <3>4. TypeOK'
      <4>1. job' \in [Procs -> Job]
        <5> HIDE DEF j
        <5> QED
          BY <3>1, <3>2 DEF TypeOK
      <4> QED
        BY <1>4, <2>2, <3>01, <4>1, BoundAssumption DEF Record, Fault, TypeOK
    <3>5. HandlesOwn(p)
      BY <3>0, <3>01, <3>3 DEF HandlesOwn, Job, Idle
    <3>61. \A h \in Keys : InFlight(h)' => InFlight(h)
      BY <3>0, <3>01, <3>3, FlightStep, IdleOK, ProcAssumption DEF Job
    <3>62. Steady({p})
      BY <1>4, <2>2, <3>0, <3>01, <3>3, <3>61, IdleOK DEF Record, Fault, Steady, At, KeyInv, TypeOK, Made
    <3>63. \A h \in Keys : (\E q \in Issuers : At(q, "record") /\ job[q].key = h) => (\E q \in Issuers : At(q, "record") /\ job[q].key = h)' \/ h = job[p].key
      BY <1>4, <2>2, <3>0, <3>01, <3>3, ProcAssumption DEF Record, At, Procs, Idle, Job, JobInv, IssueInv, RevokeInv, ReconcileInv, PurgeInv, Issuing, Holding
    <3>64. \A h \in Keys : KeyInv(h)'
      BY <1>4, <2>2, <3>0, <3>01, <3>3, <3>61, <3>63 DEF Record, NewKey, Fault, KeyInv, Made, At, TypeOK
    <3>6. Steady({p}) /\ \A h \in Keys : KeyInv(h)'
      BY <3>62, <3>64
    <3>7. JobInv(p)'
      BY <1>4, <2>2, <3>0, <3>3, IdleOK, BoundAssumption DEF Record, At, Job, Idle, TypeOK, JobInv, IssueInv, RevokeInv, ReconcileInv, PurgeInv, Issuing, Holding
    <3>8. IntentInv'
      BY <1>4, <2>2, <3>4, <3>6, IntentKept DEF Record, Fault
    <3> QED
      BY <3>4, <3>5, <3>6, <3>7, <3>8, Together
  <2> QED
    BY <1>4, <2>1, <2>2 DEF Record
<1>5. ASSUME NEW p \in Procs, TrackActiveKey(p) PROVE IInv'
  <2>1. CASE tracked' = tracked \cup {job[p].key} /\ UNCHANGED bounds /\ job' = [job EXCEPT ![p].pc = "register"]
    <3> DEFINE j == [job[p] EXCEPT !.pc = "register"]
    <3>0. job[p] \in Job /\ JobInv(p)
      BY DEF TypeOK
    <3>01. p \in Issuers /\ job[p].key \in Made /\ job[p].key \in Keys /\ InFlight(job[p].key)
      BY <1>5, <2>1, <3>0, ProcAssumption DEF TrackActiveKey, At, JobInv, IssueInv, RevokeInv, ReconcileInv, PurgeInv, Issuing, Holding, Made, InFlight, Job, KeyInv
    <3>1. job' = [job EXCEPT ![p] = j]
      BY <1>5, <2>1 DEF TrackActiveKey, Finish, TypeOK
    <3>2. j \in Job
      BY <1>5, <2>1, <3>0, <3>01, IdleOK, BoundAssumption DEF TrackActiveKey, At, Job, TypeOK
    <3>3. job'[p] = j /\ \A q \in Procs \ {p} : job'[q] = job[q]
      BY <3>1, <3>2 DEF TypeOK
    <3>4. TypeOK'
      <4>1. job' \in [Procs -> Job]
        <5> HIDE DEF j
        <5> QED
          BY <3>1, <3>2 DEF TypeOK
      <4> QED
        BY <1>5, <2>1, <3>01, <4>1, BoundAssumption DEF TrackActiveKey, Fault, TypeOK
    <3>5. HandlesOwn(p)
      BY <3>0, <3>01, <3>3 DEF HandlesOwn, Job, Idle
    <3>61. \A h \in Keys : InFlight(h)' => InFlight(h)
      BY <3>0, <3>01, <3>3, FlightStep, IdleOK, ProcAssumption DEF Job
    <3>62. Steady({p})
      BY <1>5, <2>1, <3>0, <3>01, <3>3, <3>61, IdleOK DEF TrackActiveKey, Fault, Steady, At, KeyInv, TypeOK, Made
    <3>63. \A h \in Keys : (\E q \in Issuers : At(q, "record") /\ job[q].key = h) => (\E q \in Issuers : At(q, "record") /\ job[q].key = h)'
      BY <1>5, <2>1, <3>0, <3>01, <3>3, ProcAssumption DEF TrackActiveKey, At, Procs, Idle, Job, JobInv, IssueInv, RevokeInv, ReconcileInv, PurgeInv, Issuing, Holding
    <3>64. \A h \in Keys : KeyInv(h)'
      BY <1>5, <2>1, <3>0, <3>01, <3>3, <3>61, <3>63 DEF TrackActiveKey, NewKey, Fault, KeyInv, Made, At, TypeOK
    <3>6. Steady({p}) /\ \A h \in Keys : KeyInv(h)'
      BY <3>62, <3>64
    <3>7. JobInv(p)'
      BY <1>5, <2>1, <3>0, <3>3, IdleOK, BoundAssumption DEF TrackActiveKey, At, Job, Idle, TypeOK, JobInv, IssueInv, RevokeInv, ReconcileInv, PurgeInv, Issuing, Holding
    <3>8. IntentInv'
      BY <1>5, <2>1, <3>4, <3>6, IntentKept DEF TrackActiveKey, Fault
    <3> QED
      BY <3>4, <3>5, <3>6, <3>7, <3>8, Together
  <2>2. CASE Fault /\ job' = [job EXCEPT ![p].pc = "undo"] /\ UNCHANGED tracked
    <3> DEFINE j == [job[p] EXCEPT !.pc = "undo"]
    <3>0. job[p] \in Job /\ JobInv(p)
      BY DEF TypeOK
    <3>01. p \in Issuers /\ job[p].key \in Made /\ job[p].key \in Keys /\ InFlight(job[p].key)
      BY <1>5, <2>2, <3>0, ProcAssumption DEF TrackActiveKey, At, JobInv, IssueInv, RevokeInv, ReconcileInv, PurgeInv, Issuing, Holding, Made, InFlight, Job, KeyInv
    <3>1. job' = [job EXCEPT ![p] = j]
      BY <1>5, <2>2 DEF TrackActiveKey, Finish, TypeOK
    <3>2. j \in Job
      BY <1>5, <2>2, <3>0, <3>01, IdleOK, BoundAssumption DEF TrackActiveKey, At, Job, TypeOK
    <3>3. job'[p] = j /\ \A q \in Procs \ {p} : job'[q] = job[q]
      BY <3>1, <3>2 DEF TypeOK
    <3>4. TypeOK'
      <4>1. job' \in [Procs -> Job]
        <5> HIDE DEF j
        <5> QED
          BY <3>1, <3>2 DEF TypeOK
      <4> QED
        BY <1>5, <2>2, <3>01, <4>1, BoundAssumption DEF TrackActiveKey, Fault, TypeOK
    <3>5. HandlesOwn(p)
      BY <3>0, <3>01, <3>3 DEF HandlesOwn, Job, Idle
    <3>61. \A h \in Keys : InFlight(h)' => InFlight(h)
      BY <3>0, <3>01, <3>3, FlightStep, IdleOK, ProcAssumption DEF Job
    <3>62. Steady({p})
      BY <1>5, <2>2, <3>0, <3>01, <3>3, <3>61, IdleOK DEF TrackActiveKey, Fault, Steady, At, KeyInv, TypeOK, Made
    <3>63. \A h \in Keys : (\E q \in Issuers : At(q, "record") /\ job[q].key = h) => (\E q \in Issuers : At(q, "record") /\ job[q].key = h)'
      BY <1>5, <2>2, <3>0, <3>01, <3>3, ProcAssumption DEF TrackActiveKey, At, Procs, Idle, Job, JobInv, IssueInv, RevokeInv, ReconcileInv, PurgeInv, Issuing, Holding
    <3>64. \A h \in Keys : KeyInv(h)'
      BY <1>5, <2>2, <3>0, <3>01, <3>3, <3>61, <3>63 DEF TrackActiveKey, NewKey, Fault, KeyInv, Made, At, TypeOK
    <3>6. Steady({p}) /\ \A h \in Keys : KeyInv(h)'
      BY <3>62, <3>64
    <3>7. JobInv(p)'
      BY <1>5, <2>2, <3>0, <3>3, IdleOK, BoundAssumption DEF TrackActiveKey, At, Job, Idle, TypeOK, JobInv, IssueInv, RevokeInv, ReconcileInv, PurgeInv, Issuing, Holding
    <3>8. IntentInv'
      BY <1>5, <2>2, <3>4, <3>6, IntentKept DEF TrackActiveKey, Fault
    <3> QED
      BY <3>4, <3>5, <3>6, <3>7, <3>8, Together
  <2> QED
    BY <1>5, <2>1, <2>2 DEF TrackActiveKey
<1>6. ASSUME NEW p \in Procs, Undo(p) PROVE IInv'
  <2>1. CASE job[p].by \in accepted /\ live' = live \ {job[p].key} /\ UNCHANGED bounds
    <3> DEFINE j == Idle
    <3>0. job[p] \in Job /\ JobInv(p)
      BY DEF TypeOK
    <3>01. p \in Issuers /\ job[p].key \in Made /\ job[p].key \in Keys /\ InFlight(job[p].key)
      BY <1>6, <2>1, <3>0, ProcAssumption DEF Undo, At, JobInv, IssueInv, RevokeInv, ReconcileInv, PurgeInv, Issuing, Holding, Made, InFlight, Job, KeyInv
    <3>1. job' = [job EXCEPT ![p] = j]
      BY <1>6, <2>1 DEF Undo, Finish, TypeOK
    <3>2. j \in Job
      BY <1>6, <2>1, <3>0, <3>01, IdleOK, BoundAssumption DEF Undo, At, Job, TypeOK
    <3>3. job'[p] = j /\ \A q \in Procs \ {p} : job'[q] = job[q]
      BY <3>1, <3>2 DEF TypeOK
    <3>4. TypeOK'
      <4>1. job' \in [Procs -> Job]
        <5> HIDE DEF j
        <5> QED
          BY <3>1, <3>2 DEF TypeOK
      <4> QED
        BY <1>6, <2>1, <3>01, <4>1, BoundAssumption DEF Undo, Fault, TypeOK
    <3>5. HandlesOwn(p)
      BY <3>0, <3>01, <3>3 DEF HandlesOwn, Job, Idle
    <3>61. \A h \in Keys : InFlight(h)' => InFlight(h)
      BY <3>0, <3>01, <3>3, FlightStep, IdleOK, ProcAssumption DEF Job
    <3>62. Steady({p})
      BY <1>6, <2>1, <3>0, <3>01, <3>3, <3>61, IdleOK DEF Undo, Fault, Steady, At, KeyInv, TypeOK, Made
    <3>63. \A h \in Keys : (\E q \in Issuers : At(q, "record") /\ job[q].key = h) => (\E q \in Issuers : At(q, "record") /\ job[q].key = h)'
      BY <1>6, <2>1, <3>0, <3>01, <3>3, ProcAssumption DEF Undo, At, Procs, Idle, Job, JobInv, IssueInv, RevokeInv, ReconcileInv, PurgeInv, Issuing, Holding
    <3>64. \A h \in Keys : KeyInv(h)'
      BY <1>6, <2>1, <3>0, <3>01, <3>3, <3>61, <3>63 DEF Undo, NewKey, Fault, KeyInv, Made, At, TypeOK
    <3>6. Steady({p}) /\ \A h \in Keys : KeyInv(h)'
      BY <3>62, <3>64
    <3>7. JobInv(p)'
      BY <1>6, <2>1, <3>0, <3>3, IdleOK, BoundAssumption DEF Undo, At, Job, Idle, TypeOK, JobInv, IssueInv, RevokeInv, ReconcileInv, PurgeInv, Issuing, Holding
    <3>8. IntentInv'
      BY <1>6, <2>1, <3>4, <3>6, IntentKept DEF Undo, Fault
    <3> QED
      BY <3>4, <3>5, <3>6, <3>7, <3>8, Together
  <2>2. CASE CallFails(job[p].by) /\ UNCHANGED live
    <3> DEFINE j == Idle
    <3>0. job[p] \in Job /\ JobInv(p)
      BY DEF TypeOK
    <3>01. p \in Issuers /\ job[p].key \in Made /\ job[p].key \in Keys /\ InFlight(job[p].key)
      BY <1>6, <2>2, <3>0, ProcAssumption DEF Undo, At, JobInv, IssueInv, RevokeInv, ReconcileInv, PurgeInv, Issuing, Holding, Made, InFlight, Job, KeyInv
    <3>1. job' = [job EXCEPT ![p] = j]
      BY <1>6, <2>2 DEF Undo, Finish, TypeOK
    <3>2. j \in Job
      BY <1>6, <2>2, <3>0, <3>01, IdleOK, BoundAssumption DEF Undo, At, Job, TypeOK
    <3>3. job'[p] = j /\ \A q \in Procs \ {p} : job'[q] = job[q]
      BY <3>1, <3>2 DEF TypeOK
    <3>4. TypeOK'
      <4>1. job' \in [Procs -> Job]
        <5> HIDE DEF j
        <5> QED
          BY <3>1, <3>2 DEF TypeOK
      <4> QED
        BY <1>6, <2>2, <3>01, <4>1, BoundAssumption DEF Undo, Fault, TypeOK
    <3>5. HandlesOwn(p)
      BY <3>0, <3>01, <3>3 DEF HandlesOwn, Job, Idle
    <3>61. \A h \in Keys : InFlight(h)' => InFlight(h)
      BY <3>0, <3>01, <3>3, FlightStep, IdleOK, ProcAssumption DEF Job
    <3>62. Steady({p})
      BY <1>6, <2>2, <3>0, <3>01, <3>3, <3>61, IdleOK DEF Undo, Fault, Steady, At, KeyInv, TypeOK, Made
    <3>63. \A h \in Keys : (\E q \in Issuers : At(q, "record") /\ job[q].key = h) => (\E q \in Issuers : At(q, "record") /\ job[q].key = h)'
      BY <1>6, <2>2, <3>0, <3>01, <3>3, ProcAssumption DEF Undo, At, Procs, Idle, Job, JobInv, IssueInv, RevokeInv, ReconcileInv, PurgeInv, Issuing, Holding
    <3>64. \A h \in Keys : KeyInv(h)'
      BY <1>6, <2>2, <3>0, <3>01, <3>3, <3>61, <3>63 DEF Undo, NewKey, Fault, KeyInv, Made, At, TypeOK
    <3>6. Steady({p}) /\ \A h \in Keys : KeyInv(h)'
      BY <3>62, <3>64
    <3>7. JobInv(p)'
      BY <1>6, <2>2, <3>0, <3>3, IdleOK, BoundAssumption DEF Undo, At, Job, Idle, TypeOK, JobInv, IssueInv, RevokeInv, ReconcileInv, PurgeInv, Issuing, Holding
    <3>8. IntentInv'
      BY <1>6, <2>2, <3>4, <3>6, IntentKept DEF Undo, Fault
    <3> QED
      BY <3>4, <3>5, <3>6, <3>7, <3>8, Together
  <2> QED
    BY <1>6, <2>1, <2>2 DEF Undo
<1>7. ASSUME NEW p \in Procs, Register(p) PROVE IInv'
  <2> DEFINE j == Idle
  <2>0. job[p] \in Job /\ JobInv(p)
    BY DEF TypeOK
  <2>01. p \in Issuers /\ job[p].key \in Made /\ job[p].key \in Keys /\ InFlight(job[p].key) /\ (job[p].key \in live => job[p].key \in tracked) /\ \A q \in Issuers \ {p} : job[q].key # job[p].key
    BY <1>7, <2>0, ProcAssumption DEF Register, At, JobInv, IssueInv, RevokeInv, ReconcileInv, PurgeInv, Issuing, Holding, Made, InFlight, Job, KeyInv, OneHandler
  <2>1. job' = [job EXCEPT ![p] = j]
    BY <1>7 DEF Register, Finish, TypeOK
  <2>2. j \in Job
    BY <1>7, <2>0, <2>01, IdleOK, BoundAssumption DEF Register, At, Job, TypeOK
  <2>3. job'[p] = j /\ \A q \in Procs \ {p} : job'[q] = job[q]
    BY <2>1, <2>2 DEF TypeOK
  <2>4. TypeOK'
    <3>1. job' \in [Procs -> Job]
      <4> HIDE DEF j
      <4> QED
        BY <2>1, <2>2 DEF TypeOK
    <3> QED
      BY <1>7, <2>01, <3>1, BoundAssumption DEF Register, Fault, TypeOK
  <2>5. HandlesOwn(p)
    BY <2>0, <2>01, <2>3 DEF HandlesOwn, Job, Idle
  <2>60. \A h : h = job[p].key => ~InFlight(h)'
    BY <2>01, <2>3, IdleOK, ProcAssumption DEF InFlight, Procs, TypeOK
  <2>61. \A h \in Keys : InFlight(h)' => InFlight(h)
    BY <2>0, <2>01, <2>3, FlightStep, IdleOK, ProcAssumption DEF Job
  <2>62. Steady({p})
    BY <1>7, <2>0, <2>01, <2>3, <2>61, IdleOK DEF Register, Fault, Steady, At, KeyInv, TypeOK, Made
  <2>63. \A h \in Keys : (\E q \in Issuers : At(q, "record") /\ job[q].key = h) => (\E q \in Issuers : At(q, "record") /\ job[q].key = h)'
    BY <1>7, <2>0, <2>01, <2>3, ProcAssumption DEF Register, At, Procs, Idle, Job, JobInv, IssueInv, RevokeInv, ReconcileInv, PurgeInv, Issuing, Holding
  <2>64. \A h \in Keys : KeyInv(h)'
    BY <1>7, <2>0, <2>01, <2>3, <2>61, <2>63, <2>60 DEF Register, NewKey, Fault, KeyInv, Made, At, TypeOK
  <2>6. Steady({p}) /\ \A h \in Keys : KeyInv(h)'
    BY <2>62, <2>64
  <2>7. JobInv(p)'
    BY <1>7, <2>0, <2>3, IdleOK, BoundAssumption DEF Register, At, Job, Idle, TypeOK, JobInv, IssueInv, RevokeInv, ReconcileInv, PurgeInv, Issuing, Holding
  <2>8. IntentInv'
    BY <1>7, <2>4, <2>6, IntentKept DEF Register, Fault
  <2> QED
    BY <2>4, <2>5, <2>6, <2>7, <2>8, Together
<1>8. ASSUME NEW p \in Procs, NEW k \in Keys, Revoke(p, k) PROVE IInv'
  <2>m. PICK m \in Minters : job' = [job EXCEPT ![p].pc = "revoke", ![p].key = k, ![p].by = m]
    BY <1>8 DEF Revoke, Deleters, Healthy, TypeOK
  <2> DEFINE j == [job[p] EXCEPT !.pc = "revoke", !.key = k, !.by = m]
  <2>0. job[p] \in Job /\ JobInv(p)
    BY DEF TypeOK
  <2>01. p \in Revokers /\ p \notin Issuers /\ \A q \in Issuers \cup Revokers : job[q].key # k
    BY <1>8, <2>0, ProcAssumption DEF Revoke, At, JobInv, IssueInv, RevokeInv, ReconcileInv, PurgeInv, Issuing, Holding, Made, InFlight, Job, KeyInv, Procs
  <2>1. job' = [job EXCEPT ![p] = j]
    BY <2>m DEF TypeOK
  <2>2. j \in Job
    BY <1>8, <2>0, <2>01, IdleOK, BoundAssumption DEF Revoke, At, Job, TypeOK
  <2>3. job'[p] = j /\ \A q \in Procs \ {p} : job'[q] = job[q]
    BY <2>1, <2>2 DEF TypeOK
  <2>4. TypeOK'
    <3>1. job' \in [Procs -> Job]
      <4> HIDE DEF j
      <4> QED
        BY <2>1, <2>2 DEF TypeOK
    <3> QED
      BY <1>8, <2>01, <3>1, BoundAssumption DEF Revoke, Fault, TypeOK
  <2>5. HandlesOwn(p)
    BY <2>0, <2>01, <2>3 DEF HandlesOwn, Job, Idle
  <2>60. Untouched
    BY <1>8 DEF Revoke, Untouched, Fault
  <2>61. p \in Issuers => job'[p].key = None /\ ~At(p, "record")
    BY <1>8, <2>0, <2>01, <2>3, IdleOK DEF Revoke, At, Procs, Job
  <2>6. Steady({p}) /\ \A h \in Keys : KeyInv(h)'
    BY <2>3, <2>60, <2>61, UntouchedKeys
  <2>7. JobInv(p)'
    BY <1>8, <2>0, <2>3, IdleOK, BoundAssumption DEF Revoke, At, Job, Idle, TypeOK, JobInv, IssueInv, RevokeInv, ReconcileInv, PurgeInv, Issuing, Holding
  <2>8. IntentInv'
    BY <1>8, <2>4, <2>6, IntentKept DEF Revoke, Fault
  <2> QED
    BY <2>4, <2>5, <2>6, <2>7, <2>8, Together
<1>9. ASSUME NEW p \in Procs, RevokeDelete(p) PROVE IInv'
  <2>1. CASE job[p].by \in accepted /\ live' = live \ {job[p].key} /\ job' = [job EXCEPT ![p].pc = "forget"] /\ UNCHANGED bounds
    <3> DEFINE j == [job[p] EXCEPT !.pc = "forget"]
    <3>0. job[p] \in Job /\ JobInv(p)
      BY DEF TypeOK
    <3>01. p \in Revokers /\ p \notin Issuers /\ job[p].key \in Keys /\ job[p].key \in Made /\ lease[job[p].key] = "ending" /\ ~InFlight(job[p].key)
      BY <1>9, <2>1, <3>0, ProcAssumption DEF RevokeDelete, At, JobInv, IssueInv, RevokeInv, ReconcileInv, PurgeInv, Issuing, Holding, Made, InFlight, Job, KeyInv
    <3>1. job' = [job EXCEPT ![p] = j]
      BY <1>9, <2>1 DEF RevokeDelete, Finish, TypeOK
    <3>2. j \in Job
      BY <1>9, <2>1, <3>0, <3>01, IdleOK, BoundAssumption DEF RevokeDelete, At, Job, TypeOK
    <3>3. job'[p] = j /\ \A q \in Procs \ {p} : job'[q] = job[q]
      BY <3>1, <3>2 DEF TypeOK
    <3>4. TypeOK'
      <4>1. job' \in [Procs -> Job]
        <5> HIDE DEF j
        <5> QED
          BY <3>1, <3>2 DEF TypeOK
      <4> QED
        BY <1>9, <2>1, <3>01, <4>1, BoundAssumption DEF RevokeDelete, Fault, TypeOK
    <3>5. HandlesOwn(p)
      BY <3>0, <3>01, <3>3 DEF HandlesOwn, Job, Idle
    <3>61. \A h \in Keys : InFlight(h)' => InFlight(h)
      BY <3>0, <3>01, <3>3, FlightStep, IdleOK, ProcAssumption DEF Job
    <3>62. Steady({p})
      BY <1>9, <2>1, <3>0, <3>01, <3>3, <3>61, IdleOK DEF RevokeDelete, Fault, Steady, At, KeyInv, TypeOK, Made
    <3>63. \A h \in Keys : (\E q \in Issuers : At(q, "record") /\ job[q].key = h) => (\E q \in Issuers : At(q, "record") /\ job[q].key = h)'
      BY <3>01, <3>3 DEF At, Procs
    <3>64. \A h \in Keys : KeyInv(h)'
      BY <1>9, <2>1, <3>0, <3>01, <3>3, <3>61, <3>63 DEF RevokeDelete, NewKey, Fault, KeyInv, Made, At, TypeOK
    <3>6. Steady({p}) /\ \A h \in Keys : KeyInv(h)'
      BY <3>62, <3>64
    <3>7. JobInv(p)'
      BY <1>9, <2>1, <3>0, <3>3, IdleOK, BoundAssumption DEF RevokeDelete, At, Job, Idle, TypeOK, JobInv, IssueInv, RevokeInv, ReconcileInv, PurgeInv, Issuing, Holding
    <3>8. IntentInv'
      BY <1>9, <2>1, <3>4, <3>6, IntentKept DEF RevokeDelete, Fault
    <3> QED
      BY <3>4, <3>5, <3>6, <3>7, <3>8, Together
  <2>2. CASE CallFails(job[p].by) /\ Finish(p) /\ UNCHANGED live
    <3> DEFINE j == Idle
    <3>0. job[p] \in Job /\ JobInv(p)
      BY DEF TypeOK
    <3>01. p \in Revokers /\ p \notin Issuers /\ job[p].key \in Keys /\ job[p].key \in Made /\ lease[job[p].key] = "ending" /\ ~InFlight(job[p].key)
      BY <1>9, <2>2, <3>0, ProcAssumption DEF RevokeDelete, At, JobInv, IssueInv, RevokeInv, ReconcileInv, PurgeInv, Issuing, Holding, Made, InFlight, Job, KeyInv
    <3>1. job' = [job EXCEPT ![p] = j]
      BY <1>9, <2>2 DEF RevokeDelete, Finish, TypeOK
    <3>2. j \in Job
      BY <1>9, <2>2, <3>0, <3>01, IdleOK, BoundAssumption DEF RevokeDelete, At, Job, TypeOK
    <3>3. job'[p] = j /\ \A q \in Procs \ {p} : job'[q] = job[q]
      BY <3>1, <3>2 DEF TypeOK
    <3>4. TypeOK'
      <4>1. job' \in [Procs -> Job]
        <5> HIDE DEF j
        <5> QED
          BY <3>1, <3>2 DEF TypeOK
      <4> QED
        BY <1>9, <2>2, <3>01, <4>1, BoundAssumption DEF RevokeDelete, Fault, TypeOK
    <3>5. HandlesOwn(p)
      BY <3>0, <3>01, <3>3 DEF HandlesOwn, Job, Idle
    <3>60. Untouched
      BY <1>9, <2>2 DEF RevokeDelete, Untouched, Fault
    <3>61. p \in Issuers => job'[p].key = None /\ ~At(p, "record")
      BY <1>9, <2>2, <3>0, <3>01, <3>3, IdleOK DEF RevokeDelete, At, Procs, Job
    <3>6. Steady({p}) /\ \A h \in Keys : KeyInv(h)'
      BY <3>3, <3>60, <3>61, UntouchedKeys
    <3>7. JobInv(p)'
      BY <1>9, <2>2, <3>0, <3>3, IdleOK, BoundAssumption DEF RevokeDelete, At, Job, Idle, TypeOK, JobInv, IssueInv, RevokeInv, ReconcileInv, PurgeInv, Issuing, Holding
    <3>8. IntentInv'
      BY <1>9, <2>2, <3>4, <3>6, IntentKept DEF RevokeDelete, Fault
    <3> QED
      BY <3>4, <3>5, <3>6, <3>7, <3>8, Together
  <2> QED
    BY <1>9, <2>1, <2>2 DEF RevokeDelete
<1>10. ASSUME NEW p \in Procs, RevokeForget(p) PROVE IInv'
  <2>1. CASE tracked' = tracked \ {job[p].key} /\ UNCHANGED bounds
    <3> DEFINE j == Idle
    <3>0. job[p] \in Job /\ JobInv(p)
      BY DEF TypeOK
    <3>01. p \in Revokers /\ p \notin Issuers /\ job[p].key \in Keys /\ job[p].key \in Made /\ lease[job[p].key] = "ending" /\ ~InFlight(job[p].key) /\ job[p].key \notin live /\ \A q \in Revokers \ {p} : job[q].key # job[p].key
      BY <1>10, <2>1, <3>0, ProcAssumption DEF RevokeForget, At, JobInv, IssueInv, RevokeInv, ReconcileInv, PurgeInv, Issuing, Holding, Made, InFlight, Job, KeyInv, OneHandler
    <3>1. job' = [job EXCEPT ![p] = j]
      BY <1>10, <2>1 DEF RevokeForget, Finish, TypeOK
    <3>2. j \in Job
      BY <1>10, <2>1, <3>0, <3>01, IdleOK, BoundAssumption DEF RevokeForget, At, Job, TypeOK
    <3>3. job'[p] = j /\ \A q \in Procs \ {p} : job'[q] = job[q]
      BY <3>1, <3>2 DEF TypeOK
    <3>4. TypeOK'
      <4>1. job' \in [Procs -> Job]
        <5> HIDE DEF j
        <5> QED
          BY <3>1, <3>2 DEF TypeOK
      <4> QED
        BY <1>10, <2>1, <3>01, <4>1, BoundAssumption DEF RevokeForget, Fault, TypeOK
    <3>5. HandlesOwn(p)
      BY <3>0, <3>01, <3>3 DEF HandlesOwn, Job, Idle
    <3>61. \A h \in Keys : InFlight(h)' => InFlight(h)
      BY <3>0, <3>01, <3>3, FlightStep, IdleOK, ProcAssumption DEF Job
    <3>62. Steady({p})
      BY <1>10, <2>1, <3>0, <3>01, <3>3, <3>61, IdleOK DEF RevokeForget, Fault, Steady, At, KeyInv, TypeOK, Made
    <3>63. \A h \in Keys : (\E q \in Issuers : At(q, "record") /\ job[q].key = h) => (\E q \in Issuers : At(q, "record") /\ job[q].key = h)'
      BY <3>01, <3>3 DEF At, Procs
    <3>64. \A h \in Keys : KeyInv(h)'
      BY <1>10, <2>1, <3>0, <3>01, <3>3, <3>61, <3>63 DEF RevokeForget, NewKey, Fault, KeyInv, Made, At, TypeOK
    <3>6. Steady({p}) /\ \A h \in Keys : KeyInv(h)'
      BY <3>62, <3>64
    <3>7. JobInv(p)'
      BY <1>10, <2>1, <3>0, <3>3, IdleOK, BoundAssumption DEF RevokeForget, At, Job, Idle, TypeOK, JobInv, IssueInv, RevokeInv, ReconcileInv, PurgeInv, Issuing, Holding
    <3>8. IntentInv'
      BY <1>10, <2>1, <3>4, <3>6, IntentKept DEF RevokeForget, Fault
    <3> QED
      BY <3>4, <3>5, <3>6, <3>7, <3>8, Together
  <2>2. CASE Fault /\ UNCHANGED tracked
    <3> DEFINE j == Idle
    <3>0. job[p] \in Job /\ JobInv(p)
      BY DEF TypeOK
    <3>01. p \in Revokers /\ p \notin Issuers /\ job[p].key \in Keys /\ job[p].key \in Made /\ lease[job[p].key] = "ending" /\ ~InFlight(job[p].key) /\ job[p].key \notin live /\ \A q \in Revokers \ {p} : job[q].key # job[p].key
      BY <1>10, <2>2, <3>0, ProcAssumption DEF RevokeForget, At, JobInv, IssueInv, RevokeInv, ReconcileInv, PurgeInv, Issuing, Holding, Made, InFlight, Job, KeyInv, OneHandler
    <3>1. job' = [job EXCEPT ![p] = j]
      BY <1>10, <2>2 DEF RevokeForget, Finish, TypeOK
    <3>2. j \in Job
      BY <1>10, <2>2, <3>0, <3>01, IdleOK, BoundAssumption DEF RevokeForget, At, Job, TypeOK
    <3>3. job'[p] = j /\ \A q \in Procs \ {p} : job'[q] = job[q]
      BY <3>1, <3>2 DEF TypeOK
    <3>4. TypeOK'
      <4>1. job' \in [Procs -> Job]
        <5> HIDE DEF j
        <5> QED
          BY <3>1, <3>2 DEF TypeOK
      <4> QED
        BY <1>10, <2>2, <3>01, <4>1, BoundAssumption DEF RevokeForget, Fault, TypeOK
    <3>5. HandlesOwn(p)
      BY <3>0, <3>01, <3>3 DEF HandlesOwn, Job, Idle
    <3>61. \A h \in Keys : InFlight(h)' => InFlight(h)
      BY <3>0, <3>01, <3>3, FlightStep, IdleOK, ProcAssumption DEF Job
    <3>62. Steady({p})
      BY <1>10, <2>2, <3>0, <3>01, <3>3, <3>61, IdleOK DEF RevokeForget, Fault, Steady, At, KeyInv, TypeOK, Made
    <3>63. \A h \in Keys : (\E q \in Issuers : At(q, "record") /\ job[q].key = h) => (\E q \in Issuers : At(q, "record") /\ job[q].key = h)'
      BY <3>01, <3>3 DEF At, Procs
    <3>64. \A h \in Keys : KeyInv(h)'
      BY <1>10, <2>2, <3>0, <3>01, <3>3, <3>61, <3>63 DEF RevokeForget, NewKey, Fault, KeyInv, Made, At, TypeOK
    <3>6. Steady({p}) /\ \A h \in Keys : KeyInv(h)'
      BY <3>62, <3>64
    <3>7. JobInv(p)'
      BY <1>10, <2>2, <3>0, <3>3, IdleOK, BoundAssumption DEF RevokeForget, At, Job, Idle, TypeOK, JobInv, IssueInv, RevokeInv, ReconcileInv, PurgeInv, Issuing, Holding
    <3>8. IntentInv'
      BY <1>10, <2>2, <3>4, <3>6, IntentKept DEF RevokeForget, Fault
    <3> QED
      BY <3>4, <3>5, <3>6, <3>7, <3>8, Together
  <2> QED
    BY <1>10, <2>1, <2>2 DEF RevokeForget
<1>11. ASSUME NEW p \in Procs, ReconcileList(p) PROVE IInv'
  <2>m. PICK m \in Minters : job' = [job EXCEPT ![p].pc = "age", ![p].by = m, ![p].at = clock, ![p].todo = live,
                                                ![p].budget = MaxDeletes]
    BY <1>11 DEF ReconcileList, Healthy, TypeOK
  <2> DEFINE j == [job[p] EXCEPT !.pc = "age", !.by = m, !.at = clock, !.todo = live, !.budget = MaxDeletes]
  <2>0. job[p] \in Job /\ JobInv(p)
    BY DEF TypeOK
  <2>01. p \in Reconcilers /\ p \notin Issuers /\ live \subseteq Made /\ live \subseteq Keys /\ clock \in Nat /\ MaxDeletes \in 0..MaxDeletes
    BY <1>11, <2>0, ProcAssumption, BoundAssumption DEF ReconcileList, At, JobInv, IssueInv, RevokeInv, ReconcileInv, PurgeInv, Issuing, Holding, Made, InFlight, Job, KeyInv, Procs, TypeOK
  <2>1. job' = [job EXCEPT ![p] = j]
    BY <2>m DEF TypeOK
  <2>2. j \in Job
    BY <2>0, <2>01 DEF Job
  <2>3. job'[p] = j /\ \A q \in Procs \ {p} : job'[q] = job[q]
    BY <2>1, <2>2 DEF TypeOK
  <2>4. TypeOK'
    <3>1. job' \in [Procs -> Job]
      <4> HIDE DEF j
      <4> QED
        BY <2>1, <2>2 DEF TypeOK
    <3> QED
      BY <1>11, <2>01, <3>1, BoundAssumption DEF ReconcileList, Fault, TypeOK
  <2>5. HandlesOwn(p)
    BY <2>0, <2>01, <2>3 DEF HandlesOwn, Job, Idle
  <2>60. Untouched
    BY <1>11 DEF ReconcileList, Untouched, Fault
  <2>61. p \in Issuers => job'[p].key = None /\ ~At(p, "record")
    BY <1>11, <2>0, <2>01, <2>3, IdleOK DEF ReconcileList, At, Procs, Job
  <2>6. Steady({p}) /\ \A h \in Keys : KeyInv(h)'
    BY <2>3, <2>60, <2>61, UntouchedKeys
  <2>7. JobInv(p)'
    BY <1>11, <2>0, <2>3, IdleOK, BoundAssumption DEF ReconcileList, At, Job, Idle, TypeOK, JobInv, IssueInv, RevokeInv, ReconcileInv, PurgeInv, Issuing, Holding
  <2>8. IntentInv'
    BY <1>11, <2>4, <2>6, IntentKept DEF ReconcileList, Fault
  <2> QED
    BY <2>4, <2>5, <2>6, <2>7, <2>8, Together
<1>12. ASSUME NEW p \in Procs, ReconcileAge(p) PROVE IInv'
  <2> DEFINE j == [job[p] EXCEPT !.pc = "own", !.todo = {k \in job[p].todo : ledger[k] # None /\ job[p].at - ledger[k] >= Hold}]
  <2>0. job[p] \in Job /\ JobInv(p)
    BY DEF TypeOK
  <2>01. p \in Reconcilers /\ p \notin Issuers /\ job[p].at <= clock /\ job[p].todo \subseteq Made
    BY <1>12, <2>0, ProcAssumption DEF ReconcileAge, At, JobInv, IssueInv, RevokeInv, ReconcileInv, PurgeInv, Issuing, Holding, Made, InFlight, Job, KeyInv
  <2>1. job' = [job EXCEPT ![p] = j]
    BY <1>12 DEF ReconcileAge, Finish, TypeOK
  <2>2. j \in Job
    BY <1>12, <2>0, <2>01, IdleOK, BoundAssumption DEF ReconcileAge, At, Job, TypeOK
  <2>3. job'[p] = j /\ \A q \in Procs \ {p} : job'[q] = job[q]
    BY <2>1, <2>2 DEF TypeOK
  <2>4. TypeOK'
    <3>1. job' \in [Procs -> Job]
      <4> HIDE DEF j
      <4> QED
        BY <2>1, <2>2 DEF TypeOK
    <3> QED
      BY <1>12, <2>01, <3>1, BoundAssumption DEF ReconcileAge, Fault, TypeOK
  <2>5. HandlesOwn(p)
    BY <2>0, <2>01, <2>3 DEF HandlesOwn, Job, Idle
  <2>60. Untouched
    BY <1>12 DEF ReconcileAge, Untouched, Fault
  <2>61. p \in Issuers => job'[p].key = None /\ ~At(p, "record")
    BY <1>12, <2>0, <2>01, <2>3, IdleOK DEF ReconcileAge, At, Procs, Job
  <2>6. Steady({p}) /\ \A h \in Keys : KeyInv(h)'
    BY <2>3, <2>60, <2>61, UntouchedKeys
  <2>7. JobInv(p)'
    <3>1. /\ job'[p].pc = "own" /\ job'[p].at = job[p].at /\ job'[p].key = job[p].key 
         /\ job'[p].todo = {k \in job[p].todo : ledger[k] # None /\ job[p].at - ledger[k] >= Hold}
      BY <2>0, <2>3 DEF Job
    <3>2. ASSUME NEW k \in job'[p].todo PROVE ~InFlight(k)'
      <4>1. k \in Keys /\ k \in Made /\ ledger[k] = born[k] /\ job[p].at - born[k] >= Hold
        BY <2>01, <3>1, <3>2 DEF KeyInv, Made
      <4>2. clock - born[k] > MaxOp
        BY <2>0, <2>01, <4>1, HoldAssumption, BoundAssumption DEF TypeOK, Job, Made
      <4>3. ~InFlight(k)
        BY <4>1, <4>2, Young, BoundAssumption DEF TypeOK, Made
      <4> QED
        BY <4>1, <4>3, <2>6 DEF Steady
    <3> QED
      BY <2>01, <2>60, <2>61, <3>1, <3>2 DEF JobInv, IssueInv, RevokeInv, ReconcileInv, PurgeInv, Issuing, Holding, Made, Untouched
  <2>8. IntentInv'
    BY <1>12, <2>4, <2>6, IntentKept DEF ReconcileAge, Fault
  <2> QED
    BY <2>4, <2>5, <2>6, <2>7, <2>8, Together
<1>13. ASSUME NEW p \in Procs, OwnedIDs(p) PROVE IInv'
  <2> DEFINE j == [job[p] EXCEPT !.pc = "reclaim", !.todo = job[p].todo \ tracked]
  <2>0. job[p] \in Job /\ JobInv(p)
    BY DEF TypeOK
  <2>01. p \in Reconcilers /\ p \notin Issuers /\ (\A k \in job[p].todo : ~InFlight(k)) /\ job[p].at <= clock /\ job[p].todo \subseteq Made
    BY <1>13, <2>0, ProcAssumption DEF OwnedIDs, At, JobInv, IssueInv, RevokeInv, ReconcileInv, PurgeInv, Issuing, Holding, Made, InFlight, Job, KeyInv
  <2>1. job' = [job EXCEPT ![p] = j]
    BY <1>13 DEF OwnedIDs, Finish, TypeOK
  <2>2. j \in Job
    BY <1>13, <2>0, <2>01, IdleOK, BoundAssumption DEF OwnedIDs, At, Job, TypeOK
  <2>3. job'[p] = j /\ \A q \in Procs \ {p} : job'[q] = job[q]
    BY <2>1, <2>2 DEF TypeOK
  <2>4. TypeOK'
    <3>1. job' \in [Procs -> Job]
      <4> HIDE DEF j
      <4> QED
        BY <2>1, <2>2 DEF TypeOK
    <3> QED
      BY <1>13, <2>01, <3>1, BoundAssumption DEF OwnedIDs, Fault, TypeOK
  <2>5. HandlesOwn(p)
    BY <2>0, <2>01, <2>3 DEF HandlesOwn, Job, Idle
  <2>60. Untouched
    BY <1>13 DEF OwnedIDs, Untouched, Fault
  <2>61. p \in Issuers => job'[p].key = None /\ ~At(p, "record")
    BY <1>13, <2>0, <2>01, <2>3, IdleOK DEF OwnedIDs, At, Procs, Job
  <2>6. Steady({p}) /\ \A h \in Keys : KeyInv(h)'
    BY <2>3, <2>60, <2>61, UntouchedKeys
  <2>7. JobInv(p)'
    <3>1. /\ job'[p].pc = "reclaim" /\ job'[p].at = job[p].at /\ job'[p].key = job[p].key
         /\ job'[p].todo = job[p].todo \ tracked
      BY <2>0, <2>3 DEF Job
    <3>2. \A k \in job'[p].todo : k \in Made /\ ~InFlight(k)'
      BY <2>01, <2>6, <3>1 DEF Steady, Made
    <3>3. \A k \in job'[p].todo \cap live : lease[k] = "none"
      BY <3>1 DEF KeyInv, TypeOK
    <3> QED
      BY <2>01, <2>60, <3>1, <3>2, <3>3 DEF JobInv, IssueInv, RevokeInv, ReconcileInv, PurgeInv, Issuing, Holding, Made, Untouched
  <2>8. IntentInv'
    BY <1>13, <2>4, <2>6, IntentKept DEF OwnedIDs, Fault
  <2> QED
    BY <2>4, <2>5, <2>6, <2>7, <2>8, Together
<1>14. ASSUME NEW p \in Procs, NEW k \in Keys, DeleteEntity(p, k) PROVE IInv'
  <2>1. CASE job[p].by \in accepted /\ live' = live \ {k} /\ UNCHANGED bounds
    <3> DEFINE j == [job[p] EXCEPT !.todo = @ \ {k}, !.budget = @ - 1]
    <3>0. job[p] \in Job /\ JobInv(p)
      BY DEF TypeOK
    <3>01. p \in Reconcilers /\ p \notin Issuers
      BY <1>14, <2>1, <3>0, ProcAssumption DEF DeleteEntity, At, JobInv, IssueInv, RevokeInv, ReconcileInv, PurgeInv, Issuing, Holding, Made, InFlight, Job, KeyInv
    <3>1. job' = [job EXCEPT ![p] = j]
      BY <1>14, <2>1 DEF DeleteEntity, Finish, TypeOK
    <3>2. j \in Job
      BY <1>14, <2>1, <3>0, <3>01, IdleOK, BoundAssumption DEF DeleteEntity, At, Job, TypeOK
    <3>3. job'[p] = j /\ \A q \in Procs \ {p} : job'[q] = job[q]
      BY <3>1, <3>2 DEF TypeOK
    <3>4. TypeOK'
      <4>1. job' \in [Procs -> Job]
        <5> HIDE DEF j
        <5> QED
          BY <3>1, <3>2 DEF TypeOK
      <4> QED
        BY <1>14, <2>1, <3>01, <4>1, BoundAssumption DEF DeleteEntity, Fault, TypeOK
    <3>5. HandlesOwn(p)
      BY <3>0, <3>01, <3>3 DEF HandlesOwn, Job, Idle
    <3>61. \A h \in Keys : InFlight(h)' => InFlight(h)
      BY <3>0, <3>01, <3>3, FlightStep, IdleOK, ProcAssumption DEF Job
    <3>62. Steady({p})
      BY <1>14, <2>1, <3>0, <3>01, <3>3, <3>61, IdleOK DEF DeleteEntity, Fault, Steady, At, KeyInv, TypeOK, Made
    <3>63. \A h \in Keys : (\E q \in Issuers : At(q, "record") /\ job[q].key = h) => (\E q \in Issuers : At(q, "record") /\ job[q].key = h)'
      BY <3>01, <3>3 DEF At, Procs
    <3>64. \A h \in Keys : KeyInv(h)'
      BY <1>14, <2>1, <3>0, <3>01, <3>3, <3>61, <3>63 DEF DeleteEntity, NewKey, Fault, KeyInv, Made, At, TypeOK
    <3>6. Steady({p}) /\ \A h \in Keys : KeyInv(h)'
      BY <3>62, <3>64
    <3>7. JobInv(p)'
      BY <1>14, <2>1, <3>0, <3>3, IdleOK, BoundAssumption DEF DeleteEntity, At, Job, Idle, TypeOK, JobInv, IssueInv, RevokeInv, ReconcileInv, PurgeInv, Issuing, Holding
    <3>8. IntentInv'
      BY <1>14, <2>1, <3>4, <3>6, IntentKept DEF DeleteEntity, Fault
    <3> QED
      BY <3>4, <3>5, <3>6, <3>7, <3>8, Together
  <2>2. CASE CallFails(job[p].by) /\ UNCHANGED live
    <3> DEFINE j == [job[p] EXCEPT !.todo = @ \ {k}, !.budget = @ - 1]
    <3>0. job[p] \in Job /\ JobInv(p)
      BY DEF TypeOK
    <3>01. p \in Reconcilers /\ p \notin Issuers
      BY <1>14, <2>2, <3>0, ProcAssumption DEF DeleteEntity, At, JobInv, IssueInv, RevokeInv, ReconcileInv, PurgeInv, Issuing, Holding, Made, InFlight, Job, KeyInv
    <3>1. job' = [job EXCEPT ![p] = j]
      BY <1>14, <2>2 DEF DeleteEntity, Finish, TypeOK
    <3>2. j \in Job
      BY <1>14, <2>2, <3>0, <3>01, IdleOK, BoundAssumption DEF DeleteEntity, At, Job, TypeOK
    <3>3. job'[p] = j /\ \A q \in Procs \ {p} : job'[q] = job[q]
      BY <3>1, <3>2 DEF TypeOK
    <3>4. TypeOK'
      <4>1. job' \in [Procs -> Job]
        <5> HIDE DEF j
        <5> QED
          BY <3>1, <3>2 DEF TypeOK
      <4> QED
        BY <1>14, <2>2, <3>01, <4>1, BoundAssumption DEF DeleteEntity, Fault, TypeOK
    <3>5. HandlesOwn(p)
      BY <3>0, <3>01, <3>3 DEF HandlesOwn, Job, Idle
    <3>61. \A h \in Keys : InFlight(h)' => InFlight(h)
      BY <3>0, <3>01, <3>3, FlightStep, IdleOK, ProcAssumption DEF Job
    <3>62. Steady({p})
      BY <1>14, <2>2, <3>0, <3>01, <3>3, <3>61, IdleOK DEF DeleteEntity, Fault, Steady, At, KeyInv, TypeOK, Made
    <3>63. \A h \in Keys : (\E q \in Issuers : At(q, "record") /\ job[q].key = h) => (\E q \in Issuers : At(q, "record") /\ job[q].key = h)'
      BY <3>01, <3>3 DEF At, Procs
    <3>64. \A h \in Keys : KeyInv(h)'
      BY <1>14, <2>2, <3>0, <3>01, <3>3, <3>61, <3>63 DEF DeleteEntity, NewKey, Fault, KeyInv, Made, At, TypeOK
    <3>6. Steady({p}) /\ \A h \in Keys : KeyInv(h)'
      BY <3>62, <3>64
    <3>7. JobInv(p)'
      BY <1>14, <2>2, <3>0, <3>3, IdleOK, BoundAssumption DEF DeleteEntity, At, Job, Idle, TypeOK, JobInv, IssueInv, RevokeInv, ReconcileInv, PurgeInv, Issuing, Holding
    <3>8. IntentInv'
      BY <1>14, <2>2, <3>4, <3>6, IntentKept DEF DeleteEntity, Fault
    <3> QED
      BY <3>4, <3>5, <3>6, <3>7, <3>8, Together
  <2> QED
    BY <1>14, <2>1, <2>2 DEF DeleteEntity
<1>15. ASSUME NEW p \in Procs, ReconcileEnd(p) PROVE IInv'
  <2> DEFINE j == Idle
  <2>0. job[p] \in Job /\ JobInv(p)
    BY DEF TypeOK
  <2>01. p \in Reconcilers /\ p \notin Issuers
    BY <1>15, <2>0, ProcAssumption DEF ReconcileEnd, At, JobInv, IssueInv, RevokeInv, ReconcileInv, PurgeInv, Issuing, Holding, Made, InFlight, Job, KeyInv
  <2>1. job' = [job EXCEPT ![p] = j]
    BY <1>15 DEF ReconcileEnd, Finish, TypeOK
  <2>2. j \in Job
    BY <1>15, <2>0, <2>01, IdleOK, BoundAssumption DEF ReconcileEnd, At, Job, TypeOK
  <2>3. job'[p] = j /\ \A q \in Procs \ {p} : job'[q] = job[q]
    BY <2>1, <2>2 DEF TypeOK
  <2>4. TypeOK'
    <3>1. job' \in [Procs -> Job]
      <4> HIDE DEF j
      <4> QED
        BY <2>1, <2>2 DEF TypeOK
    <3> QED
      BY <1>15, <2>01, <3>1, BoundAssumption DEF ReconcileEnd, Fault, TypeOK
  <2>5. HandlesOwn(p)
    BY <2>0, <2>01, <2>3 DEF HandlesOwn, Job, Idle
  <2>61. \A h \in Keys : InFlight(h)' => InFlight(h)
    BY <2>0, <2>01, <2>3, FlightStep, IdleOK, ProcAssumption DEF Job
  <2>62. Steady({p})
    BY <1>15, <2>0, <2>01, <2>3, <2>61, IdleOK DEF ReconcileEnd, Fault, Steady, At, KeyInv, TypeOK, Made
  <2>63. \A h \in Keys : (\E q \in Issuers : At(q, "record") /\ job[q].key = h) => (\E q \in Issuers : At(q, "record") /\ job[q].key = h)'
    BY <2>01, <2>3 DEF At, Procs
  <2>64. \A h \in Keys : KeyInv(h)'
    BY <1>15, <2>0, <2>01, <2>3, <2>61, <2>63, BoundAssumption DEF ReconcileEnd, NewKey, Fault, KeyInv, Made, At, TypeOK
  <2>6. Steady({p}) /\ \A h \in Keys : KeyInv(h)'
    BY <2>62, <2>64
  <2>7. JobInv(p)'
    BY <1>15, <2>0, <2>3, IdleOK, BoundAssumption DEF ReconcileEnd, At, Job, Idle, TypeOK, JobInv, IssueInv, RevokeInv, ReconcileInv, PurgeInv, Issuing, Holding
  <2>8. IntentInv'
    BY <1>15, <2>4, <2>6, IntentKept DEF ReconcileEnd, Fault
  <2> QED
    BY <2>4, <2>5, <2>6, <2>7, <2>8, Together
<1>16. ASSUME NEW p \in Procs, Arm(p) PROVE IInv'
  <2> DEFINE j == IF Scan(clock) = {} THEN Idle ELSE [Idle EXCEPT !.pc = "scan", !.at = clock]
  <2>0. job[p] \in Job /\ JobInv(p)
    BY DEF TypeOK
  <2>01. p \in Purgers /\ p \notin Issuers
    BY <1>16, <2>0, ProcAssumption DEF Arm, At, JobInv, IssueInv, RevokeInv, ReconcileInv, PurgeInv, Issuing, Holding, Made, InFlight, Job, KeyInv, Procs
  <2>1. job' = [job EXCEPT ![p] = j]
    BY <1>16 DEF Arm, Finish, TypeOK
  <2>2. j \in Job
    BY <1>16, <2>0, <2>01, IdleOK, BoundAssumption DEF Arm, At, Job, TypeOK, Intent
  <2>3. job'[p] = j /\ \A q \in Procs \ {p} : job'[q] = job[q]
    BY <2>1, <2>2 DEF TypeOK
  <2>4. TypeOK'
    <3>1. job' \in [Procs -> Job]
      <4> HIDE DEF j
      <4> QED
        BY <2>1, <2>2 DEF TypeOK
    <3> QED
      BY <1>16, <2>01, <3>1, BoundAssumption DEF Arm, Fault, TypeOK, Intent
  <2>5. HandlesOwn(p)
    BY <2>0, <2>01, <2>3 DEF HandlesOwn, Job, Idle
  <2>60. Untouched
    BY <1>16 DEF Arm, Untouched, Fault
  <2>61. p \in Issuers => job'[p].key = None /\ ~At(p, "record")
    BY <1>16, <2>0, <2>01, <2>3, IdleOK DEF Arm, At, Procs, Job
  <2>6. Steady({p}) /\ \A h \in Keys : KeyInv(h)'
    BY <2>3, <2>60, <2>61, UntouchedKeys
  <2>7. JobInv(p)'
    <3>1. job'[p] = Idle \/ (job'[p].pc = "scan" /\ job'[p].at = clock /\ job'[p].key = None)
      <4>1. Idle.key = None /\ [Idle EXCEPT !.pc = "scan", !.at = clock] \in Job
        BY IdleOK DEF Job, TypeOK
      <4>2. [Idle EXCEPT !.pc = "scan", !.at = clock].pc = "scan" /\ [Idle EXCEPT !.pc = "scan", !.at = clock].at = clock
           /\ [Idle EXCEPT !.pc = "scan", !.at = clock].key = None
        BY DEF Idle
      <4>3. job'[p] = Idle \/ job'[p] = [Idle EXCEPT !.pc = "scan", !.at = clock]
        BY <2>3, Zenon
      <4> QED
        BY <4>2, <4>3
    <3> QED
      BY <2>01, <2>60, <3>1 DEF Untouched, TypeOK, JobInv, IssueInv, RevokeInv, ReconcileInv, PurgeInv, Issuing, Holding, Idle
  <2>8. IntentInv'
    <3>1. intent' = [cutoff |-> clock, complete |-> Scan(clock) = {}] /\ clock' = clock /\ tracked' = tracked /\ born' = born
      BY <1>16 DEF Arm
    <3>2. ASSUME Scan(clock) = {}, NEW k \in tracked PROVE ~Old(k, clock)
      <4>1. k \in Made /\ k \in Keys /\ born[k] \in Nat /\ ~(born[k] <= clock)
        BY <3>2 DEF KeyInv, TypeOK, Made, Scan
      <4> QED
        BY <4>1, BoundAssumption DEF Old, TypeOK
    <3>3. intent'.cutoff = clock /\ (intent'.complete => Scan(clock) = {})
      BY <3>1
    <3> QED
      BY <3>1, <3>2, <3>3 DEF IntentInv, Old, TypeOK
  <2> QED
    BY <2>4, <2>5, <2>6, <2>7, <2>8, Together
<1>17. ASSUME NEW p \in Procs, Sweep(p) PROVE IInv'
  <2> DEFINE j == [job[p] EXCEPT !.pc = "scan", !.at = intent.cutoff]
  <2>0. job[p] \in Job /\ JobInv(p)
    BY DEF TypeOK
  <2>01. p \in Purgers /\ p \notin Issuers /\ intent.cutoff \in Nat /\ intent.cutoff <= clock
    BY <1>17, <2>0, ProcAssumption DEF Sweep, At, JobInv, IssueInv, RevokeInv, ReconcileInv, PurgeInv, Issuing, Holding, Made, InFlight, Job, KeyInv, Procs, IntentInv, TypeOK, Intent
  <2>1. job' = [job EXCEPT ![p] = j]
    BY <1>17 DEF Sweep, Finish, TypeOK
  <2>2. j \in Job
    BY <1>17, <2>0, <2>01, IdleOK, BoundAssumption DEF Sweep, At, Job, TypeOK
  <2>3. job'[p] = j /\ \A q \in Procs \ {p} : job'[q] = job[q]
    BY <2>1, <2>2 DEF TypeOK
  <2>4. TypeOK'
    <3>1. job' \in [Procs -> Job]
      <4> HIDE DEF j
      <4> QED
        BY <2>1, <2>2 DEF TypeOK
    <3> QED
      BY <1>17, <2>01, <3>1, BoundAssumption DEF Sweep, Fault, TypeOK
  <2>5. HandlesOwn(p)
    BY <2>0, <2>01, <2>3 DEF HandlesOwn, Job, Idle
  <2>60. Untouched
    BY <1>17 DEF Sweep, Untouched, Fault
  <2>61. p \in Issuers => job'[p].key = None /\ ~At(p, "record")
    BY <1>17, <2>0, <2>01, <2>3, IdleOK DEF Sweep, At, Procs, Job
  <2>6. Steady({p}) /\ \A h \in Keys : KeyInv(h)'
    BY <2>3, <2>60, <2>61, UntouchedKeys
  <2>7. JobInv(p)'
    BY <1>17, <2>0, <2>3, IdleOK, BoundAssumption DEF Sweep, At, Job, Idle, TypeOK, JobInv, IssueInv, RevokeInv, ReconcileInv, PurgeInv, Issuing, Holding
  <2>8. IntentInv'
    BY <1>17, <2>4, <2>6, IntentKept DEF Sweep, Fault
  <2> QED
    BY <2>4, <2>5, <2>6, <2>7, <2>8, Together
<1>18. ASSUME NEW p \in Procs, PurgeScan(p) PROVE IInv'
  <2> DEFINE j == [job[p] EXCEPT !.pc = "purge", !.budget = MaxDeletes, !.todo = Scan(job[p].at), !.left = Scan(job[p].at)]
  <2>0. job[p] \in Job /\ JobInv(p)
    BY DEF TypeOK
  <2>02. Scan(job[p].at) \subseteq Keys /\ MaxDeletes \in 0..MaxDeletes
    BY BoundAssumption DEF Scan, TypeOK
  <2>01. p \in Purgers /\ p \notin Issuers
    BY <1>18, <2>0, ProcAssumption DEF PurgeScan, At, JobInv, IssueInv, RevokeInv, ReconcileInv, PurgeInv, Issuing, Holding, Made, InFlight, Job, KeyInv
  <2>1. job' = [job EXCEPT ![p] = j]
    BY <1>18 DEF PurgeScan, Finish, TypeOK
  <2>2. j \in Job
    BY <2>0, <2>02 DEF Job
  <2>3. job'[p] = j /\ \A q \in Procs \ {p} : job'[q] = job[q]
    BY <2>1, <2>2 DEF TypeOK
  <2>4. TypeOK'
    <3>1. job' \in [Procs -> Job]
      <4> HIDE DEF j
      <4> QED
        BY <2>1, <2>2 DEF TypeOK
    <3> QED
      BY <1>18, <2>01, <3>1, BoundAssumption DEF PurgeScan, Fault, TypeOK
  <2>5. HandlesOwn(p)
    BY <2>0, <2>01, <2>3 DEF HandlesOwn, Job, Idle
  <2>60. Untouched
    BY <1>18 DEF PurgeScan, Untouched, Fault
  <2>61. p \in Issuers => job'[p].key = None /\ ~At(p, "record")
    BY <1>18, <2>0, <2>01, <2>3, IdleOK DEF PurgeScan, At, Procs, Job
  <2>6. Steady({p}) /\ \A h \in Keys : KeyInv(h)'
    BY <2>3, <2>60, <2>61, UntouchedKeys
  <2>7. JobInv(p)'
    <3>1. /\ job'[p].pc = "purge" /\ job'[p].at = job[p].at /\ job'[p].key = job[p].key
         /\ job'[p].todo = Scan(job[p].at) /\ job'[p].left = Scan(job[p].at)
      BY <2>0, <2>3 DEF Job
    <3>2. job[p].at <= clock /\ job[p].at \in Nat
      BY <1>18, <2>0 DEF PurgeScan, At, JobInv, PurgeInv, Job
    <3>3. ASSUME NEW k \in tracked PROVE k \in Made /\ (Old(k, job[p].at) => k \in Scan(job[p].at))
      <4>1. k \in Made /\ born[k] \in Nat
        BY <3>3 DEF KeyInv, TypeOK, Made
      <4> QED
        BY <4>1, <3>2, BoundAssumption DEF Old, Scan
    <3>4. Scan(job[p].at) \subseteq Made
      BY <3>3 DEF Scan
    <3> QED
      BY <2>01, <2>60, <3>1, <3>2, <3>3, <3>4 DEF JobInv, IssueInv, RevokeInv, ReconcileInv, PurgeInv, Issuing, Holding, Made, Untouched, Old
  <2>8. IntentInv'
    BY <1>18, <2>4, <2>6, IntentKept DEF PurgeScan, Fault
  <2> QED
    BY <2>4, <2>5, <2>6, <2>7, <2>8, Together
<1>19. ASSUME NEW p \in Procs, NEW k \in Keys, PurgeDelete(p, k) PROVE IInv'
  <2>1. CASE Deletable(k) /\ live' = live \ {k} /\ job' = [job EXCEPT ![p].pc = "drop", ![p].key = k, ![p].todo = @ \ {k}, ![p].budget = @ - 1] /\ UNCHANGED bounds
    <3> DEFINE j == [job[p] EXCEPT !.pc = "drop", !.key = k, !.todo = @ \ {k}, !.budget = @ - 1]
    <3>0. job[p] \in Job /\ JobInv(p)
      BY DEF TypeOK
    <3>01. p \in Purgers /\ p \notin Issuers
      BY <1>19, <2>1, <3>0, ProcAssumption DEF PurgeDelete, At, JobInv, IssueInv, RevokeInv, ReconcileInv, PurgeInv, Issuing, Holding, Made, InFlight, Job, KeyInv
    <3>1. job' = [job EXCEPT ![p] = j]
      BY <1>19, <2>1 DEF PurgeDelete, Finish, TypeOK
    <3>2. j \in Job
      BY <1>19, <2>1, <3>0, <3>01, IdleOK, BoundAssumption DEF PurgeDelete, At, Job, TypeOK
    <3>3. job'[p] = j /\ \A q \in Procs \ {p} : job'[q] = job[q]
      BY <3>1, <3>2 DEF TypeOK
    <3>4. TypeOK'
      <4>1. job' \in [Procs -> Job]
        <5> HIDE DEF j
        <5> QED
          BY <3>1, <3>2 DEF TypeOK
      <4> QED
        BY <1>19, <2>1, <3>01, <4>1, BoundAssumption DEF PurgeDelete, Fault, TypeOK
    <3>5. HandlesOwn(p)
      BY <3>0, <3>01, <3>3 DEF HandlesOwn, Job, Idle
    <3>61. \A h \in Keys : InFlight(h)' => InFlight(h)
      BY <3>0, <3>01, <3>3, FlightStep, IdleOK, ProcAssumption DEF Job
    <3>62. Steady({p})
      BY <1>19, <2>1, <3>0, <3>01, <3>3, <3>61, IdleOK DEF PurgeDelete, Fault, Steady, At, KeyInv, TypeOK, Made
    <3>63. \A h \in Keys : (\E q \in Issuers : At(q, "record") /\ job[q].key = h) => (\E q \in Issuers : At(q, "record") /\ job[q].key = h)'
      BY <3>01, <3>3 DEF At, Procs
    <3>64. \A h \in Keys : KeyInv(h)'
      BY <1>19, <2>1, <3>0, <3>01, <3>3, <3>61, <3>63 DEF PurgeDelete, NewKey, Fault, KeyInv, Made, At, TypeOK
    <3>6. Steady({p}) /\ \A h \in Keys : KeyInv(h)'
      BY <3>62, <3>64
    <3>7. JobInv(p)'
      BY <1>19, <2>1, <3>0, <3>3, IdleOK, BoundAssumption DEF PurgeDelete, At, Job, Idle, TypeOK, JobInv, IssueInv, RevokeInv, ReconcileInv, PurgeInv, Issuing, Holding
    <3>8. IntentInv'
      BY <1>19, <2>1, <3>4, <3>6, IntentKept DEF PurgeDelete, Fault
    <3> QED
      BY <3>4, <3>5, <3>6, <3>7, <3>8, Together
  <2>2. CASE (IF Deletable(k) THEN Fault ELSE UNCHANGED bounds) /\ job' = [job EXCEPT ![p].todo = @ \ {k}, ![p].budget = @ - 1] /\ UNCHANGED live
    <3> DEFINE j == [job[p] EXCEPT !.todo = @ \ {k}, !.budget = @ - 1]
    <3>0. job[p] \in Job /\ JobInv(p)
      BY DEF TypeOK
    <3>01. p \in Purgers /\ p \notin Issuers
      BY <1>19, <2>2, <3>0, ProcAssumption DEF PurgeDelete, At, JobInv, IssueInv, RevokeInv, ReconcileInv, PurgeInv, Issuing, Holding, Made, InFlight, Job, KeyInv
    <3>1. job' = [job EXCEPT ![p] = j]
      BY <1>19, <2>2 DEF PurgeDelete, Finish, TypeOK
    <3>2. j \in Job
      BY <1>19, <2>2, <3>0, <3>01, IdleOK, BoundAssumption DEF PurgeDelete, At, Job, TypeOK
    <3>3. job'[p] = j /\ \A q \in Procs \ {p} : job'[q] = job[q]
      BY <3>1, <3>2 DEF TypeOK
    <3>4. TypeOK'
      <4>1. job' \in [Procs -> Job]
        <5> HIDE DEF j
        <5> QED
          BY <3>1, <3>2 DEF TypeOK
      <4> QED
        BY <1>19, <2>2, <3>01, <4>1, BoundAssumption DEF PurgeDelete, Fault, TypeOK
    <3>5. HandlesOwn(p)
      BY <3>0, <3>01, <3>3 DEF HandlesOwn, Job, Idle
    <3>60. Untouched
      BY <1>19, <2>2 DEF PurgeDelete, Untouched, Fault
    <3>61. p \in Issuers => job'[p].key = None /\ ~At(p, "record")
      BY <1>19, <2>2, <3>0, <3>01, <3>3, IdleOK DEF PurgeDelete, At, Procs, Job
    <3>6. Steady({p}) /\ \A h \in Keys : KeyInv(h)'
      BY <3>3, <3>60, <3>61, UntouchedKeys
    <3>7. JobInv(p)'
      BY <1>19, <2>2, <3>0, <3>3, IdleOK, BoundAssumption DEF PurgeDelete, At, Job, Idle, TypeOK, JobInv, IssueInv, RevokeInv, ReconcileInv, PurgeInv, Issuing, Holding
    <3>8. IntentInv'
      BY <1>19, <2>2, <3>4, <3>6, IntentKept DEF PurgeDelete, Fault
    <3> QED
      BY <3>4, <3>5, <3>6, <3>7, <3>8, Together
  <2>3. CASE Deletable(k) /\ Fault /\ job' = [job EXCEPT ![p].todo = {}] /\ UNCHANGED live
    <3> DEFINE j == [job[p] EXCEPT !.todo = {}]
    <3>0. job[p] \in Job /\ JobInv(p)
      BY DEF TypeOK
    <3>01. p \in Purgers /\ p \notin Issuers
      BY <1>19, <2>3, <3>0, ProcAssumption DEF PurgeDelete, At, JobInv, IssueInv, RevokeInv, ReconcileInv, PurgeInv, Issuing, Holding, Made, InFlight, Job, KeyInv
    <3>1. job' = [job EXCEPT ![p] = j]
      BY <1>19, <2>3 DEF PurgeDelete, Finish, TypeOK
    <3>2. j \in Job
      BY <1>19, <2>3, <3>0, <3>01, IdleOK, BoundAssumption DEF PurgeDelete, At, Job, TypeOK
    <3>3. job'[p] = j /\ \A q \in Procs \ {p} : job'[q] = job[q]
      BY <3>1, <3>2 DEF TypeOK
    <3>4. TypeOK'
      <4>1. job' \in [Procs -> Job]
        <5> HIDE DEF j
        <5> QED
          BY <3>1, <3>2 DEF TypeOK
      <4> QED
        BY <1>19, <2>3, <3>01, <4>1, BoundAssumption DEF PurgeDelete, Fault, TypeOK
    <3>5. HandlesOwn(p)
      BY <3>0, <3>01, <3>3 DEF HandlesOwn, Job, Idle
    <3>60. Untouched
      BY <1>19, <2>3 DEF PurgeDelete, Untouched, Fault
    <3>61. p \in Issuers => job'[p].key = None /\ ~At(p, "record")
      BY <1>19, <2>3, <3>0, <3>01, <3>3, IdleOK DEF PurgeDelete, At, Procs, Job
    <3>6. Steady({p}) /\ \A h \in Keys : KeyInv(h)'
      BY <3>3, <3>60, <3>61, UntouchedKeys
    <3>7. JobInv(p)'
      <4>1. /\ job'[p].pc = "purge" /\ job'[p].at = job[p].at /\ job'[p].key = job[p].key
           /\ job'[p].todo = {} /\ job'[p].left = job[p].left
        BY <1>19, <2>3, <3>0, <3>3 DEF PurgeDelete, At, Job
      <4>2. PurgeInv(p) /\ job[p].pc = "purge"
        BY <1>19, <2>3 DEF PurgeDelete, At, JobInv
      <4> QED
        BY <3>01, <3>60, <4>1, <4>2 DEF JobInv, IssueInv, RevokeInv, ReconcileInv, PurgeInv, Issuing, Holding, Made, Untouched, Old
    <3>8. IntentInv'
      BY <1>19, <2>3, <3>4, <3>6, IntentKept DEF PurgeDelete, Fault
    <3> QED
      BY <3>4, <3>5, <3>6, <3>7, <3>8, Together
  <2> QED
    BY <1>19, <2>1, <2>2, <2>3 DEF PurgeDelete
<1>20. ASSUME NEW p \in Procs, PurgeDrop(p) PROVE IInv'
  <2>1. CASE tracked' = tracked \ {job[p].key} /\ job' = [job EXCEPT ![p].pc = "purge", ![p].key = None, ![p].left = @ \ {job[p].key}] /\ UNCHANGED bounds
    <3> DEFINE j == [job[p] EXCEPT !.pc = "purge", !.key = None, !.left = @ \ {job[p].key}]
    <3>0. job[p] \in Job /\ JobInv(p)
      BY DEF TypeOK
    <3>01. p \in Purgers /\ p \notin Issuers /\ job[p].key \in Made \ live
      BY <1>20, <2>1, <3>0, ProcAssumption DEF PurgeDrop, At, JobInv, IssueInv, RevokeInv, ReconcileInv, PurgeInv, Issuing, Holding, Made, InFlight, Job, KeyInv
    <3>1. job' = [job EXCEPT ![p] = j]
      BY <1>20, <2>1 DEF PurgeDrop, Finish, TypeOK
    <3>2. j \in Job
      BY <1>20, <2>1, <3>0, <3>01, IdleOK, BoundAssumption DEF PurgeDrop, At, Job, TypeOK
    <3>3. job'[p] = j /\ \A q \in Procs \ {p} : job'[q] = job[q]
      BY <3>1, <3>2 DEF TypeOK
    <3>4. TypeOK'
      <4>1. job' \in [Procs -> Job]
        <5> HIDE DEF j
        <5> QED
          BY <3>1, <3>2 DEF TypeOK
      <4> QED
        BY <1>20, <2>1, <3>01, <4>1, BoundAssumption DEF PurgeDrop, Fault, TypeOK
    <3>5. HandlesOwn(p)
      BY <3>0, <3>01, <3>3 DEF HandlesOwn, Job, Idle
    <3>61. \A h \in Keys : InFlight(h)' => InFlight(h)
      BY <3>0, <3>01, <3>3, FlightStep, IdleOK, ProcAssumption DEF Job
    <3>62. Steady({p})
      BY <1>20, <2>1, <3>0, <3>01, <3>3, <3>61, IdleOK DEF PurgeDrop, Fault, Steady, At, KeyInv, TypeOK, Made
    <3>63. \A h \in Keys : (\E q \in Issuers : At(q, "record") /\ job[q].key = h) => (\E q \in Issuers : At(q, "record") /\ job[q].key = h)'
      BY <3>01, <3>3 DEF At, Procs
    <3>630. tracked' = tracked \ {job[p].key} /\ UNCHANGED <<clock, live, born, ledger, lease, unrecorded>>
      BY <1>20, <2>1 DEF PurgeDrop, Fault
    <3>64. \A h \in Keys : KeyInv(h)'
      BY <3>01, <3>61, <3>63, <3>630 DEF KeyInv, Made, TypeOK
    <3>6. Steady({p}) /\ \A h \in Keys : KeyInv(h)'
      BY <3>62, <3>64
    <3>7. JobInv(p)'
      <4>1. /\ job'[p].pc = "purge" /\ job'[p].at = job[p].at /\ job'[p].key = None
           /\ job'[p].todo = job[p].todo /\ job'[p].left = job[p].left \ {job[p].key}
        BY <3>0, <3>3 DEF Job
      <4>2. PurgeInv(p) /\ job[p].pc = "drop"
        BY <1>20, <2>1 DEF PurgeDrop, At, JobInv
      <4> QED
        BY <3>01, <3>630, <4>1, <4>2 DEF JobInv, IssueInv, RevokeInv, ReconcileInv, PurgeInv, Issuing, Holding, Made, Old
    <3>8. IntentInv'
      BY <1>20, <2>1, <3>4, <3>6, IntentKept DEF PurgeDrop, Fault
    <3> QED
      BY <3>4, <3>5, <3>6, <3>7, <3>8, Together
  <2>2. CASE Fault /\ Finish(p) /\ UNCHANGED tracked
    <3> DEFINE j == Idle
    <3>0. job[p] \in Job /\ JobInv(p)
      BY DEF TypeOK
    <3>01. p \in Purgers /\ p \notin Issuers
      BY <1>20, <2>2, <3>0, ProcAssumption DEF PurgeDrop, At, JobInv, IssueInv, RevokeInv, ReconcileInv, PurgeInv, Issuing, Holding, Made, InFlight, Job, KeyInv
    <3>1. job' = [job EXCEPT ![p] = j]
      BY <1>20, <2>2 DEF PurgeDrop, Finish, TypeOK
    <3>2. j \in Job
      BY <1>20, <2>2, <3>0, <3>01, IdleOK, BoundAssumption DEF PurgeDrop, At, Job, TypeOK
    <3>3. job'[p] = j /\ \A q \in Procs \ {p} : job'[q] = job[q]
      BY <3>1, <3>2 DEF TypeOK
    <3>4. TypeOK'
      <4>1. job' \in [Procs -> Job]
        <5> HIDE DEF j
        <5> QED
          BY <3>1, <3>2 DEF TypeOK
      <4> QED
        BY <1>20, <2>2, <3>01, <4>1, BoundAssumption DEF PurgeDrop, Fault, TypeOK
    <3>5. HandlesOwn(p)
      BY <3>0, <3>01, <3>3 DEF HandlesOwn, Job, Idle
    <3>60. Untouched
      BY <1>20, <2>2 DEF PurgeDrop, Untouched, Fault
    <3>61. p \in Issuers => job'[p].key = None /\ ~At(p, "record")
      BY <1>20, <2>2, <3>0, <3>01, <3>3, IdleOK DEF PurgeDrop, At, Procs, Job
    <3>6. Steady({p}) /\ \A h \in Keys : KeyInv(h)'
      BY <3>3, <3>60, <3>61, UntouchedKeys
    <3>7. JobInv(p)'
      BY <1>20, <2>2, <3>0, <3>3, IdleOK, BoundAssumption DEF PurgeDrop, At, Job, Idle, TypeOK, JobInv, IssueInv, RevokeInv, ReconcileInv, PurgeInv, Issuing, Holding
    <3>8. IntentInv'
      BY <1>20, <2>2, <3>4, <3>6, IntentKept DEF PurgeDrop, Fault
    <3> QED
      BY <3>4, <3>5, <3>6, <3>7, <3>8, Together
  <2> QED
    BY <1>20, <2>1, <2>2 DEF PurgeDrop
<1>21. ASSUME NEW p \in Procs, SaveIntent(p) PROVE IInv'
  <2>1. CASE intent' = [cutoff |-> job[p].at, complete |-> job[p].left = {}] /\ UNCHANGED bounds
    <3> DEFINE j == Idle
    <3>0. job[p] \in Job /\ JobInv(p)
      BY DEF TypeOK
    <3>01. p \in Purgers /\ p \notin Issuers /\ job[p].at \in Nat /\ job[p].at <= clock /\ \A k \in tracked : Old(k, job[p].at) => k \in job[p].left
      BY <1>21, <2>1, <3>0, ProcAssumption DEF SaveIntent, At, JobInv, IssueInv, RevokeInv, ReconcileInv, PurgeInv, Issuing, Holding, Made, InFlight, Job, KeyInv
    <3>1. job' = [job EXCEPT ![p] = j]
      BY <1>21, <2>1 DEF SaveIntent, Finish, TypeOK
    <3>2. j \in Job
      BY <1>21, <2>1, <3>0, <3>01, IdleOK, BoundAssumption DEF SaveIntent, At, Job, TypeOK, Intent
    <3>3. job'[p] = j /\ \A q \in Procs \ {p} : job'[q] = job[q]
      BY <3>1, <3>2 DEF TypeOK
    <3>4. TypeOK'
      <4>1. job' \in [Procs -> Job]
        <5> HIDE DEF j
        <5> QED
          BY <3>1, <3>2 DEF TypeOK
      <4> QED
        BY <1>21, <2>1, <3>01, <4>1, BoundAssumption DEF SaveIntent, Fault, TypeOK, Intent
    <3>5. HandlesOwn(p)
      BY <3>0, <3>01, <3>3 DEF HandlesOwn, Job, Idle
    <3>60. Untouched
      BY <1>21, <2>1 DEF SaveIntent, Untouched, Fault
    <3>61. p \in Issuers => job'[p].key = None /\ ~At(p, "record")
      BY <1>21, <2>1, <3>0, <3>01, <3>3, IdleOK DEF SaveIntent, At, Procs, Job
    <3>6. Steady({p}) /\ \A h \in Keys : KeyInv(h)'
      BY <3>3, <3>60, <3>61, UntouchedKeys
    <3>7. JobInv(p)'
      BY <1>21, <2>1, <3>0, <3>3, IdleOK, BoundAssumption DEF SaveIntent, At, Job, Idle, TypeOK, JobInv, IssueInv, RevokeInv, ReconcileInv, PurgeInv, Issuing, Holding
    <3>8. IntentInv'
      BY <1>21, <2>1, <3>01 DEF SaveIntent, IntentInv, Old
    <3> QED
      BY <3>4, <3>5, <3>6, <3>7, <3>8, Together
  <2>2. CASE Fault /\ UNCHANGED intent
    <3> DEFINE j == Idle
    <3>0. job[p] \in Job /\ JobInv(p)
      BY DEF TypeOK
    <3>01. p \in Purgers /\ p \notin Issuers
      BY <1>21, <2>2, <3>0, ProcAssumption DEF SaveIntent, At, JobInv, IssueInv, RevokeInv, ReconcileInv, PurgeInv, Issuing, Holding, Made, InFlight, Job, KeyInv
    <3>1. job' = [job EXCEPT ![p] = j]
      BY <1>21, <2>2 DEF SaveIntent, Finish, TypeOK
    <3>2. j \in Job
      BY <1>21, <2>2, <3>0, <3>01, IdleOK, BoundAssumption DEF SaveIntent, At, Job, TypeOK
    <3>3. job'[p] = j /\ \A q \in Procs \ {p} : job'[q] = job[q]
      BY <3>1, <3>2 DEF TypeOK
    <3>4. TypeOK'
      <4>1. job' \in [Procs -> Job]
        <5> HIDE DEF j
        <5> QED
          BY <3>1, <3>2 DEF TypeOK
      <4> QED
        BY <1>21, <2>2, <3>01, <4>1, BoundAssumption DEF SaveIntent, Fault, TypeOK
    <3>5. HandlesOwn(p)
      BY <3>0, <3>01, <3>3 DEF HandlesOwn, Job, Idle
    <3>60. Untouched
      BY <1>21, <2>2 DEF SaveIntent, Untouched, Fault
    <3>61. p \in Issuers => job'[p].key = None /\ ~At(p, "record")
      BY <1>21, <2>2, <3>0, <3>01, <3>3, IdleOK DEF SaveIntent, At, Procs, Job
    <3>6. Steady({p}) /\ \A h \in Keys : KeyInv(h)'
      BY <3>3, <3>60, <3>61, UntouchedKeys
    <3>7. JobInv(p)'
      BY <1>21, <2>2, <3>0, <3>3, IdleOK, BoundAssumption DEF SaveIntent, At, Job, Idle, TypeOK, JobInv, IssueInv, RevokeInv, ReconcileInv, PurgeInv, Issuing, Holding
    <3>8. IntentInv'
      BY <1>21, <2>2, <3>4, <3>6, IntentKept DEF SaveIntent, Fault
    <3> QED
      BY <3>4, <3>5, <3>6, <3>7, <3>8, Together
  <2> QED
    BY <1>21, <2>1, <2>2 DEF SaveIntent
<1>22. ASSUME NEW p \in Procs, NEW k \in Keys, RevokeNoMinter(p, k) PROVE IInv'
  <2>1. /\ lease[k] = "ending" /\ (\A q \in Revokers : job[q].key # k) /\ job' = job /\ clock' = clock
        /\ live' = live /\ born' = born /\ ledger' = ledger /\ unrecorded' = unrecorded /\ intent' = intent
        /\ lease' = [lease EXCEPT ![k] = "none"] /\ tracked' \in {tracked, tracked \ {k}}
    BY <1>22 DEF RevokeNoMinter
  <2>2. TypeOK'
    BY <1>22 DEF RevokeNoMinter, Fault, TypeOK
  <2>3. \A h : InFlight(h)' <=> InFlight(h)
    BY <2>1 DEF InFlight
  <2>4. Steady({})
    BY <2>1, <2>3 DEF Steady, Made, TypeOK
  <2>5. \A h \in Keys : KeyInv(h)'
    BY <2>1, <2>3 DEF KeyInv, Made, TypeOK, At
  <2> QED
    BY <2>1, <2>2, <2>4, <2>5, NobodyMoves
<1>23. ASSUME NEW k \in Keys, Expire(k) PROVE IInv'
  <2>1. /\ lease[k] = "active" /\ lease' = [lease EXCEPT ![k] = "ending"]
        /\ UNCHANGED <<clock, live, born, tracked, ledger, intent, job, unrecorded>>
    BY <1>23 DEF Expire
  <2>2. TypeOK'
    BY <1>23 DEF Expire, TypeOK
  <2>3. \A h : InFlight(h)' <=> InFlight(h)
    BY <2>1 DEF InFlight
  <2>4. Steady({})
    BY <2>1, <2>3 DEF Steady, Made, TypeOK
  <2>5. \A h \in Keys : KeyInv(h)'
    BY <2>1, <2>3 DEF KeyInv, Made, TypeOK, At
  <2> QED
    BY <2>1, <2>2, <2>4, <2>5, NobodyMoves
<1>24. CASE (\E S \in SUBSET Minters : WriteSet(S)) \/ (\E m \in Minters : Refuse(m) \/ Repair(m)) \/ UNCHANGED vars
  <2>1. UNCHANGED <<clock, live, born, issuer, tracked, ledger, intent, lease, job, unrecorded>>
    BY <1>24 DEF WriteSet, Refuse, Repair, vars
  <2>2. TypeOK'
    <3>1. ASSUME NEW S \in SUBSET Minters, WriteSet(S) PROVE TypeOK'
      BY <2>1, <3>1 DEF WriteSet, TypeOK
    <3>2. ASSUME NEW m \in Minters, Refuse(m) PROVE TypeOK'
      BY <2>1, <3>2 DEF Refuse, Fault, TypeOK
    <3>3. ASSUME NEW m \in Minters, Repair(m) PROVE TypeOK'
      BY <2>1, <3>3 DEF Repair, TypeOK
    <3>4. CASE UNCHANGED vars
      BY <3>4 DEF vars, TypeOK
    <3> QED
      BY <1>24, <3>1, <3>2, <3>3, <3>4
  <2>3. \A h : InFlight(h)' <=> InFlight(h)
    BY <2>1 DEF InFlight
  <2>4. Steady({})
    BY <2>1, <2>3 DEF Steady, Made, TypeOK
  <2>5. \A h \in Keys : KeyInv(h)'
    BY <2>1, <2>3 DEF KeyInv, Made, TypeOK, At
  <2> QED
    BY <2>1, <2>2, <2>4, <2>5, NobodyMoves
<1>25. CASE Tick
  <2>1. /\ clock' = clock + 1 /\ UNCHANGED <<live, born, tracked, ledger, intent, lease, job, unrecorded>>
        /\ \A p \in Issuers : At(p, "idle") \/ clock - job[p].at < MaxOp
    BY <1>25 DEF Tick
  <2>2. TypeOK' /\ OneHandler'
    BY <1>25 DEF Tick, TypeOK, OneHandler
  <2>3. \A h : InFlight(h)' <=> InFlight(h)
    BY <2>1 DEF InFlight
  <2>4. ASSUME NEW p \in Procs PROVE JobInv(p)'
    <3>1. JobInv(p) /\ job[p] \in Job /\ clock \in Nat
      BY DEF TypeOK
    <3>2. IssueInv(p)'
      <4>1. job[p].pc \in Issuing => p \in Issuers /\ job[p].at <= clock' /\ clock' - job[p].at <= MaxOp
        BY <2>1, <3>1, BoundAssumption DEF JobInv, IssueInv, Issuing, At, Job
      <4> QED
        BY <2>1, <3>1, <4>1 DEF JobInv, IssueInv
    <3>3. RevokeInv(p)'
      BY <2>1, <3>1 DEF JobInv, RevokeInv
    <3>4. ReconcileInv(p)'
      BY <2>1, <2>3, <3>1 DEF JobInv, ReconcileInv, Made, Job
    <3>5. PurgeInv(p)'
      BY <2>1, <3>1 DEF JobInv, PurgeInv, Made, Job, Old
    <3> QED
      BY <2>1, <3>1, <3>2, <3>3, <3>4, <3>5 DEF JobInv
  <2>5. ASSUME NEW h \in Keys PROVE KeyInv(h)'
    <3>1. KeyInv(h) /\ clock \in Nat /\ (h \in Made => born[h] \in Nat)
      BY DEF TypeOK, Made
    <3> QED
      BY <2>1, <2>3, <3>1, BoundAssumption DEF KeyInv, Made, At
  <2>6. IntentInv'
    BY <2>1 DEF IntentInv, Old, TypeOK, Intent
  <2> QED
    BY <2>2, <2>4, <2>5, <2>6 DEF IInv
<1>26. CASE Crash
  <2>1. /\ job' = [p \in Procs |-> Idle]
        /\ unrecorded' = unrecorded \cup {job[p].key : p \in {q \in Issuers : At(q, "record")}}
        /\ UNCHANGED <<clock, live, born, issuer, tracked, ledger, intent, lease, members, accepted>> /\ faults' = faults + 1 /\ acts' = acts
    BY <1>26 DEF Crash, Fault
  <2>2. TypeOK'
    <3>1. {job[p].key : p \in {q \in Issuers : At(q, "record")}} \subseteq Keys
      BY DEF JobInv, IssueInv, Holding, Issuing, At, Procs
    <3> QED
      BY <2>1, <3>1, IdleOK DEF TypeOK
  <2>3. \A p \in Procs : job'[p] = Idle
    BY <2>1
  <2>4. ASSUME NEW p \in Procs PROVE JobInv(p)'
    <3>1. job'[p] = Idle /\ Idle.pc = "idle" /\ Idle.key = None
      BY <2>3, IdleOK
    <3> QED
      BY <3>1 DEF JobInv, IssueInv, RevokeInv, ReconcileInv, PurgeInv, Issuing, Holding
  <2>5. \A h \in Keys : ~InFlight(h)'
    BY <2>3, IdleOK, ProcAssumption DEF InFlight, Procs
  <2>6. \A h \in Keys : KeyInv(h)'
    BY <2>1, <2>5 DEF KeyInv, Made, At
  <2>7. OneHandler' /\ IntentInv'
    BY <2>1, <2>3, IdleOK DEF OneHandler, IntentInv, Old, Procs
  <2> QED
    BY <2>2, <2>4, <2>6, <2>7 DEF IInv
<1> QED
  BY <1>1, <1>2, <1>3, <1>4, <1>5, <1>6, <1>7, <1>8, <1>9, <1>10, <1>11, <1>12, <1>13, <1>14, <1>15, <1>16, <1>17, <1>18, <1>19, <1>20, <1>21, <1>22, <1>23, <1>24, <1>25, <1>26 DEF Next, IssueStep, RevokeStep, ReconcileStep, PurgeStep

\* The steps that delete a key upstream.
LEMMA Deletes ==
    ASSUME [Next]_vars, NEW k \in live \ live'
    PROVE  \E p \in Procs :
              \/ Undo(p) /\ job[p].key = k
              \/ RevokeDelete(p) /\ job[p].key = k
              \/ DeleteEntity(p, k)
              \/ PurgeDelete(p, k)
<1> USE DEF cloud, storage, minters, bounds
<1>1. ASSUME NEW p \in Procs, IssueStep(p) PROVE Undo(p) /\ job[p].key = k
  BY <1>1 DEF IssueStep, CreateAPIKey, CreateFail, NewKey, Record, TrackActiveKey, Undo, Register
<1>2. ASSUME NEW p \in Procs, RevokeStep(p) PROVE RevokeDelete(p) /\ job[p].key = k
  BY <1>2 DEF RevokeStep, RevokeDelete, RevokeForget
<1>3. ASSUME NEW p \in Procs, Issue(p) \/ ReconcileList(p) \/ Arm(p) \/ Sweep(p) PROVE FALSE
  BY <1>3 DEF Issue, ReconcileList, Arm, Sweep
<1>4. ASSUME NEW p \in Procs, PurgeStep(p) PROVE PurgeDelete(p, k)
  <2>1. CASE PurgeScan(p) \/ PurgeDrop(p) \/ SaveIntent(p)
    BY <2>1 DEF PurgeScan, PurgeDrop, SaveIntent
  <2>2. ASSUME NEW h \in Keys, PurgeDelete(p, h) PROVE PurgeDelete(p, k)
    <3>1. k = h
      BY <2>2 DEF PurgeDelete
    <3> QED
      BY <2>2, <3>1
  <2> QED
    BY <1>4, <2>1, <2>2 DEF PurgeStep
<1>5. ASSUME NEW p \in Procs, ReconcileStep(p) PROVE DeleteEntity(p, k)
  <2>1. CASE ReconcileAge(p) \/ OwnedIDs(p) \/ ReconcileEnd(p)
    BY <2>1 DEF ReconcileAge, OwnedIDs, ReconcileEnd
  <2>2. ASSUME NEW h \in Keys, DeleteEntity(p, h) PROVE DeleteEntity(p, k)
    <3>1. k = h
      BY <2>2 DEF DeleteEntity
    <3> QED
      BY <2>2, <3>1
  <2> QED
    BY <1>5, <2>1, <2>2 DEF ReconcileStep
<1>6. ASSUME NEW p \in Procs, NEW h \in Keys, Revoke(p, h) \/ RevokeNoMinter(p, h) PROVE FALSE
  BY <1>6 DEF Revoke, RevokeNoMinter
<1>7. ASSUME \/ \E h \in Keys : Expire(h)
             \/ \E S \in SUBSET Minters : WriteSet(S)
             \/ \E m \in Minters : Refuse(m) \/ Repair(m)
             \/ Tick \/ Crash \/ UNCHANGED vars
      PROVE  FALSE
  BY <1>7 DEF Expire, Tick, WriteSet, Refuse, Repair, Crash, vars
<1> QED
  BY <1>1, <1>2, <1>3, <1>4, <1>5, <1>6, <1>7 DEF Next

\* The steps that remove a tracking entry.
LEMMA Untracks ==
    ASSUME [Next]_vars, NEW k \in tracked \ tracked'
    PROVE  \E p \in Procs :
              \/ (RevokeForget(p) \/ PurgeDrop(p)) /\ job[p].key = k
              \/ RevokeNoMinter(p, k)
<1> USE DEF cloud, storage, minters, bounds
<1>1. ASSUME NEW p \in Procs, IssueStep(p) PROVE FALSE
  BY <1>1 DEF IssueStep, CreateAPIKey, CreateFail, NewKey, Record, TrackActiveKey, Undo, Register
<1>2. ASSUME NEW p \in Procs, RevokeStep(p) PROVE RevokeForget(p) /\ job[p].key = k
  BY <1>2 DEF RevokeStep, RevokeDelete, RevokeForget
<1>3. ASSUME NEW p \in Procs, Issue(p) \/ ReconcileList(p) \/ Arm(p) \/ Sweep(p) PROVE FALSE
  BY <1>3 DEF Issue, ReconcileList, Arm, Sweep
<1>4. ASSUME NEW p \in Procs, PurgeStep(p) PROVE PurgeDrop(p) /\ job[p].key = k
  BY <1>4 DEF PurgeStep, PurgeScan, PurgeDrop, PurgeDelete, SaveIntent
<1>5. ASSUME NEW p \in Procs, NEW h \in Keys, RevokeNoMinter(p, h) PROVE RevokeNoMinter(p, k)
  <2>1. k = h
    BY <1>5 DEF RevokeNoMinter
  <2> QED
    BY <1>5, <2>1
<1>6. ASSUME NEW p \in Procs, (\E h \in Keys : Revoke(p, h)) \/ ReconcileStep(p) PROVE FALSE
  BY <1>6 DEF Revoke, ReconcileStep, ReconcileAge, OwnedIDs, DeleteEntity, ReconcileEnd
<1>7. ASSUME \/ \E h \in Keys : Expire(h)
             \/ \E S \in SUBSET Minters : WriteSet(S)
             \/ \E m \in Minters : Refuse(m) \/ Repair(m)
             \/ Tick \/ Crash \/ UNCHANGED vars
      PROVE  FALSE
  BY <1>7 DEF Expire, Tick, WriteSet, Refuse, Repair, Crash, vars
<1> QED
  BY <1>1, <1>2, <1>3, <1>4, <1>5, <1>6, <1>7 DEF Next

-----------------------------------------------------------------------------
\* The invariant holds of every execution.
LEMMA Invariant == Spec => []IInv
<1> QED
  BY InitInv, NextInv, PTL DEF Spec

\* Keys, records and the locals of every goroutine keep their types.
THEOREM TypeCorrect == Spec => []TypeOK
<1>1. IInv => TypeOK
  BY DEF IInv
<1> QED
  BY <1>1, Invariant, PTL

\* A key that works, and whose id and date were not lost, is in the hands of its
\* issue, or tracked, or dated in the ledger until it is older than the ledger
\* retains: however issues, revocations, passes, purges and failovers interleave
\* (trackActiveKey, mintledger.Record).
THEOREM KeysStayReclaimable == Spec => []Reclaimable
<1>1. ASSUME IInv PROVE Reclaimable
  <2> SUFFICES ASSUME NEW k \in live \ unrecorded
               PROVE  \/ InFlight(k) \/ k \in tracked \/ ledger[k] # None
                      \/ clock - born[k] > Retention
    BY DEF Reclaimable
  <2>1. k \in Keys /\ KeyInv(k)
    BY <1>1 DEF IInv, TypeOK
  <2> QED
    BY <2>1 DEF KeyInv, InFlight
<1> QED
  BY <1>1, Invariant, PTL

\* A purge that the stored intent says is complete has left no tracked key asked
\* for more than MaxOp before its cutoff (upstreampurge.Advance).
THEOREM PurgesComplete == Spec => []PurgeComplete
<1>1. ASSUME IInv PROVE PurgeComplete
  <2> SUFFICES ASSUME intent # None, intent.complete, NEW k \in tracked
               PROVE  born[k] + MaxOp >= intent.cutoff
    BY DEF PurgeComplete
  <2>1. k \in Keys /\ born[k] \in Nat /\ intent.cutoff \in Nat
    BY <1>1 DEF IInv, TypeOK, KeyInv, Made, Intent
  <2>2. ~Old(k, intent.cutoff)
    BY <1>1 DEF IInv, IntentInv
  <2> QED
    BY <2>1, <2>2, BoundAssumption DEF Old
<1> QED
  BY <1>1, Invariant, PTL

\* Only a purge, or its own issue, deletes a key that a client has a lease on or
\* is about to be given: no pass of the reconciler and no other lease's
\* revocation does (reconciler.Run, pathCredsRevoke).
THEOREM LeasedKeysSpared == Spec => LeasedKeysLive
<1>1. ASSUME IInv, [Next]_vars, NEW k \in live \ live', lease[k] = "active" \/ InFlight(k)
      PROVE  \/ \E p \in Purgers : PurgeDelete(p, k)
             \/ \E p \in Issuers : job[p].key = k /\ Undo(p)
  <2>0. k \in Keys /\ KeyInv(k) /\ \A q \in Procs : JobInv(q)
    BY <1>1 DEF IInv, TypeOK
  <2>1. PICK p \in Procs :
          \/ Undo(p) /\ job[p].key = k
          \/ RevokeDelete(p) /\ job[p].key = k
          \/ DeleteEntity(p, k)
          \/ PurgeDelete(p, k)
    BY <1>1, Deletes
  <2>2. JobInv(p)
    BY <2>0
  <2>3. CASE Undo(p) /\ job[p].key = k
    BY <2>2, <2>3 DEF Undo, At, JobInv, IssueInv, Issuing
  <2>4. ~RevokeDelete(p) \/ job[p].key # k
    BY <1>1, <2>0, <2>2 DEF RevokeDelete, At, JobInv, RevokeInv, KeyInv
  <2>5. ~DeleteEntity(p, k)
    BY <1>1, <2>2 DEF DeleteEntity, At, JobInv, ReconcileInv
  <2>6. CASE PurgeDelete(p, k)
    BY <2>2, <2>6 DEF PurgeDelete, At, JobInv, PurgeInv
  <2> QED
    BY <2>1, <2>3, <2>4, <2>5, <2>6
<1>2. IInv /\ [Next]_vars =>
        [\A k \in live \ live' :
            lease[k] = "active" \/ InFlight(k) =>
                \/ \E p \in Purgers : PurgeDelete(p, k)
                \/ \E p \in Issuers : job[p].key = k /\ Undo(p)]_vars
  BY <1>1
<1> QED
  BY <1>2, Invariant, PTL DEF Spec, LeasedKeysLive

\* A tracking entry is removed after its key is gone, unless a revocation finds
\* no minter to delete the key with (pathCredsRevoke, upstreampurge.Pass).
THEOREM TrackedOutlivesKey == Spec => TrackedUntilGone
<1>1. ASSUME IInv, [Next]_vars, NEW k \in tracked \ tracked'
      PROVE  k \notin live \/ \E p \in Revokers : RevokeNoMinter(p, k)
  <2>1. PICK p \in Procs :
          \/ (RevokeForget(p) \/ PurgeDrop(p)) /\ job[p].key = k
          \/ RevokeNoMinter(p, k)
    BY <1>1, Untracks
  <2>2. JobInv(p)
    BY <1>1 DEF IInv
  <2>3. CASE (RevokeForget(p) \/ PurgeDrop(p)) /\ job[p].key = k
    BY <2>2, <2>3 DEF RevokeForget, PurgeDrop, At, JobInv, RevokeInv, PurgeInv
  <2>4. CASE RevokeNoMinter(p, k)
    BY <2>4 DEF RevokeNoMinter
  <2> QED
    BY <2>1, <2>3, <2>4
<1>2. IInv /\ [Next]_vars =>
        [\A k \in tracked \ tracked' : k \notin live \/ \E p \in Revokers : RevokeNoMinter(p, k)]_vars
  BY <1>1
<1> QED
  BY <1>2, Invariant, PTL DEF Spec, TrackedUntilGone
=============================================================================
