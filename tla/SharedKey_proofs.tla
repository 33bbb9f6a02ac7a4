-------------------------- MODULE SharedKey_proofs --------------------------
(***************************************************************************)
(* Proofs, for every set of keys, goroutines and role definitions, of what *)
(* SharedKey's record, tracking records and leases keep true.  IInv is the *)
(* inductive invariant; LeaseInv is added on top of it where time matters. *)
(***************************************************************************)
EXTENDS SharedKey, TLAPS

\* The initial state satisfies the inductive invariant.
LEMMA InitInv == Init => IInv
<1> SUFFICES ASSUME Init PROVE IInv
  OBVIOUS
<1>1. Idle \in Job
  BY DEF Idle, Job, PC, Timed
<1>2. job \in [Procs -> Job]
  BY <1>1 DEF Init
<1>3. \A p \in Procs : job[p].pc \notin Locked /\ lock # p
  BY ProcAssumption DEF Init, Idle, Locked, Rotating, Sweeping
<1>4. TypeOK
  BY <1>2, <1>3 DEF Init, TypeOK
<1>5. StructInv
  BY ProcAssumption DEF Init, StructInv, JobInv, Idle, Recorded, ServedKeysOwned,
     Locked, Rotating, Sweeping
<1>6. QED
  BY <1>4, <1>5 DEF IInv

\* A lease handed out on a key leaves every lease end a natural number.
LEMMA LeaseType ==
    ASSUME leaseEnd \in [Keys -> Nat], NEW k \in Keys, NEW due \in Nat,
           NEW r \in RoleConfigs, NEW now \in Nat, Lease(k, due, r, now)
    PROVE  leaseEnd' \in [Keys -> Nat]
BY RoleAssumption DEF Lease, Least, Greatest, RoleType

\* The instant a key is due is a natural number.
LEMMA DueType ==
    ASSUME TypeOK, NEW k \in Keys, NEW r \in RoleConfigs
    PROVE  DueAt(k, r) \in Nat
BY RoleAssumption DEF TypeOK, DueAt, Least, RoleType

\* A failed rotation frees the lock, ends the goroutine's work and at most
\* hands out one more lease.
LEMMA FailType ==
    ASSUME IInv, NEW p \in Procs, job[p].pc \in Rotating, RotationFailed(p)
    PROVE  /\ leaseEnd' \in [Keys -> Nat]
           /\ job' = [job EXCEPT ![p] = Idle]
           /\ job' \in [Procs -> Job]
           /\ lock' = NoProc
           /\ \A q \in Procs : job'[q].pc \notin Locked
<1> USE DEF IInv, TypeOK
<1>1. job[p] \in Job /\ job[p].role \in RoleConfigs /\ job[p].cur = cur
  BY DEF StructInv, JobInv, Locked
<1>2. lock = p /\ lock' = NoProc /\ job' = [job EXCEPT ![p] = Idle]
  BY DEF RotationFailed, Finish, Locked
<1>3. Idle \in Job /\ Idle.pc \notin Locked
  BY DEF Idle, Job, PC, Timed, Locked, Rotating, Sweeping
<1>4. job' \in [Procs -> Job] /\ \A q \in Procs : job'[q].pc \notin Locked
  BY <1>2, <1>3
<1>5. CASE cur # NoKey
  <2>1. DueAt(cur, job[p].role) \in Nat /\ job[p].now \in Nat /\ cur \in Keys
    BY <1>1, <1>5, DueType DEF Job
  <2>2. leaseEnd' = leaseEnd \/ Lease(cur, DueAt(cur, job[p].role), job[p].role, job[p].now)
    BY <1>1 DEF RotationFailed
  <2>3. leaseEnd' \in [Keys -> Nat]
    BY <1>1, <2>1, <2>2, LeaseType
  <2>4. QED
    BY <1>2, <1>4, <2>3
<1>6. CASE cur = NoKey
  BY <1>1, <1>2, <1>4, <1>6 DEF RotationFailed
<1>7. QED
  BY <1>5, <1>6

\* Every step of every goroutine and of the environment preserves it.
LEMMA StepInv == IInv /\ [Next]_vars => IInv'
<1> SUFFICES ASSUME IInv, [Next]_vars PROVE IInv'
  OBVIOUS
<1> USE ProcAssumption, RoleAssumption, KeyAssumption
    DEF IInv, TypeOK, At, admin, store, cloud, Job, PC, Timed, Locked, Rotating, Sweeping
<1>1. ASSUME NEW p \in Procs, LoadRole(p) PROVE IInv'
  <2>1. TypeOK'
    BY <1>1, SMTT(60) DEF StructInv, JobInv, LoadRole
  <2>2. StructInv'
    BY <1>1, SMTT(60) DEF StructInv, JobInv, ServedKeysOwned, Recorded, LoadRole
  <2>3. QED
    BY <2>1, <2>2
<1>2. ASSUME NEW p \in Procs, ReadCheck(p) PROVE IInv'
  <2>1. job[p].role \in RoleConfigs /\ job[p] \in Job
    BY <1>2 DEF StructInv, JobInv, ReadCheck
  <2>2. CASE RotationReason(job[p].role, clock) = "none" /\ job' = [job EXCEPT ![p] = Idle]
    <3>1. cur \in Keys
      BY <2>2 DEF RotationReason
    <3>2. DueAt(cur, job[p].role) \in Nat
      BY <2>1, <3>1, DueType
    <3>3. Lease(cur, DueAt(cur, job[p].role), job[p].role, clock)
      BY <1>2, <2>2 DEF ReadCheck, Idle
    <3>4. leaseEnd' \in [Keys -> Nat]
      BY <2>1, <3>1, <3>2, <3>3, LeaseType
    <3>5. TypeOK'
      BY <1>2, <2>2, <3>4 DEF ReadCheck, Idle
    <3>6. StructInv'
      BY <1>2, <2>2, SMTT(60) DEF StructInv, JobInv, ServedKeysOwned, Recorded, ReadCheck, Idle
    <3>7. QED
      BY <3>5, <3>6
  <2>3. CASE leaseEnd' = leaseEnd /\ job'[p].pc # "idle"
    <3>1. job' = [job EXCEPT ![p].pc = "lock"]
      BY <1>2, <2>3 DEF ReadCheck, Finish, Idle
    <3>2. job' \in [Procs -> Job]
      BY <2>1, <3>1
    <3>3. TypeOK'
      BY <1>2, <2>1, <2>3, <3>1, <3>2 DEF ReadCheck
    <3>4. StructInv'
      BY <1>2, <2>1, <2>3, <3>1, SMTT(60) DEF StructInv, JobInv, ServedKeysOwned, Recorded, ReadCheck
    <3>5. QED
      BY <3>3, <3>4
  <2>4. QED
    BY <1>2, <2>2, <2>3 DEF ReadCheck, Finish
<1>3. ASSUME NEW p \in Procs, Decide(p) PROVE IInv'
  <2>1. job[p].role \in RoleConfigs /\ job[p] \in Job
    BY <1>3 DEF StructInv, JobInv, Decide
  <2>2. CASE RotationReason(job[p].role, clock) = "none" /\ job' = [job EXCEPT ![p] = Idle]
    <3>1. cur \in Keys
      BY <2>2 DEF RotationReason
    <3>2. DueAt(cur, job[p].role) \in Nat
      BY <2>1, <3>1, DueType
    <3>3. Lease(cur, DueAt(cur, job[p].role), job[p].role, clock)
      BY <1>3, <2>2 DEF Decide, Idle
    <3>4. leaseEnd' \in [Keys -> Nat]
      BY <2>1, <3>1, <3>2, <3>3, LeaseType
    <3>5. TypeOK'
      BY <1>3, <2>2, <3>4 DEF Decide, Idle
    <3>6. StructInv'
      BY <1>3, <2>2, SMTT(60) DEF StructInv, JobInv, ServedKeysOwned, Recorded, Decide, Idle
    <3>7. QED
      BY <3>5, <3>6
  <2>3. CASE leaseEnd' = leaseEnd /\ job'[p].pc # "idle"
    <3>1. /\ job' = [job EXCEPT ![p].pc = "mint", ![p].now = clock,
                                  ![p].cur = cur, ![p].ret = retiring]
          /\ lock' = p
      BY <1>3, <2>3 DEF Decide, Finish, Idle
    <3>2. job' \in [Procs -> Job]
      BY <2>1, <3>1
    <3>3. TypeOK'
      BY <1>3, <2>1, <2>3, <3>1, <3>2 DEF Decide
    <3>4. StructInv'
      BY <1>3, <2>1, <2>3, <3>1, SMTT(60) DEF StructInv, JobInv, ServedKeysOwned, Recorded, Decide
    <3>5. QED
      BY <3>3, <3>4
  <2>4. QED
    BY <1>3, <2>2, <2>3 DEF Decide, Finish
<1>4. ASSUME NEW p \in Procs, NEW k \in Keys, CreateOK(p, k) PROVE IInv'
  <2>1. job[p] \in Job
    OBVIOUS
  <2>2. job' \in [Procs -> Job]
    BY <1>4, <2>1, ZenonT(30) DEF CreateOK, Create
  <2>3. \A q \in Procs : job'[q].pc \in Locked <=> lock' = q
    BY <1>4, <2>1 DEF CreateOK, Create
  <2>4. TypeOK'
    BY <1>4, <2>1, <2>2, <2>3 DEF CreateOK, Create
  <2>5. StructInv'
    BY <1>4, <2>1, SMTT(60) DEF StructInv, JobInv, ServedKeysOwned, Recorded, CreateOK, Create
  <2>6. QED
    BY <2>4, <2>5
<1>5. ASSUME NEW p \in Procs, CreateFail(p) PROVE IInv'
  <2>1. job[p].pc \in Rotating /\ RotationFailed(p)
    BY <1>5 DEF CreateFail
  <2>2. TypeOK'
    BY <1>5, <2>1, FailType DEF CreateFail
  <2>3. StructInv'
    BY <1>5, <2>1, FailType, SMTT(60) DEF StructInv, JobInv, ServedKeysOwned, Recorded, CreateFail, Idle
  <2>4. QED
    BY <2>2, <2>3
<1>6. ASSUME NEW p \in Procs, NEW k \in Keys, CreateLost(p, k) PROVE IInv'
  <2>1. job[p].pc \in Rotating /\ RotationFailed(p)
    BY <1>6 DEF CreateLost
  <2>2. TypeOK'
    BY <1>6, <2>1, FailType DEF Create, CreateLost
  <2>3. StructInv'
    BY <1>6, <2>1, FailType, SMTT(60) DEF StructInv, JobInv, ServedKeysOwned, Recorded, Create, CreateLost, Idle
  <2>4. QED
    BY <2>2, <2>3
<1>7. ASSUME NEW p \in Procs, Track(p) PROVE IInv'
  <2>1. /\ job[p] \in Job
        /\ job[p].key \in Keys
    BY <1>7 DEF StructInv, JobInv, Track
  <2>2. job' \in [Procs -> Job]
    BY <1>7, <2>1 DEF Track
  <2>3. \A q \in Procs : job'[q].pc \in Locked <=> lock' = q
    BY <1>7, <2>1 DEF Track
  <2>4. TypeOK'
    BY <1>7, <2>1, <2>2, <2>3 DEF Track
  <2>5. StructInv'
    BY <1>7, <2>1, SMTT(60) DEF StructInv, JobInv, ServedKeysOwned, Recorded, Track
  <2>6. QED
    BY <2>4, <2>5
<1>8. ASSUME NEW p \in Procs, SaveOK(p) PROVE IInv'
  <2>1. job[p] \in Job /\ job[p].role \in RoleConfigs /\ job[p].role \in RoleType
    BY <1>8 DEF StructInv, JobInv, SaveOK
  <2>2. PICK due \in (job[p].now + job[p].role.period - job[p].role.jitter)..(job[p].now + job[p].role.period) :
           /\ rotateAt' = [rotateAt EXCEPT ![job[p].key] = due]
           /\ IF p \in Readers THEN Lease(job[p].key, due, job[p].role, job[p].now)
                               ELSE UNCHANGED leaseEnd
    BY <1>8 DEF SaveOK
  <2>3. due \in Nat
    BY <2>1, RoleAssumption DEF RoleType, ValidRole
  <2>4. rotateAt' \in [Keys -> Nat]
    BY <2>2, <2>3
  <2>5. leaseEnd' \in [Keys -> Nat]
    BY <2>1, <2>2, <2>3 DEF Lease, Least, Greatest, RoleType
  <2>6. /\ minted' \in [Keys -> Nat]
        /\ deleteAt' \in [Keys -> Nat]
        /\ grants' \in [Keys -> SUBSET Privileges]
    <3>1. /\ job[p].key \in Keys /\ job[p].now \in Nat /\ job[p].role.overlap \in Nat
          /\ job[p].role.grants \in SUBSET Privileges
      BY <1>8, <2>1 DEF RoleType, StructInv, JobInv, SaveOK
    <3>2. /\ minted' = [minted EXCEPT ![job[p].key] = job[p].now]
          /\ grants' = [grants EXCEPT ![job[p].key] = job[p].role.grants]
          /\ deleteAt' = [x \in Keys |-> IF x = job[p].cur
                           THEN job[p].now + job[p].role.overlap ELSE deleteAt[x]]
      BY <1>8 DEF SaveOK
    <3>3. minted' \in [Keys -> Nat]
      BY <3>1, <3>2
    <3>4. grants' \in [Keys -> SUBSET Privileges]
      BY <3>1, <3>2
    <3>5. deleteAt' \in [Keys -> Nat]
      BY <3>1, <3>2
    <3>6. QED
      BY <3>3, <3>4, <3>5
  <2>7. job' = [job EXCEPT ![p] = Idle] /\ lock' = NoProc /\ lock = p
    BY <1>8 DEF SaveOK, Finish
  <2>8. job' \in [Procs -> Job] /\ \A q \in Procs : job'[q].pc \notin Locked
    BY <2>7 DEF Idle
  <2>9. cur' \in Keys \cup {NoKey} /\ retiring' \subseteq Keys
    BY <1>8, <2>1 DEF SaveOK
  <2>10. TypeOK'
    BY <1>8, <2>4, <2>5, <2>6, <2>7, <2>8, <2>9 DEF SaveOK
  <2>11. StructInv'
    BY <1>8, SMTT(60) DEF StructInv, JobInv, ServedKeysOwned, Recorded, SaveOK, Finish, Idle
  <2>12. QED
    BY <2>10, <2>11
<1>9. ASSUME NEW p \in Procs, SaveFail(p) PROVE IInv'
  <2>1. TypeOK'
    BY <1>9, SMTT(60) DEF StructInv, JobInv, SaveFail
  <2>2. StructInv'
    BY <1>9, SMTT(60) DEF StructInv, JobInv, ServedKeysOwned, Recorded, SaveFail
  <2>3. QED
    BY <2>1, <2>2
<1>10. ASSUME NEW p \in Procs, Undo(p) PROVE IInv'
  <2>1. job[p].pc \in Rotating /\ RotationFailed(p)
    BY <1>10 DEF Undo
  <2>2. TypeOK'
    BY <1>10, <2>1, FailType DEF Undo
  <2>3. StructInv'
    BY <1>10, <2>1, FailType, SMTT(60) DEF StructInv, JobInv, ServedKeysOwned, Recorded, Undo, Idle
  <2>4. QED
    BY <2>2, <2>3
<1>11. ASSUME NEW p \in Procs, SweepStart(p) PROVE IInv'
  <2>1. job[p] \in Job
    OBVIOUS
  <2>2. job' \in [Procs -> Job]
    BY <1>11, <2>1 DEF SweepStart
  <2>3. \A q \in Procs : job'[q].pc \in Locked <=> lock' = q
    BY <1>11, <2>1 DEF SweepStart
  <2>4. TypeOK'
    BY <1>11, <2>1, <2>2, <2>3 DEF SweepStart
  <2>5. StructInv'
    BY <1>11, <2>1, SMTT(60) DEF StructInv, JobInv, ServedKeysOwned, Recorded, SweepStart
  <2>6. QED
    BY <2>4, <2>5
<1>12. ASSUME NEW p \in Procs, SweepLoad(p) PROVE IInv'
  <2>1. job[p] \in Job
    OBVIOUS
  <2>2. job' \in [Procs -> Job]
    BY <1>12, <2>1, ZenonT(30) DEF SweepLoad
  <2>3. \A q \in Procs : job'[q].pc \in Locked <=> lock' = q
    BY <1>12, <2>1 DEF SweepLoad
  <2>4. TypeOK'
    BY <1>12, <2>1, <2>2, <2>3 DEF SweepLoad
  <2>5. StructInv'
    BY <1>12, <2>1, SMTT(60) DEF StructInv, JobInv, ServedKeysOwned, Recorded, SweepLoad
  <2>6. QED
    BY <2>4, <2>5
<1>13. ASSUME NEW p \in Procs, NEW k \in Keys, SweepDelete(p, k) PROVE IInv'
  <2>1. job[p] \in Job
    OBVIOUS
  <2>2. job' \in [Procs -> Job]
    BY <1>13, <2>1 DEF SweepDelete
  <2>3. \A q \in Procs : job'[q].pc \in Locked <=> lock' = q
    BY <1>13, <2>1 DEF SweepDelete
  <2>4. TypeOK'
    BY <1>13, <2>1, <2>2, <2>3 DEF SweepDelete
  <2>5. StructInv'
    BY <1>13, <2>1, SMTT(60) DEF StructInv, JobInv, ServedKeysOwned, Recorded, SweepDelete
  <2>6. QED
    BY <2>4, <2>5
<1>14. ASSUME NEW p \in Procs, NEW k \in Keys, SweepDeleteFail(p, k) PROVE IInv'
  <2>1. TypeOK'
    BY <1>14, SMTT(60) DEF StructInv, JobInv, SweepDeleteFail
  <2>2. StructInv'
    BY <1>14, SMTT(60) DEF StructInv, JobInv, ServedKeysOwned, Recorded, SweepDeleteFail
  <2>3. QED
    BY <2>1, <2>2
<1>15. ASSUME NEW p \in Procs, SweepUntrack(p) PROVE IInv'
  <2>1. TypeOK'
    BY <1>15, SMTT(60) DEF StructInv, JobInv, SweepUntrack
  <2>2. StructInv'
    BY <1>15, SMTT(60) DEF StructInv, JobInv, ServedKeysOwned, Recorded, SweepUntrack
  <2>3. QED
    BY <2>1, <2>2
<1>16. ASSUME NEW p \in Procs, SweepSave(p) PROVE IInv'
  <2>1. job[p] \in Job
    OBVIOUS
  <2>2. job' \in [Procs -> Job]
    BY <1>16, <2>1, ZenonT(30) DEF SweepSave
  <2>3. \A q \in Procs : job'[q].pc \in Locked <=> lock' = q
    BY <1>16, <2>1 DEF SweepSave
  <2>4. TypeOK'
    BY <1>16, <2>1, <2>2, <2>3 DEF SweepSave
  <2>5. StructInv'
    BY <1>16, <2>1, SMTT(60) DEF StructInv, JobInv, ServedKeysOwned, Recorded, SweepSave
  <2>6. QED
    BY <2>4, <2>5
<1>17. ASSUME NEW p \in Procs, SweepRotate(p) PROVE IInv'
  <2>1. job[p] \in Job
    OBVIOUS
  <2>2. job' \in [Procs -> Job]
    <3>1. \/ job' = [job EXCEPT ![p] = Idle]
          \/ /\ job' = [job EXCEPT ![p].pc = "mint", ![p].role = role,
                                 ![p].cur = cur, ![p].ret = retiring]
             /\ role \in RoleConfigs
      BY <1>17 DEF SweepRotate, Finish
    <3>2. CASE job' = [job EXCEPT ![p] = Idle]
      BY <3>2 DEF Idle
    <3>3. CASE job' = [job EXCEPT ![p].pc = "mint", ![p].role = role,
                                  ![p].cur = cur, ![p].ret = retiring]
      BY <2>1, <3>3, ZenonT(30)
    <3>4. QED
      BY <3>1, <3>2, <3>3
  <2>3. \A q \in Procs : job'[q].pc \in Locked <=> lock' = q
    BY <1>17, <2>1 DEF SweepRotate, Finish, Idle
  <2>4. TypeOK'
    BY <1>17, <2>1, <2>2, <2>3 DEF SweepRotate, Finish, Idle
  <2>5. StructInv'
    BY <1>17, <2>1, SMTT(60) DEF StructInv, JobInv, ServedKeysOwned, Recorded, SweepRotate, Finish, Idle
  <2>6. QED
    BY <2>4, <2>5
<1>18. ASSUME NEW p \in Procs, PurgeScan(p) PROVE IInv'
  <2>1. job[p] \in Job
    OBVIOUS
  <2>2. job' \in [Procs -> Job]
    BY <1>18, <2>1, ZenonT(30) DEF PurgeScan
  <2>3. \A q \in Procs : job'[q].pc \in Locked <=> lock' = q
    BY <1>18, <2>1 DEF PurgeScan
  <2>4. TypeOK'
    BY <1>18, <2>1, <2>2, <2>3 DEF PurgeScan
  <2>5. StructInv'
    BY <1>18, <2>1, SMTT(60) DEF StructInv, JobInv, ServedKeysOwned, Recorded, PurgeScan
  <2>6. QED
    BY <2>4, <2>5
<1>19. ASSUME NEW p \in Procs, NEW k \in Keys, PurgeDelete(p, k) PROVE IInv'
  <2>1. TypeOK'
    BY <1>19, SMTT(60) DEF StructInv, JobInv, PurgeDelete
  <2>2. StructInv'
    BY <1>19, SMTT(60) DEF StructInv, JobInv, ServedKeysOwned, Recorded, PurgeDelete
  <2>3. QED
    BY <2>1, <2>2
<1>20. ASSUME NEW p \in Procs, NEW k \in Keys, PurgeDeleteFail(p, k) PROVE IInv'
  <2>1. TypeOK'
    BY <1>20, SMTT(60) DEF StructInv, JobInv, PurgeDeleteFail
  <2>2. StructInv'
    BY <1>20, SMTT(60) DEF StructInv, JobInv, ServedKeysOwned, Recorded, PurgeDeleteFail
  <2>3. QED
    BY <2>1, <2>2
<1>21. ASSUME NEW p \in Procs, Forget(p) PROVE IInv'
  <2>1. job[p] \in Job
    OBVIOUS
  <2>2. job' \in [Procs -> Job]
    <3>1. \/ job' = [job EXCEPT ![p].pc = "purged"]
          \/ job' = [job EXCEPT ![p].pc = "purge", ![p].todo = @ \ {job[p].key}]
      BY <1>21 DEF Forget
    <3>2. QED
      BY <2>1, <3>1
  <2>3. \A q \in Procs : job'[q].pc \in Locked <=> lock' = q
    BY <1>21, <2>1, SMTT(30) DEF Forget
  <2>4. TypeOK'
    BY <1>21, <2>1, <2>2, <2>3 DEF Forget
  <2>5. StructInv'
    BY <1>21, <2>1, SMTT(60) DEF StructInv, JobInv, ServedKeysOwned, Recorded, Forget
  <2>6. QED
    BY <2>4, <2>5
<1>22. ASSUME NEW p \in Procs, PurgeUntrack(p) PROVE IInv'
  <2>1. job[p] \in Job
    OBVIOUS
  <2>2. job' \in [Procs -> Job]
    BY <1>22, <2>1, ZenonT(30) DEF PurgeUntrack
  <2>3. \A q \in Procs : job'[q].pc \in Locked <=> lock' = q
    BY <1>22, <2>1 DEF PurgeUntrack
  <2>4. TypeOK'
    BY <1>22, <2>1, <2>2, <2>3 DEF PurgeUntrack
  <2>5. StructInv'
    BY <1>22, <2>1, SMTT(60) DEF StructInv, JobInv, ServedKeysOwned, Recorded, PurgeUntrack
  <2>6. QED
    BY <2>4, <2>5
<1>23. ASSUME NEW p \in Procs, PurgeEnd(p) PROVE IInv'
  <2>1. TypeOK'
    BY <1>23, SMTT(60) DEF StructInv, JobInv, PurgeEnd, Finish, Idle
  <2>2. StructInv'
    BY <1>23, SMTT(60) DEF StructInv, JobInv, ServedKeysOwned, Recorded, PurgeEnd, Finish, Idle
  <2>3. QED
    BY <2>1, <2>2
<1>24. ASSUME NEW r \in RoleConfigs, RoleWrite(r) PROVE IInv'
  BY <1>24 DEF StructInv, JobInv, ServedKeysOwned, Recorded, RoleWrite
<1>25. ASSUME RoleDelete PROVE IInv'
  BY <1>25 DEF StructInv, JobInv, ServedKeysOwned, Recorded, RoleDelete
<1>26. ASSUME NEW k \in Keys, Reconcile(k) PROVE IInv'
  BY <1>26 DEF StructInv, JobInv, ServedKeysOwned, Recorded, Reconcile
<1>27. ASSUME Tick PROVE IInv'
  BY <1>27 DEF StructInv, JobInv, ServedKeysOwned, Recorded, Tick
<1>28. ASSUME Crash PROVE IInv'
  BY <1>28 DEF StructInv, JobInv, ServedKeysOwned, Recorded, Crash, Idle
<1>29. CASE UNCHANGED vars
  BY <1>29 DEF StructInv, JobInv, ServedKeysOwned, Recorded, vars
<1>30. QED
  BY <1>1, <1>2, <1>3, <1>4, <1>5, <1>6, <1>7, <1>8, <1>9, <1>10, <1>11, <1>12, <1>13, <1>14, <1>15, <1>16, <1>17, <1>18, <1>19, <1>20, <1>21, <1>22, <1>23, <1>24, <1>25, <1>26, <1>27, <1>28, <1>29
     DEF Next, Serve, Rotate, Sweep, Purge, Env

\* IInv is an invariant of the specification.
LEMMA Inductive == Spec => []IInv
<1>1. QED
  BY InitInv, StepInv, PTL DEF Spec

\* Type correctness, mutual exclusion of the role's lock included.
THEOREM TypeCorrect == Spec => []TypeOK
<1>1. IInv => TypeOK
  BY DEF IInv
<1>2. QED
  BY <1>1, Inductive, PTL

\* Whatever readers, operators, the sweep, purges, the reconciler, failed
\* calls and failovers interleave, every live key the role's record names has
\* a tracking record: the reconciler never takes a key the role serves.
THEOREM RecordedKeysOwned == Spec => []ServedKeysOwned
<1>1. IInv => ServedKeysOwned
  BY DEF IInv, StructInv
<1>2. QED
  BY <1>1, Inductive, PTL

\* Only three steps write the role's record.
LEMMA RecordWriters ==
    Next => \/ UNCHANGED <<cur, retiring>>
            \/ \E p \in Procs : SaveOK(p) \/ SweepSave(p) \/ Forget(p)
<1> USE DEF store
<1>1. ASSUME NEW p \in Procs, Serve(p) PROVE UNCHANGED <<cur, retiring>>
  BY <1>1 DEF Serve, LoadRole, ReadCheck, Decide
<1>2. ASSUME NEW p \in Procs, Rotate(p), ~SaveOK(p) PROVE UNCHANGED <<cur, retiring>>
  BY <1>2 DEF Rotate, CreateOK, CreateFail, CreateLost, Track, SaveFail, Undo
<1>3. ASSUME NEW p \in Procs, Sweep(p), ~SweepSave(p) PROVE UNCHANGED <<cur, retiring>>
  BY <1>3 DEF Sweep, SweepStart, SweepLoad, SweepDelete, SweepDeleteFail, SweepUntrack,
              SweepRotate
<1>4. ASSUME NEW p \in Procs, Purge(p), ~Forget(p) PROVE UNCHANGED <<cur, retiring>>
  BY <1>4 DEF Purge, PurgeScan, PurgeDelete, PurgeDeleteFail, PurgeUntrack, PurgeEnd
<1>5. ASSUME Env PROVE UNCHANGED <<cur, retiring>>
  BY <1>5 DEF Env, RoleWrite, RoleDelete, Reconcile, Tick, Crash
<1>6. QED
  BY <1>1, <1>2, <1>3, <1>4, <1>5 DEF Next

\* No writer of the role's record drops a key that is still live upstream.
THEOREM NoKeyDropped == Spec => RecordedUntilGone
<1> DEFINE Kept == \A k \in Recorded : k \in Recorded' \/ k \notin upstream
<1>1. IInv /\ [Next]_vars => [Kept]_vars
  <2> SUFFICES ASSUME IInv, Next PROVE Kept
    OBVIOUS
  <2> USE DEF IInv, TypeOK, StructInv, JobInv, Recorded, Locked, Rotating, Sweeping,
              At, store
  <2>1. CASE UNCHANGED <<cur, retiring>>
    BY <2>1
  <2>2. ASSUME NEW p \in Procs, SaveOK(p) PROVE Kept
    BY <2>2 DEF SaveOK
  <2>3. ASSUME NEW p \in Procs, SweepSave(p) PROVE Kept
    BY <2>3 DEF SweepSave
  <2>4. ASSUME NEW p \in Procs, Forget(p) PROVE Kept
    BY <2>4 DEF Forget
  <2>5. QED
    BY <2>1, <2>2, <2>3, <2>4, RecordWriters
<1>2. Spec => [][Next]_vars
  BY DEF Spec
<1>3. QED
  BY <1>1, <1>2, Inductive, PTL DEF RecordedUntilGone

\* A lease handed out now ends within any overlap of now.
LEMMA LeaseReach ==
    ASSUME OverlapsCompatible, leaseEnd \in [Keys -> Nat], clock \in Nat,
           \A x \in Keys, r \in RoleConfigs : leaseEnd[x] <= clock + r.overlap,
           NEW k \in Keys, NEW due \in Nat, NEW r0 \in RoleConfigs,
           NEW now \in Nat, now <= clock, Lease(k, due, r0, now)
    PROVE  /\ \A x \in Keys, r \in RoleConfigs : leaseEnd'[x] <= clock + r.overlap
           /\ \A x \in Keys \ {k} : leaseEnd'[x] = leaseEnd[x]
BY RoleAssumption DEF Lease, Least, Greatest, RoleType, OverlapsCompatible

\* What a step does to leases, instants and the retiring keys: either nothing
\* to the leases, or one lease on a key that is not retiring.
LeaseStep ==
    \/ UNCHANGED leaseEnd
    \/ \E k \in Keys \ retiring', due \in Nat, r \in RoleConfigs, now \in Nat :
          now <= clock /\ Lease(k, due, r, now)

LEMMA LeaseSteps == ASSUME IInv, LeaseInv, Next PROVE LeaseStep
<1> USE DEF IInv, TypeOK, Job
<1>1. ASSUME NEW p \in Procs, Serve(p) PROVE LeaseStep
  <2>1. CASE UNCHANGED leaseEnd
    BY <2>1 DEF LeaseStep
  <2>2. CASE /\ job[p].pc \in {"check", "lock"} /\ RotationReason(job[p].role, clock) = "none"
             /\ Lease(cur, DueAt(cur, job[p].role), job[p].role, clock)
             /\ retiring' = retiring
    <3>1. cur \in Keys \ retiring' /\ job[p].role \in RoleConfigs
      BY <2>2 DEF RotationReason, StructInv, JobInv
    <3>2. DueAt(cur, job[p].role) \in Nat
      BY <3>1, DueType
    <3>3. QED
      BY <2>2, <3>1, <3>2 DEF LeaseStep
  <2>3. QED
    BY <1>1, <2>1, <2>2 DEF Serve, LoadRole, ReadCheck, Decide, At, store
<1>2. ASSUME NEW p \in Procs, job[p].pc \in Rotating, RotationFailed(p), retiring' = retiring
      PROVE LeaseStep
  <2>1. CASE UNCHANGED leaseEnd
    BY <2>1 DEF LeaseStep
  <2>2. CASE /\ job[p].cur # NoKey
             /\ Lease(job[p].cur, DueAt(job[p].cur, job[p].role), job[p].role, job[p].now)
    <3>1. job[p].cur \in Keys \ retiring' /\ job[p].role \in RoleConfigs /\ job[p] \in Job
      BY <1>2, <2>2 DEF StructInv, JobInv, Locked
    <3>2. DueAt(job[p].cur, job[p].role) \in Nat
      BY <3>1, DueType
    <3>3. job[p].now \in Nat /\ job[p].now <= clock
      BY <3>1 DEF LeaseInv
    <3>4. QED
      BY <2>2, <3>1, <3>2, <3>3 DEF LeaseStep
  <2>3. QED
    BY <1>2, <2>1, <2>2 DEF RotationFailed
<1>3. ASSUME NEW p \in Procs, SaveOK(p) PROVE LeaseStep
  <2>1. CASE UNCHANGED leaseEnd
    BY <2>1 DEF LeaseStep
  <2>2. ASSUME NEW due \in (job[p].now + job[p].role.period - job[p].role.jitter)
                           ..(job[p].now + job[p].role.period),
               Lease(job[p].key, due, job[p].role, job[p].now)
        PROVE LeaseStep
    <3>1. job[p] \in Job /\ job[p].role \in RoleConfigs /\ job[p].role \in RoleType
      BY <1>3, RoleAssumption DEF StructInv, JobInv, SaveOK, At, Rotating
    <3>2. due \in Nat
      BY <2>2, <3>1, RoleAssumption DEF RoleType, ValidRole
    <3>3. job[p].key \in Keys \ retiring'
      BY <1>3, <3>1 DEF StructInv, JobInv, Recorded, SaveOK, At, Rotating, Locked
    <3>4. job[p].now \in Nat /\ job[p].now <= clock
      BY <3>1 DEF LeaseInv
    <3>5. QED
      BY <2>2, <3>1, <3>2, <3>3, <3>4 DEF LeaseStep
  <2>3. QED
    BY <1>3, <2>1, <2>2 DEF SaveOK
<1>4. ASSUME NEW p \in Procs, Rotate(p) PROVE LeaseStep
  BY <1>2, <1>3, <1>4 DEF Rotate, CreateOK, CreateFail, CreateLost, Track, SaveFail, Undo,
     At, Rotating, store, LeaseStep
<1>5. ASSUME NEW p \in Procs, Sweep(p) \/ Purge(p) PROVE UNCHANGED leaseEnd
  BY <1>5 DEF Sweep, SweepStart, SweepLoad, SweepDelete, SweepDeleteFail, SweepUntrack,
     SweepSave, SweepRotate, Purge, PurgeScan, PurgeDelete, PurgeDeleteFail, Forget,
     PurgeUntrack, PurgeEnd
<1>6. ASSUME Env PROVE UNCHANGED leaseEnd
  BY <1>6 DEF Env, RoleWrite, RoleDelete, Reconcile, Tick, Crash
<1>7. QED
  BY <1>1, <1>4, <1>5, <1>6 DEF Next, LeaseStep

\* Every goroutine's instant stays in the past, and within MaxOp of the clock
\* while it is acted on.
LEMMA InstantStep ==
    ASSUME IInv, LeaseInv, Next, NEW q \in Procs
    PROVE  job'[q].now <= clock' /\ (job'[q].pc \in Timed => clock' <= job'[q].now + MaxOp)
<1> DEFINE Past == job'[q].now <= clock'
                   /\ (job'[q].pc \in Timed => clock' <= job'[q].now + MaxOp)
<1> USE BoundAssumption DEF IInv, TypeOK, LeaseInv, Job, At, Timed, Locked, Rotating, Sweeping
<1>0. Idle.now = 0 /\ Idle.pc = "idle"
  BY DEF Idle
<1>1. ASSUME NEW p \in Procs, Serve(p) PROVE Past
  BY <1>0, <1>1 DEF Serve, LoadRole, ReadCheck, Decide, Finish
<1>2. ASSUME NEW p \in Procs, Rotate(p) PROVE Past
  <2>1. ASSUME CreateFail(p) \/ SaveOK(p) \/ Undo(p) \/ \E k \in Keys : CreateLost(p, k)
        PROVE  Past
    BY <1>0, <2>1 DEF CreateFail, SaveOK, Undo, CreateLost, RotationFailed, Finish
  <2>2. ASSUME Track(p) \/ SaveFail(p) \/ \E k \in Keys : CreateOK(p, k)
        PROVE  Past
    BY <2>2 DEF Track, SaveFail, CreateOK
  <2>3. QED
    BY <1>2, <2>1, <2>2 DEF Rotate
<1>3. ASSUME NEW p \in Procs, Sweep(p) PROVE Past
  <2>1. ASSUME SweepStart(p) \/ SweepLoad(p) \/ SweepUntrack(p) PROVE Past
    BY <2>1 DEF SweepStart, SweepLoad, SweepUntrack
  <2>2. ASSUME SweepSave(p) \/ SweepRotate(p) PROVE Past
    <3>1. CASE SweepSave(p)
      BY <3>1 DEF SweepSave
    <3>2. CASE SweepRotate(p)
      <4>1. CASE job' = [job EXCEPT ![p] = Idle]
        BY <1>0, <3>2, <4>1 DEF SweepRotate
      <4>2. CASE job' = [job EXCEPT ![p].pc = "mint", ![p].role = role,
                                    ![p].cur = cur, ![p].ret = retiring]
        BY <3>2, <4>2 DEF SweepRotate
      <4>3. QED
        BY <3>2, <4>1, <4>2 DEF SweepRotate, Finish
    <3>3. QED
      BY <2>2, <3>1, <3>2
  <2>3. ASSUME NEW k \in Keys, SweepDelete(p, k) \/ SweepDeleteFail(p, k) PROVE Past
    BY <2>3 DEF SweepDelete, SweepDeleteFail
  <2>4. QED
    BY <1>3, <2>1, <2>2, <2>3 DEF Sweep
<1>4. ASSUME NEW p \in Procs, Purge(p) PROVE Past
  <2>1. ASSUME PurgeScan(p) \/ Forget(p) \/ PurgeUntrack(p) \/ PurgeEnd(p) PROVE Past
    <3>1. CASE PurgeScan(p) \/ PurgeUntrack(p)
      BY <3>1, SMTT(30) DEF PurgeScan, PurgeUntrack
    <3>2. CASE Forget(p)
      BY <3>2 DEF Forget
    <3>3. CASE PurgeEnd(p)
      BY <1>0, <3>3 DEF PurgeEnd, Finish
    <3>4. QED
      BY <2>1, <3>1, <3>2, <3>3
  <2>2. ASSUME NEW k \in Keys, PurgeDelete(p, k) \/ PurgeDeleteFail(p, k) PROVE Past
    BY <2>2 DEF PurgeDelete, PurgeDeleteFail
  <2>3. QED
    BY <1>4, <2>1, <2>2 DEF Purge
<1>5. ASSUME Env PROVE Past
  BY <1>0, <1>5 DEF Env, RoleWrite, RoleDelete, Reconcile, Tick, Crash
<1>6. QED
  BY <1>1, <1>2, <1>3, <1>4, <1>5 DEF Next

\* Outside SaveOK no key becomes retiring and no deadline moves.
LEMMA DeadlineWriters ==
    ASSUME IInv, Next
    PROVE  \/ deleteAt' = deleteAt /\ retiring' \subseteq retiring
           \/ \E p \in Procs : SaveOK(p)
<1> USE DEF store
<1>1. ASSUME NEW p \in Procs, SweepSave(p) \/ Forget(p)
      PROVE  retiring' \subseteq retiring /\ deleteAt' = deleteAt
  BY <1>1 DEF SweepSave, Forget, IInv, StructInv, JobInv, At, Sweeping
<1>2. ASSUME NEW p \in Procs, Serve(p) PROVE UNCHANGED <<retiring, deleteAt>>
  BY <1>2 DEF Serve, LoadRole, ReadCheck, Decide
<1>3. ASSUME NEW p \in Procs, Rotate(p), ~SaveOK(p) PROVE UNCHANGED <<retiring, deleteAt>>
  BY <1>3 DEF Rotate, CreateOK, CreateFail, CreateLost, Track, SaveFail, Undo
<1>4. ASSUME NEW p \in Procs, Sweep(p), ~SweepSave(p) PROVE UNCHANGED <<retiring, deleteAt>>
  BY <1>4 DEF Sweep, SweepStart, SweepLoad, SweepDelete, SweepDeleteFail, SweepUntrack,
              SweepRotate
<1>5. ASSUME NEW p \in Procs, Purge(p), ~Forget(p) PROVE UNCHANGED <<retiring, deleteAt>>
  BY <1>5 DEF Purge, PurgeScan, PurgeDelete, PurgeDeleteFail, PurgeUntrack, PurgeEnd
<1>6. ASSUME Env PROVE UNCHANGED <<retiring, deleteAt>>
  BY <1>6 DEF Env, RoleWrite, RoleDelete, Reconcile, Tick, Crash
<1>7. QED
  BY <1>1, <1>2, <1>3, <1>4, <1>5, <1>6 DEF Next

\* LeaseInv is preserved by every step.
LEMMA LeaseInvStep ==
    ASSUME OverlapsCompatible, IInv, LeaseInv, [Next]_vars PROVE LeaseInv'
<1>1. CASE UNCHANGED vars
  BY <1>1 DEF LeaseInv, LeaseCovered, vars, store
<1>2. CASE Next
  <2>1. LeaseStep /\ IInv'
    BY <1>2, LeaseSteps, StepInv
  <2>2. clock \in Nat /\ clock' \in Nat /\ clock <= clock'
    <3>1. clock' = clock \/ Tick
      <4>1. ASSUME NEW p \in Procs, Serve(p) \/ Rotate(p) PROVE clock' = clock
        BY <4>1 DEF Serve, Rotate, LoadRole, ReadCheck, Decide, CreateOK, CreateFail,
           CreateLost, Track, SaveOK, SaveFail, Undo
      <4>2. ASSUME NEW p \in Procs, Sweep(p) \/ Purge(p) PROVE clock' = clock
        BY <4>2 DEF Sweep, Purge, SweepStart, SweepLoad, SweepDelete, SweepDeleteFail,
           SweepUntrack, SweepSave, SweepRotate, PurgeScan, PurgeDelete,
           PurgeDeleteFail, Forget, PurgeUntrack, PurgeEnd
      <4>3. ASSUME Env PROVE clock' = clock \/ Tick
        BY <4>3 DEF Env, RoleWrite, RoleDelete, Reconcile, Crash
      <4>4. QED
        BY <1>2, <4>1, <4>2, <4>3 DEF Next
    <3>2. QED
      BY <3>1 DEF Tick, IInv, TypeOK
  <2>3. /\ \A x \in Keys, r \in RoleConfigs : leaseEnd'[x] <= clock + r.overlap
        /\ \A x \in retiring' : leaseEnd'[x] = leaseEnd[x]
    <3>1. CASE UNCHANGED leaseEnd
      BY <3>1 DEF LeaseInv
    <3>2. ASSUME NEW k \in Keys \ retiring', NEW due \in Nat, NEW r \in RoleConfigs,
                 NEW now \in Nat, now <= clock, Lease(k, due, r, now)
          PROVE  <2>3!1 /\ <2>3!2
      <4>1. /\ \A x \in Keys, s \in RoleConfigs : leaseEnd'[x] <= clock + s.overlap
            /\ \A x \in Keys \ {k} : leaseEnd'[x] = leaseEnd[x]
        BY <2>2, <3>2, LeaseReach DEF LeaseInv, IInv, TypeOK
      <4>2. retiring' \subseteq Keys
        BY <2>1 DEF IInv, TypeOK
      <4>3. QED
        BY <4>1, <4>2, <3>2
    <3>3. QED
      BY <2>1, <3>1, <3>2 DEF LeaseStep
  <2>4. \A x \in Keys, r \in RoleConfigs : leaseEnd'[x] <= clock' + r.overlap
    BY <2>1, <2>2, <2>3, RoleAssumption DEF IInv, TypeOK, RoleType
  <2>5. LeaseCovered'
    <3>1. CASE deleteAt' = deleteAt /\ retiring' \subseteq retiring
      BY <2>3, <3>1 DEF LeaseCovered, LeaseInv
    <3>2. ASSUME NEW p \in Procs, SaveOK(p) PROVE LeaseCovered'
      <4> DEFINE old == job[p].cur
                 r == job[p].role
      <4>1. /\ job[p] \in Job /\ r \in RoleConfigs /\ old = cur /\ job[p].ret = retiring
            /\ job[p].pc \in Timed
        BY <3>2 DEF IInv, TypeOK, StructInv, JobInv, SaveOK, At, Timed, Locked, Rotating
      <4>2. /\ retiring' = retiring \cup ({old} \ {NoKey})
            /\ deleteAt' = [x \in Keys |-> IF x = old THEN job[p].now + r.overlap
                                                     ELSE deleteAt[x]]
        BY <3>2, <4>1 DEF SaveOK
      <4>3. clock <= job[p].now + MaxOp /\ job[p].now \in Nat
        BY <4>1 DEF LeaseInv, Job
      <4>4. SUFFICES ASSUME NEW x \in retiring' PROVE leaseEnd'[x] <= deleteAt'[x] + MaxOp
        BY DEF LeaseCovered
      <4>5. x \in Keys /\ leaseEnd'[x] = leaseEnd[x] /\ leaseEnd[x] \in Nat
        BY <2>1, <2>3 DEF IInv, TypeOK
      <4>6. CASE x = old
        <5>1. leaseEnd[x] <= clock + r.overlap /\ r.overlap \in Nat
          BY <4>1, <4>5, RoleAssumption DEF LeaseInv, RoleType
        <5>2. deleteAt'[x] = job[p].now + r.overlap
          BY <4>2, <4>5, <4>6
        <5>3. clock \in Nat
          BY <2>2
        <5>4. QED
          BY <4>3, <4>5, <5>1, <5>2, <5>3, BoundAssumption
      <4>7. CASE x # old
        BY <4>2, <4>5, <4>7 DEF LeaseInv, LeaseCovered
      <4>8. QED
        BY <4>6, <4>7
    <3>3. QED
      BY <1>2, <3>1, <3>2, DeadlineWriters
  <2>6. QED
    BY <1>2, <2>4, <2>5, InstantStep DEF LeaseInv
<1>3. QED
  BY <1>1, <1>2

\* As long as no role write shortens the overlap below a ttl already in use, a
\* lease on a replaced key outlives the instant from which the sweep may delete
\* that key by at most the time a rotation or a sweep pass takes (MaxOp), for
\* every schedule, every jitter and every interleaving.
THEOREM LeasesCovered == OverlapsCompatible /\ Spec => []LeaseCovered
<1>1. Init => LeaseInv
  BY ProcAssumption, BoundAssumption, RoleAssumption
     DEF Init, LeaseInv, LeaseCovered, Idle, Timed, Locked, Rotating, Sweeping, RoleType
<1>2. OverlapsCompatible /\ IInv /\ LeaseInv /\ [Next]_vars => LeaseInv'
  BY LeaseInvStep
<1>3. LeaseInv => LeaseCovered
  BY DEF LeaseInv
<1>4. CASE OverlapsCompatible
  <2>1. IInv /\ LeaseInv /\ [Next]_vars => LeaseInv'
    BY <1>2, <1>4
  <2>2. QED
    BY <1>1, <1>3, <2>1, Inductive, PTL DEF Spec
<1>5. QED
  BY <1>4

-----------------------------------------------------------------------------
(* No rotation on an obsolete decision. *)

\* Without the lock nobody rotates.
LEMMA Unlocked == ASSUME IInv', lock' = NoProc PROVE \A q \in Procs : job'[q].pc \notin Locked
BY ProcAssumption DEF IInv, TypeOK

\* The steps that neither begin nor end a rotation.
LEMMA ReasonKept ==
    ASSUME ReasonInv, UNCHANGED <<cur, grants, rotateAt, minted>>,
           \A q \in Procs : job'[q].pc \in Rotating =>
              job[q].pc \in Rotating /\ job'[q].role = job[q].role /\ job'[q].now = job[q].now
    PROVE  ReasonInv'
BY DEF ReasonInv, RotationReason, DueAt

LEMMA ReasonStep == ASSUME IInv, IInv', ReasonInv, Next PROVE ReasonInv'
<1> USE DEF At, store, Rotating, Sweeping, Locked, Job
<1>0. job \in [Procs -> Job] /\ Idle.pc = "idle"
  BY DEF IInv, TypeOK, Idle
<1>1. CASE lock' = NoProc
  BY <1>1, Unlocked DEF ReasonInv
<1>2. ASSUME NEW p \in Procs, LoadRole(p) \/ ReadCheck(p) PROVE ReasonInv'
  <2>1. \A q \in Procs : job'[q].pc \in Rotating => job'[q] = job[q]
    BY <1>0, <1>2 DEF LoadRole, ReadCheck, Finish
  <2> QED
    BY <1>2, <2>1, ReasonKept DEF LoadRole, ReadCheck
<1>3. ASSUME NEW p \in Procs, Decide(p), lock' # NoProc PROVE ReasonInv'
  <2>1. /\ lock = NoProc /\ UNCHANGED <<cur, grants, rotateAt, minted>>
        /\ p \in Operators \/ RotationReason(job[p].role, clock) # "none"
        /\ job' = [job EXCEPT ![p].pc = "mint", ![p].now = clock, ![p].cur = cur, ![p].ret = retiring]
    BY <1>3, ProcAssumption DEF Decide
  <2>2. job'[p].role = job[p].role /\ job'[p].now = clock /\ \A q \in Procs \ {p} : job'[q] = job[q]
    BY <1>0, <2>1
  <2>3. \A q \in Procs : job[q].pc \notin Rotating
    BY <2>1, ProcAssumption DEF IInv, TypeOK
  <2> QED
    BY <2>1, <2>2, <2>3, ZenonT(30) DEF ReasonInv, RotationReason, DueAt
<1>4. ASSUME NEW p \in Procs, SweepRotate(p), lock' # NoProc PROVE ReasonInv'
  <2>1. /\ lock = NoProc /\ UNCHANGED <<cur, grants, rotateAt, minted>>
        /\ RotationReason(role, job[p].now) # "none"
        /\ job' = [job EXCEPT ![p].pc = "mint", ![p].role = role, ![p].cur = cur, ![p].ret = retiring]
    BY <1>4 DEF SweepRotate
  <2>2. job'[p].role = role /\ job'[p].now = job[p].now /\ \A q \in Procs \ {p} : job'[q] = job[q]
    BY <1>0, <2>1
  <2>3. \A q \in Procs : job[q].pc \notin Rotating
    BY <2>1, ProcAssumption DEF IInv, TypeOK
  <2> QED
    BY <2>1, <2>2, <2>3 DEF ReasonInv, RotationReason, DueAt
<1>5. ASSUME NEW p \in Procs, Track(p) \/ SaveFail(p) \/ \E k \in Keys : CreateOK(p, k) PROVE ReasonInv'
  <2>1. /\ UNCHANGED <<cur, grants, rotateAt, minted>> /\ job[p].pc \in Rotating
        /\ \A q \in Procs \ {p} : job'[q] = job[q]
    BY <1>0, <1>5 DEF Track, SaveFail, CreateOK
  <2>2. job'[p].role = job[p].role /\ job'[p].now = job[p].now
    BY <1>0, <1>5 DEF Track, SaveFail, CreateOK
  <2> QED
    BY <2>1, <2>2, ReasonKept
<1>6. ASSUME NEW p \in Procs, Rotate(p) PROVE ReasonInv'
  BY <1>1, <1>5, <1>6 DEF Rotate, CreateFail, CreateLost, SaveOK, Undo, RotationFailed
<1>7. ASSUME NEW p \in Procs, Sweep(p) PROVE ReasonInv'
  <2>1. CASE SweepStart(p) \/ SweepLoad(p) \/ SweepUntrack(p) \/ \E k \in Keys : SweepDelete(p, k) \/ SweepDeleteFail(p, k)
    <3>1. \A q \in Procs \ {p} : job'[q] = job[q]
      BY <1>0, <2>1 DEF SweepStart, SweepLoad, SweepUntrack, SweepDelete, SweepDeleteFail
    <3>2. job'[p].pc \notin Rotating
      BY <1>0, <2>1 DEF SweepStart, SweepLoad, SweepUntrack, SweepDelete, SweepDeleteFail
    <3>3. UNCHANGED <<cur, grants, rotateAt, minted>>
      BY <2>1 DEF SweepStart, SweepLoad, SweepUntrack, SweepDelete, SweepDeleteFail
    <3> QED
      BY <3>1, <3>2, <3>3, ReasonKept
  <2>2. CASE SweepSave(p)
    BY <1>1, <2>2 DEF SweepSave
  <2>3. CASE SweepRotate(p)
    BY <1>1, <1>4, <2>3
  <2> QED
    BY <1>7, <2>1, <2>2, <2>3 DEF Sweep
<1>8. ASSUME NEW p \in Procs, Purge(p) PROVE ReasonInv'
  <2>1. CASE Forget(p)
    BY <1>1, <2>1 DEF Forget
  <2>2. CASE PurgeScan(p) \/ PurgeUntrack(p) \/ PurgeEnd(p) \/ \E k \in Keys : PurgeDelete(p, k) \/ PurgeDeleteFail(p, k)
    <3>1. \A q \in Procs \ {p} : job'[q] = job[q]
      BY <1>0, <2>2 DEF PurgeScan, PurgeUntrack, PurgeEnd, PurgeDelete, PurgeDeleteFail, Finish
    <3>2. job'[p].pc \notin Rotating
      <4>1. CASE PurgeEnd(p) \/ PurgeScan(p)
        BY <1>0, <4>1 DEF PurgeEnd, PurgeScan, Finish
      <4>2. CASE PurgeUntrack(p)
        BY <1>0, <4>2 DEF PurgeUntrack
      <4>3. ASSUME NEW k \in Keys, PurgeDelete(p, k) PROVE job'[p].pc \notin Rotating
        BY <1>0, <4>3 DEF PurgeDelete
      <4>4. ASSUME NEW k \in Keys, PurgeDeleteFail(p, k) PROVE job'[p].pc \notin Rotating
        BY <1>0, <4>4 DEF PurgeDeleteFail
      <4> QED
        BY <2>2, <4>1, <4>2, <4>3, <4>4
    <3>3. UNCHANGED <<cur, grants, rotateAt, minted>>
      BY <2>2 DEF PurgeScan, PurgeUntrack, PurgeEnd, PurgeDelete, PurgeDeleteFail
    <3> QED
      BY <3>1, <3>2, <3>3, ReasonKept
  <2> QED
    BY <1>8, <2>1, <2>2 DEF Purge
<1>9. ASSUME Env PROVE ReasonInv'
  <2>1. CASE UNCHANGED job
    <3>1. UNCHANGED <<cur, grants, rotateAt, minted>>
      BY <1>9 DEF Env, RoleWrite, RoleDelete, Reconcile, Tick, Crash
    <3> QED
      BY <2>1, <3>1, ReasonKept
  <2>2. CASE Crash
    BY <1>1, <2>2 DEF Crash
  <2> QED
    BY <1>9, <2>1, <2>2 DEF Env, RoleWrite, RoleDelete, Reconcile, Tick
<1> QED
  BY <1>1, <1>2, <1>3, <1>6, <1>7, <1>8, <1>9 DEF Next, Serve

\* Nobody replaces a key on a decision that another rotation has made obsolete:
\* the reason a reader or the sweep found under the lock (rotationReason) still
\* holds at saveSharedSpacesState, whatever ran meanwhile.
THEOREM RotationsNeeded == Spec => NoWastedMint
<1> DEFINE Needed == cur # NoKey /\ cur' \notin {cur, NoKey} =>
                       \E p \in Procs :
                          /\ SaveOK(p)
                          /\ p \in Operators \/ RotationReason(job[p].role, job[p].now) # "none"
<1>1. Init => ReasonInv
  BY ProcAssumption DEF Init, ReasonInv, Idle, Rotating
<1>2. IInv /\ ReasonInv /\ [Next]_vars => ReasonInv'
  <2>1. IInv /\ [Next]_vars => IInv'
    BY StepInv
  <2>2. ASSUME ReasonInv, UNCHANGED vars PROVE ReasonInv'
    BY <2>2, ReasonKept DEF vars, store
  <2> QED
    BY <2>1, <2>2, ReasonStep
<1>3. IInv /\ ReasonInv /\ [Next]_vars => [Needed]_vars
  <2> SUFFICES ASSUME IInv, ReasonInv, Next, cur # NoKey, cur' \notin {cur, NoKey}
               PROVE  \E p \in Procs :
                         /\ SaveOK(p)
                         /\ p \in Operators \/ RotationReason(job[p].role, job[p].now) # "none"
    OBVIOUS
  <2>1. PICK p \in Procs : SaveOK(p)
    <3>1. ASSUME NEW p \in Procs, SweepSave(p) \/ Forget(p) PROVE FALSE
      BY <3>1 DEF SweepSave, Forget, At, IInv, StructInv, JobInv, Locked, Sweeping
    <3> QED
      BY <3>1, RecordWriters
  <2>2. p \in Operators \/ RotationReason(job[p].role, job[p].now) # "none"
    BY <2>1 DEF SaveOK, At, Rotating, ReasonInv
  <2> QED
    BY <2>1, <2>2
<1> HIDE DEF Needed
<1>4. Spec => [][Needed]_vars
  BY <1>1, <1>2, <1>3, Inductive, PTL DEF Spec
<1> QED
  BY <1>4 DEF Needed, NoWastedMint

-----------------------------------------------------------------------------
(* No live key that nobody will ever come for. *)

\* A rotation holds the role's lock, so there is one at a time.
LEMMA Alone ==
    ASSUME IInv, NEW p \in Procs, job[p].pc \in Locked
    PROVE  lock = p /\ \A q \in Procs \ {p} : job[q].pc \notin Locked
BY DEF IInv, TypeOK

\* The steps of goroutines that hold no key of their own, before and after: they
\* may drop tracking records, and forget or lose only keys somebody else reclaims.
LEMMA TracksKept ==
    ASSUME TracksInv, NEW p \in Procs, \A q \in Procs \ {p} : job'[q] = job[q],
           job[p].pc \notin {"track", "save", "undo"},
           job'[p].pc \notin {"track", "save", "undo"},
           tracked' \subseteq tracked, crashes' = crashes,
           \A k \in upstream' : \/ k \notin tracked'
                                \/ k \in upstream /\ (k \in Recorded => k \in Recorded')
    PROVE  TracksInv'
<1>1. \A q \in Procs : job'[q].pc \in {"track", "undo"} => job'[q].key \notin tracked'
  BY DEF TracksInv
<1>2. ASSUME crashes = 0, NEW k \in upstream', k \in tracked', k \notin Recorded'
      PROVE  InFlight(k)'
  <2>1. k \in upstream /\ k \notin Recorded /\ k \in tracked
    BY <1>2
  <2>2. PICK q \in Procs : job[q].pc \in Rotating \ {"mint"} /\ job[q].key = k
    BY <1>2, <2>1 DEF TracksInv, KeysReclaimable, InFlight
  <2>3. q # p /\ job'[q] = job[q]
    BY <2>2 DEF Rotating
  <2> QED
    BY <2>2, <2>3 DEF InFlight
<1> QED
  BY <1>1, <1>2 DEF TracksInv, KeysReclaimable

LEMMA TracksRotate ==
    ASSUME ~UntrackFails, IInv, TracksInv, NEW p \in Procs, Rotate(p) PROVE TracksInv'
<1> USE DEF IInv, TypeOK, At, store
<1>0. Idle.pc = "idle" /\ job[p] \in Job /\ job[p].pc \in Locked
  BY DEF Idle, Rotate, CreateFail, CreateOK, CreateLost, Track, SaveOK, SaveFail, Undo, Locked, Rotating
<1>1. \A q \in Procs \ {p} : job[q].pc \notin Rotating
  BY <1>0, Alone DEF Locked
<1>2. CASE CreateFail(p) \/ \E k \in Keys : CreateLost(p, k)
  <2>1. job' = [job EXCEPT ![p] = Idle] /\ job[p].pc = "mint" /\ UNCHANGED <<tracked, crashes, cur, retiring>>
    BY <1>2 DEF CreateFail, CreateLost, RotationFailed, Finish
  <2>2. \A k \in upstream' : k \in upstream \/ k \notin tracked
    BY <1>2 DEF CreateFail, CreateLost, Create, StructInv, cloud
  <2>3. \A k \in upstream' : k \notin tracked' \/ (k \in upstream /\ (k \in Recorded => k \in Recorded'))
    BY <2>1, <2>2 DEF Recorded
  <2> QED
    BY <1>0, <2>1, <2>3, TracksKept
<1>3. ASSUME NEW k \in Keys, CreateOK(p, k) PROVE TracksInv'
  <2>1. /\ job' = [job EXCEPT ![p].pc = "track", ![p].key = k] /\ UNCHANGED <<tracked, cur, retiring, crashes>>
        /\ upstream' = upstream \cup {k} /\ k \notin tracked
    BY <1>3 DEF CreateOK, Create, StructInv
  <2>2. job'[p].pc = "track" /\ job'[p].key = k /\ \A q \in Procs \ {p} : job'[q] = job[q]
    BY <1>0, <2>1 DEF Job
  <2>3. \A x \in Keys : ~InFlight(x)
    BY <1>1, <1>3 DEF InFlight, CreateOK
  <2> QED
    BY <1>1, <2>1, <2>2, <2>3 DEF TracksInv, KeysReclaimable, Recorded, Rotating
<1>4. CASE Track(p)
  <2>1. UNCHANGED <<upstream, cur, retiring, crashes>> /\ job[p].pc = "track"
    BY <1>4 DEF Track, cloud
  <2>2. job'[p].pc \in {"save", "undo"} /\ job'[p].key = job[p].key /\ \A q \in Procs \ {p} : job'[q] = job[q]
    BY <1>0, <1>4 DEF Track, Job
  <2>3. tracked' \subseteq tracked \cup {job[p].key} /\ (job'[p].pc = "undo" => tracked' = tracked)
    BY <1>0, <1>4 DEF Track, Job
  <2>4. job[p].key \notin tracked
    BY <2>1 DEF TracksInv
  <2>5. \A x \in Keys : InFlight(x) => InFlight(x)'
    BY <1>1, <2>2 DEF InFlight, Rotating
  <2>6. \A x \in Keys : x = job[p].key => InFlight(x)'
    BY <2>2 DEF InFlight, Rotating
  <2>7. crashes = 0 => KeysReclaimable'
    <3> SUFFICES ASSUME crashes = 0, NEW x \in upstream, x \in tracked', x \notin Recorded'
                 PROVE  InFlight(x)'
      BY <2>1 DEF KeysReclaimable
    <3>1. CASE x = job[p].key
      BY <2>6, <3>1
    <3>2. CASE x # job[p].key
      <4>1. x \in tracked /\ x \notin Recorded /\ x \in Keys
        BY <2>1, <2>3, <3>2 DEF Recorded
      <4> QED
        BY <2>5, <4>1 DEF TracksInv, KeysReclaimable
    <3> QED
      BY <3>1, <3>2
  <2> QED
    BY <1>1, <2>1, <2>2, <2>3, <2>4, <2>7 DEF TracksInv, Rotating
<1>5. CASE SaveOK(p)
  <2>1. /\ UNCHANGED <<upstream, tracked, crashes>> /\ job' = [job EXCEPT ![p] = Idle]
        /\ cur' = job[p].key /\ retiring' = job[p].ret \cup ({job[p].cur} \ {NoKey})
    BY <1>5 DEF SaveOK, Finish, cloud
  <2>2. job[p].ret = retiring /\ job[p].cur = cur /\ job[p].key \in Keys
    BY <1>5 DEF SaveOK, StructInv, JobInv, Rotating, Locked
  <2>3. Recorded \cup {job[p].key} \subseteq Recorded'
    BY <2>1, <2>2, KeyAssumption DEF Recorded
  <2>4. \A x \in Keys : InFlight(x) => x = job[p].key
    BY <1>1 DEF InFlight
  <2>5. \A q \in Procs : job'[q].pc \notin {"track", "undo"}
    BY <1>0, <1>1, <2>1 DEF Rotating
  <2> QED
    BY <2>1, <2>3, <2>4, <2>5 DEF TracksInv, KeysReclaimable
<1>6. CASE SaveFail(p)
  <2>1. UNCHANGED <<upstream, cur, retiring, crashes>> /\ job[p].pc = "save" /\ tracked' = tracked \ {job[p].key}
    BY <1>6 DEF SaveFail, cloud
  <2>2. job'[p].pc = "undo" /\ job'[p].key = job[p].key /\ \A q \in Procs \ {p} : job'[q] = job[q]
    BY <1>0, <1>6 DEF SaveFail, Job
  <2>3. \A x \in Keys : InFlight(x) => InFlight(x)'
    BY <1>1, <2>2 DEF InFlight, Rotating
  <2>4. crashes = 0 => KeysReclaimable'
    BY <2>1, <2>3 DEF TracksInv, KeysReclaimable, Recorded
  <2> QED
    BY <1>1, <2>1, <2>2, <2>4 DEF TracksInv, Rotating
<1>7. CASE Undo(p)
  <2>1. /\ UNCHANGED <<tracked, cur, retiring, crashes>> /\ upstream' \subseteq upstream
        /\ job' = [job EXCEPT ![p] = Idle] /\ job[p].pc = "undo"
    BY <1>7 DEF Undo, RotationFailed, Finish
  <2>2. job[p].key \notin tracked
    BY <2>1 DEF TracksInv
  <2>3. \A x \in Keys : InFlight(x) => x = job[p].key
    BY <1>1 DEF InFlight
  <2>4. \A q \in Procs : job'[q].pc \notin {"track", "undo"}
    BY <1>0, <1>1, <2>1 DEF Rotating
  <2> QED
    BY <2>1, <2>2, <2>3, <2>4 DEF TracksInv, KeysReclaimable, Recorded
<1> QED
  BY <1>2, <1>3, <1>4, <1>5, <1>6, <1>7 DEF Rotate

LEMMA TracksStep ==
    ASSUME ~UntrackFails, IInv, TracksInv, Next,
           \A k \in Recorded : k \in Recorded' \/ k \notin upstream
    PROVE  TracksInv'
<1> USE DEF IInv, TypeOK, At, store, cloud
<1>0. Idle.pc = "idle"
  BY DEF Idle
<1>1. ASSUME NEW p \in Procs, Serve(p) PROVE TracksInv'
  <2>1. job[p] \in Job /\ (\A q \in Procs \ {p} : job'[q] = job[q]) /\ job[p].pc \in {"idle", "check", "lock"}
    BY <1>1 DEF Serve, LoadRole, ReadCheck, Decide, Finish
  <2>2. job'[p].pc \in {"idle", "check", "lock", "mint"}
    <3>1. CASE LoadRole(p)
      BY <2>1, <3>1 DEF LoadRole, Job
    <3>2. CASE ReadCheck(p)
      BY <1>0, <2>1, <3>2 DEF ReadCheck, Finish, Job
    <3>3. CASE Decide(p)
      BY <1>0, <2>1, <3>3 DEF Decide, Finish, Job
    <3> QED
      BY <1>1, <3>1, <3>2, <3>3 DEF Serve
  <2>3. UNCHANGED <<tracked, crashes, upstream, cur, retiring>>
    BY <1>1 DEF Serve, LoadRole, ReadCheck, Decide
  <2> QED
    BY <2>1, <2>2, <2>3, TracksKept DEF Recorded
<1>2. ASSUME NEW p \in Procs, Sweep(p) PROVE TracksInv'
  <2>1. job[p] \in Job /\ (\A q \in Procs \ {p} : job'[q] = job[q])
        /\ job[p].pc \in {"idle", "sweeplock", "sweep", "untrack", "rotlock"}
    BY <1>2 DEF Sweep, SweepStart, SweepLoad, SweepUntrack, SweepSave, SweepRotate, SweepDelete,
       SweepDeleteFail, Finish
  <2>2. job'[p].pc \in {"idle", "sweeplock", "sweep", "untrack", "rotlock", "mint"}
    <3>1. CASE SweepStart(p) \/ SweepLoad(p)
      BY <2>1, <3>1 DEF SweepStart, SweepLoad, Job
    <3>2. CASE SweepUntrack(p)
      BY <2>1, <3>2 DEF SweepUntrack, Job
    <3>3. CASE SweepSave(p)
      BY <2>1, <3>3 DEF SweepSave, Job
    <3>4. CASE SweepRotate(p)
      BY <1>0, <2>1, <3>4 DEF SweepRotate, Finish, Job
    <3>5. ASSUME NEW k \in Keys, SweepDelete(p, k) PROVE job'[p].pc \in {"sweep", "untrack"}
      BY <2>1, <3>5 DEF SweepDelete, Job
    <3>6. ASSUME NEW k \in Keys, SweepDeleteFail(p, k) PROVE job'[p].pc \in {"sweep", "untrack"}
      BY <2>1, <3>6 DEF SweepDeleteFail, Job
    <3> QED
      BY <1>2, <3>1, <3>2, <3>3, <3>4, <3>5, <3>6 DEF Sweep
  <2>3. tracked' \subseteq tracked /\ upstream' \subseteq upstream /\ crashes' = crashes
    BY <1>2 DEF Sweep, SweepStart, SweepLoad, SweepUntrack, SweepSave, SweepRotate, SweepDelete,
       SweepDeleteFail
  <2> QED
    BY <2>1, <2>2, <2>3, TracksKept
<1>3. ASSUME NEW p \in Procs, Purge(p) PROVE TracksInv'
  <2>1. job[p] \in Job /\ (\A q \in Procs \ {p} : job'[q] = job[q])
        /\ job[p].pc \in {"idle", "purge", "forget", "purged"}
    BY <1>3 DEF Purge, PurgeScan, Forget, PurgeUntrack, PurgeEnd, PurgeDelete, PurgeDeleteFail, Finish
  <2>2. job'[p].pc \in {"idle", "purge", "forget", "purged"}
    <3>1. CASE PurgeScan(p) \/ PurgeUntrack(p)
      BY <2>1, <3>1 DEF PurgeScan, PurgeUntrack, Job
    <3>2. CASE Forget(p)
      BY <2>1, <3>2 DEF Forget, Job
    <3>3. CASE PurgeEnd(p)
      BY <1>0, <2>1, <3>3 DEF PurgeEnd, Finish
    <3>4. ASSUME NEW k \in Keys, PurgeDelete(p, k) PROVE job'[p].pc \in {"purge", "forget", "purged"}
      BY <2>1, <3>4 DEF PurgeDelete, Job
    <3>5. ASSUME NEW k \in Keys, PurgeDeleteFail(p, k) PROVE job'[p].pc \in {"purge", "forget", "purged"}
      BY <2>1, <3>5 DEF PurgeDeleteFail, Job
    <3> QED
      BY <1>3, <3>1, <3>2, <3>3, <3>4, <3>5 DEF Purge
  <2>3. tracked' \subseteq tracked /\ upstream' \subseteq upstream /\ crashes' = crashes
    BY <1>3 DEF Purge, PurgeScan, Forget, PurgeUntrack, PurgeEnd, PurgeDelete, PurgeDeleteFail
  <2> QED
    BY <2>1, <2>2, <2>3, TracksKept
<1>4. ASSUME Env, UNCHANGED job PROVE TracksInv'
  <2>1. UNCHANGED <<cur, retiring, tracked>> /\ upstream' \subseteq upstream /\ (crashes' = 0 => crashes = 0)
    BY <1>4 DEF Env, RoleWrite, RoleDelete, Reconcile, Tick, Crash
  <2> QED
    BY <1>4, <2>1 DEF TracksInv, KeysReclaimable, InFlight, Recorded
<1>5. CASE Crash
  <2>1. crashes' # 0 /\ \A q \in Procs : job'[q] = Idle
    BY <1>5 DEF Crash
  <2> QED
    BY <1>0, <2>1 DEF TracksInv
<1> QED
  BY <1>1, <1>2, <1>3, <1>4, <1>5, TracksRotate DEF Next, Env, RoleWrite, RoleDelete, Reconcile, Tick

\* A key at DigitalOcean is in the role's record (the sweep will reach it), or
\* untracked (the reconciler will), or held by a rotation in progress: until a
\* failover, as long as undoing a tracking record does not fail.  Both leave a
\* live key with a tracking record and nobody to delete it.
THEOREM KeysFound == ~UntrackFails /\ Spec => [](crashes = 0 => KeysReclaimable)
<1>1. Init => TracksInv
  BY DEF Init, TracksInv, KeysReclaimable, Idle
<1>2. CASE ~UntrackFails
  <2>1. IInv /\ TracksInv /\ [Next]_vars /\ [\A k \in Recorded : k \in Recorded' \/ k \notin upstream]_vars
        => TracksInv'
    <3>1. ASSUME TracksInv, UNCHANGED vars PROVE TracksInv'
      BY <3>1 DEF vars, store, cloud, TracksInv, KeysReclaimable, InFlight, Recorded
    <3>2. ASSUME UNCHANGED vars PROVE \A k \in Recorded : k \in Recorded'
      BY <3>2 DEF vars, store, Recorded
    <3> QED
      BY <1>2, <3>1, <3>2, TracksStep
  <2>2. TracksInv => (crashes = 0 => KeysReclaimable)
    BY DEF TracksInv
  <2> QED
    BY <1>1, <2>1, <2>2, Inductive, NoKeyDropped, PTL DEF Spec, RecordedUntilGone
<1> QED
  BY <1>2

-----------------------------------------------------------------------------
(* No dead current key that the next purge pass cannot find. *)

\* A step of p leaves everybody else's part of FindInv alone when it brings no
\* key that was ever issued into the record or into a rotation, changes what is
\* retiring only while nobody sweeps, and untracks no key about to be saved.
LEMMA FindKept ==
    ASSUME IInv, FindInv, NEW p \in Procs, \A q \in Procs \ {p} : job'[q] = job[q],
           job'[p].pc \in Rotating \ {"mint"} =>
              \/ job'[p].key \notin used
              \/ job[p].pc \in Rotating \ {"mint"} /\ job'[p].key = job[p].key,
           \A k \in Recorded' : k \in Recorded \/ InFlight(k),
           retiring' # retiring => \A q \in Procs \ {p} : job[q].pc \notin Sweeping,
           \A q \in Procs \ {p} : job[q].pc = "save" => job[q].key \in tracked',
           cur' # NoKey => cur' \in tracked',
           FindJob(p)'
    PROVE  FindInv'
<1> SUFFICES ASSUME NEW q \in Procs, q # p PROVE FindJob(q)'
  BY DEF FindInv
<1>1. job'[q] = job[q] /\ FindJob(q)
  BY DEF FindInv
<1>2. ASSUME job[q].pc = "purged" PROVE job'[q].key \notin Recorded' /\ ~InFlight(job[q].key)'
  <2>1. PICK k : k = job[q].key
    OBVIOUS
  <2>2. k \in used /\ k \notin Recorded /\ ~InFlight(k)
    BY <1>1, <1>2, <2>1 DEF IInv, StructInv, JobInv, FindJob
  <2>3. ~InFlight(k)'
    <3> SUFFICES ASSUME NEW r \in Procs, job'[r].pc \in Rotating \ {"mint"}, job'[r].key = k
                 PROVE  FALSE
      BY DEF InFlight
    <3>1. job[r].pc \in Rotating \ {"mint"} /\ job[r].key = k
      BY <2>2
    <3> QED
      BY <2>2, <3>1 DEF InFlight
  <2>4. k = job'[q].key
    BY <1>1, <2>1
  <2> QED
    BY <2>2, <2>3, <2>4
<1> QED
  BY <1>1, <1>2 DEF FindJob, Sweeping

\* The steps that touch neither record nor tracking, of goroutines whose own
\* part of FindInv asks for nothing afterwards.
LEMMA FindIdle ==
    ASSUME IInv, FindInv, NEW p \in Procs, \A q \in Procs \ {p} : job'[q] = job[q],
           UNCHANGED <<cur, retiring, tracked>>,
           job'[p].pc \in {"idle", "check", "lock", "mint", "undo", "sweeplock", "rotlock"},
           job'[p].pc = "undo" => job[p].pc \in Rotating \ {"mint"} /\ job'[p].key = job[p].key
    PROVE  FindInv'
<1>1. FindJob(p)'
  BY DEF FindJob, Sweeping
<1> QED
  BY <1>1, FindKept, SMTT(30) DEF FindInv, FindJob, Recorded, Rotating

LEMMA FindRotate == ASSUME IInv, FindInv, NEW p \in Procs, Rotate(p) PROVE FindInv'
<1> USE DEF IInv, TypeOK, At, store
<1>0. Idle.pc = "idle" /\ job[p] \in Job /\ job[p].pc \in Locked
  BY DEF Idle, Rotate, CreateFail, CreateOK, CreateLost, Track, SaveOK, SaveFail, Undo, Locked, Rotating
<1>1. \A q \in Procs \ {p} : job[q].pc \notin Rotating /\ job[q].pc \notin Sweeping
  BY <1>0, Alone DEF Locked
<1>2. CASE CreateFail(p) \/ Undo(p) \/ \E k \in Keys : CreateLost(p, k)
  <2>1. job' = [job EXCEPT ![p] = Idle] /\ UNCHANGED <<tracked, cur, retiring>>
    BY <1>2 DEF CreateFail, Undo, CreateLost, RotationFailed, Finish
  <2>2. job'[p].pc = "idle" /\ \A q \in Procs \ {p} : job'[q] = job[q]
    BY <1>0, <2>1
  <2> QED
    BY <2>1, <2>2, FindIdle
<1>3. ASSUME NEW k \in Keys, CreateOK(p, k) PROVE FindInv'
  <2>1. /\ job' = [job EXCEPT ![p].pc = "track", ![p].key = k]
        /\ UNCHANGED <<tracked, cur, retiring>> /\ k \notin used
    BY <1>3 DEF CreateOK, Create
  <2>2. job'[p].pc = "track" /\ job'[p].key = k /\ \A q \in Procs \ {p} : job'[q] = job[q]
    BY <1>0, <2>1 DEF Job
  <2>3. FindJob(p)'
    BY <2>2 DEF FindJob, Sweeping
  <2> QED
    BY <1>1, <2>1, <2>2, <2>3, FindKept, SMTT(30) DEF FindInv, Recorded, Rotating
<1>4. CASE Track(p)
  <2>1. UNCHANGED <<cur, retiring>> /\ job[p].pc = "track" /\ tracked \subseteq tracked'
    BY <1>4 DEF Track
  <2>2. job'[p].pc \in {"save", "undo"} /\ job'[p].key = job[p].key /\ \A q \in Procs \ {p} : job'[q] = job[q]
    BY <1>0, <1>4 DEF Track, Job
  <2>3. job'[p].pc = "save" => job[p].key \in tracked'
    BY <1>0, <1>4 DEF Track, Job
  <2>4. FindJob(p)'
    BY <2>2, <2>3 DEF FindJob, Sweeping
  <2> QED
    BY <1>1, <2>1, <2>2, <2>4, FindKept, SMTT(30) DEF FindInv, Recorded, Rotating
<1>5. CASE SaveOK(p)
  <2>1. /\ UNCHANGED tracked /\ job' = [job EXCEPT ![p] = Idle] /\ job[p].pc = "save"
        /\ cur' = job[p].key /\ retiring' = job[p].ret \cup ({job[p].cur} \ {NoKey})
    BY <1>5 DEF SaveOK, Finish
  <2>2. job[p].ret = retiring /\ job[p].cur = cur /\ job[p].key \in tracked
    BY <2>1 DEF FindInv, FindJob, StructInv, JobInv, Rotating, Locked
  <2>3. job'[p].pc = "idle" /\ \A q \in Procs \ {p} : job'[q] = job[q]
    BY <1>0, <2>1
  <2>4. \A k \in Recorded' : k \in Recorded \/ InFlight(k)
    BY <2>1, <2>2 DEF Recorded, InFlight, Rotating
  <2>5. FindJob(p)'
    BY <2>3 DEF FindJob, Sweeping
  <2> QED
    BY <1>1, <2>1, <2>2, <2>3, <2>4, <2>5, FindKept, SMTT(30) DEF Rotating
<1>6. CASE SaveFail(p)
  <2>1. UNCHANGED <<cur, retiring>> /\ job[p].pc = "save" /\ tracked \ {job[p].key} \subseteq tracked'
    BY <1>6 DEF SaveFail
  <2>2. job'[p].pc = "undo" /\ job'[p].key = job[p].key /\ \A q \in Procs \ {p} : job'[q] = job[q]
    BY <1>0, <1>6 DEF SaveFail, Job
  <2>3. job[p].key \notin Recorded
    BY <2>1 DEF StructInv, JobInv
  <2>4. FindJob(p)'
    BY <2>2 DEF FindJob, Sweeping
  <2>5. cur' # NoKey => cur' \in tracked'
    BY <2>1, <2>3 DEF FindInv, Recorded
  <2> QED
    BY <1>1, <2>1, <2>2, <2>4, <2>5, FindKept, SMTT(30) DEF Recorded, Rotating
<1> QED
  BY <1>2, <1>3, <1>4, <1>5, <1>6 DEF Rotate

LEMMA FindSweep == ASSUME IInv, FindInv, NEW p \in Procs, Sweep(p) PROVE FindInv'
<1> USE DEF IInv, TypeOK, At, store
<1>0. Idle.pc = "idle" /\ job[p] \in Job
  BY DEF Idle
<1>1. CASE SweepStart(p)
  <2>1. job'[p].pc = "sweeplock" /\ (\A q \in Procs \ {p} : job'[q] = job[q]) /\ UNCHANGED <<cur, retiring, tracked>>
    BY <1>0, <1>1 DEF SweepStart, Job
  <2> QED
    BY <2>1, FindIdle
<1>2. CASE SweepLoad(p)
  <2>1. /\ job'[p].pc = "sweep" /\ job'[p].todo \subseteq retiring /\ UNCHANGED <<cur, retiring, tracked>>
        /\ \A q \in Procs \ {p} : job'[q] = job[q]
    BY <1>0, <1>2 DEF SweepLoad, Job
  <2>2. FindJob(p)'
    BY <2>1 DEF FindJob
  <2> QED
    BY <2>1, <2>2, FindKept, SMTT(30) DEF FindInv, FindJob, Recorded, Rotating
<1>3. ASSUME NEW k \in Keys, SweepDelete(p, k) PROVE FindInv'
  <2>1. job[p].pc = "sweep" /\ k \in job[p].todo /\ job[p].todo \subseteq retiring
    BY <1>3 DEF SweepDelete, FindInv, FindJob, Sweeping
  <2>2. /\ job'[p].pc = "untrack" /\ job'[p].todo = job[p].todo /\ job'[p].key = k
        /\ UNCHANGED <<cur, retiring, tracked>> /\ \A q \in Procs \ {p} : job'[q] = job[q]
    BY <1>0, <1>3 DEF SweepDelete, Job
  <2>3. FindJob(p)'
    BY <2>1, <2>2 DEF FindJob
  <2> QED
    BY <2>2, <2>3, FindKept, SMTT(30) DEF FindInv, FindJob, Recorded, Rotating
<1>4. ASSUME NEW k \in Keys, SweepDeleteFail(p, k) PROVE FindInv'
  <2>1. job[p].pc = "sweep" /\ job[p].todo \subseteq retiring
    BY <1>4 DEF SweepDeleteFail, FindInv, FindJob, Sweeping
  <2>2. /\ job'[p].pc = "sweep" /\ job'[p].todo \subseteq job[p].todo
        /\ UNCHANGED <<cur, retiring, tracked>> /\ \A q \in Procs \ {p} : job'[q] = job[q]
    BY <1>0, <1>4, <2>1 DEF SweepDeleteFail, Job
  <2>3. FindJob(p)'
    BY <2>1, <2>2 DEF FindJob
  <2> QED
    BY <2>2, <2>3, FindKept, SMTT(30) DEF FindInv, FindJob, Recorded, Rotating
<1>5. CASE SweepUntrack(p)
  <2>1. job[p].pc = "untrack" /\ job[p].todo \subseteq retiring /\ job[p].key \in retiring
    BY <1>5 DEF SweepUntrack, FindInv, FindJob, Sweeping
  <2>2. /\ job'[p].pc = "sweep" /\ job'[p].todo \subseteq job[p].todo
        /\ UNCHANGED <<cur, retiring>> /\ \A q \in Procs \ {p} : job'[q] = job[q]
    BY <1>0, <1>5 DEF SweepUntrack, Job
  <2>3. tracked \ {job[p].key} \subseteq tracked' /\ cur # job[p].key
    BY <1>5, <2>1 DEF SweepUntrack, StructInv
  <2>4. FindJob(p)'
    BY <2>1, <2>2 DEF FindJob
  <2>5. \A q \in Procs \ {p} : job[q].pc # "save"
    BY <2>1, Alone DEF Locked, Sweeping, Rotating
  <2>6. cur' # NoKey => cur' \in tracked'
    BY <2>2, <2>3 DEF FindInv
  <2> QED
    BY <2>2, <2>4, <2>5, <2>6, FindKept, SMTT(30) DEF Recorded, Rotating
<1>6. CASE SweepSave(p)
  <2>1. /\ job[p].pc = "sweep" /\ UNCHANGED tracked
        /\ \/ cur' = job[p].cur /\ retiring' = job[p].ret
           \/ UNCHANGED <<cur, retiring>>
    BY <1>6 DEF SweepSave
  <2>2. job[p].cur = cur /\ job[p].ret \subseteq retiring
    BY <2>1 DEF StructInv, JobInv, Locked, Sweeping
  <2>3. job'[p].pc = "rotlock" /\ \A q \in Procs \ {p} : job'[q] = job[q]
    BY <1>0, <1>6 DEF SweepSave, Job
  <2>4. \A q \in Procs \ {p} : job[q].pc # "save" /\ job[q].pc \notin Sweeping
    BY <2>1, Alone DEF Locked, Sweeping, Rotating
  <2>5. FindJob(p)'
    BY <2>3 DEF FindJob, Sweeping
  <2>6. \A k \in Recorded' : k \in Recorded
    BY <2>1, <2>2 DEF Recorded
  <2>7. cur' # NoKey => cur' \in tracked'
    BY <2>1, <2>2 DEF FindInv
  <2> QED
    BY <2>3, <2>4, <2>5, <2>6, <2>7, FindKept, SMTT(30) DEF Rotating
<1>7. CASE SweepRotate(p)
  <2>1. job'[p].pc \in {"mint", "idle"} /\ (\A q \in Procs \ {p} : job'[q] = job[q])
    BY <1>0, <1>7 DEF SweepRotate, Finish, Job
  <2>2. UNCHANGED <<cur, retiring, tracked>>
    BY <1>7 DEF SweepRotate
  <2> QED
    BY <2>1, <2>2, FindIdle
<1> QED
  BY <1>1, <1>2, <1>3, <1>4, <1>5, <1>6, <1>7 DEF Sweep

LEMMA FindPurge ==
    ASSUME AlwaysRotated, IInv, FindInv, NEW p \in Procs, Purge(p) PROVE FindInv'
<1> USE DEF IInv, TypeOK, At, store
<1>0. Idle.pc = "idle" /\ job[p] \in Job
  BY DEF Idle
<1>1. CASE PurgeScan(p)
  <2>1. /\ job'[p].pc = "purge" /\ job'[p].role \in RoleConfigs /\ UNCHANGED <<cur, retiring, tracked>>
        /\ \A q \in Procs \ {p} : job'[q] = job[q]
    BY <1>0, <1>1 DEF PurgeScan, Job
  <2>2. FindJob(p)'
    BY <2>1 DEF FindJob, Sweeping
  <2> QED
    BY <2>1, <2>2, FindKept, SMTT(30) DEF FindInv, FindJob, Recorded, Rotating
<1>2. ASSUME NEW k \in Keys, PurgeDelete(p, k) PROVE FindInv'
  <2>1. job[p].role \in RoleConfigs /\ job[p].role.rotated
    BY <1>2 DEF PurgeDelete, FindInv, FindJob, AlwaysRotated
  <2>2. /\ job'[p].pc = "forget" /\ job'[p].role = job[p].role /\ UNCHANGED <<cur, retiring, tracked>>
        /\ \A q \in Procs \ {p} : job'[q] = job[q]
    BY <1>0, <1>2, <2>1 DEF PurgeDelete, Job
  <2>3. FindJob(p)'
    BY <2>1, <2>2 DEF FindJob, Sweeping
  <2> QED
    BY <2>2, <2>3, FindKept, SMTT(30) DEF FindInv, FindJob, Recorded, Rotating
<1>3. ASSUME NEW k \in Keys, PurgeDeleteFail(p, k) PROVE FindInv'
  <2>1. job[p].role \in RoleConfigs /\ job[p].pc = "purge"
    BY <1>3 DEF PurgeDeleteFail, FindInv, FindJob
  <2>2. /\ job'[p].pc = "purge" /\ job'[p].role = job[p].role /\ UNCHANGED <<cur, retiring, tracked>>
        /\ \A q \in Procs \ {p} : job'[q] = job[q]
    BY <1>0, <1>3, <2>1 DEF PurgeDeleteFail, Job
  <2>3. FindJob(p)'
    BY <2>1, <2>2 DEF FindJob, Sweeping
  <2> QED
    BY <2>2, <2>3, FindKept, SMTT(30) DEF FindInv, FindJob, Recorded, Rotating
<1>4. CASE Forget(p)
  <2>1. /\ job[p].role \in RoleConfigs /\ job[p].pc = "forget" /\ lock = NoProc /\ UNCHANGED tracked
        /\ retiring' \subseteq retiring /\ cur' \in {cur, NoKey}
    BY <1>4 DEF Forget, FindInv, FindJob
  <2>2. /\ job'[p].pc \in {"purged", "purge"} /\ job'[p].role = job[p].role /\ job'[p].key = job[p].key
        /\ \A q \in Procs \ {p} : job'[q] = job[q]
    BY <1>0, <1>4 DEF Forget, Job
  <2>3. \A q \in Procs : job[q].pc \notin Locked /\ job'[q].pc \notin Locked
    <3>1. \A q \in Procs : job[q].pc \notin Locked
      BY <2>1, ProcAssumption
    <3> QED
      BY <2>2, <3>1 DEF Locked, Rotating, Sweeping
  <2>4. job'[p].pc = "purged" => job'[p].key \notin Recorded'
    <3> SUFFICES ASSUME job'[p].pc = "purged" PROVE job'[p].key \notin Recorded'
      OBVIOUS
    <3>1. cur' = (IF cur = job[p].key THEN NoKey ELSE cur) /\ retiring' = retiring \ {job[p].key}
      BY <1>0, <1>4 DEF Forget, Job
    <3>2. job'[p].key \notin retiring' /\ job'[p].key \notin {cur'} \ {NoKey}
      BY <2>2, <3>1
    <3> QED
      BY <3>2 DEF Recorded
  <2>5. ~(\E q \in Procs : job'[q].pc \in Rotating \ {"mint"} /\ job'[q].key = job'[p].key)
    BY <2>3 DEF Locked
  <2>6. FindJob(p)'
    BY <2>1, <2>2, <2>4, <2>5 DEF FindJob, InFlight, Sweeping
  <2>7. \A k \in Recorded' : k \in Recorded
    BY <2>1 DEF Recorded
  <2>8. cur' # NoKey => cur' \in tracked'
    BY <2>1 DEF FindInv
  <2> QED
    BY <2>2, <2>3, <2>6, <2>7, <2>8, FindKept, SMTT(30) DEF FindInv, FindJob, Rotating, Locked
<1>5. CASE PurgeUntrack(p)
  <2>1. /\ job[p].role \in RoleConfigs /\ job[p].pc = "purged" /\ UNCHANGED <<cur, retiring>>
        /\ job[p].key \notin Recorded /\ ~InFlight(job[p].key)
        /\ tracked \ {job[p].key} \subseteq tracked'
    BY <1>5 DEF PurgeUntrack, FindInv, FindJob
  <2>2. /\ job'[p].pc = "purge" /\ job'[p].role = job[p].role
        /\ \A q \in Procs \ {p} : job'[q] = job[q]
    BY <1>0, <1>5 DEF PurgeUntrack, Job
  <2>3. \A q \in Procs : job[q].pc = "save" => job[q].key \in tracked'
    BY <2>1 DEF FindInv, FindJob, InFlight, Rotating
  <2>4. cur' # NoKey => cur' \in tracked'
    BY <2>1 DEF FindInv, Recorded
  <2>5. FindJob(p)'
    BY <2>1, <2>2 DEF FindJob, Sweeping
  <2> QED
    BY <2>1, <2>2, <2>3, <2>4, <2>5, FindKept, SMTT(30) DEF Recorded, Rotating
<1>6. CASE PurgeEnd(p)
  <2>1. job'[p].pc = "idle" /\ (\A q \in Procs \ {p} : job'[q] = job[q]) /\ UNCHANGED <<cur, retiring, tracked>>
    BY <1>0, <1>6 DEF PurgeEnd, Finish
  <2> QED
    BY <2>1, FindIdle
<1> QED
  BY <1>1, <1>2, <1>3, <1>4, <1>5, <1>6 DEF Purge

LEMMA FindStep == ASSUME AlwaysRotated, IInv, FindInv, Next PROVE FindInv'
<1> USE DEF IInv, TypeOK, At, store
<1>0. Idle.pc = "idle"
  BY DEF Idle
<1>1. ASSUME NEW p \in Procs, Serve(p) PROVE FindInv'
  <2>1. job[p] \in Job /\ (\A q \in Procs \ {p} : job'[q] = job[q])
    BY <1>1 DEF Serve, LoadRole, ReadCheck, Decide, Finish
  <2>2. job'[p].pc \in {"idle", "check", "lock", "mint"}
    <3>1. CASE LoadRole(p)
      BY <2>1, <3>1 DEF LoadRole, Job
    <3>2. CASE ReadCheck(p)
      BY <1>0, <2>1, <3>2 DEF ReadCheck, Finish, Job
    <3>3. CASE Decide(p)
      BY <1>0, <2>1, <3>3 DEF Decide, Finish, Job
    <3> QED
      BY <1>1, <3>1, <3>2, <3>3 DEF Serve
  <2>3. UNCHANGED <<tracked, cur, retiring>>
    BY <1>1 DEF Serve, LoadRole, ReadCheck, Decide
  <2> QED
    BY <2>1, <2>2, <2>3, FindIdle
<1>2. ASSUME Env, UNCHANGED job PROVE FindInv'
  <2>1. UNCHANGED <<cur, retiring, tracked>>
    BY <1>2 DEF Env, RoleWrite, RoleDelete, Reconcile, Tick, Crash
  <2> QED
    BY <1>2, <2>1 DEF FindInv, FindJob, InFlight, Recorded
<1>3. CASE Crash
  <2>1. UNCHANGED <<cur, retiring, tracked>> /\ \A q \in Procs : job'[q] = Idle
    BY <1>3 DEF Crash
  <2> QED
    BY <1>0, <2>1 DEF FindInv, FindJob, Sweeping
<1> QED
  BY <1>1, <1>2, <1>3, FindRotate, FindSweep, FindPurge
     DEF Next, Env, RoleWrite, RoleDelete, Reconcile, Tick

\* A current key that is gone upstream is still tracked, so the next purge pass
\* finds it and has the record forget it, whatever interleaves with
\* forgetSharedSpacesKey and whatever fails; as long as no role write turns the
\* rotated role into a per-lease one, whose purge does not touch the record.
THEOREM DeadKeysFindable == AlwaysRotated /\ Spec => []DeadKeyFindable
<1>1. Init => FindInv
  BY DEF Init, FindInv, FindJob, Idle, Sweeping
<1>2. CASE AlwaysRotated
  <2>1. IInv /\ FindInv /\ [Next]_vars => FindInv'
    <3>1. ASSUME FindInv, UNCHANGED vars PROVE FindInv'
      BY <3>1 DEF vars, store, FindInv, FindJob, InFlight, Recorded
    <3> QED
      BY <1>2, <3>1, FindStep
  <2>2. FindInv => DeadKeyFindable
    BY DEF FindInv, DeadKeyFindable
  <2> QED
    BY <1>1, <2>1, <2>2, Inductive, PTL DEF Spec
<1> QED
  BY <1>2
=============================================================================
