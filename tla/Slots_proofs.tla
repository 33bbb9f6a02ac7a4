---------------------------- MODULE Slots_proofs ----------------------------
(***************************************************************************)
(* Proofs that OCI's slots keep their types, that a reconcile pass deletes *)
(* no token that a rotation has just made, and that the worker replaces no *)
(* token under a lease, for any number of goroutines serving requests, any *)
(* schedule, and any number of failures and failovers.                     *)
(***************************************************************************)
EXTENDS Slots, TLAPS

\* A role has at most two slots, so there is a slot 0 and perhaps a slot 1.
LEMMA SlotRange ==
    /\ MaxSlotCount \in SlotCounts /\ \A n \in SlotCounts : n \in 1..2 /\ n <= MaxSlotCount
    /\ Slot \subseteq 0..1
<1>0. SlotCounts # {} /\ \A n \in SlotCounts : n = 1 \/ n = 2
  BY SlotAssumption
<1>1. PICK m \in SlotCounts : \A n \in SlotCounts : m >= n
  <2>1. CASE 2 \in SlotCounts
    <3>1. \A n \in SlotCounts : 2 >= n
      BY <1>0
    <3> QED
      BY <2>1, <3>1
  <2>2. CASE 2 \notin SlotCounts
    <3>1. 1 \in SlotCounts /\ \A n \in SlotCounts : n = 1
      BY <1>0, <2>2
    <3> QED
      BY <3>1
  <2> QED
    BY <2>1, <2>2
<1>2. MaxSlotCount \in SlotCounts /\ \A n \in SlotCounts : MaxSlotCount >= n
  BY <1>1, Zenon DEF MaxSlotCount, Max
<1> QED
  BY <1>0, <1>2 DEF Slot

\* An interval is a length of time.
LEMMA IntervalType == \A n \in SlotCounts : Interval(n) \in Nat
BY SlotAssumption DEF Interval

\* The greatest and the least of two instants are one of the two.
LEMMA MaxType == \A a, b \in Nat : Max({a, b}) \in {a, b}
<1> SUFFICES ASSUME NEW a \in Nat, NEW b \in Nat PROVE Max({a, b}) \in {a, b}
  OBVIOUS
<1>1. PICK m \in {a, b} : \A n \in {a, b} : m >= n
  OBVIOUS
<1>2. Max({a, b}) \in {a, b}
  BY <1>1, Zenon DEF Max
<1> QED
  BY <1>2

LEMMA MinType == \A a, b \in Nat : Min({a, b}) \in {a, b} /\ Min({a, b}) <= b
<1> SUFFICES ASSUME NEW a \in Nat, NEW b \in Nat PROVE Min({a, b}) \in {a, b} /\ Min({a, b}) <= b
  OBVIOUS
<1>1. PICK m \in {a, b} : \A n \in {a, b} : m <= n
  OBVIOUS
<1>2. Min({a, b}) \in {a, b} /\ \A n \in {a, b} : Min({a, b}) <= n
  BY <1>1, Zenon DEF Min
<1> QED
  BY <1>2

\* A lease on the freshest slot is given for a length of time, which is over when
\* the slot is to be replaced.
LEMMA ServeType ==
    ASSUME NEW seen \in SUBSET SlotRecord, seen # {} => \E r, s \in seen : seen = {r, s},
           NEW now \in Nat, FreshestSlot(seen, now) # None
    PROVE  /\ FreshestSlot(seen, now).token \in Tokens
           /\ now + TTL(FreshestSlot(seen, now), now) \in Nat
           /\ FreshestSlot(seen, now) \in seen /\ FreshestSlot(seen, now).next > now
           /\ now + TTL(FreshestSlot(seen, now), now) <= FreshestSlot(seen, now).next
<1> DEFINE eligible == {e \in seen : e.next > now}
           f == FreshestSlot(seen, now)
<1>1. eligible # {} /\ f = CHOOSE e \in eligible : \A r \in eligible : r.rotated <= e.rotated
  BY DEF FreshestSlot
<1>2. PICK r \in seen, s \in seen : seen = {r, s}
  BY <1>1
<1>3. r.rotated \in Nat /\ s.rotated \in Nat
  BY DEF SlotRecord
<1>4. PICK e \in eligible : \A d \in eligible : d.rotated <= e.rotated
  <2>1. CASE r \in eligible /\ (s \in eligible => s.rotated <= r.rotated)
    BY <1>2, <1>3, <2>1
  <2>2. CASE s \in eligible /\ (r \in eligible => r.rotated <= s.rotated)
    BY <1>2, <1>3, <2>2
  <2> QED
    BY <1>1, <1>2, <1>3, <2>1, <2>2
<1>5. f \in eligible
  <2> HIDE DEF eligible, f
  <2> QED
    BY <1>1, <1>4, Zenon
<1>6. f \in SlotRecord /\ f.next > now /\ f.token \in Tokens /\ f.next \in Nat
  BY <1>5 DEF SlotRecord
<1>7. f.next - now \in Nat
  BY <1>6
<1> HIDE DEF f
<1>8. TTL(f, now) \in Nat /\ TTL(f, now) <= f.next - now
  BY <1>7, MinType, SlotAssumption DEF TTL
<1> QED
  BY <1>5, <1>6, <1>8 DEF f

-----------------------------------------------------------------------------
(* The induction.  Everything but the goroutines' locals and the mutex: *)
StoreOK ==
    /\ clock \in Nat /\ role \in Role \cup {None} /\ slots \in [Slot -> SlotRecord \cup {None}]
    /\ live \subseteq Tokens /\ made \in 0..MaxTokens /\ usable \in BOOLEAN
    /\ lease \in [Tokens -> Nat] /\ overtook \subseteq Tokens /\ exposed \subseteq Tokens
    /\ writes \in Nat /\ faults \in Nat

\* The locals are of their type, and the mutex is held by whoever is inside.
LocalsOK ==
    /\ job \in [Procs -> Job] /\ mu \in Procs \cup {NoProc}
    /\ \A p \in Procs : JobInv(p, job[p]) /\ ((mu = p) <=> (job[p].pc \in Locked))

LEMMA Parts == IInv <=> StoreOK /\ LocalsOK
BY DEF IInv, TypeOK, StoreOK, LocalsOK

\* One goroutine moves: it takes the mutex, gives it back, or leaves it alone.
MuStep(p) ==
    \/ mu' = mu /\ (job'[p].pc \in Locked <=> job[p].pc \in Locked)
    \/ mu = NoProc /\ mu' = p /\ job'[p].pc \in Locked
    \/ job[p].pc \in Locked /\ mu' = NoProc /\ job'[p].pc \notin Locked

LEMMA LocalStep ==
    ASSUME LocalsOK, NEW p \in Procs, NEW j \in Job, job' = [job EXCEPT ![p] = j],
           JobInv(p, j), MuStep(p)
    PROVE  LocalsOK'
<1>1. job' \in [Procs -> Job] /\ job'[p] = j /\ \A q \in Procs \ {p} : job'[q] = job[q]
  BY DEF LocalsOK
<1>2. \A q \in Procs : JobInv(q, job'[q])
  BY <1>1 DEF LocalsOK
<1>3. mu' \in Procs \cup {NoProc} /\ \A q \in Procs : (mu' = q) <=> (job'[q].pc \in Locked)
  BY <1>1, ProcAssumption DEF LocalsOK, MuStep
<1> QED
  BY <1>1, <1>2, <1>3, Zenon DEF LocalsOK, JobInv

\* Nothing is left of a goroutine that has finished.
LEMMA IdleOK == Idle \in Job /\ (\A p \in Procs : JobInv(p, Idle)) /\ Idle.pc \notin Locked
BY BoundAssumption DEF Idle, Job, JobInv, Locked

\* What loadAllSlots returns are slots, two at most, and their tokens tokens.
LEMMA SlotsLoaded ==
    ASSUME StoreOK, NEW n \in SlotCounts
    PROVE  /\ LoadAllSlots(n) \subseteq SlotRecord /\ Known(n) \subseteq Tokens
           /\ LoadAllSlots(n) # {} => \E r, s \in LoadAllSlots(n) : LoadAllSlots(n) = {r, s}
<1>1. LoadAllSlots(n) \subseteq SlotRecord /\ Known(n) \subseteq Tokens
  BY DEF StoreOK, LoadAllSlots, Known, SlotRecord
<1>2. ASSUME LoadAllSlots(n) # {} PROVE \E r, s \in LoadAllSlots(n) : LoadAllSlots(n) = {r, s}
  <2> DEFINE S == {i \in Slot : i < n /\ slots[i] # None}
  <2>0. \A i \in Slot : i = 0 \/ i = 1
    BY SlotRange
  <2>1. LoadAllSlots(n) = {slots[i] : i \in S} /\ S \subseteq {0, 1}
    BY <2>0 DEF LoadAllSlots
  <2>2. CASE 0 \in S /\ 1 \in S
    BY <2>1, <2>2
  <2>3. CASE 0 \in S /\ 1 \notin S
    BY <2>1, <2>3
  <2>4. CASE 0 \notin S
    BY <1>2, <2>1, <2>4
  <2> QED
    BY <2>2, <2>3, <2>4
<1> QED
  BY <1>1, <1>2

\* What a role and a slot number are counted in.
LEMMA RoleCount == \A r \in Role : r.count \in SlotCounts /\ r.count \in 0..2
BY SlotRange DEF Role

LEMMA SlotIndex == \A i \in Slot : i \in 0..2
BY SlotRange

LEMMA NextIndex == \A n, i \in 0..2 : i < n => i + 1 \in 0..2 /\ i + 1 <= n
OBVIOUS
LEMMA Together == ASSUME StoreOK', LocalsOK' PROVE IInv'
BY DEF IInv, TypeOK, StoreOK, LocalsOK

\* A goroutine that has just taken up its work.
LEMMA Begins ==
    ASSUME NEW c \in SlotCounts, c \in 0..2, NEW now \in Nat, NEW i \in 0..2, i < c
    PROVE  /\ \A p \in Writers : JobInv(p, [Idle EXCEPT !.pc = "check", !.count = c])
           /\ \A p : JobInv(p, [Idle EXCEPT !.pc = "due", !.count = c, !.at = now])
           /\ \A p : JobInv(p, [Idle EXCEPT !.pc = "lock", !.count = c, !.i = i])
BY DEF JobInv, Idle

\* The number of slots of a role that exists.
LEMMA CountType ==
    ASSUME StoreOK, role # None PROVE role.count \in SlotCounts /\ role.count \in 0..2
BY SlotRange DEF StoreOK, Role

\* A token OCI makes is one of those the instance has.
LEMMA TokenType ==
    ASSUME StoreOK, CreateAuthToken
    PROVE  made' \in Tokens /\ made' \in 0..MaxTokens /\ live' \subseteq Tokens
BY BoundAssumption DEF StoreOK, CreateAuthToken, Tokens

\* A token on its way to a slot is one of them.
LEMMA FlightType == ASSUME LocalsOK PROVE InitInFlight \subseteq Tokens
<1> SUFFICES ASSUME NEW q \in Writers, At(q, "place") PROVE job[q].token \in Tokens
  BY DEF InitInFlight
<1> QED
  BY DEF LocalsOK, JobInv, At, Procs

\* A token that comes into a slot some worker waits to rotate is noted.
LEMMA Noted ==
    ASSUME NEW p \in Procs, NEW i, NEW t, Overtaking(p, i, t)
    PROVE  /\ overtook' \in {overtook, overtook \cup {t}}
           /\ \A q \in Rotators \ {p} : At(q, "lock") => job[q].i # i \/ t \in overtook'
BY DEF Overtaking

\* The worker's locals when it has done with a slot, and an operator's.
LEMMA NextType ==
    ASSUME NEW i \in 0..2, NEW j \in Job
    PROVE  [j EXCEPT !.pc = "due", !.i = i, !.now = 0, !.token = None, !.old = None] \in Job
BY DEF Job, Locked

LEMMA SlotDone ==
    ASSUME LocalsOK, NEW p \in Procs
    PROVE  /\ Rotated(p) => job' = [job EXCEPT ![p] = NextSlot(p)]
           /\ job[p].pc \in {"lock", "create", "save", "kill"} =>
                 NextSlot(p) \in Job /\ JobInv(p, NextSlot(p)) /\ NextSlot(p).pc \notin Locked
<1>1. job[p] \in Job /\ JobInv(p, job[p])
  BY DEF LocalsOK
<1>2. Rotated(p) => job' = [job EXCEPT ![p] = NextSlot(p)]
  BY DEF Rotated
<1>3. CASE p \in Rotators /\ job[p].pc \in {"lock", "create", "save", "kill"}
  <2>1. NextSlot(p) = [job[p] EXCEPT !.pc = "due", !.i = job[p].i + 1, !.now = 0, !.token = None, !.old = None]
    BY <1>3 DEF NextSlot
  <2>2. job[p].count \in SlotCounts /\ job[p].i < job[p].count /\ job[p].count \in 0..2 /\ job[p].i \in 0..2
    BY <1>1, <1>3 DEF JobInv, Job
  <2>3. job[p].i + 1 \in 0..2 /\ job[p].i + 1 <= job[p].count
    BY <2>2
  <2>4. NextSlot(p) \in Job
    BY <1>1, <2>1, <2>3, NextType
  <2> QED
    BY <1>1, <1>2, <2>1, <2>2, <2>3, <2>4 DEF JobInv, Job, Locked
<1>4. CASE p \notin Rotators
  BY <1>2, <1>4, IdleOK DEF NextSlot
<1> QED
  BY <1>2, <1>3, <1>4

LEMMA InitInv == Init => IInv
<1> SUFFICES ASSUME Init PROVE IInv
  OBVIOUS
<1>1. LocalsOK
  BY IdleOK, ProcAssumption DEF Init, LocalsOK
<1>2. slots \in [Slot -> SlotRecord \cup {None}] /\ role \in Role \cup {None} /\ made \in 0..MaxTokens
  <2>1. CASE role = None /\ slots = [i \in Slot |-> None] /\ made = 0
    BY <2>1, BoundAssumption
  <2>2. ASSUME NEW n \in SlotCounts,
               role = [count |-> n, disabled |-> FALSE] /\ made = n,
               slots = [i \in Slot |->
                          IF i < n THEN [token |-> i + 1, rotated |-> 0, next |-> Interval(n) * (i + 1)]
                          ELSE None]
        PROVE  slots \in [Slot -> SlotRecord \cup {None}] /\ role \in Role \cup {None} /\ made \in 0..MaxTokens
    <3>1. role \in Role
      BY <2>2 DEF Role
    <3>2. n <= MaxTokens
      BY <2>2, ProvisionAssumption
    <3>3. \A i \in Slot : i < n => /\ i + 1 \in Tokens /\ Interval(n) * (i + 1) \in Nat
      <4> SUFFICES ASSUME NEW i \in Slot, i < n PROVE i + 1 \in Tokens /\ Interval(n) * (i + 1) \in Nat
        OBVIOUS
      <4>1. (i = 0 \/ i = 1) /\ Interval(n) \in Nat /\ n \in 1..2
        BY SlotRange, IntervalType
      <4> QED
        BY <3>2, <4>1, BoundAssumption DEF Tokens
    <3>4. \A i \in Slot : slots[i] \in SlotRecord \cup {None}
      BY <2>2, <3>3 DEF SlotRecord
    <3> QED
      BY <2>2, <3>1, <3>2, <3>4, SlotRange, BoundAssumption
  <2> QED
    BY <2>1, <2>2 DEF Init
<1>3. StoreOK
  BY <1>2, BoundAssumption DEF Init, StoreOK, Tokens
<1> QED
  BY <1>1, <1>3, Parts

\* Each action of a goroutine keeps types and what its locals say.
LEMMA NextInv == IInv /\ [Next]_vars => IInv'
<1> SUFFICES ASSUME IInv, [Next]_vars PROVE IInv'
  OBVIOUS
<1> StoreOK /\ LocalsOK
  BY Parts
<1> USE ProcAssumption, BoundAssumption
<1>1. ASSUME NEW p \in Procs, NEW r \in Role, RoleWrite(p, r) PROVE IInv'
  <2> DEFINE j == [job[p] EXCEPT !.pc = "check", !.count = r.count]
  <2>0. job[p] \in Job /\ JobInv(p, job[p]) /\ (mu = p <=> job[p].pc \in Locked)
    BY DEF LocalsOK
  <2>1. job' = [job EXCEPT ![p] = j]
    BY <1>1 DEF RoleWrite, Finish, At, LocalsOK
  <2>2. j \in Job /\ JobInv(p, j)
    <3>1. job[p] = Idle
      BY <1>1, <2>0 DEF RoleWrite, At, JobInv
    <3>3. p \in Writers 
      BY <1>1 DEF RoleWrite
    <3>4. r.count \in SlotCounts /\ r.count \in 0..2
      BY <1>1, <3>3, RoleCount, SlotRange DEF RoleWrite
    <3>5. j \in Job
      BY <2>0, <3>4 DEF Job, Locked, StoreOK
    <3>6. j = [Idle EXCEPT !.pc = "check", !.count = r.count]
      BY <3>1
    <3>7. JobInv(p, j)
      <4>1. \E q \in 0..2 : q < r.count
        BY <3>4, SlotRange
      <4>2. JobInv(p, [Idle EXCEPT !.pc = "check", !.count = r.count])
        BY <3>3, <3>4, <4>1, Begins
      <4> HIDE DEF j
      <4> QED
        BY <3>6, <4>2
    <3> QED
      BY <3>5, <3>7
  <2>3. MuStep(p)
    BY <1>1, <2>0, <2>1, IdleOK DEF RoleWrite, At, MuStep, Locked, LocalsOK
  <2>4. StoreOK'
    BY <1>1 DEF RoleWrite, StoreOK, storage, cloud, history, bounds
  <2> HIDE DEF j
  <2> QED
    BY <2>1, <2>2, <2>3, <2>4, LocalStep, Together
<1>2. ASSUME NEW p \in Procs, MaybeInitializeSlots(p) PROVE IInv'
  <2> DEFINE j == IF usable /\ LoadAllSlots(job[p].count) = {} THEN [job[p] EXCEPT !.pc = "init", !.at = clock] ELSE Idle
  <2>0. job[p] \in Job /\ JobInv(p, job[p]) /\ (mu = p <=> job[p].pc \in Locked)
    BY DEF LocalsOK
  <2>1. job' = [job EXCEPT ![p] = j]
    BY <1>2 DEF MaybeInitializeSlots, Finish, At, LocalsOK
  <2>2. j \in Job /\ JobInv(p, j)
    BY <1>2, <2>0, IdleOK, ZenonT(30) DEF MaybeInitializeSlots, At, Job, JobInv, StoreOK, Locked
  <2>3. MuStep(p)
    BY <1>2, <2>0, <2>1, IdleOK DEF MaybeInitializeSlots, At, MuStep, Locked, LocalsOK
  <2>4. StoreOK'
    BY <1>2 DEF MaybeInitializeSlots, StoreOK, storage, cloud, history, bounds
  <2> HIDE DEF j
  <2> QED
    BY <2>1, <2>2, <2>3, <2>4, LocalStep, Together
<1>3. ASSUME NEW p \in Procs, InitCreate(p) PROVE IInv'
  <2> DEFINE j == [job[p] EXCEPT !.pc = "place", !.token = made']
  <2>0. job[p] \in Job /\ JobInv(p, job[p]) /\ (mu = p <=> job[p].pc \in Locked)
    BY DEF LocalsOK
  <2>1. job' = [job EXCEPT ![p] = j]
    BY <1>3 DEF InitCreate, Finish, At, LocalsOK
  <2>2. j \in Job /\ JobInv(p, j)
    BY <1>3, <2>0, TokenType DEF InitCreate, At, Job, JobInv, StoreOK, Locked
  <2>3. MuStep(p)
    BY <1>3, <2>0, <2>1, IdleOK DEF InitCreate, At, MuStep, Locked, LocalsOK, CreateAuthToken
  <2>4. StoreOK'
    BY <1>3, TokenType DEF InitCreate, StoreOK, storage, cloud, history, bounds, CreateAuthToken
  <2> HIDE DEF j
  <2> QED
    BY <2>1, <2>2, <2>3, <2>4, LocalStep, Together
<1>4. ASSUME NEW p \in Procs, InitSave(p) PROVE IInv'
  <2> DEFINE j == [job[p] EXCEPT !.pc = "init", !.i = @ + 1, !.token = None]
  <2>0. job[p] \in Job /\ JobInv(p, job[p]) /\ (mu = p <=> job[p].pc \in Locked)
    BY DEF LocalsOK
  <2>1. job' = [job EXCEPT ![p] = j]
    BY <1>4 DEF InitSave, Finish, At, LocalsOK
  <2>2. j \in Job /\ JobInv(p, j)
    BY <1>4, <2>0, NextIndex DEF InitSave, At, Job, JobInv, StoreOK, Locked
  <2>3. MuStep(p)
    BY <1>4, <2>0, <2>1, IdleOK DEF InitSave, At, MuStep, Locked, LocalsOK
  <2>5. slots' \in [Slot -> SlotRecord \cup {None}]
    <3>1. job[p].token \in Tokens /\ Interval(job[p].count) \in Nat /\ job[p].at \in Nat /\ job[p].i \in {0, 1}
      BY <1>4, <2>0, IntervalType DEF InitSave, At, JobInv, Job
    <3>2. job[p].at + Interval(job[p].count) * (job[p].i + 1) \in Nat
      BY <3>1
    <3>3. [token |-> job[p].token, rotated |-> job[p].at,
           next |-> job[p].at + Interval(job[p].count) * (job[p].i + 1)] \in SlotRecord
      BY <3>1, <3>2 DEF SlotRecord
    <3> QED
      BY <1>4, <3>3 DEF InitSave, StoreOK
  <2>4. StoreOK'
    <3>1. job[p].token \in Tokens
      BY <1>4, <2>0 DEF InitSave, At, JobInv
    <3>2. overtook' \subseteq Tokens
      BY <1>4, <3>1, Noted DEF InitSave, StoreOK
    <3> QED
      BY <1>4, <2>5, <3>2 DEF InitSave, StoreOK, storage, cloud, bounds
  <2> HIDE DEF j
  <2> QED
    BY <2>1, <2>2, <2>3, <2>4, LocalStep, Together
<1>5. ASSUME NEW p \in Procs, InitDone(p) PROVE IInv'
  <2> DEFINE j == Idle
  <2>0. job[p] \in Job /\ JobInv(p, job[p]) /\ (mu = p <=> job[p].pc \in Locked)
    BY DEF LocalsOK
  <2>1. job' = [job EXCEPT ![p] = j]
    BY <1>5 DEF InitDone, Finish, At, LocalsOK
  <2>2. j \in Job /\ JobInv(p, j)
    BY IdleOK
  <2>3. MuStep(p)
    BY <1>5, <2>0, <2>1, IdleOK DEF InitDone, At, MuStep, Locked, LocalsOK
  <2>4. StoreOK'
    BY <1>5 DEF InitDone, StoreOK, storage, cloud, history, bounds
  <2> HIDE DEF j
  <2> QED
    BY <2>1, <2>2, <2>3, <2>4, LocalStep, Together
<1>6. ASSUME NEW p \in Procs, InitFail(p) PROVE IInv'
  <2> DEFINE j == Idle
  <2>0. job[p] \in Job /\ JobInv(p, job[p]) /\ (mu = p <=> job[p].pc \in Locked)
    BY DEF LocalsOK
  <2>1. job' = [job EXCEPT ![p] = j]
    BY <1>6 DEF InitFail, Finish, At, LocalsOK
  <2>2. j \in Job /\ JobInv(p, j)
    BY IdleOK
  <2>3. MuStep(p)
    BY <1>6, <2>0, <2>1, IdleOK DEF InitFail, At, MuStep, Locked, LocalsOK, CreateRefused, Fault
  <2>4. StoreOK'
    BY <1>6 DEF InitFail, StoreOK, storage, cloud, history, bounds, CreateRefused, Fault
  <2> HIDE DEF j
  <2> QED
    BY <2>1, <2>2, <2>3, <2>4, LocalStep, Together
<1>7. ASSUME NEW p \in Procs, RoleDelete(p) PROVE IInv'
  <2> DEFINE j == [job[p] EXCEPT !.pc = "wipe", !.count = role.count, !.todo = Known(role.count)]
  <2>0. job[p] \in Job /\ JobInv(p, job[p]) /\ (mu = p <=> job[p].pc \in Locked)
    BY DEF LocalsOK
  <2>1. job' = [job EXCEPT ![p] = j]
    BY <1>7 DEF RoleDelete, Finish, At, LocalsOK
  <2>2. j \in Job /\ JobInv(p, j)
    BY <1>7, <2>0, CountType, SlotsLoaded DEF RoleDelete, At, Job, JobInv, StoreOK, Locked
  <2>3. MuStep(p)
    BY <1>7, <2>0, <2>1, IdleOK DEF RoleDelete, At, MuStep, Locked, LocalsOK
  <2>4. StoreOK'
    BY <1>7 DEF RoleDelete, StoreOK, storage, cloud, history, bounds
  <2> HIDE DEF j
  <2> QED
    BY <2>1, <2>2, <2>3, <2>4, LocalStep, Together
<1>8. ASSUME NEW p \in Procs, NEW t \in Tokens, CleanupToken(p, t) PROVE IInv'
  <2> DEFINE j == [job[p] EXCEPT !.todo = @ \ {t}]
  <2>0. job[p] \in Job /\ JobInv(p, job[p]) /\ (mu = p <=> job[p].pc \in Locked)
    BY DEF LocalsOK
  <2>1. job' = [job EXCEPT ![p] = j]
    BY <1>8 DEF CleanupToken, Finish, At, LocalsOK
  <2>2. j \in Job /\ JobInv(p, j)
    BY <1>8, <2>0 DEF CleanupToken, At, Job, JobInv, StoreOK, Locked
  <2>3. MuStep(p)
    BY <1>8, <2>0, <2>1, IdleOK DEF CleanupToken, At, MuStep, Locked, LocalsOK, Fault
  <2>4. StoreOK'
    BY <1>8 DEF CleanupToken, StoreOK, storage, cloud, history, bounds, Fault
  <2> HIDE DEF j
  <2> QED
    BY <2>1, <2>2, <2>3, <2>4, LocalStep, Together
<1>9. ASSUME NEW p \in Procs, DeleteSlots(p) PROVE IInv'
  <2> DEFINE j == [job[p] EXCEPT !.pc = "unrole"]
  <2>0. job[p] \in Job /\ JobInv(p, job[p]) /\ (mu = p <=> job[p].pc \in Locked)
    BY DEF LocalsOK
  <2>1. job' = [job EXCEPT ![p] = j]
    BY <1>9 DEF DeleteSlots, Finish, At, LocalsOK
  <2>2. j \in Job /\ JobInv(p, j)
    BY <1>9, <2>0 DEF DeleteSlots, At, Job, JobInv, StoreOK, Locked
  <2>3. MuStep(p)
    BY <1>9, <2>0, <2>1, IdleOK DEF DeleteSlots, At, MuStep, Locked, LocalsOK
  <2>4. StoreOK'
    BY <1>9 DEF DeleteSlots, StoreOK, storage, cloud, history, bounds
  <2> HIDE DEF j
  <2> QED
    BY <2>1, <2>2, <2>3, <2>4, LocalStep, Together
<1>10. ASSUME NEW p \in Procs, DeleteRole(p) PROVE IInv'
  <2> DEFINE j == Idle
  <2>0. job[p] \in Job /\ JobInv(p, job[p]) /\ (mu = p <=> job[p].pc \in Locked)
    BY DEF LocalsOK
  <2>1. job' = [job EXCEPT ![p] = j]
    BY <1>10 DEF DeleteRole, Finish, At, LocalsOK
  <2>2. j \in Job /\ JobInv(p, j)
    BY IdleOK
  <2>3. MuStep(p)
    BY <1>10, <2>0, <2>1, IdleOK DEF DeleteRole, At, MuStep, Locked, LocalsOK
  <2>4. StoreOK'
    BY <1>10 DEF DeleteRole, StoreOK, storage, cloud, history, bounds
  <2> HIDE DEF j
  <2> QED
    BY <2>1, <2>2, <2>3, <2>4, LocalStep, Together
<1>11. ASSUME NEW p \in Procs, NEW i \in Slot, PathRotateSlot(p, i) PROVE IInv'
  <2> DEFINE j == [job[p] EXCEPT !.pc = "lock", !.count = role.count, !.i = i]
  <2>0. job[p] \in Job /\ JobInv(p, job[p]) /\ (mu = p <=> job[p].pc \in Locked)
    BY DEF LocalsOK
  <2>1. job' = [job EXCEPT ![p] = j]
    BY <1>11 DEF PathRotateSlot, Finish, At, LocalsOK
  <2>2. j \in Job /\ JobInv(p, j)
    <3>1. job[p] = Idle
      BY <1>11, <2>0 DEF PathRotateSlot, At, JobInv
    <3>3. p \in Operators /\ role # None
      BY <1>11 DEF PathRotateSlot
    <3>4. role.count \in SlotCounts /\ role.count \in 0..2 /\ i \in 0..2 /\ i < role.count
      BY <1>11, <3>3, CountType, SlotIndex, SlotRange DEF PathRotateSlot
    <3>5. j \in Job
      BY <2>0, <3>4 DEF Job, Locked, StoreOK
    <3>6. j = [Idle EXCEPT !.pc = "lock", !.count = role.count, !.i = i]
      BY <3>1
    <3>7. JobInv(p, j)
      <4>1. JobInv(p, [Idle EXCEPT !.pc = "lock", !.count = role.count, !.i = i])
        BY <3>3, <3>4, Begins
      <4> HIDE DEF j
      <4> QED
        BY <3>6, <4>1
    <3> QED
      BY <3>5, <3>7
  <2>3. MuStep(p)
    BY <1>11, <2>0, <2>1, IdleOK DEF PathRotateSlot, At, MuStep, Locked, LocalsOK
  <2>4. StoreOK'
    BY <1>11 DEF PathRotateSlot, StoreOK, storage, cloud, history, bounds
  <2> HIDE DEF j
  <2> QED
    BY <2>1, <2>2, <2>3, <2>4, LocalStep, Together
<1>12. ASSUME NEW p \in Procs, RotationWorker(p) PROVE IInv'
  <2> DEFINE j == [job[p] EXCEPT !.pc = "due", !.count = role.count, !.at = clock]
  <2>0. job[p] \in Job /\ JobInv(p, job[p]) /\ (mu = p <=> job[p].pc \in Locked)
    BY DEF LocalsOK
  <2>1. job' = [job EXCEPT ![p] = j]
    BY <1>12 DEF RotationWorker, Finish, At, LocalsOK
  <2>2. j \in Job /\ JobInv(p, j)
    <3>1. job[p] = Idle
      BY <1>12, <2>0 DEF RotationWorker, At, JobInv
    <3>3. p \in Rotators /\ role # None
      BY <1>12 DEF RotationWorker
    <3>4. role.count \in SlotCounts /\ role.count \in 0..2
      BY <1>12, <3>3, CountType, SlotRange DEF RotationWorker
    <3>5. j \in Job
      BY <2>0, <3>4 DEF Job, Locked, StoreOK
    <3>6. j = [Idle EXCEPT !.pc = "due", !.count = role.count, !.at = clock]
      BY <3>1
    <3>7. JobInv(p, j)
      <4>1. clock \in Nat /\ \E q \in 0..2 : q < role.count
        BY <3>4, SlotRange DEF StoreOK
      <4>2. JobInv(p, [Idle EXCEPT !.pc = "due", !.count = role.count, !.at = clock])
        BY <3>3, <3>4, <4>1, Begins
      <4> HIDE DEF j
      <4> QED
        BY <3>6, <4>2
    <3> QED
      BY <3>5, <3>7
  <2>3. MuStep(p)
    BY <1>12, <2>0, <2>1, IdleOK DEF RotationWorker, At, MuStep, Locked, LocalsOK
  <2>4. StoreOK'
    BY <1>12 DEF RotationWorker, StoreOK, storage, cloud, history, bounds
  <2> HIDE DEF j
  <2> QED
    BY <2>1, <2>2, <2>3, <2>4, LocalStep, Together
<1>13. ASSUME NEW p \in Procs, RotateDueSlots(p) PROVE IInv'
  <2> DEFINE j == IF job[p].i = job[p].count THEN Idle ELSE IF Overdue(slots[job[p].i], job[p].at) THEN [job[p] EXCEPT !.pc = "lock"] ELSE [job[p] EXCEPT !.i = @ + 1]
  <2>0. job[p] \in Job /\ JobInv(p, job[p]) /\ (mu = p <=> job[p].pc \in Locked)
    BY DEF LocalsOK
  <2>1. job' = [job EXCEPT ![p] = j]
    BY <1>13 DEF RotateDueSlots, Finish, At, LocalsOK
  <2>2. j \in Job /\ JobInv(p, j)
    BY <1>13, <2>0, IdleOK, SlotRange DEF RotateDueSlots, At, Job, JobInv, StoreOK, Locked
  <2>3. MuStep(p)
    BY <1>13, <2>0, <2>1, IdleOK DEF RotateDueSlots, At, MuStep, Locked, LocalsOK
  <2>4. StoreOK'
    BY <1>13 DEF RotateDueSlots, StoreOK, storage, cloud, history, bounds
  <2> HIDE DEF j
  <2> QED
    BY <2>1, <2>2, <2>3, <2>4, LocalStep, Together
<1>14. ASSUME NEW p \in Procs, RotateLock(p) PROVE IInv'
  <2> DEFINE j == IF slots[job[p].i] # None /\ usable THEN [job[p] EXCEPT !.pc = "create", !.old = slots[job[p].i].token] ELSE NextSlot(p)
  <2>0. job[p] \in Job /\ JobInv(p, job[p]) /\ (mu = p <=> job[p].pc \in Locked)
    BY DEF LocalsOK
  <2>1. job' = [job EXCEPT ![p] = j]
    BY <1>14, SlotDone DEF RotateLock, LocalsOK
  <2>2. j \in Job /\ JobInv(p, j)
    <3>1. CASE slots[job[p].i] # None /\ usable
      <4>1. job[p].i \in Slot
        BY <1>14, <2>0, SlotRange DEF RotateLock, At, JobInv, Job, Slot
      <4>2. slots[job[p].i].token \in Tokens
        BY <3>1, <4>1 DEF StoreOK, SlotRecord
      <4> QED
        BY <1>14, <2>0, <3>1, <4>2 DEF RotateLock, At, Job, JobInv, Locked
    <3>2. CASE ~(slots[job[p].i] # None /\ usable)
      BY <1>14, <3>2, SlotDone DEF RotateLock, At
    <3> QED
      BY <3>1, <3>2
  <2>3. MuStep(p)
    BY <1>14, <2>0, <2>1, SlotDone DEF RotateLock, At, MuStep, Locked, LocalsOK, Job
  <2>4. StoreOK'
    BY <1>14 DEF RotateLock, StoreOK, storage, cloud, history, bounds, CreateRefused, Fault
  <2> HIDE DEF j
  <2> QED
    BY <2>1, <2>2, <2>3, <2>4, LocalStep, Together
<1>15. ASSUME NEW p \in Procs, RotateCreate(p) PROVE IInv'
  <2> DEFINE j == [job[p] EXCEPT !.pc = "save", !.token = made', !.now = clock]
  <2>0. job[p] \in Job /\ JobInv(p, job[p]) /\ (mu = p <=> job[p].pc \in Locked)
    BY DEF LocalsOK
  <2>1. job' = [job EXCEPT ![p] = j]
    BY <1>15 DEF RotateCreate, Finish, At, LocalsOK
  <2>2. j \in Job /\ JobInv(p, j)
    BY <1>15, <2>0, TokenType DEF RotateCreate, At, Job, JobInv, StoreOK, Locked
  <2>3. MuStep(p)
    BY <1>15, <2>0, <2>1, IdleOK DEF RotateCreate, At, MuStep, Locked, LocalsOK, CreateAuthToken
  <2>4. StoreOK'
    BY <1>15, TokenType DEF RotateCreate, StoreOK, storage, cloud, history, bounds, CreateAuthToken
  <2> HIDE DEF j
  <2> QED
    BY <2>1, <2>2, <2>3, <2>4, LocalStep, Together
<1>16. ASSUME NEW p \in Procs, RotateCreateFail(p) PROVE IInv'
  <2> DEFINE j == NextSlot(p)
  <2>0. job[p] \in Job /\ JobInv(p, job[p]) /\ (mu = p <=> job[p].pc \in Locked)
    BY DEF LocalsOK
  <2>1. job' = [job EXCEPT ![p] = j]
    BY <1>16, SlotDone DEF RotateCreateFail
  <2>2. j \in Job /\ JobInv(p, j)
    BY <1>16, SlotDone DEF RotateCreateFail, At
  <2>3. MuStep(p)
    BY <1>16, <2>0, <2>1, SlotDone DEF RotateCreateFail, At, MuStep, Locked, LocalsOK, Job
  <2>4. StoreOK'
    BY <1>16 DEF RotateCreateFail, StoreOK, storage, cloud, history, bounds, CreateRefused, Fault
  <2> HIDE DEF j
  <2> QED
    BY <2>1, <2>2, <2>3, <2>4, LocalStep, Together
<1>17. ASSUME NEW p \in Procs, RotateSave(p) PROVE IInv'
  <2> DEFINE j == [job[p] EXCEPT !.pc = "kill"]
  <2>0. job[p] \in Job /\ JobInv(p, job[p]) /\ (mu = p <=> job[p].pc \in Locked)
    BY DEF LocalsOK
  <2>1. job' = [job EXCEPT ![p] = j]
    BY <1>17 DEF RotateSave, Finish, At, LocalsOK
  <2>2. j \in Job /\ JobInv(p, j)
    BY <1>17, <2>0 DEF RotateSave, At, Job, JobInv, StoreOK, Locked
  <2>3. MuStep(p)
    BY <1>17, <2>0, <2>1, IdleOK DEF RotateSave, At, MuStep, Locked, LocalsOK
  <2>5. slots' \in [Slot -> SlotRecord \cup {None}]
    <3>1. job[p].token \in Tokens /\ Interval(job[p].count) \in Nat /\ job[p].now \in Nat /\ job[p].i \in {0, 1}
      BY <1>17, <2>0, IntervalType DEF RotateSave, At, JobInv, Job
    <3>2. job[p].now + Interval(job[p].count) \in Nat
      BY <3>1
    <3>3. [token |-> job[p].token, rotated |-> job[p].now,
           next |-> job[p].now + Interval(job[p].count)] \in SlotRecord
      BY <3>1, <3>2 DEF SlotRecord
    <3> QED
      BY <1>17, <3>3 DEF RotateSave, StoreOK
  <2>4. StoreOK'
    <3>1. job[p].token \in Tokens
      BY <1>17, <2>0 DEF RotateSave, At, JobInv
    <3>2. overtook' \subseteq Tokens
      BY <1>17, <3>1, Noted DEF RotateSave, StoreOK
    <3> QED
      BY <1>17, <2>5, <3>2 DEF RotateSave, StoreOK, storage, cloud, bounds
  <2> HIDE DEF j
  <2> QED
    BY <2>1, <2>2, <2>3, <2>4, LocalStep, Together
<1>18. ASSUME NEW p \in Procs, RotateSaveFail(p) PROVE IInv'
  <2> DEFINE j == NextSlot(p)
  <2>0. job[p] \in Job /\ JobInv(p, job[p]) /\ (mu = p <=> job[p].pc \in Locked)
    BY DEF LocalsOK
  <2>1. job' = [job EXCEPT ![p] = j]
    BY <1>18, SlotDone DEF RotateSaveFail
  <2>2. j \in Job /\ JobInv(p, j)
    BY <1>18, SlotDone DEF RotateSaveFail, At
  <2>3. MuStep(p)
    BY <1>18, <2>0, <2>1, SlotDone DEF RotateSaveFail, At, MuStep, Locked, LocalsOK, Job
  <2>4. StoreOK'
    BY <1>18 DEF RotateSaveFail, StoreOK, storage, cloud, history, bounds, CreateRefused, Fault
  <2> HIDE DEF j
  <2> QED
    BY <2>1, <2>2, <2>3, <2>4, LocalStep, Together
<1>19. ASSUME NEW p \in Procs, RotateKill(p) PROVE IInv'
  <2> DEFINE j == NextSlot(p)
  <2>0. job[p] \in Job /\ JobInv(p, job[p]) /\ (mu = p <=> job[p].pc \in Locked)
    BY DEF LocalsOK
  <2>1. job' = [job EXCEPT ![p] = j]
    BY <1>19, SlotDone DEF RotateKill
  <2>2. j \in Job /\ JobInv(p, j)
    BY <1>19, SlotDone DEF RotateKill, At
  <2>3. MuStep(p)
    BY <1>19, <2>0, <2>1, SlotDone DEF RotateKill, At, MuStep, Locked, LocalsOK, Job
  <2>4. StoreOK'
    BY <1>19 DEF RotateKill, StoreOK, storage, cloud, history, bounds, CreateRefused, Fault
  <2> HIDE DEF j
  <2> QED
    BY <2>1, <2>2, <2>3, <2>4, LocalStep, Together
<1>20. ASSUME NEW p \in Procs, CollectKnownTokenIDs(p) PROVE IInv'
  <2> DEFINE j == [job[p] EXCEPT !.pc = "list", !.budget = MaxDeletes, !.todo = Known(role.count)]
  <2>0. job[p] \in Job /\ JobInv(p, job[p]) /\ (mu = p <=> job[p].pc \in Locked)
    BY DEF LocalsOK
  <2>1. job' = [job EXCEPT ![p] = j]
    BY <1>20 DEF CollectKnownTokenIDs, Finish, At, LocalsOK
  <2>2. j \in Job /\ JobInv(p, j)
    <3>1. job[p] = Idle
      BY <1>20, <2>0 DEF CollectKnownTokenIDs, At, JobInv
    <3>3. p \in Passes /\ role # None
      BY <1>20 DEF CollectKnownTokenIDs
    <3>4. role.count \in SlotCounts /\ role.count \in 0..2 /\ Known(role.count) \subseteq Tokens /\ MaxDeletes \in 0..MaxDeletes
      BY <1>20, <3>3, CountType, SlotsLoaded, SlotRange DEF CollectKnownTokenIDs
    <3>5. j \in Job
      BY <2>0, <3>4 DEF Job, Locked, StoreOK
    <3>6. j = [Idle EXCEPT !.pc = "list", !.budget = MaxDeletes, !.todo = Known(role.count)]
      BY <3>1
    <3>7. JobInv(p, j)
      BY <3>3, <3>4, <3>6 DEF JobInv, Idle
    <3> QED
      BY <3>5, <3>7
  <2>3. MuStep(p)
    BY <1>20, <2>0, <2>1, IdleOK DEF CollectKnownTokenIDs, At, MuStep, Locked, LocalsOK, InitInFlight
  <2>4. StoreOK'
    BY <1>20, FlightType DEF CollectKnownTokenIDs, StoreOK, storage, cloud, history, bounds, InitInFlight
  <2> HIDE DEF j
  <2> QED
    BY <2>1, <2>2, <2>3, <2>4, LocalStep, Together
<1>21. ASSUME NEW p \in Procs, ReconcileOrphans(p) PROVE IInv'
  <2> DEFINE j == IF role # None /\ usable THEN [job[p] EXCEPT !.pc = "reclaim", !.todo = live \ @] ELSE Idle
  <2>0. job[p] \in Job /\ JobInv(p, job[p]) /\ (mu = p <=> job[p].pc \in Locked)
    BY DEF LocalsOK
  <2>1. job' = [job EXCEPT ![p] = j]
    BY <1>21 DEF ReconcileOrphans, Finish, At, LocalsOK
  <2>2. j \in Job /\ JobInv(p, j)
    BY <1>21, <2>0, IdleOK, ZenonT(30) DEF ReconcileOrphans, At, Job, JobInv, StoreOK, Locked
  <2>3. MuStep(p)
    BY <1>21, <2>0, <2>1, IdleOK DEF ReconcileOrphans, At, MuStep, Locked, LocalsOK
  <2>4. StoreOK'
    BY <1>21 DEF ReconcileOrphans, StoreOK, storage, cloud, history, bounds
  <2> HIDE DEF j
  <2> QED
    BY <2>1, <2>2, <2>3, <2>4, LocalStep, Together
<1>22. ASSUME NEW p \in Procs, NEW t \in Tokens, ReconcileRoleTokens(p, t) PROVE IInv'
  <2>0. job[p] \in Job /\ JobInv(p, job[p]) /\ (mu = p <=> job[p].pc \in Locked)
    BY DEF LocalsOK
  <2>1. PICK b \in 0..MaxDeletes : job' = [job EXCEPT ![p] = [job[p] EXCEPT !.todo = @ \ {t}, !.budget = b]]
    <3>1. job[p].budget \in 0..MaxDeletes /\ job[p].budget > 0
      BY <1>22, <2>0 DEF ReconcileRoleTokens, Job
    <3>2. CASE job' = [job EXCEPT ![p].todo = @ \ {t}, ![p].budget = @ - 1]
      <4>1. job[p].budget - 1 \in 0..MaxDeletes
        BY <3>1
      <4>2. job' = [job EXCEPT ![p] = [job[p] EXCEPT !.todo = @ \ {t}, !.budget = job[p].budget - 1]]
        BY <2>0, <3>2 DEF Job, LocalsOK
      <4> QED
        BY <4>1, <4>2
    <3>3. CASE job' = [job EXCEPT ![p].todo = @ \ {t}]
      <4>1. job' = [job EXCEPT ![p] = [job[p] EXCEPT !.todo = @ \ {t}, !.budget = job[p].budget]]
        BY <2>0, <3>3 DEF Job, LocalsOK
      <4> QED
        BY <3>1, <4>1
    <3> QED
      BY <1>22, <3>2, <3>3 DEF ReconcileRoleTokens
  <2> DEFINE j == [job[p] EXCEPT !.todo = @ \ {t}, !.budget = b]
  <2>2. j \in Job /\ JobInv(p, j)
    BY <1>22, <2>0 DEF ReconcileRoleTokens, At, Job, JobInv, StoreOK, Locked
  <2>3. MuStep(p)
    BY <1>22, <2>0, <2>1 DEF ReconcileRoleTokens, At, MuStep, Job, LocalsOK
  <2>5. job' = [job EXCEPT ![p] = j]
    BY <2>1
  <2>4. StoreOK'
    BY <1>22 DEF ReconcileRoleTokens, StoreOK, storage, cloud, history, bounds, Fault
  <2> HIDE DEF j
  <2> QED
    BY <2>1, <2>2, <2>3, <2>4, <2>5, LocalStep, Together
<1>23. ASSUME NEW p \in Procs, PassEnd(p) PROVE IInv'
  <2> DEFINE j == Idle
  <2>0. job[p] \in Job /\ JobInv(p, job[p]) /\ (mu = p <=> job[p].pc \in Locked)
    BY DEF LocalsOK
  <2>1. job' = [job EXCEPT ![p] = j]
    BY <1>23 DEF PassEnd, Finish, At, LocalsOK
  <2>2. j \in Job /\ JobInv(p, j)
    BY IdleOK
  <2>3. MuStep(p)
    BY <1>23, <2>0, <2>1, IdleOK DEF PassEnd, At, MuStep, Locked, LocalsOK
  <2>4. StoreOK'
    BY <1>23 DEF PassEnd, StoreOK, storage, cloud, history, bounds
  <2> HIDE DEF j
  <2> QED
    BY <2>1, <2>2, <2>3, <2>4, LocalStep, Together
<1>24. ASSUME NEW p \in Procs, ReadSlots(p) PROVE IInv'
  <2> DEFINE j == [job[p] EXCEPT !.pc = "serve", !.seen = LoadAllSlots(role.count)]
  <2>0. job[p] \in Job /\ JobInv(p, job[p]) /\ (mu = p <=> job[p].pc \in Locked)
    BY DEF LocalsOK
  <2>1. job' = [job EXCEPT ![p] = j]
    BY <1>24 DEF ReadSlots, Finish, At, LocalsOK
  <2>2. j \in Job /\ JobInv(p, j)
    BY <1>24, <2>0, CountType, SlotsLoaded, ZenonT(30) DEF ReadSlots, At, Job, JobInv, StoreOK, Locked
  <2>3. MuStep(p)
    BY <1>24, <2>0, <2>1, IdleOK DEF ReadSlots, At, MuStep, Locked, LocalsOK
  <2>4. StoreOK'
    BY <1>24 DEF ReadSlots, StoreOK, storage, cloud, history, bounds
  <2> HIDE DEF j
  <2> QED
    BY <2>1, <2>2, <2>3, <2>4, LocalStep, Together
<1>25. ASSUME NEW p \in Procs, Serve(p) PROVE IInv'
  <2> DEFINE j == Idle
  <2>0. job[p] \in Job /\ JobInv(p, job[p]) /\ (mu = p <=> job[p].pc \in Locked)
    BY DEF LocalsOK
  <2>1. job' = [job EXCEPT ![p] = j]
    BY <1>25 DEF Serve, Finish, At, LocalsOK
  <2>2. j \in Job /\ JobInv(p, j)
    BY IdleOK
  <2>3. MuStep(p)
    BY <1>25, <2>0, <2>1, IdleOK DEF Serve, At, MuStep, Locked, LocalsOK
  <2>5. lease' \in [Tokens -> Nat]
    <3> DEFINE f == FreshestSlot(job[p].seen, clock)
    <3>1. CASE f = None
      BY <1>25, <3>1 DEF Serve, StoreOK
    <3>2. CASE f # None
      <4>1. job[p].seen \in SUBSET SlotRecord /\ clock \in Nat
        BY <2>0 DEF Job, StoreOK
      <4>2. f.token \in Tokens /\ clock + TTL(f, clock) \in Nat
        BY <2>0, <3>2, <4>1, ServeType DEF JobInv
      <4>3. lease' = [lease EXCEPT ![f.token] = Max({@, clock + TTL(f, clock)})]
        BY <1>25, <3>2 DEF Serve
      <4>4. lease[f.token] \in Nat
        BY <4>2 DEF StoreOK
      <4>5. Max({lease[f.token], clock + TTL(f, clock)}) \in Nat
        BY <4>2, <4>4, MaxType
      <4> HIDE DEF f
      <4> QED
        BY <4>3, <4>5 DEF StoreOK
    <3> QED
      BY <3>1, <3>2
  <2>4. StoreOK'
    BY <1>25, <2>5 DEF Serve, StoreOK, storage, cloud, history, bounds
  <2> HIDE DEF j
  <2> QED
    BY <2>1, <2>2, <2>3, <2>4, LocalStep, Together
<1>26. CASE Tick
  BY <1>26, Together DEF Tick, StoreOK, LocalsOK, storage, cloud, history, bounds
<1>27. CASE MinterLost \/ MinterBack
  <2>1. LocalsOK'
    BY <1>27 DEF MinterLost, MinterBack, LocalsOK
  <2>2. StoreOK'
    <3>1. CASE MinterLost
      <4>1. usable' \in BOOLEAN
        BY <3>1, Zenon DEF MinterLost
      <4>2. UNCHANGED <<clock, role, slots, live, made, lease, overtook, exposed, writes>> /\ faults' = faults + 1
        BY <3>1, Zenon DEF MinterLost, Fault, storage, cloud, history
      <4> QED
        BY <4>1, <4>2 DEF StoreOK
    <3>2. CASE MinterBack
      BY <3>2 DEF MinterBack, StoreOK, storage, cloud, history, bounds
    <3> QED
      BY <1>27, <3>1, <3>2
  <2> QED
    BY <2>1, <2>2, Together
<1>28. CASE Crash
  <2>1. LocalsOK'
    BY <1>28, IdleOK DEF Crash, LocalsOK
  <2>2. StoreOK'
    BY <1>28 DEF Crash, Fault, StoreOK, storage, cloud, history, bounds
  <2> QED
    BY <2>1, <2>2, Together
<1>29. CASE UNCHANGED vars
  BY <1>29, Together DEF vars, StoreOK, LocalsOK, storage, cloud, history, bounds
<1> QED
  BY <1>1, <1>2, <1>3, <1>4, <1>5, <1>6, <1>7, <1>8, <1>9, <1>10, <1>11, <1>12, <1>13, <1>14, <1>15, <1>16, <1>17, <1>18, <1>19, <1>20, <1>21, <1>22, <1>23, <1>24, <1>25, <1>26, <1>27, <1>28, <1>29 DEF Next, WriteStep, RotateStep, PassStep

\* Every reachable state satisfies the type invariant.
THEOREM TypeCorrect == Spec => []TypeOK
<1>1. IInv => TypeOK
  BY DEF IInv
<1> QED
  BY InitInv, NextInv, <1>1, PTL DEF Spec

-----------------------------------------------------------------------------
(* The pass.  If the role's slot_count is never rewritten, what a pass     *)
(* collects when it starts is every token that is in a slot.               *)
LEMMA AllLoaded ==
    ASSUME OneCount, StoreOK, role # None, NEW t, InSlots(t)
    PROVE  t \in Known(role.count)
<1>1. role.count \in SlotCounts
  BY CountType
<1>2. role.count = MaxSlotCount
  BY <1>1, SlotRange DEF OneCount
<1>3. PICK i \in Slot : slots[i] # None /\ slots[i].token = t
  BY DEF InSlots
<1>4. i < role.count
  BY <1>2, <1>3, SlotRange DEF Slot
<1> QED
  BY <1>3, <1>4 DEF Known, LoadAllSlots

\* A goroutine that is in no pass moves: it makes no token, and the only token
\* it puts in a slot is the one it carries.
Harmless(p) ==
    /\ \A q \in Procs \ {p} : job'[q] = job[q]
    /\ job'[p].pc \notin {"list", "reclaim"} /\ job'[p].token \in {job[p].token, None}
    /\ exposed' = exposed /\ live' \subseteq live
    /\ \A i \in Slot : slots'[i] # None => slots'[i] = slots[i] \/ slots'[i].token = job[p].token

\* Such a step brings no token under the eyes of a pass.
LEMMA Calm ==
    ASSUME IInv, PassInv, NEW p \in Procs, Harmless(p)
    PROVE  PassInv'
<1>0. None \notin Tokens
  BY ProcAssumption DEF Tokens
<1>1. ASSUME NEW t \in Tokens, InFlight(t)' \/ InSlots(t)' PROVE InFlight(t) \/ InSlots(t)
  <2>1. CASE InFlight(t)'
    BY <1>0, <2>1 DEF InFlight, Harmless
  <2>2. CASE InSlots(t)'
    BY <2>2 DEF InFlight, InSlots, Harmless
  <2> QED
    BY <1>1, <2>1, <2>2
<1>2. ASSUME NEW q \in Passes, At(q, "list")' PROVE Unguarded(live \ job[q].todo)'
  <2>1. q # p /\ At(q, "list") /\ job'[q] = job[q]
    BY <1>2 DEF Harmless, At, Procs
  <2> QED
    BY <1>1, <2>1 DEF PassInv, Unguarded, Harmless, IInv, TypeOK
<1>3. ASSUME NEW q \in Passes, At(q, "reclaim")' PROVE Unguarded(job[q].todo)'
  <2>1. q \in Procs /\ q # p /\ At(q, "reclaim") /\ job'[q] = job[q]
    BY <1>3 DEF Harmless, At, Procs
  <2>2. job[q].todo \subseteq Tokens
    BY <2>1 DEF IInv, TypeOK, Job
  <2> QED
    BY <1>1, <2>1, <2>2 DEF PassInv, Unguarded, Harmless
<1> QED
  BY <1>2, <1>3 DEF PassInv

\* While a goroutine holds the mutex for a rotation, or nobody holds it, no pass
\* runs.
LEMMA Alone ==
    ASSUME IInv
    PROVE  /\ mu = NoProc => \A q \in Procs : job[q].pc \notin Locked
           /\ \A p, q \in Procs : job[p].pc \in Locked /\ job[q].pc \in Locked => p = q
BY ProcAssumption DEF IInv, TypeOK

LEMMA InitPass == Init => PassInv
BY DEF Init, PassInv, At, Idle, Procs

\* Each action keeps what the pass relies on.
LEMMA PassKept == ASSUME OneCount, IInv, PassInv, [Next]_vars PROVE PassInv'
<1> USE DEF storage, cloud, history, bounds
<1> job \in [Procs -> Job]
  BY DEF IInv, TypeOK
<1> slots \in [Slot -> SlotRecord \cup {None}]
  BY DEF IInv, TypeOK
<1>1. ASSUME NEW p \in Procs, NEW r \in Role, RoleWrite(p, r) PROVE PassInv'
  BY <1>1, Calm DEF RoleWrite, Harmless, Job
<1>2. ASSUME NEW p \in Procs, NEW i \in Slot, PathRotateSlot(p, i) PROVE PassInv'
  BY <1>2, Calm DEF PathRotateSlot, Harmless, Job
<1>3. ASSUME NEW p \in Procs, RoleDelete(p) PROVE PassInv'
  BY <1>3, Calm DEF RoleDelete, Harmless, Job
<1>4. ASSUME NEW p \in Procs, MaybeInitializeSlots(p) PROVE PassInv'
  BY <1>4, Calm DEF MaybeInitializeSlots, Harmless, Job, Finish, Idle
<1>5. ASSUME NEW p \in Procs, InitCreate(p) PROVE PassInv'
  <2>1. job' = [job EXCEPT ![p] = [job[p] EXCEPT !.pc = "place", !.token = made']]
    BY <1>5 DEF InitCreate
  <2>2. \A q \in Procs \ {p} : job'[q] = job[q]
    BY <2>1
  <2>3. job'[p].pc = "place" /\ job'[p].token = made'
    BY <2>1 DEF Job
  <2>4. slots' = slots /\ live' = live \cup {made'}
    BY <1>5 DEF InitCreate, CreateAuthToken
  <2>5. CASE PassRunning
    <3>1. exposed' = exposed \cup {made'}
      BY <1>5, <2>5 DEF InitCreate
    <3>2. \A t : (InFlight(t) \/ InSlots(t))' => InFlight(t) \/ InSlots(t) \/ t = made'
      BY <2>2, <2>3, <2>4 DEF InFlight, InSlots
    <3>3. \A q \in Passes : (At(q, "list")' => At(q, "list") /\ job'[q] = job[q])
                         /\ (At(q, "reclaim")' => At(q, "reclaim") /\ job'[q] = job[q])
      BY <2>2, <2>3 DEF At, Procs
    <3> QED
      BY <2>4, <3>1, <3>2, <3>3 DEF PassInv, Unguarded
  <2>6. CASE ~PassRunning
    BY <2>2, <2>3, <2>6 DEF PassInv, PassRunning, At, Procs
  <2> QED
    BY <2>5, <2>6
<1>6. ASSUME NEW p \in Procs, InitSave(p) PROVE PassInv'
  BY <1>6, Calm DEF InitSave, Harmless, Job
<1>7. ASSUME NEW p \in Procs, InitDone(p) PROVE PassInv'
  BY <1>7, Calm DEF InitDone, Harmless, Job, Finish, Idle
<1>8. ASSUME NEW p \in Procs, InitFail(p) PROVE PassInv'
  BY <1>8, Calm DEF InitFail, Harmless, Job, Finish, Idle
<1>9. ASSUME NEW p \in Procs, NEW t \in Tokens, CleanupToken(p, t) PROVE PassInv'
  BY <1>9, Calm DEF CleanupToken, Harmless, Job, At
<1>10. ASSUME NEW p \in Procs, DeleteSlots(p) PROVE PassInv'
  BY <1>10, Calm DEF DeleteSlots, Harmless, Job
<1>11. ASSUME NEW p \in Procs, DeleteRole(p) PROVE PassInv'
  BY <1>11, Calm DEF DeleteRole, Harmless, Job, Finish, Idle
<1>12. ASSUME NEW p \in Procs, RotationWorker(p) PROVE PassInv'
  BY <1>12, Calm DEF RotationWorker, Harmless, Job
<1>13. ASSUME NEW p \in Procs, RotateDueSlots(p) PROVE PassInv'
  BY <1>13, Calm DEF RotateDueSlots, Harmless, Job, Finish, Idle, At
<1>14. ASSUME NEW p \in Procs PROVE NextSlot(p).pc \notin {"list", "reclaim"} /\ NextSlot(p).token = None
  BY DEF NextSlot, Idle, Job
<1>15. ASSUME NEW p \in Procs, RotateLock(p) PROVE PassInv'
  <2>1. CASE slots[job[p].i] # None /\ usable
    BY <1>15, <2>1, Calm DEF RotateLock, Harmless, Job
  <2>2. CASE ~(slots[job[p].i] # None /\ usable)
    BY <1>14, <1>15, <2>2, Calm DEF RotateLock, Rotated, Harmless
  <2> QED
    BY <2>1, <2>2
<1>16. ASSUME NEW p \in Procs, RotateCreate(p) PROVE PassInv'
  <2>1. job' = [job EXCEPT ![p] = [job[p] EXCEPT !.pc = "save", !.token = made', !.now = clock]]
    BY <1>16 DEF RotateCreate
  <2>2. job'[p].pc = "save" /\ \A q \in Procs \ {p} : job'[q] = job[q]
    BY <2>1 DEF Job
  <2>3. \A q \in Passes : job'[q].pc \notin {"list", "reclaim"}
    BY <1>16, <2>2, Alone DEF RotateCreate, At, Locked, Procs
  <2> QED
    BY <2>3 DEF PassInv, At
<1>17. ASSUME NEW p \in Procs, RotateCreateFail(p) PROVE PassInv'
  BY <1>14, <1>17, Calm DEF RotateCreateFail, Rotated, Harmless
<1>18. ASSUME NEW p \in Procs, RotateSave(p) PROVE PassInv'
  BY <1>18, Calm DEF RotateSave, Harmless, Job
<1>19. ASSUME NEW p \in Procs, RotateSaveFail(p) PROVE PassInv'
  BY <1>14, <1>19, Calm DEF RotateSaveFail, Rotated, Harmless
<1>20. ASSUME NEW p \in Procs, RotateKill(p) PROVE PassInv'
  BY <1>14, <1>20, Calm DEF RotateKill, Rotated, Harmless
<1>21. ASSUME NEW p \in Procs, CollectKnownTokenIDs(p) PROVE PassInv'
  <2>1. /\ p \in Passes /\ mu = NoProc /\ role # None /\ slots' = slots /\ live' = live
        /\ exposed' = exposed \cup InitInFlight
        /\ job' = [job EXCEPT ![p] =
                     [job[p] EXCEPT !.pc = "list", !.budget = MaxDeletes, !.todo = Known(role.count)]]
    BY <1>21 DEF CollectKnownTokenIDs
  <2>2. /\ job'[p].pc = "list" /\ job'[p].todo = Known(role.count) /\ job'[p].token = job[p].token
        /\ \A q \in Procs \ {p} : job'[q] = job[q]
    BY <2>1 DEF Job
  <2>3. \A q \in Procs \ {p} : job'[q].pc \notin {"list", "reclaim"}
    BY <2>1, <2>2, Alone DEF Locked
  <2>4. ASSUME NEW t \in live \ Known(role.count), (InFlight(t) \/ InSlots(t))' PROVE t \in exposed'
    <3>1. ~InSlots(t)'
      BY <2>1, AllLoaded, Parts DEF InSlots
    <3>2. PICK q \in Procs : job[q].token = t
      BY <2>2, <2>4, <3>1 DEF InFlight
    <3>3. t # None
      BY ProcAssumption DEF IInv, TypeOK, Tokens
    <3>4. job[q].pc = "place" /\ q \in Writers
      BY <2>1, <3>2, <3>3, Alone DEF IInv, JobInv, Locked
    <3> QED
      BY <2>1, <3>2, <3>4 DEF InitInFlight, At
  <2> QED
    BY <2>1, <2>2, <2>3, <2>4 DEF PassInv, Unguarded, At, Procs
<1>22. ASSUME NEW p \in Procs, ReconcileOrphans(p) PROVE PassInv'
  <2>1. CASE role # None /\ usable
    <3>1. /\ p \in Procs /\ At(p, "list") /\ slots' = slots /\ live' = live /\ exposed' = exposed
          /\ job' = [job EXCEPT ![p] = [job[p] EXCEPT !.pc = "reclaim", !.todo = live \ job[p].todo]]
      BY <1>22, <2>1 DEF ReconcileOrphans
    <3>2. /\ job'[p].pc = "reclaim" /\ job'[p].todo = live \ job[p].todo /\ job'[p].token = job[p].token
          /\ \A q \in Procs \ {p} : job'[q] = job[q]
      BY <3>1 DEF Job
    <3>3. \A t : (InFlight(t) \/ InSlots(t))' => InFlight(t) \/ InSlots(t)
      BY <3>1, <3>2 DEF InFlight, InSlots
    <3> QED
      BY <3>1, <3>2, <3>3 DEF PassInv, Unguarded, At, Procs
  <2>2. CASE ~(role # None /\ usable)
    BY <1>22, <2>2, Calm DEF ReconcileOrphans, Harmless, Finish, Idle
  <2> QED
    BY <2>1, <2>2
<1>23. ASSUME NEW p \in Procs, NEW t \in Tokens, ReconcileRoleTokens(p, t) PROVE PassInv'
  <2>1. /\ At(p, "reclaim") /\ slots' = slots /\ live' \subseteq live /\ exposed' = exposed
        /\ \A q \in Procs \ {p} : job'[q] = job[q]
    BY <1>23 DEF ReconcileRoleTokens
  <2>2. job'[p].pc = "reclaim" /\ job'[p].token = job[p].token /\ job'[p].todo \subseteq job[p].todo
    BY <1>23 DEF ReconcileRoleTokens, Job, At
  <2>3. \A u : (InFlight(u) \/ InSlots(u))' => InFlight(u) \/ InSlots(u)
    BY <2>1, <2>2 DEF InFlight, InSlots
  <2> QED
    BY <2>1, <2>2, <2>3 DEF PassInv, Unguarded, At, Procs
<1>24. ASSUME NEW p \in Procs, PassEnd(p) PROVE PassInv'
  BY <1>24, Calm DEF PassEnd, Harmless, Finish, Idle
<1>25. ASSUME NEW p \in Procs, ReadSlots(p) PROVE PassInv'
  BY <1>25, Calm DEF ReadSlots, Harmless, Job
<1>26. ASSUME NEW p \in Procs, Serve(p) PROVE PassInv'
  BY <1>26, Calm DEF Serve, Harmless, Finish, Idle
<1>27. CASE Tick \/ MinterLost \/ MinterBack \/ UNCHANGED vars
  <2>1. job' = job /\ slots' = slots /\ live' = live /\ exposed' = exposed
    BY <1>27 DEF Tick, MinterLost, MinterBack, vars
  <2> QED
    BY <2>1 DEF PassInv, Unguarded, InFlight, InSlots, At
<1>28. CASE Crash
  BY <1>28 DEF Crash, PassInv, At, Idle, Procs
<1> QED
  BY <1>1, <1>2, <1>3, <1>4, <1>5, <1>6, <1>7, <1>8, <1>9, <1>10, <1>11, <1>12, <1>13, <1>15, <1>16,
     <1>17, <1>18, <1>19, <1>20, <1>21, <1>22, <1>23, <1>24, <1>25, <1>26, <1>27, <1>28
  DEF Next, WriteStep, RotateStep, PassStep

\* Audit F4: as long as slot_count is not rewritten, a pass deletes no token
\* that a rotation has just made or that a slot of the role holds, unless the
\* pass could see the token before its slot was saved for the first time.
THEOREM RotationsSpared == ASSUME OneCount PROVE Spec => RotationSpared
<1>1. Init => IInv /\ PassInv
  BY InitInv, InitPass
<1>2. (IInv /\ PassInv) /\ [Next]_vars => (IInv /\ PassInv)'
  BY NextInv, PassKept
<1>3. ASSUME PassInv, NEW t, NEW p \in Passes, ReconcileRoleTokens(p, t)
      PROVE  t \in exposed \/ ~(InFlight(t) \/ Recorded(t))
  <2>1. At(p, "reclaim") /\ t \in job[p].todo
    BY <1>3 DEF ReconcileRoleTokens
  <2>2. Recorded(t) => InSlots(t)
    BY DEF Recorded, Known, LoadAllSlots, InSlots
  <2> QED
    BY <1>3, <2>1, <2>2 DEF PassInv, Unguarded
<1>4. PassInv => [\A t \in live \ live' :
                    (\E p \in Passes : ReconcileRoleTokens(p, t)) =>
                        t \in exposed \/ ~(InFlight(t) \/ Recorded(t))]_vars
  BY <1>3
<1> QED
  BY <1>1, <1>2, <1>4, PTL DEF Spec, RotationSpared

-----------------------------------------------------------------------------
(* The leases.  What a copy of a slot's record allows is over when the     *)
(* slot falls due, and the worker replaces what was due already.           *)

\* A slot whose goroutine is going to replace or to save it is one of the role's.
LEMMA SlotOf ==
    ASSUME LocalsOK, NEW p \in Procs, job[p].pc \in {"place", "lock", "create", "save", "kill"}
    PROVE  job[p].i \in Slot
<1>1. job[p].count \in SlotCounts /\ job[p].i < job[p].count /\ job[p].i \in 0..2
  BY DEF LocalsOK, JobInv, Job
<1> QED
  BY <1>1, SlotRange DEF Slot

\* Records are records, of tokens.
LEMMA RecordType == ASSUME IInv PROVE Records \subseteq SlotRecord
<1>1. \A p \in Procs : job[p].seen \subseteq SlotRecord
  BY DEF IInv, TypeOK, Job
<1> QED
  BY <1>1 DEF IInv, TypeOK, Records

LEMMA Recording ==
    ASSUME IInv
    PROVE  /\ \A s \in Records : s.token \in Tokens /\ s.next \in Nat
           /\ \A i \in Slot : slots[i] # None => slots[i] \in Records
           /\ \A p \in Procs : job[p].seen \subseteq Records
<1>1. \A s \in Records : s.token \in Tokens /\ s.next \in Nat
  BY RecordType DEF SlotRecord
<1>2. \A i \in Slot : slots[i] # None => slots[i] \in Records
  BY DEF Records
<1>3. \A p \in Procs : job[p].seen \subseteq Records
  BY DEF Records
<1> QED
  BY <1>1, <1>2, <1>3

\* A goroutine moves that changes nothing leases depend on: it makes no token,
\* gives no lease, and stores no record.
Steady(p) ==
    /\ \A q \in Procs \ {p} : job'[q] = job[q]
    /\ job'[p].token \in {job[p].token, None}
    /\ job'[p].old \in {job[p].old, None} \cup {s.token : s \in Records}
    /\ job'[p].pc \notin {"place", "save"}
    /\ \A s \in job'[p].seen : s \in job[p].seen \/ \E i \in Slot : slots[i] # None /\ s = slots[i]
    /\ \A i \in Slot : slots'[i] \in {slots[i], None}
    /\ lease' = lease /\ made' = made /\ overtook' = overtook /\ clock' = clock

LEMMA NoRecord == ASSUME NEW p \in Procs, Steady(p) PROVE Records' \subseteq Records
<1> SUFFICES ASSUME NEW s \in Records' PROVE s \in Records
  OBVIOUS
<1>1. CASE \E i \in Slot : slots'[i] # None /\ s = slots'[i]
  BY <1>1 DEF Steady, Records
<1>2. CASE \E q \in Procs : s \in job'[q].seen
  <2>1. PICK q \in Procs : s \in job'[q].seen
    BY <1>2
  <2>2. CASE q = p
    BY <2>1, <2>2 DEF Steady, Records
  <2>3. CASE q # p
    BY <2>1, <2>3 DEF Steady, Records
  <2> QED
    BY <2>2, <2>3
<1> QED
  BY <1>1, <1>2 DEF Records

\* What the others may replace stays what they may replace.
LEMMA Others ==
    ASSUME IInv, HonestInv, clock' \in Nat, clock <= clock', NEW q \in Procs, job'[q] = job[q],
           overtook \subseteq overtook',
           q \in Rotators /\ At(q, "lock") =>
              slots'[job[q].i] \in {slots[job[q].i], None} \/ slots'[job[q].i].token \in overtook',
           \A t \in Tokens : q \in Rotators /\ t = job[q].old /\ Outdated(q, t) => Outdated(q, t)'
    PROVE  RotationInv(q)'
<1>1. RotationInv(q) /\ job[q] \in Job /\ clock \in Nat
  BY DEF HonestInv, IInv, TypeOK
<1>2. job[q].at \in Nat /\ job[q].at <= clock'
  BY <1>1 DEF RotationInv, Job
<1>3. ASSUME q \in Rotators, job[q].pc \in {"create", "save", "kill"}, job[q].old \notin overtook'
      PROVE  Outdated(q, job[q].old)'
  <2>1. job[q].old \notin overtook /\ Outdated(q, job[q].old)
    BY <1>1, <1>3 DEF RotationInv
  <2>2. job[q].old \in Tokens
    BY <1>1, <1>3 DEF RotationInv
  <2>3. PICK t \in Tokens : t = job[q].old
    BY <2>2
  <2>4. Outdated(q, t)'
    BY <1>3, <2>1, <2>3
  <2>5. t = job'[q].old
    BY <2>3
  <2> QED
    BY <2>4, <2>5 DEF Outdated
<1>4. ASSUME q \in Rotators, At(q, "lock")
      PROVE  \/ slots'[job[q].i] = None
             \/ Overdue(slots'[job[q].i], job[q].at)
             \/ slots'[job[q].i].token \in overtook'
  BY <1>1, <1>4 DEF RotationInv
<1>5. /\ At(q, "due") => q \in Rotators
      /\ job[q].pc \in {"lock", "create", "save", "kill"} => q \in Operators \cup Rotators
      /\ job[q].pc \in {"create", "save", "kill"} => job[q].old \in Tokens
  BY <1>1 DEF RotationInv
<1> QED
  BY <1>2, <1>3, <1>4, <1>5 DEF RotationInv, At, Overdue

\* Such a step takes nothing from what is known, if the goroutine that takes it
\* stays within what a rotation may do.
LEMMA Keeps ==
    ASSUME IInv, HonestInv, NEW p \in Procs, Steady(p), RotationInv(p)'
    PROVE  HonestInv'
<1>0. None \notin Tokens /\ Records' \subseteq Records
  BY NoRecord, ProcAssumption DEF Tokens
<1>1. LeaseInv'
  BY <1>0 DEF HonestInv, LeaseInv, Steady
<1>2. ASSUME NEW t \in Tokens, Fresh(t) PROVE Fresh(t)'
  <2>1. \A q \in Procs : job'[q].old # t
    BY <1>0, <1>2 DEF Fresh, Steady
  <2> QED
    BY <1>0, <1>2, <2>1 DEF Fresh, Steady
<1>3. FreshInv'
  <2>1. \A q \in Procs : job'[q].token \in {job[q].token, None}
    BY DEF Steady
  <2>2. \A t \in Tokens : t > made' => Fresh(t)' /\ ~InFlight(t)'
    BY <1>0, <1>2, <2>1 DEF HonestInv, FreshInv, InFlight, Steady
  <2>3. ASSUME NEW q \in Procs, job'[q].pc \in {"place", "save"} PROVE Fresh(job[q].token)'
    <3>1. q # p /\ job'[q] = job[q] /\ Fresh(job[q].token)
      BY <2>3 DEF HonestInv, FreshInv, Steady
    <3>2. PICK t \in Tokens : t = job[q].token
      BY <2>3, <3>1 DEF IInv, JobInv
    <3>3. t = job'[q].token /\ Fresh(t)'
      BY <1>2, <3>1, <3>2
    <3> QED
      BY <3>3 DEF Fresh
  <2>4. \A q, r \in Procs : q # r /\ job'[q].token # None => job'[q].token # job'[r].token
    BY <2>1 DEF HonestInv, FreshInv
  <2> QED
    BY <2>2, <2>3, <2>4, Zenon DEF FreshInv
<1>4. ASSUME NEW q \in Procs \ {p} PROVE RotationInv(q)'
  <2>1. job'[q] = job[q] /\ overtook' = overtook /\ clock' = clock /\ clock \in Nat
    BY DEF Steady, IInv, TypeOK
  <2>2. \A t \in Tokens : Outdated(q, t) => Outdated(q, t)'
    BY <1>0, <2>1 DEF Outdated, Steady
  <2>3. At(q, "lock") => slots'[job[q].i] \in {slots[job[q].i], None}
    BY SlotOf, Parts DEF Steady, At
  <2> QED
    BY <2>1, <2>2, <2>3, Others
<1> QED
  BY <1>1, <1>3, <1>4 DEF HonestInv

\* A goroutine that is in no rotation after its step.
LEMMA Aside ==
    ASSUME IInv, HonestInv, NEW p \in Procs, Steady(p), job'[p].at \in {job[p].at, 0, clock},
           job'[p].pc \notin {"due", "lock", "create", "save", "kill"}
    PROVE  HonestInv'
<1>1. job'[p].at <= clock'
  BY DEF HonestInv, RotationInv, Steady, IInv, TypeOK
<1>2. RotationInv(p)'
  BY <1>1 DEF RotationInv, At
<1> QED
  BY <1>2, Keeps

\* A rotation that ends, or does not come about.
LEMMA Passed ==
    ASSUME IInv, HonestInv, NEW p \in Procs, Rotated(p),
           slots' = slots, lease' = lease, made' = made, overtook' = overtook, clock' = clock
    PROVE  HonestInv'
<1>1. job \in [Procs -> Job] /\ job' = [job EXCEPT ![p] = NextSlot(p)]
  BY DEF Rotated, IInv, TypeOK
<1>2. job'[p] = NextSlot(p) /\ \A q \in Procs \ {p} : job'[q] = job[q]
  BY <1>1
<1>3. CASE p \in Rotators
  <2>1. /\ job'[p].pc = "due" /\ job'[p].at = job[p].at /\ job'[p].token = None /\ job'[p].old = None
        /\ job'[p].seen = job[p].seen
    BY <1>1, <1>2, <1>3 DEF NextSlot, Job
  <2>2. Steady(p)
    BY <1>2, <2>1 DEF Steady
  <2>3. RotationInv(p)'
    BY <1>3, <2>1 DEF HonestInv, RotationInv, At
  <2> QED
    BY <2>2, <2>3, Keeps
<1>4. CASE p \notin Rotators
  <2>1. job'[p] = Idle
    BY <1>2, <1>4 DEF NextSlot
  <2>2. Steady(p)
    BY <1>2, <2>1 DEF Steady, Idle
  <2> QED
    BY <2>1, <2>2, Aside DEF Idle
<1> QED
  BY <1>3, <1>4

LEMMA InitHonest == Init => HonestInv
<1> SUFFICES ASSUME Init PROVE HonestInv
  OBVIOUS
<1>1. /\ clock = 0 /\ made \in 0..MaxTokens /\ \A t \in Tokens : lease[t] = 0
      /\ \A p \in Procs : job[p] = Idle
  BY InitInv DEF Init, IInv, TypeOK
<1>2. \A r, s \in Records : 0 <= s.next /\ s.token <= made /\ (r.token = s.token => r.next = s.next)
  <2>1. Records = {slots[i] : i \in {j \in Slot : slots[j] # None}}
    BY <1>1 DEF Records, Idle
  <2>2. CASE slots = [i \in Slot |-> None]
    BY <2>1, <2>2
  <2>3. ASSUME NEW n \in SlotCounts, made = n,
               slots = [i \in Slot |->
                          IF i < n THEN [token |-> i + 1, rotated |-> 0, next |-> Interval(n) * (i + 1)]
                          ELSE None]
        PROVE  \A r, s \in Records : 0 <= s.next /\ s.token <= made /\ (r.token = s.token => r.next = s.next)
    <3>1. \A i \in Slot : i \in {0, 1}
      BY SlotRange
    <3>2. n \in 1..2 /\ Interval(n) \in Nat
      BY SlotRange, IntervalType
    <3>3. ASSUME NEW s \in Records
          PROVE  \E i \in {0, 1} : i < n /\ s.token = i + 1 /\ s.next = Interval(n) * (i + 1)
      <4>1. PICK i \in Slot : slots[i] # None /\ s = slots[i]
        BY <2>1
      <4>2. i < n /\ s = [token |-> i + 1, rotated |-> 0, next |-> Interval(n) * (i + 1)]
        BY <2>3, <4>1
      <4> QED
        BY <3>1, <4>2
    <3>4. \A r, s \in Records : 0 <= s.next /\ s.token <= made
      BY <2>3, <3>2, <3>3
    <3>5. ASSUME NEW r \in Records, NEW s \in Records, r.token = s.token PROVE r.next = s.next
      <4>1. PICK i \in {0, 1} : r.token = i + 1 /\ r.next = Interval(n) * (i + 1)
        BY <3>3
      <4>2. PICK k \in {0, 1} : s.token = k + 1 /\ s.next = Interval(n) * (k + 1)
        BY <3>3
      <4>3. i + 1 = k + 1
        BY <3>5, <4>1, <4>2, Zenon
      <4>4. i = k
        BY <4>3
      <4> QED
        BY <4>1, <4>2, <4>4
    <3> QED
      BY <3>4, <3>5
  <2> QED
    BY <2>2, <2>3, Zenon DEF Init
<1>3. \A s \in Records : s.token \in Tokens /\ s.next \in Nat
  BY InitInv, Recording
<1>4. LeaseInv
  BY <1>1, <1>2, <1>3 DEF LeaseInv
<1>5. FreshInv
  <2>1. \A p \in Procs : job[p].pc = "idle" /\ job[p].token = None /\ job[p].old = None
    BY <1>1 DEF Idle
  <2>2. None \notin Tokens
    BY ProcAssumption DEF Tokens
  <2>3. ASSUME NEW t \in Tokens, t > made PROVE Fresh(t) /\ ~InFlight(t)
    <3>1. t \in Nat /\ made \in Nat /\ \A s \in Records : s.token \in Nat /\ s.token <= made
      BY <1>1, <1>2, <1>3 DEF Tokens
    <3>2. \A s \in Records : s.token # t
      BY <2>3, <3>1
    <3> QED
      BY <1>1, <2>1, <2>2, <3>2 DEF Fresh, InFlight
  <2> QED
    BY <2>1, <2>3 DEF FreshInv
<1>6. \A p \in Procs : RotationInv(p)
  BY <1>1 DEF RotationInv, Idle, At
<1> QED
  BY <1>4, <1>5, <1>6 DEF HonestInv

\* Where tokens are made: nobody has come across the new one.
LEMMA Makes ==
    ASSUME IInv, HonestInv, NEW p \in Procs, CreateAuthToken, NEW j \in Job,
           job' = [job EXCEPT ![p] = j], j.token = made', j.old = job[p].old, j.seen = job[p].seen,
           slots' = slots, lease' = lease, clock' = clock, overtook' = overtook, RotationInv(p)'
    PROVE  HonestInv'
<1>0. job \in [Procs -> Job] /\ made \in Nat /\ made' \in Tokens /\ made' = made + 1 /\ None \notin Tokens
  BY TokenType, Parts, ProcAssumption DEF CreateAuthToken, IInv, TypeOK, Tokens
<1>1. job'[p] = j /\ \A q \in Procs \ {p} : job'[q] = job[q]
  BY <1>0
<1>2. Records' = Records /\ \A q \in Procs : job'[q].old = job[q].old
  <2>1. \A q \in Procs : job'[q].seen = job[q].seen /\ job'[q].old = job[q].old
    BY <1>1
  <2> QED
    BY <2>1 DEF Records
<1>3. LeaseInv'
  BY <1>2 DEF HonestInv, LeaseInv
<1>4. ASSUME NEW t \in Tokens, Fresh(t) PROVE Fresh(t)'
  BY <1>2, <1>4 DEF Fresh
<1>5. Fresh(made') /\ ~InFlight(made')
  <2>1. PICK t \in Tokens : t = made'
    BY <1>0
  <2>2. Fresh(t) /\ ~InFlight(t)
    BY <1>0, <2>1 DEF HonestInv, FreshInv
  <2> QED
    BY <2>1, <2>2
<1>6. FreshInv'
  <2>1. ASSUME NEW t \in Tokens, t > made' PROVE Fresh(t)' /\ ~InFlight(t)'
    <3>1. t > made /\ t # made'
      BY <1>0, <2>1 DEF Tokens
    <3>2. Fresh(t) /\ ~InFlight(t)
      BY <3>1 DEF HonestInv, FreshInv
    <3>3. ~InFlight(t)'
      BY <1>1, <3>1, <3>2 DEF InFlight
    <3> QED
      BY <1>4, <3>2, <3>3
  <2>2. ASSUME NEW q \in Procs, job'[q].pc \in {"place", "save"} PROVE Fresh(job[q].token)'
    <3>1. PICK t \in Tokens : t = job'[q].token /\ Fresh(t)
      <4>1. CASE q = p
        BY <1>0, <1>1, <1>5, <4>1
      <4>2. CASE q # p
        BY <1>1, <2>2, <4>2 DEF HonestInv, FreshInv, IInv, JobInv
      <4> QED
        BY <4>1, <4>2
    <3>2. Fresh(t)'
      BY <1>4, <3>1
    <3> QED
      BY <3>1, <3>2 DEF Fresh
  <2>3. ASSUME NEW q \in Procs, NEW r \in Procs, q # r, job'[q].token # None
        PROVE  job'[q].token # job'[r].token
    BY <1>1, <1>5, <2>3 DEF HonestInv, FreshInv, InFlight
  <2> QED
    BY <2>1, <2>2, <2>3, Zenon DEF FreshInv
<1>7. ASSUME NEW q \in Procs \ {p} PROVE RotationInv(q)'
  <2>1. job'[q] = job[q] /\ overtook \subseteq overtook' /\ clock' = clock /\ clock \in Nat
    BY <1>1 DEF IInv, TypeOK
  <2>2. \A t \in Tokens : Outdated(q, t) => Outdated(q, t)'
    BY <1>2, <2>1 DEF Outdated
  <2> QED
    BY <2>1, <2>2, Others
<1> QED
  BY <1>3, <1>6, <1>7 DEF HonestInv

\* Where slots are saved: the record is of the token the goroutine carries.
Saving(p, s) ==
    /\ job[p].pc \in {"place", "save"} /\ s \in SlotRecord /\ s.token = job[p].token
    /\ \A i \in Slot : slots'[i] # slots[i] => i = job[p].i /\ slots'[i] = s
    /\ \A q \in Procs \ {p} : job'[q] = job[q]
    /\ job'[p].pc \notin {"place", "save"} /\ job'[p].token \in {job[p].token, None}
    /\ job'[p].old = job[p].old /\ job'[p].seen = job[p].seen
    /\ lease' = lease /\ made' = made /\ overtook \subseteq overtook' /\ clock' = clock

\* Nobody had come across that token, and what is outdated stays so.
LEMMA Stores ==
    ASSUME IInv, HonestInv, NEW p \in Procs, NEW s, Saving(p, s)
    PROVE  /\ Records' \subseteq Records \cup {s} /\ Fresh(s.token) /\ s.token \in Tokens
           /\ \A q \in Procs, t \in Tokens :
                 job'[q].at = job[q].at /\ t = job[q].old /\ Outdated(q, t) => Outdated(q, t)'
<1>1. ASSUME NEW r \in Records', r # s PROVE r \in Records
  <2>1. CASE \E i \in Slot : slots'[i] # None /\ r = slots'[i]
    BY <1>1, <2>1 DEF Saving, Records
  <2>2. CASE \E q \in Procs : r \in job'[q].seen
    <3>1. PICK q \in Procs : r \in job'[q].seen
      BY <2>2
    <3>2. job'[q].seen = job[q].seen
      BY DEF Saving
    <3> QED
      BY <3>1, <3>2 DEF Records
  <2> QED
    BY <1>1, <2>1, <2>2 DEF Records
<1>2. Fresh(s.token) /\ s.token \in Tokens
  BY DEF Saving, SlotRecord, HonestInv, FreshInv
<1>3. ASSUME NEW q \in Procs, NEW t \in Tokens,
             job'[q].at = job[q].at, t = job[q].old, Outdated(q, t)
      PROVE  Outdated(q, t)'
  <2>1. s.token # t
    BY <1>2, <1>3 DEF Fresh
  <2> QED
    BY <1>1, <1>3, <2>1 DEF Outdated, Saving
<1> QED
  BY <1>1, <1>2, <1>3

LEMMA Saves ==
    ASSUME IInv, HonestInv, NEW p \in Procs, NEW s, Saving(p, s), RotationInv(p)',
           \A q \in Rotators \ {p} : At(q, "lock") => job[q].i # job[p].i \/ s.token \in overtook'
    PROVE  HonestInv'
<1>0. None \notin Tokens
  BY ProcAssumption DEF Tokens
<1>1. Records' \subseteq Records \cup {s} /\ Fresh(s.token) /\ s.token \in Tokens
  BY Stores
<1>2. s.next \in Nat /\ \A r \in Records : r.token # s.token
  BY <1>1 DEF Saving, SlotRecord, Fresh
<1>3. LeaseInv'
  <2>1. ASSUME NEW r \in Records' PROVE lease[r.token] <= r.next
    BY <1>1, <1>2, <2>1 DEF HonestInv, LeaseInv, Fresh
  <2>2. ASSUME NEW r \in Records', NEW u \in Records', u.token = r.token PROVE u.next = r.next
    BY <1>1, <1>2, <2>2 DEF HonestInv, LeaseInv
  <2>3. lease' = lease
    BY DEF Saving
  <2> QED
    BY <2>1, <2>2, <2>3 DEF LeaseInv
<1>4. ASSUME NEW t \in Tokens, t # s.token, Fresh(t) PROVE Fresh(t)'
  <2>1. \A r \in Records' : r.token # t
    BY <1>1, <1>4 DEF Fresh
  <2>2. \A q \in Procs : job'[q].old = job[q].old
    BY DEF Saving
  <2> QED
    BY <1>4, <2>1, <2>2 DEF Fresh, Saving
<1>5. FreshInv'
  <2>0. \A q \in Procs : job'[q].token \in {job[q].token, None}
    BY DEF Saving
  <2>1. ASSUME NEW t \in Tokens, t > made' PROVE Fresh(t)' /\ ~InFlight(t)'
    <3>1. Fresh(t) /\ ~InFlight(t)
      BY <2>1 DEF Saving, HonestInv, FreshInv
    <3>2. t # s.token
      BY <3>1 DEF InFlight, Saving
    <3>3. ~InFlight(t)'
      BY <1>0, <2>0, <3>1 DEF InFlight
    <3> QED
      BY <1>4, <3>1, <3>2, <3>3
  <2>2. ASSUME NEW q \in Procs, job'[q].pc \in {"place", "save"} PROVE Fresh(job[q].token)'
    <3>1. q # p /\ job'[q] = job[q]
      BY <2>2 DEF Saving
    <3>2. PICK t \in Tokens : t = job[q].token /\ Fresh(t)
      BY <2>2, <3>1 DEF HonestInv, FreshInv, IInv, JobInv
    <3>3. t # s.token
      BY <1>0, <3>1, <3>2 DEF HonestInv, FreshInv, Saving
    <3>4. t = job'[q].token /\ Fresh(t)'
      BY <1>4, <3>1, <3>2, <3>3
    <3> QED
      BY <3>4 DEF Fresh
  <2>3. \A q, r \in Procs : q # r /\ job'[q].token # None => job'[q].token # job'[r].token
    BY <2>0 DEF HonestInv, FreshInv
  <2> QED
    BY <2>1, <2>2, <2>3, Zenon DEF FreshInv
<1>6. ASSUME NEW q \in Procs \ {p} PROVE RotationInv(q)'
  <2>1. job'[q] = job[q] /\ overtook \subseteq overtook' /\ clock' = clock /\ clock \in Nat
    BY DEF Saving, IInv, TypeOK
  <2>2. \A t \in Tokens : t = job[q].old /\ Outdated(q, t) => Outdated(q, t)'
    BY <2>1, Stores
  <2>3. ASSUME q \in Rotators, At(q, "lock")
        PROVE  slots'[job[q].i] \in {slots[job[q].i], None} \/ slots'[job[q].i].token \in overtook'
    <3>1. job[q].i \in Slot
      BY <2>3, SlotOf, Parts DEF At
    <3>2. CASE job[q].i # job[p].i
      BY <3>1, <3>2 DEF Saving
    <3>3. CASE s.token \in overtook'
      BY <3>1, <3>3 DEF Saving
    <3> QED
      BY <2>3, <3>2, <3>3
  <2> QED
    BY <2>1, <2>2, <2>3, Others
<1> QED
  BY <1>3, <1>5, <1>6 DEF HonestInv

\* Where a lease is given: it ends when the slot's turn comes, and a token that
\* is outdated gets none.
LEMMA ServeHonest == ASSUME IInv, HonestInv, NEW p \in Procs, Serve(p) PROVE HonestInv'
<1> DEFINE f == FreshestSlot(job[p].seen, clock)
<1>0. job \in [Procs -> Job] /\ job' = [job EXCEPT ![p] = Idle] /\ clock \in Nat
      /\ lease \in [Tokens -> Nat]
  BY DEF Serve, Finish, IInv, TypeOK
<1>1. job'[p] = Idle /\ \A q \in Procs \ {p} : job'[q] = job[q]
  BY <1>0
<1>2. UNCHANGED <<clock, slots, made, overtook>>
  BY DEF Serve, storage, cloud, history
<1>3. CASE f = None
  <2>1. lease' = lease
    BY <1>3 DEF Serve
  <2>2. Steady(p) /\ job'[p].at = 0 /\ job'[p].pc = "idle"
    BY <1>1, <1>2, <2>1 DEF Steady, Idle
  <2> QED
    BY <2>2, Aside
<1>4. CASE f # None
  <2>1. job[p].seen \in SUBSET SlotRecord /\ JobInv(p, job[p])
    BY <1>0 DEF Job, IInv
  <2>2. /\ f.token \in Tokens /\ clock + TTL(f, clock) \in Nat /\ f \in job[p].seen /\ f.next > clock
        /\ clock + TTL(f, clock) <= f.next
    BY <1>0, <1>4, <2>1, ServeType DEF JobInv
  <2>3. f \in Records /\ f.next \in Nat /\ Records \subseteq SlotRecord
    BY <2>2, Recording, RecordType
  <2>4. lease' = [lease EXCEPT ![f.token] = Max({lease[f.token], clock + TTL(f, clock)})]
    BY <1>4 DEF Serve
  <2> HIDE DEF f
  <2>5. /\ \A t \in Tokens \ {f.token} : lease'[t] = lease[t]
        /\ lease'[f.token] \in Nat /\ lease'[f.token] <= f.next
    <3>1. lease[f.token] \in Nat /\ lease[f.token] <= f.next
      BY <1>0, <2>2, <2>3 DEF HonestInv, LeaseInv
    <3>2. Max({lease[f.token], clock + TTL(f, clock)}) \in {lease[f.token], clock + TTL(f, clock)}
      BY <2>2, <3>1, MaxType
    <3> QED
      BY <1>0, <2>2, <2>4, <3>1, <3>2
  <2>6. Records' \subseteq Records
    <3>1. \A q \in Procs : job'[q].seen \subseteq job[q].seen
      BY <1>1 DEF Idle
    <3> QED
      BY <1>2, <3>1 DEF Records
  <2>7. LeaseInv'
    <3>1. ASSUME NEW s \in Records PROVE lease'[s.token] <= s.next
      <4>1. s.token \in Tokens /\ s.next \in Nat
        BY <2>3 DEF SlotRecord
      <4>2. CASE s.token = f.token
        BY <2>3, <2>5, <4>2 DEF HonestInv, LeaseInv
      <4>3. CASE s.token # f.token
        BY <2>5, <4>1, <4>3 DEF HonestInv, LeaseInv
      <4> QED
        BY <4>2, <4>3
    <3> QED
      BY <2>6, <3>1 DEF HonestInv, LeaseInv
  <2>8. ASSUME NEW t \in Tokens, Fresh(t) PROVE Fresh(t)'
    <3>1. t # f.token
      BY <2>3, <2>8 DEF Fresh
    <3>2. None \notin Tokens
      BY ProcAssumption DEF Tokens
    <3>3. \A q \in Procs : job'[q].old \in {job[q].old, None}
      BY <1>1 DEF Idle
    <3> QED
      BY <2>5, <2>6, <2>8, <3>1, <3>2, <3>3 DEF Fresh
  <2>9. FreshInv'
    <3>0. None \notin Tokens /\ \A q \in Procs : job'[q].token \in {job[q].token, None}
      BY <1>1, ProcAssumption DEF Idle, Tokens
    <3>1. \A t \in Tokens : t > made' => Fresh(t)' /\ ~InFlight(t)'
      BY <1>2, <2>8, <3>0 DEF HonestInv, FreshInv, InFlight
    <3>2. ASSUME NEW q \in Procs, job'[q].pc \in {"place", "save"} PROVE Fresh(job[q].token)'
      <4>1. q # p /\ job'[q] = job[q]
        BY <1>1, <3>2 DEF Idle
      <4>2. PICK t \in Tokens : t = job[q].token /\ Fresh(t)
        BY <3>2, <4>1 DEF HonestInv, FreshInv, IInv, JobInv
      <4>3. t = job'[q].token /\ Fresh(t)'
        BY <2>8, <4>1, <4>2
      <4> QED
        BY <4>3 DEF Fresh
    <3>3. \A q, r \in Procs : q # r /\ job'[q].token # None => job'[q].token # job'[r].token
      BY <3>0 DEF HonestInv, FreshInv
    <3> QED
      BY <3>1, <3>2, <3>3, Zenon DEF FreshInv
  <2>10. ASSUME NEW q \in Procs \ {p} PROVE RotationInv(q)'
    <3>1. job'[q] = job[q]
      BY <1>1
    <3>2. ASSUME NEW t \in Tokens, Outdated(q, t) PROVE Outdated(q, t)'
      <4>1. job[q].at \in Nat /\ job[q].at <= clock
        BY <1>0 DEF HonestInv, RotationInv, Job
      <4>2. t # f.token
        BY <1>0, <2>2, <2>3, <3>2, <4>1 DEF Outdated
      <4> QED
        BY <2>5, <2>6, <3>1, <3>2, <4>2 DEF Outdated
    <3> QED
      BY <1>0, <1>2, <3>1, <3>2, Others
  <2>11. RotationInv(p)'
    BY <1>0, <1>1, <1>2 DEF RotationInv, At, Idle
  <2> QED
    BY <2>7, <2>9, <2>10, <2>11 DEF HonestInv
<1> QED
  BY <1>3, <1>4

\* Each action keeps what the leases rely on.
LEMMA HonestKept ==
    ASSUME IInv, HonestInv, [Next]_vars
    PROVE  HonestInv'
<1> USE DEF storage, cloud, history, bounds
<1> job \in [Procs -> Job] /\ clock \in Nat /\ slots \in [Slot -> SlotRecord \cup {None}]
  BY DEF IInv, TypeOK
<1>0. IInv'
  BY NextInv
<1>1. ASSUME NEW p \in Procs, NEW r \in Role, RoleWrite(p, r) PROVE HonestInv'
  <2>1. job' = [job EXCEPT ![p] = [job[p] EXCEPT !.pc = "check", !.count = r.count]]
    BY <1>1 DEF RoleWrite
  <2> QED
    BY <1>1, <2>1, Aside DEF RoleWrite, Steady, Job
<1>2. ASSUME NEW p \in Procs, NEW i \in Slot, PathRotateSlot(p, i) PROVE HonestInv'
  <2>1. job' = [job EXCEPT ![p] = [job[p] EXCEPT !.pc = "lock", !.count = role.count, !.i = i]]
    BY <1>2 DEF PathRotateSlot
  <2>2. Steady(p) /\ job'[p].pc = "lock" /\ job'[p].at = job[p].at
    BY <1>2, <2>1 DEF PathRotateSlot, Steady, Job
  <2>3. p \in Operators /\ p \notin Rotators
    BY <1>2, ProcAssumption DEF PathRotateSlot
  <2>4. job'[p].at <= clock'
    BY <2>2 DEF HonestInv, RotationInv, Steady
  <2>5. RotationInv(p)'
    BY <2>2, <2>3, <2>4 DEF RotationInv, At
  <2> QED
    BY <2>2, <2>5, Keeps
<1>3. ASSUME NEW p \in Procs, RoleDelete(p) PROVE HonestInv'
  <2>1. job' = [job EXCEPT ![p] = [job[p] EXCEPT !.pc = "wipe", !.count = role.count,
                                                 !.todo = Known(role.count)]]
    BY <1>3 DEF RoleDelete
  <2> QED
    BY <1>3, <2>1, Aside DEF RoleDelete, Steady, Job
<1>4. ASSUME NEW p \in Procs, MaybeInitializeSlots(p) PROVE HonestInv'
  <2>1. CASE job' = [job EXCEPT ![p] = [job[p] EXCEPT !.pc = "init", !.at = clock]]
    BY <1>4, <2>1, Aside DEF MaybeInitializeSlots, Steady, Job
  <2>2. CASE Finish(p)
    BY <1>4, <2>2, Aside DEF MaybeInitializeSlots, Steady, Job, Finish, Idle
  <2> QED
    BY <1>4, <2>1, <2>2 DEF MaybeInitializeSlots
<1>5. ASSUME NEW p \in Procs, InitCreate(p) PROVE HonestInv'
  <2> DEFINE j == [job[p] EXCEPT !.pc = "place", !.token = made']
  <2>1. job' = [job EXCEPT ![p] = j] /\ CreateAuthToken
    BY <1>5 DEF InitCreate
  <2>2. UNCHANGED <<slots, lease, clock, overtook>>
    BY <1>5 DEF InitCreate
  <2>3. j = job'[p] /\ j.pc = "place" /\ j.token = made' /\ j.old = job[p].old /\ j.seen = job[p].seen
        /\ j.at = job[p].at
    BY <2>1 DEF Job
  <2>4. j \in Job
    BY <1>0, <2>3 DEF IInv, TypeOK
  <2> HIDE DEF j
  <2>5. job'[p].at <= clock'
    BY <2>2, <2>3 DEF HonestInv, RotationInv
  <2>6. RotationInv(p)'
    BY <2>3, <2>5 DEF RotationInv, At
  <2> QED
    BY <2>1, <2>2, <2>3, <2>4, <2>6, Makes
<1>6. ASSUME NEW p \in Procs, InitSave(p) PROVE HonestInv'
  <2> DEFINE s == [token |-> job[p].token, rotated |-> job[p].at,
                   next |-> job[p].at + Interval(job[p].count) * (job[p].i + 1)]
  <2>1. slots' = [slots EXCEPT ![job[p].i] = s] /\ job[p].i \in Slot
    BY <1>6, SlotOf, Parts DEF InitSave, At
  <2>2. job' = [job EXCEPT ![p] = [job[p] EXCEPT !.pc = "init", !.i = @ + 1, !.token = None]]
    BY <1>6 DEF InitSave
  <2>3. job'[p].pc = "init" /\ job'[p].token = None /\ job'[p].old = job[p].old
        /\ job'[p].seen = job[p].seen /\ job'[p].at = job[p].at
    BY <2>2 DEF Job
  <2>4. s \in SlotRecord
    <3>0. \A i \in Slot : i = 0 \/ i = 1
      BY SlotRange
    <3>1. job[p].i = 0 \/ job[p].i = 1
      BY <2>1, <3>0
    <3>2. job[p].token \in Tokens /\ job[p].at \in Nat
      BY <1>6 DEF InitSave, At, IInv, JobInv, Job
    <3>3. job[p].count \in SlotCounts
      BY <1>6 DEF InitSave, At, IInv, JobInv
    <3>4. Interval(job[p].count) \in Nat
      BY <3>3, IntervalType
    <3>5. job[p].at + Interval(job[p].count) * (job[p].i + 1) \in Nat
      BY <3>1, <3>2, <3>4
    <3> QED
      BY <3>2, <3>5 DEF SlotRecord
  <2>5. Saving(p, s)
    <3>1. s.token = job[p].token /\ job[p].pc = "place" /\ UNCHANGED <<lease, made, clock>>
          /\ overtook \subseteq overtook'
      BY <1>6, Noted DEF InitSave, At
    <3> HIDE DEF s
    <3> QED
      BY <2>1, <2>2, <2>3, <2>4, <3>1 DEF Saving
  <2>6. \A q \in Rotators \ {p} : At(q, "lock") => job[q].i # job[p].i \/ s.token \in overtook'
    BY <1>6, Noted DEF InitSave
  <2> HIDE DEF s
  <2>7. job'[p].at <= clock'
    BY <1>6, <2>3 DEF InitSave, HonestInv, RotationInv
  <2>8. RotationInv(p)'
    BY <2>3, <2>7 DEF RotationInv, At
  <2> QED
    BY <1>6, <2>5, <2>6, <2>8, Saves
<1>7. ASSUME NEW p \in Procs, InitDone(p) PROVE HonestInv'
  BY <1>7, Aside DEF InitDone, Steady, Finish, Idle
<1>8. ASSUME NEW p \in Procs, InitFail(p) PROVE HonestInv'
  BY <1>8, Aside DEF InitFail, Steady, Finish, Idle
<1>9. ASSUME NEW p \in Procs, NEW t \in Tokens, CleanupToken(p, t) PROVE HonestInv'
  <2>1. job' = [job EXCEPT ![p] = [job[p] EXCEPT !.todo = @ \ {t}]]
    BY <1>9 DEF CleanupToken
  <2> QED
    BY <1>9, <2>1, Aside DEF CleanupToken, Steady, Job, At
<1>10. ASSUME NEW p \in Procs, DeleteSlots(p) PROVE HonestInv'
  <2>1. job' = [job EXCEPT ![p] = [job[p] EXCEPT !.pc = "unrole"]]
    BY <1>10 DEF DeleteSlots
  <2>2. \A i \in Slot : slots'[i] \in {slots[i], None}
    BY <1>10 DEF DeleteSlots
  <2> QED
    BY <1>10, <2>1, <2>2, Aside DEF DeleteSlots, Steady, Job
<1>11. ASSUME NEW p \in Procs, DeleteRole(p) PROVE HonestInv'
  BY <1>11, Aside DEF DeleteRole, Steady, Finish, Idle
<1>12. ASSUME NEW p \in Procs, RotationWorker(p) PROVE HonestInv'
  <2>1. job' = [job EXCEPT ![p] = [job[p] EXCEPT !.pc = "due", !.count = role.count, !.at = clock]]
    BY <1>12 DEF RotationWorker
  <2>2. Steady(p) /\ job'[p].pc = "due" /\ job'[p].at = clock /\ clock' = clock /\ p \in Rotators
    BY <1>12, <2>1 DEF RotationWorker, Steady, Job
  <2>3. RotationInv(p)'
    BY <2>2 DEF RotationInv, At
  <2> QED
    BY <2>2, <2>3, Keeps
<1>13. ASSUME NEW p \in Procs, RotateDueSlots(p) PROVE HonestInv'
  <2>1. At(p, "due") /\ p \in Rotators /\ job[p].at <= clock
    BY <1>13 DEF RotateDueSlots, HonestInv, RotationInv
  <2>2. CASE Finish(p)
    BY <1>13, <2>2, Aside DEF RotateDueSlots, Steady, Finish, Idle
  <2>3. CASE Overdue(slots[job[p].i], job[p].at) /\ job' = [job EXCEPT ![p] = [job[p] EXCEPT !.pc = "lock"]]
    <3>1. Steady(p) /\ job'[p].pc = "lock" /\ job'[p].at = job[p].at /\ job'[p].i = job[p].i
          /\ slots' = slots /\ clock' = clock
      BY <1>13, <2>3 DEF RotateDueSlots, Steady, Job
    <3>2. RotationInv(p)'
      BY <2>1, <2>3, <3>1 DEF RotationInv, At, Overdue
    <3> QED
      BY <3>1, <3>2, Keeps
  <2>4. CASE job' = [job EXCEPT ![p] = [job[p] EXCEPT !.i = @ + 1]]
    <3>1. Steady(p) /\ job'[p].pc = "due" /\ job'[p].at = job[p].at /\ clock' = clock
      BY <1>13, <2>1, <2>4 DEF RotateDueSlots, Steady, Job, At
    <3>2. RotationInv(p)'
      BY <2>1, <3>1 DEF RotationInv, At
    <3> QED
      BY <3>1, <3>2, Keeps
  <2> QED
    BY <1>13, <2>2, <2>3, <2>4 DEF RotateDueSlots
<1>14. ASSUME NEW p \in Procs, RotateLock(p) PROVE HonestInv'
  <2>1. CASE slots[job[p].i] # None /\ usable
    <3> DEFINE s == slots[job[p].i]
    <3>1. job' = [job EXCEPT ![p] = [job[p] EXCEPT !.pc = "create", !.old = s.token]]
      BY <1>14, <2>1 DEF RotateLock
    <3>2. job[p].i \in Slot /\ At(p, "lock")
      BY <1>14, SlotOf, Parts DEF RotateLock, At
    <3>3. s \in Records /\ s.token \in Tokens /\ s.next \in Nat
      BY <2>1, <3>2, Recording
    <3>4. /\ job'[p].pc = "create" /\ job'[p].old = s.token /\ job'[p].token = None
          /\ job'[p].at = job[p].at /\ job'[p].seen = job[p].seen
          /\ \A q \in Procs \ {p} : job'[q] = job[q]
      BY <3>1, <3>2 DEF Job, IInv, JobInv, At
    <3>5. UNCHANGED <<clock, slots, made, lease, overtook>>
      BY <1>14 DEF RotateLock
    <3> HIDE DEF s
    <3>6. Records' = Records
      <4>1. \A q \in Procs : job'[q].seen = job[q].seen
        BY <3>4
      <4> QED
        BY <3>5, <4>1 DEF Records
    <3>7. job[p].at \in Nat /\ job[p].at <= clock /\ p \in Operators \cup Rotators
      BY <3>2 DEF HonestInv, RotationInv, Job, At
    <3>8. ASSUME p \in Rotators, s.token \notin overtook PROVE Outdated(p, s.token)
      <4>1. Overdue(s, job[p].at)
        BY <2>1, <3>2, <3>8 DEF HonestInv, RotationInv, s
      <4>2. s.next <= job[p].at
        BY <3>3, <3>7, <4>1 DEF Overdue
      <4>3. lease[s.token] \in Nat /\ lease[s.token] <= s.next
        BY <3>3 DEF HonestInv, LeaseInv, IInv, TypeOK
      <4>4. \A r \in Records : r.token = s.token => r.next = s.next
        BY <3>3 DEF HonestInv, LeaseInv
      <4> QED
        BY <3>3, <3>7, <4>2, <4>3, <4>4 DEF Outdated
    <3>9. Steady(p)
      BY <3>3, <3>4, <3>5 DEF Steady
    <3>10. RotationInv(p)'
      <4>1. PICK t \in Tokens : t = s.token
        BY <3>3
      <4>2. ASSUME p \in Rotators, t \notin overtook PROVE Outdated(p, t)'
        BY <3>4, <3>5, <3>6, <3>8, <4>1, <4>2 DEF Outdated
      <4>3. job'[p].old = t
        BY <3>4, <4>1
      <4>4. p \in Rotators /\ job'[p].old \notin overtook' => Outdated(p, job[p].old)'
        BY <3>5, <4>2, <4>3 DEF Outdated
      <4> QED
        BY <3>4, <3>5, <3>7, <4>3, <4>4 DEF RotationInv, At
    <3> QED
      BY <3>9, <3>10, Keeps
  <2>2. CASE ~(slots[job[p].i] # None /\ usable)
    BY <1>14, <2>2, Passed DEF RotateLock
  <2> QED
    BY <2>1, <2>2
<1>15. ASSUME NEW p \in Procs, RotateCreate(p) PROVE HonestInv'
  <2> DEFINE j == [job[p] EXCEPT !.pc = "save", !.token = made', !.now = clock]
  <2>1. job' = [job EXCEPT ![p] = j] /\ CreateAuthToken
    BY <1>15 DEF RotateCreate
  <2>2. /\ UNCHANGED <<slots, lease, clock>> /\ At(p, "create")
        /\ overtook' = overtook
    BY <1>15 DEF RotateCreate
  <2>3. j = job'[p] /\ j.pc = "save" /\ j.token = made' /\ j.old = job[p].old /\ j.seen = job[p].seen
        /\ j.at = job[p].at
    BY <2>1 DEF Job
  <2>4. j \in Job
    BY <1>0, <2>3 DEF IInv, TypeOK
  <2> HIDE DEF j
  <2>5. job'[p].at <= clock' /\ p \in Operators \cup Rotators /\ job[p].old \in Tokens
    BY <2>2, <2>3 DEF HonestInv, RotationInv, At
  <2>6. p \in Rotators => job[p].old \in overtook \/ Outdated(p, job[p].old)
    BY <2>2 DEF HonestInv, RotationInv, At
  <2>7. Records' = Records
    <3>1. \A q \in Procs : job'[q].seen = job[q].seen
      BY <2>1, <2>3
    <3> QED
      BY <2>2, <3>1 DEF Records
  <2>8. RotationInv(p)'
    <3>1. Outdated(p, job[p].old) => Outdated(p, job[p].old)'
      BY <2>2, <2>3, <2>7 DEF Outdated
    <3>2. p \in Rotators => job'[p].old \in overtook' \/ Outdated(p, job[p].old)'
      BY <2>2, <2>3, <2>6, <3>1
    <3> QED
      BY <2>3, <2>5, <3>2 DEF RotationInv, At
  <2> QED
    BY <2>1, <2>2, <2>3, <2>4, <2>8, Makes
<1>16. ASSUME NEW p \in Procs, RotateCreateFail(p) PROVE HonestInv'
  BY <1>16, Passed DEF RotateCreateFail
<1>17. ASSUME NEW p \in Procs, RotateSave(p) PROVE HonestInv'
  <2> DEFINE s == [token |-> job[p].token, rotated |-> job[p].now,
                   next |-> job[p].now + Interval(job[p].count)]
  <2>1. slots' = [slots EXCEPT ![job[p].i] = s] /\ job[p].i \in Slot
    BY <1>17, SlotOf, Parts DEF RotateSave, At
  <2>2. job' = [job EXCEPT ![p] = [job[p] EXCEPT !.pc = "kill"]]
    BY <1>17 DEF RotateSave
  <2>3. job'[p].pc = "kill" /\ job'[p].token = job[p].token /\ job'[p].old = job[p].old
        /\ job'[p].seen = job[p].seen /\ job'[p].at = job[p].at
    BY <2>2 DEF Job
  <2>4. s \in SlotRecord
    <3>1. job[p].token \in Tokens /\ job[p].now \in Nat /\ job[p].count \in SlotCounts
      BY <1>17 DEF RotateSave, At, IInv, JobInv, Job
    <3>2. job[p].now + Interval(job[p].count) \in Nat
      BY <3>1, IntervalType
    <3> QED
      BY <3>1, <3>2 DEF SlotRecord
  <2>5. Saving(p, s)
    <3>1. s.token = job[p].token /\ job[p].pc = "save" /\ UNCHANGED <<lease, made, clock>>
          /\ overtook \subseteq overtook'
      BY <1>17, Noted DEF RotateSave, At
    <3> HIDE DEF s
    <3> QED
      BY <2>1, <2>2, <2>3, <2>4, <3>1 DEF Saving
  <2>6. p \in Operators \cup Rotators
    BY <1>17 DEF RotateSave, At, HonestInv, RotationInv
  <2> HIDE DEF s
  <2>7. RotationInv(p)'
    <3>1. PICK t \in Tokens : t = job[p].old
      BY <1>17 DEF RotateSave, At, HonestInv, RotationInv
    <3>2. p \in Rotators => t \in overtook \/ Outdated(p, t)
      BY <1>17, <3>1 DEF RotateSave, At, HonestInv, RotationInv
    <3>3. Outdated(p, t) => Outdated(p, t)'
      BY <2>3, <2>5, <3>1, Stores
    <3>4. job'[p].old = t
      BY <2>3, <3>1
    <3>5. job'[p].at <= clock' /\ overtook \subseteq overtook'
      BY <2>3, <2>5 DEF Saving, HonestInv, RotationInv
    <3>6. p \in Rotators => job'[p].old \in overtook' \/ Outdated(p, job[p].old)'
      BY <3>2, <3>3, <3>4, <3>5 DEF Outdated
    <3> QED
      BY <2>3, <2>6, <3>4, <3>5, <3>6 DEF RotationInv, At
  <2>8. \A q \in Rotators \ {p} : At(q, "lock") => job[q].i # job[p].i \/ s.token \in overtook'
    BY <1>17, <2>5, Noted DEF RotateSave, Saving
  <2> QED
    BY <2>5, <2>7, <2>8, Saves
<1>18. ASSUME NEW p \in Procs, RotateSaveFail(p) PROVE HonestInv'
  BY <1>18, Passed DEF RotateSaveFail
<1>19. ASSUME NEW p \in Procs, RotateKill(p) PROVE HonestInv'
  BY <1>19, Passed DEF RotateKill
<1>20. ASSUME NEW p \in Procs, CollectKnownTokenIDs(p) PROVE HonestInv'
  <2>1. job' = [job EXCEPT ![p] = [job[p] EXCEPT !.pc = "list", !.budget = MaxDeletes,
                                                 !.todo = Known(role.count)]]
    BY <1>20 DEF CollectKnownTokenIDs
  <2> QED
    BY <1>20, <2>1, Aside DEF CollectKnownTokenIDs, Steady, Job
<1>21. ASSUME NEW p \in Procs, ReconcileOrphans(p) PROVE HonestInv'
  <2>1. CASE job' = [job EXCEPT ![p] = [job[p] EXCEPT !.pc = "reclaim", !.todo = live \ @]]
    BY <1>21, <2>1, Aside DEF ReconcileOrphans, Steady, Job
  <2>2. CASE Finish(p)
    BY <1>21, <2>2, Aside DEF ReconcileOrphans, Steady, Finish, Idle
  <2> QED
    BY <1>21, <2>1, <2>2 DEF ReconcileOrphans
<1>22. ASSUME NEW p \in Procs, NEW t \in Tokens, ReconcileRoleTokens(p, t) PROVE HonestInv'
  <2>1. \/ job' = [job EXCEPT ![p] = [job[p] EXCEPT !.todo = @ \ {t}, !.budget = @ - 1]]
        \/ job' = [job EXCEPT ![p] = [job[p] EXCEPT !.todo = @ \ {t}]]
    BY <1>22 DEF ReconcileRoleTokens
  <2> QED
    BY <1>22, <2>1, Aside DEF ReconcileRoleTokens, Steady, Job, At
<1>23. ASSUME NEW p \in Procs, PassEnd(p) PROVE HonestInv'
  BY <1>23, Aside DEF PassEnd, Steady, Finish, Idle
<1>24. ASSUME NEW p \in Procs, ReadSlots(p) PROVE HonestInv'
  <2>1. job' = [job EXCEPT ![p] = [job[p] EXCEPT !.pc = "serve", !.seen = LoadAllSlots(role.count)]]
    BY <1>24 DEF ReadSlots
  <2>2. \A s \in job'[p].seen : \E i \in Slot : slots[i] # None /\ s = slots[i]
    BY <2>1 DEF LoadAllSlots, Job
  <2> QED
    BY <1>24, <2>1, <2>2, Aside DEF ReadSlots, Steady, Job
<1>25. ASSUME NEW p \in Procs, Serve(p) PROVE HonestInv'
  BY <1>25, ServeHonest
<1>26. CASE Tick
  <2>1. UNCHANGED <<slots, made, lease, job, overtook>> /\ clock <= clock' /\ clock' \in Nat
    BY <1>26 DEF Tick
  <2>2. Records' = Records
    BY <2>1 DEF Records
  <2>3. LeaseInv' /\ FreshInv'
    BY <2>1, <2>2 DEF HonestInv, LeaseInv, FreshInv, Fresh, InFlight
  <2>4. ASSUME NEW q \in Procs PROVE RotationInv(q)'
    <3>1. \A t \in Tokens : Outdated(q, t) => Outdated(q, t)'
      BY <2>1, <2>2 DEF Outdated
    <3> QED
      BY <2>1, <3>1, Others
  <2> QED
    BY <2>3, <2>4 DEF HonestInv
<1>27. CASE MinterLost \/ MinterBack \/ UNCHANGED vars
  <2>1. UNCHANGED <<slots, made, lease, job, overtook, clock>>
    BY <1>27 DEF MinterLost, MinterBack, vars
  <2> QED
    BY <2>1 DEF HonestInv, LeaseInv, FreshInv, Fresh, InFlight, Records, RotationInv, Outdated, At, Overdue
<1>28. CASE Crash
  <2>1. UNCHANGED <<slots, made, lease, overtook, clock>> /\ \A q \in Procs : job'[q] = Idle
    BY <1>28 DEF Crash
  <2>2. Records' \subseteq Records
    BY <2>1 DEF Records, Idle
  <2>3. LeaseInv'
    BY <2>1, <2>2 DEF HonestInv, LeaseInv
  <2>4. FreshInv'
    <3>0. None \notin Tokens
      BY ProcAssumption DEF Tokens
    <3>1. \A q \in Procs : job'[q].pc = "idle" /\ job'[q].token = None /\ job'[q].old = None
      BY <2>1 DEF Idle
    <3>2. ASSUME NEW t \in Tokens, t > made' PROVE Fresh(t)' /\ ~InFlight(t)'
      BY <2>1, <2>2, <3>0, <3>1, <3>2 DEF HonestInv, FreshInv, Fresh, InFlight
    <3> QED
      BY <3>1, <3>2 DEF FreshInv
  <2>5. \A q \in Procs : RotationInv(q)'
    BY <2>1 DEF RotationInv, At, Idle
  <2> QED
    BY <2>3, <2>4, <2>5 DEF HonestInv
<1> QED
  BY <1>1, <1>2, <1>3, <1>4, <1>5, <1>6, <1>7, <1>8, <1>9, <1>10, <1>11, <1>12, <1>13, <1>14, <1>15, <1>16,
     <1>17, <1>18, <1>19, <1>20, <1>21, <1>22, <1>23, <1>24, <1>25, <1>26, <1>27, <1>28
  DEF Next, WriteStep, RotateStep, PassStep

\* "TTL is always honest", as far as it goes: the worker ends no token under a
\* lease except one that came into the slot while the worker waited to rotate it.
THEOREM LeasesOutlived == Spec => LeaseOutlived
<1>1. Init => IInv /\ HonestInv
  BY InitInv, InitHonest
<1>2. (IInv /\ HonestInv) /\ [Next]_vars => (IInv /\ HonestInv)'
  BY NextInv, HonestKept
<1>3. ASSUME IInv, HonestInv, NEW t \in live \ live', lease[t] > clock, t \notin overtook,
             NEW p \in Rotators, RotateKill(p), job[p].old = t
      PROVE  FALSE
  <2>1. job[p].old \in Tokens /\ Outdated(p, job[p].old) /\ job[p].at <= clock /\ p \in Procs
    BY <1>3 DEF RotateKill, At, HonestInv, RotationInv, Procs
  <2>2. lease[t] \in Nat /\ clock \in Nat /\ job[p].at \in Nat
    BY <1>3, <2>1 DEF IInv, TypeOK, Job
  <2> QED
    BY <1>3, <2>1, <2>2 DEF Outdated
<1>4. IInv /\ HonestInv => [\A t \in live \ live' :
                              lease[t] > clock /\ t \notin overtook =>
                                  ~\E p \in Rotators : RotateKill(p) /\ job[p].old = t]_vars
  BY <1>3
<1> QED
  BY <1>1, <1>2, <1>4, PTL DEF Spec, LeaseOutlived
=============================================================================
