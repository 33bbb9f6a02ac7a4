--------------------------- MODULE Breaker_proofs ---------------------------
(***************************************************************************)
(* Proofs that the safety properties of Breaker hold for any number of     *)
(* callers and any settings.  Each method of StateMachine preserves        *)
(* MachineOK by itself (the lemmas); the induction then only has to follow *)
(* which caller does what.                                                 *)
(***************************************************************************)
EXTENDS Breaker, TLAPS

\* Every read of the state machine and every answer that does not touch it.
LEMMA MachineFrame == ASSUME MachineOK, UNCHANGED machine PROVE MachineOK'
BY DEF MachineOK, machine

\* RecordSuccess leaves a coherent, closed breaker.
LEMMA SuccessOK ==
    ASSUME MachineOK, RecordSuccess
    PROVE  MachineOK' /\ strikes' = 0 /\ probe' = 0
BY TimesAssumption DEF MachineOK, RecordSuccess

\* Releasing the claim disturbs nothing else.
LEMMA ReleaseOK ==
    ASSUME MachineOK, ReleaseProbe
    PROVE  MachineOK' /\ probe' = 0 /\ state' = state /\ strikes' = strikes
BY TimesAssumption DEF MachineOK, ReleaseProbe

\* However many strikes there are, the cooldown stays within the cap.
LEMMA CooldownCapped ==
    ASSUME NEW n \in Nat \ {0}, NEW d \in CooldownFor(n)
    PROVE  d \in Int /\ d <= Cap
<1> DEFINE b == Base * 2^(n - 1)
<1>1. b \in Int /\ Cap \in Int
  <2>1. n - 1 \in Nat
    OBVIOUS
  <2>2. 2^(n - 1) \in Int
    BY <2>1
  <2> QED
    BY <2>2, TimesAssumption
<1>2. d \in (Least(b, Cap) \div 2)..Least(b, Cap)
  BY Zenon DEF CooldownFor
<1> HIDE DEF b
<1>3. Least(b, Cap) \in Int /\ Least(b, Cap) <= Cap
  BY <1>1 DEF Least
<1> QED
  BY <1>1, <1>2, <1>3

\* The first half of a rate limit opens a window that may already be over, and
\* that ends within the cap.
LEMMA RateLimitedOK ==
    ASSUME MachineOK, NEW a \in Nat, RateLimited(a)
    PROVE  MachineOK' /\ probe' = 0
<1>1. PICK d \in CooldownFor(strikes + 1) : cooldown' = Greatest(0, d - a)
  BY DEF RateLimited
<1>2. d \in Int /\ d <= Cap
  <2>1. strikes + 1 \in Nat \ {0}
    BY DEF MachineOK
  <2> QED
    BY <1>1, <2>1, CooldownCapped
<1>3. cooldown' \in 0..Cap
  BY <1>1, <1>2, TimesAssumption DEF Greatest
<1>4. strikes' = strikes + 1 /\ probe' = 0 /\ UNCHANGED <<state, firstAuth, failedFor, rejected>>
  BY DEF RateLimited
<1> QED
  BY <1>3, <1>4, TimesAssumption DEF MachineOK

\* A recorded failure never leaves the minter healthy, and benches it only on
\* a second rejection.
LEMMA ErrorOK ==
    ASSUME MachineOK, NEW auth \in BOOLEAN, NEW a \in Nat, RecordError(auth, a)
    PROVE  /\ MachineOK' /\ state' # "healthy"
           /\ probe' = probe /\ strikes' = strikes
<1> DEFINE since == IF firstAuth = None THEN a ELSE firstAuth
<1>0. /\ strikes' = strikes /\ cooldown' = cooldown /\ probe' = probe
      /\ rejected' = IF auth THEN Least(rejected + 1, 2) ELSE rejected
  BY DEF RecordError
<1>1. /\ rejected' \in 0..2
      /\ auth => rejected' > 0
      /\ rejected > 0 => rejected' > 0
      /\ auth /\ rejected > 0 => rejected' = 2
      /\ rejected = 2 => rejected' = 2
  BY <1>0 DEF MachineOK, Least
<1>2. CASE state = "healthy"
  <2>1. state' = "transient_failing" /\ failedFor' = failedFor
        /\ firstAuth' = IF auth THEN a ELSE firstAuth
    BY <1>2 DEF RecordError
  <2> QED
    BY <1>0, <1>1, <1>2, <2>1 DEF MachineOK
<1>3. CASE state = "transient_failing" /\ auth
  <2>1. /\ firstAuth' = since
        /\ IF since - a >= Threshold
             THEN state' = "auth_failing" /\ failedFor' = a
             ELSE UNCHANGED <<state, failedFor>>
    BY <1>3 DEF RecordError
  <2>2. since \in Nat
    BY DEF MachineOK
  <2>3. since - a >= Threshold => rejected > 0
    <3>1. CASE firstAuth = None
      BY <3>1, TimesAssumption
    <3>2. CASE firstAuth # None
      BY <3>2 DEF MachineOK
    <3> QED
      BY <3>1, <3>2
  <2>4. CASE since - a >= Threshold
    BY <1>0, <1>1, <1>3, <2>1, <2>2, <2>3, <2>4, TimesAssumption DEF MachineOK
  <2>5. CASE ~(since - a >= Threshold)
    BY <1>0, <1>1, <1>3, <2>1, <2>2, <2>5, TimesAssumption DEF MachineOK
  <2> QED
    BY <2>4, <2>5
<1>4. CASE state = "transient_failing" /\ ~auth
  <2>1. firstAuth' = None /\ UNCHANGED <<state, failedFor>>
    BY <1>4 DEF RecordError
  <2> QED
    BY <1>0, <1>1, <1>4, <2>1, TimesAssumption DEF MachineOK
<1>5. CASE state = "auth_failing"
  <2>1. UNCHANGED <<state, firstAuth, failedFor>>
    BY <1>5 DEF RecordError
  <2> QED
    BY <1>0, <1>1, <1>5, <2>1 DEF MachineOK
<1> QED
  BY <1>2, <1>3, <1>4, <1>5 DEF MachineOK

-----------------------------------------------------------------------------
\* A goroutine that ends its call without a claim left behind it, or with the
\* claim unchanged, keeps what is said about the others' calls.
LEMMA ReturnOK ==
    ASSUME IInv, NEW c \in Callers, Return(c),
           cred' \in {"good", "bad"}, faults' \in Nat, breaks' = breaks,
           probe' = probe \/ probe' = 0
    PROVE  CallsOK' /\ ClaimInv'
<1>1. call' = [call EXCEPT ![c] = Idle]
  BY DEF Return
<1>2. Idle \in Call /\ Idle.age <= CallMax /\ Idle.pc = "idle"
  BY TimesAssumption DEF Idle, Call
<1>3. CallsOK'
  BY <1>1, <1>2 DEF IInv, CallsOK
<1>4. ClaimInv'
  <2>1. SUFFICES ASSUME NEW x \in Callers, call'[x].pc = "calling", call'[x].probe, probe' > 0
                 PROVE  call'[x].age + probe' >= Grace
    BY DEF ClaimInv, At
  <2>2. x # c
    BY <1>1, <1>2, <2>1 DEF IInv, CallsOK
  <2>3. call'[x] = call[x]
    BY <1>1, <2>2 DEF IInv, CallsOK
  <2>4. probe' = probe
    BY <2>1
  <2> QED
    BY <2>1, <2>3, <2>4 DEF IInv, ClaimInv, At
<1> QED
  BY <1>3, <1>4

\* A goroutine that was not half-way through a rate limit leaves whoever is.
LEMMA TornOK ==
    ASSUME IInv, NEW c \in Callers, ~At(c, "torn"),
           \A x \in Callers : x # c => call'[x] = call[x],
           (state' = state /\ strikes' = strikes) \/ strikes' = 0 \/ state' # "healthy",
           strikes' \in Nat
    PROVE  TornExplains'
BY DEF IInv, TornExplains, At

\* Return changes nobody else's call.
LEMMA OthersKept ==
    ASSUME IInv, NEW c \in Callers, Return(c)
    PROVE  \A x \in Callers : x # c => call'[x] = call[x]
BY DEF IInv, CallsOK, Return

LEMMA AgeNat == ASSUME IInv, NEW c \in Callers PROVE call[c].age \in Nat /\ call[c] \in Call
BY DEF IInv, CallsOK, Call

\* Sending a call that takes no claim.
LEMMA SendOK ==
    ASSUME IInv, NEW c \in Callers, At(c, "idle"), NEW b \in BOOLEAN,
           Send(c, FALSE, b), UNCHANGED <<machine, world>>
    PROVE  IInv'
<1>1. call' = [call EXCEPT ![c] = [pc |-> "calling", age |-> 0, probe |-> FALSE, fresh |-> b]]
  BY DEF Send
<1>2. MachineOK' /\ probe' = probe /\ strikes' = strikes /\ state' = state
  BY MachineFrame DEF IInv, machine
<1>3. CallsOK'
  BY <1>1, TimesAssumption DEF IInv, CallsOK, Call, world
<1>4. TornExplains'
  BY <1>1, <1>2 DEF IInv, CallsOK, TornExplains, At
<1>5. ClaimInv'
  BY <1>1, <1>2 DEF IInv, CallsOK, ClaimInv, At
<1> QED
  BY <1>2, <1>3, <1>4, <1>5 DEF IInv

\* StateMachine.Record, for any answer at any age.
LEMMA RecordOK ==
    ASSUME IInv, NEW c \in Callers, At(c, "calling"), NEW o \in Outcomes, NEW a \in Nat,
           Record(c, o, a), UNCHANGED <<cred, breaks>>, faults' \in Nat
    PROVE  IInv'
<1>0. cred' \in {"good", "bad"} /\ ~At(c, "torn") /\ MachineOK
  BY DEF IInv, CallsOK, At
<1>1. CASE o = "ok"
  <2>1. RecordSuccess /\ Return(c)
    BY <1>1 DEF Record
  <2>2. MachineOK' /\ strikes' = 0 /\ probe' = 0
    BY <1>0, <2>1, SuccessOK
  <2> QED
    BY <1>0, <2>1, <2>2, ReturnOK, OthersKept, TornOK DEF IInv
<1>2. CASE o = "blameless"
  <2>1. ReleaseProbe /\ Return(c)
    BY <1>2 DEF Record
  <2>2. MachineOK' /\ probe' = 0 /\ state' = state /\ strikes' = strikes
    BY <1>0, <2>1, ReleaseOK
  <2> QED
    BY <1>0, <2>1, <2>2, ReturnOK, OthersKept, TornOK DEF IInv, MachineOK
<1>3. CASE o = "quota"
  <2>1. RateLimited(a) /\ call' = [call EXCEPT ![c].pc = "torn"]
    BY <1>3 DEF Record
  <2>2. MachineOK' /\ probe' = 0
    BY <1>0, <2>1, RateLimitedOK
  <2>3. CallsOK'
    BY <1>0, <2>1 DEF IInv, CallsOK, Call
  <2>4. TornExplains' /\ ClaimInv'
    BY <2>1, <2>2 DEF IInv, CallsOK, TornExplains, ClaimInv, At, Call
  <2> QED
    BY <2>2, <2>3, <2>4 DEF IInv
<1>4. ASSUME NEW auth \in BOOLEAN, RecordError(auth, a), Return(c) PROVE IInv'
  <2>1. MachineOK' /\ state' # "healthy" /\ probe' = probe /\ strikes' = strikes
    BY <1>0, <1>4, ErrorOK
  <2> QED
    BY <1>0, <1>4, <2>1, ReturnOK, OthersKept, TornOK DEF IInv, MachineOK
<1>5. CASE o = "auth"
  BY <1>4, <1>5 DEF Record
<1>6. CASE o = "busy"
  BY <1>4, <1>6 DEF Record
<1> QED
  BY <1>1, <1>2, <1>3, <1>5, <1>6 DEF Outcomes

LEMMA AnswersOK == ASSUME IInv, NEW c \in Callers, NEW o \in Outcomes, Answers(c, o)
                   PROVE  faults' \in Nat
BY DEF IInv, CallsOK, Answers

-----------------------------------------------------------------------------
LEMMA InitOK == Init => IInv
BY TimesAssumption
   DEF Init, IInv, MachineOK, CallsOK, TornExplains, ClaimInv, At, Idle, Call

LEMMA IssueOK == ASSUME IInv, NEW c \in Callers, Issue(c) PROVE IInv'
<1>1. /\ Acquirable /\ c \in Issuers /\ At(c, "idle")
      /\ call' = [call EXCEPT ![c] = [pc |-> "calling", age |-> 0, probe |-> (strikes > 0),
                                      fresh |-> FALSE]]
      /\ probe' = (IF strikes > 0 THEN Grace ELSE probe)
      /\ UNCHANGED <<state, firstAuth, failedFor, rejected, strikes, cooldown, world>>
  BY DEF Issue, Send
<1>2. (strikes > 0) \in BOOLEAN /\ strikes \in Nat
  BY DEF IInv, MachineOK
<1>3. MachineOK'
  BY <1>1, <1>2, TimesAssumption DEF IInv, MachineOK
<1>4. CallsOK'
  BY <1>1, <1>2, TimesAssumption DEF IInv, CallsOK, Call, world
<1>5. TornExplains'
  BY <1>1 DEF IInv, CallsOK, TornExplains, At
<1>6. ClaimInv'
  <2>1. CASE strikes > 0
    <3>1. \A x \in Callers : call'[x].age \in Nat
      BY <1>4 DEF CallsOK, Call
    <3> QED
      BY <1>1, <2>1, <3>1, TimesAssumption DEF ClaimInv
  <2>2. CASE ~(strikes > 0)
    <3>1. probe' = probe /\ probe = 0
      BY <1>1, <1>2, <2>2 DEF IInv, MachineOK
    <3> QED
      BY <3>1 DEF ClaimInv
  <2> QED
    BY <2>1, <2>2
<1> QED
  BY <1>3, <1>4, <1>5, <1>6 DEF IInv

LEMMA ProbeAnswerOK ==
    ASSUME IInv, NEW c \in Callers, NEW o \in Outcomes, ProbeAnswer(c, o)
    PROVE  IInv'
<1>1. At(c, "calling") /\ faults' \in Nat /\ UNCHANGED <<cred, breaks>>
  BY AnswersOK DEF ProbeAnswer
<1>2. cred' \in {"good", "bad"} /\ ~At(c, "torn") /\ MachineOK /\ call[c] \in Call
  BY <1>1, AgeNat DEF IInv, CallsOK, At
<1>3. CASE o = "ok"
  <2>1. /\ RecordSuccess
        /\ call' = [call EXCEPT ![c] =
              IF call[c].fresh THEN [call[c] EXCEPT !.pc = "commit"] ELSE Idle]
    BY <1>3 DEF ProbeAnswer
  <2>2. MachineOK' /\ strikes' = 0 /\ probe' = 0
    BY <1>2, <2>1, SuccessOK
  <2>3. CallsOK'
    <3>1. [call[c] EXCEPT !.pc = "commit"] \in Call /\ [call[c] EXCEPT !.pc = "commit"].age <= CallMax
      BY <1>2 DEF IInv, CallsOK, Call
    <3>2. Idle \in Call /\ Idle.age <= CallMax
      BY TimesAssumption DEF Idle, Call
    <3> QED
      BY <1>1, <1>2, <2>1, <3>1, <3>2 DEF IInv, CallsOK
  <2> QED
    BY <2>2, <2>3 DEF IInv, TornExplains, ClaimInv
<1>4. CASE o = "quota"
  <2>1. Record(c, o, 0)
    BY <1>4 DEF ProbeAnswer
  <2> QED
    BY <1>1, <2>1, RecordOK
<1>5. CASE o \notin {"ok", "quota"}
  <2>1. ReleaseProbe /\ Return(c)
    BY <1>5 DEF ProbeAnswer
  <2>2. MachineOK' /\ probe' = 0 /\ state' = state /\ strikes' = strikes
    BY <1>2, <2>1, ReleaseOK
  <2> QED
    BY <1>1, <1>2, <2>1, <2>2, ReturnOK, OthersKept, TornOK DEF IInv, MachineOK
<1> QED
  BY <1>3, <1>4, <1>5

LEMMA RecordRestOK == ASSUME IInv, NEW c \in Callers, RecordRest(c) PROVE IInv'
<1> DEFINE a == IF c \in Writers THEN 0 ELSE call[c].age
<1>1. RecordError(FALSE, a) /\ Return(c) /\ UNCHANGED world
  BY DEF RecordRest
<1>2. a \in Nat /\ MachineOK /\ cred' \in {"good", "bad"} /\ faults' \in Nat /\ breaks' = breaks
  BY <1>1, AgeNat DEF world, IInv, CallsOK
<1>3. MachineOK' /\ state' # "healthy" /\ probe' = probe
  BY <1>1, <1>2, ErrorOK
<1>4. TornExplains'
  BY <1>3 DEF TornExplains
<1> QED
  BY <1>1, <1>2, <1>3, <1>4, ReturnOK DEF IInv

LEMMA TickOK == ASSUME IInv, Tick PROVE IInv'
<1>1. /\ \A c \in Callers : call[c].pc # "idle" => call[c].age < CallMax
      /\ call' = [c \in Callers |->
            IF call[c].pc = "idle" THEN call[c] ELSE [call[c] EXCEPT !.age = @ + 1]]
      /\ probe' = Greatest(0, probe - 1) /\ cooldown' = Greatest(0, cooldown - 1)
      /\ UNCHANGED <<state, rejected, strikes, world>>
  BY DEF Tick
<1>2. /\ firstAuth' = (IF firstAuth = None THEN None
                       ELSE Least(firstAuth + 1, Threshold + CallMax))
      /\ failedFor' = Least(failedFor + 1, Greatest(CheckInterval, CallMax))
  BY DEF Tick
<1>3. MachineOK'
  <2>1. firstAuth' \in Nat \cup {None} /\ (firstAuth' # None <=> firstAuth # None)
    BY <1>2, TimesAssumption DEF IInv, MachineOK, Least
  <2>2. failedFor' \in Nat
    BY <1>2, TimesAssumption DEF IInv, MachineOK, Least, Greatest
  <2>3. /\ probe' \in 0..Grace /\ cooldown' \in 0..Cap
        /\ probe = 0 => probe' = 0
        /\ cooldown = 0 => cooldown' = 0
    BY <1>1, TimesAssumption DEF IInv, MachineOK, Greatest
  <2> QED
    BY <1>1, <2>1, <2>2, <2>3 DEF IInv, MachineOK
<1>4. \A c \in Callers : /\ call'[c] \in Call /\ call'[c].age <= CallMax
                         /\ call'[c].pc = call[c].pc /\ call'[c].probe = call[c].probe
                         /\ call[c].pc # "idle" => call'[c].age = call[c].age + 1
  BY <1>1, TimesAssumption DEF IInv, CallsOK, Call
<1>5. CallsOK'
  <2>1. call' \in [Callers -> Call]
    BY <1>1, <1>4
  <2> QED
    BY <1>1, <1>4, <2>1 DEF IInv, CallsOK, world
<1>6. TornExplains'
  BY <1>1, <1>4 DEF IInv, TornExplains, At
<1>7. ClaimInv'
  <2>1. SUFFICES ASSUME NEW c \in Callers, call'[c].pc = "calling", call'[c].probe, probe' > 0
                 PROVE  call'[c].age + probe' >= Grace
    BY DEF ClaimInv, At
  <2>2. probe > 0 /\ probe' = probe - 1 /\ probe \in Nat
    BY <1>1, <2>1 DEF IInv, MachineOK, Greatest
  <2>3. call'[c].age = call[c].age + 1 /\ call[c].age \in Nat
    BY <1>4, <2>1, AgeNat
  <2>4. call[c].age + probe >= Grace
    BY <1>4, <2>1, <2>2 DEF IInv, ClaimInv, At
  <2> QED
    BY <2>2, <2>3, <2>4, TimesAssumption
<1> QED
  BY <1>3, <1>5, <1>6, <1>7 DEF IInv

LEMMA NextOK == IInv /\ [Next]_vars => IInv'
<1> SUFFICES ASSUME IInv, [Next]_vars PROVE IInv'
  OBVIOUS
<1>1. ASSUME NEW c \in Callers, Issue(c) PROVE IInv'
  BY <1>1, IssueOK
<1>2. ASSUME NEW c \in Callers, Revoke(c) PROVE IInv'
  BY <1>2, SendOK DEF Revoke
<1>3. ASSUME NEW c \in Callers, HealthCheck(c) PROVE IInv'
  BY <1>3, SendOK DEF HealthCheck
<1>4. ASSUME NEW c \in Callers, ProbeRole(c) PROVE IInv'
  BY <1>4, SendOK DEF ProbeRole
<1>5. ASSUME NEW c \in Callers, ProbeSet(c) PROVE IInv'
  BY <1>5, SendOK DEF ProbeSet
<1>6. ASSUME NEW c \in Callers, NEW o \in Outcomes, Answer(c, o) PROVE IInv'
  BY <1>6, AnswersOK, AgeNat, RecordOK DEF Answer
<1>7. ASSUME NEW c \in Callers, Return(c), At(c, "calling") \/ At(c, "commit"), UNCHANGED machine,
             cred' \in {"good", "bad"}, faults' \in Nat, breaks' = breaks
      PROVE  IInv'
  <2>1. MachineOK' /\ probe' = probe /\ state' = state /\ strikes' = strikes /\ ~At(c, "torn")
    BY <1>7, MachineFrame DEF IInv, machine, At
  <2> QED
    BY <1>7, <2>1, ReturnOK, OthersKept, TornOK DEF IInv, MachineOK
<1>8. ASSUME NEW c \in Callers, NEW o \in Outcomes, CheckAnswer(c, o) PROVE IInv'
  <2>1. /\ At(c, "calling") /\ faults' \in Nat /\ UNCHANGED <<cred, breaks>>
        /\ cred' \in {"good", "bad"} /\ call[c].age \in Nat
    BY <1>8, AnswersOK, AgeNat DEF CheckAnswer, IInv, CallsOK
  <2>2. CASE Record(c, o, call[c].age)
    BY <2>1, <2>2, RecordOK
  <2>3. CASE Return(c) /\ UNCHANGED machine
    BY <1>7, <2>1, <2>3
  <2> QED
    BY <1>8, <2>2, <2>3 DEF CheckAnswer
<1>9. ASSUME NEW c \in Callers, NEW o \in Outcomes, ProbeAnswer(c, o) PROVE IInv'
  BY <1>9, ProbeAnswerOK
<1>10. ASSUME NEW c \in Callers, RecordRest(c) PROVE IInv'
  BY <1>10, RecordRestOK
<1>11. ASSUME NEW c \in Callers, Commit(c) PROVE IInv'
  <2>1. cred' \in {"good", "bad"} /\ faults' \in Nat
    BY <1>11 DEF Commit, IInv, CallsOK
  <2> QED
    BY <1>7, <1>11, <2>1 DEF Commit
<1>12. ASSUME NEW c \in Callers, Abandon(c) PROVE IInv'
  <2>1. cred' \in {"good", "bad"} /\ faults' \in Nat
    BY <1>12 DEF Abandon, IInv, CallsOK
  <2> QED
    BY <1>7, <1>12, <2>1 DEF Abandon
<1>13. ASSUME NEW v \in {"good", "bad"}, Flip(v) PROVE IInv'
  <2>1. MachineOK'
    BY <1>13, MachineFrame DEF Flip, IInv
  <2>2. CallsOK' /\ TornExplains' /\ ClaimInv'
    BY <1>13 DEF Flip, IInv, CallsOK, TornExplains, ClaimInv, machine, At
  <2> QED
    BY <2>1, <2>2 DEF IInv
<1>14. CASE UNCHANGED vars
  BY <1>14, MachineFrame
     DEF vars, machine, world, IInv, CallsOK, TornExplains, ClaimInv, At
<1>15. ASSUME Tick PROVE IInv'
  BY <1>15, TickOK
<1>16. ASSUME NEW c \in Callers, Start(c) \/ Finish(c) PROVE IInv'
  BY <1>1, <1>2, <1>3, <1>4, <1>5, <1>6, <1>8, <1>9, <1>10, <1>11, <1>16 DEF Start, Finish
<1> QED
  BY <1>12, <1>13, <1>14, <1>15, <1>16 DEF Next

\* The inductive invariant holds in every reachable state.
THEOREM Invariance == Spec => []IInv
BY InitOK, NextOK, PTL DEF Spec

\* Every reachable state of the state machine and its callers is well typed;
\* in particular no cooldown exceeds the cap, however many strikes there were
\* and however late they were recorded.
THEOREM TypeCorrect == Spec => []TypeOK
<1>1. IInv => TypeOK
  BY DEF IInv, MachineOK, CallsOK, TypeOK
<1> QED
  BY <1>1, Invariance, PTL

\* However answers interleave, arrive late or tear, Snapshot never shows a
\* state that contradicts itself.
THEOREM SnapshotCoherent == Spec => []Coherent
<1>1. IInv => Coherent
  BY DEF IInv, MachineOK, TornExplains, Coherent
<1> QED
  BY <1>1, Invariance, PTL

\* For any ProbeGrace above the longest call, no half-open claim expires under
\* the probe that holds it.
THEOREM ClaimsOutlastCalls == Spec => []ClaimOutlastsCall
<1>1. IInv => ClaimOutlastsCall
  <2>1. SUFFICES ASSUME IInv, NEW c \in Callers, At(c, "calling"), call[c].probe, probe > 0
                 PROVE  CallMax - call[c].age < probe
    BY DEF ClaimOutlastsCall
  <2>2. call[c].age + probe >= Grace
    BY <2>1 DEF IInv, ClaimInv
  <2>3. call[c].age \in Nat /\ probe \in Nat
    BY <2>1, AgeNat DEF IInv, MachineOK
  <2> QED
    BY <2>2, <2>3, TimesAssumption
<1> QED
  BY <1>1, Invariance, PTL
=============================================================================
