------------------------------ MODULE Breaker ------------------------------
(***************************************************************************)
(* The recovery state machine of one minter (pkg/recovery) and everything  *)
(* that drives it in one plugin: issuance, revocation, the health-check    *)
(* worker, and the capability probes of role and minter-set writes         *)
(* (pkg/capability, plugins/credential-upcloud).                           *)
(*                                                                         *)
(* Each method of StateMachine is one critical section, except that a rate *)
(* limit is recorded in two.  Callers run concurrently: a call is sent in  *)
(* one step and its answer recorded in a later one, stamped with the       *)
(* instant the call BEGAN.  The machine's timestamps only ever matter as   *)
(* differences, so each is kept as the time since, or until, that instant. *)
(*                                                                         *)
(* Left out: state "missing" (RecordMissing has no caller), the Retry-After*)
(* hint (no plugin passes one), lastSuccessAt (an auth_failing machine     *)
(* entered that state after its last success), and the counter             *)
(* consecutiveFailures, which nothing reads but a metric.                  *)
(***************************************************************************)
EXTENDS Integers

CONSTANTS
    Issuers,         \* goroutines serving creds/<role> with this minter
    Revokers,        \* goroutines revoking a lease with this minter
    Checkers,        \* the health-check worker
    Writers,         \* goroutines writing a role or the minter set
    Threshold,       \* AuthFailThreshold
    CheckInterval,   \* HealthCheckInterval
    CallMax,         \* longest time from reading the clock to the answer
    Grace,           \* ProbeGrace
    Base, Cap,       \* RateLimitCooldown, MaxRateLimitCooldown
    None,            \* the zero time.Time
    MaxFaults,       \* bound: answers that are not the credential's doing
    MaxBreaks        \* bound: times the credential stops or starts working

Callers == Issuers \cup Revokers \cup Checkers \cup Writers

ASSUME CallersAssumption ==
    /\ Issuers \cap Revokers = {} /\ Issuers \cap Checkers = {}
    /\ Issuers \cap Writers = {} /\ Revokers \cap Checkers = {}
    /\ Revokers \cap Writers = {} /\ Checkers \cap Writers = {}
ASSUME TimesAssumption ==
    /\ Threshold \in Nat \ {0} /\ CheckInterval \in Nat \ {0}
    /\ CallMax \in Nat /\ Grace \in Nat /\ CallMax < Grace
    /\ Base \in Nat \ {0} /\ Cap \in Nat /\ Base <= Cap
    /\ MaxFaults \in Nat /\ MaxBreaks \in Nat
    /\ None \notin Nat

VARIABLES
    state,        \* sm.state
    firstAuth,    \* time since firstAuthErrorAt, or None
    failedFor,    \* time since enteredAuthFailed
    rejected,     \* consecutiveAuthFailures, of which only 0, 1, many matter
    strikes,      \* rateLimitStrikes
    cooldown,     \* time until cooldownUntil
    probe,        \* time until probeUntil
    call,         \* what each goroutine is doing
    cred,         \* whether the cloud accepts the stored credential
    faults, breaks

machine == <<state, firstAuth, failedFor, rejected, strikes, cooldown, probe>>
world == <<cred, faults, breaks>>
vars == <<machine, call, world>>

\* pc "calling": a request is out; "torn": the first half of a rate limit is
\* recorded; "commit": the set write's probes have passed.  probe says that
\* the goroutine was let through half-open, fresh that it uses a candidate
\* credential, age how long ago it read the clock.
Call == [pc: {"idle", "calling", "torn", "commit"}, age: Nat, probe: BOOLEAN,
         fresh: BOOLEAN]
Idle == [pc |-> "idle", age |-> 0, probe |-> FALSE, fresh |-> FALSE]

Outcomes == {"ok", "auth", "quota", "busy", "blameless"}

Least(a, b) == IF a <= b THEN a ELSE b
Greatest(a, b) == IF a >= b THEN a ELSE b

At(c, l) == call[c].pc = l
Send(c, half, new) ==
    call' = [call EXCEPT ![c] = [pc |-> "calling", age |-> 0, probe |-> half,
                                 fresh |-> new]]
Return(c) == call' = [call EXCEPT ![c] = Idle]

Init ==
    /\ state = "healthy" /\ firstAuth = None /\ failedFor = 0 /\ rejected = 0
    /\ strikes = 0 /\ cooldown = 0 /\ probe = 0
    /\ call = [c \in Callers |-> Idle]
    /\ cred = "good" /\ faults = 0 /\ breaks = 0

-----------------------------------------------------------------------------
(* The methods of StateMachine. *)

serviceable == state \in {"healthy", "transient_failing"}

InRateLimitCooldown == cooldown > 0 \/ strikes > 0

Acquirable == serviceable /\ cooldown = 0 /\ (strikes > 0 => probe = 0)

NeedsHealthCheck == state = "auth_failing" /\ failedFor >= CheckInterval

\* Mutant of RecordSuccess: the strikes are not cleared.
RecordSuccessKeepsStrikes ==
    /\ state' = "healthy" /\ firstAuth' = None /\ rejected' = 0
    /\ cooldown' = 0 /\ probe' = 0
    /\ UNCHANGED <<strikes, failedFor>>

RecordSuccess ==
    /\ state' = "healthy" /\ firstAuth' = None /\ rejected' = 0
    /\ strikes' = 0 /\ cooldown' = 0 /\ probe' = 0
    /\ UNCHANGED failedFor

ReleaseProbe ==
    /\ probe' = 0
    /\ UNCHANGED <<state, firstAuth, failedFor, rejected, strikes, cooldown>>

\* Mutant of CooldownFor: the last doubling is kept though it is past the cap.
CooldownForUncapped(n) ==
    LET backoff == Base * 2^(n - 1)
    IN  (backoff \div 2)..backoff

\* Half the backoff is fixed and half random; strikes counts this refusal.
CooldownFor(n) ==
    LET backoff == Least(Base * 2^(n - 1), Cap)
    IN  (backoff \div 2)..backoff

\* recordRateLimited's own critical section; RecordError(503) follows it.
RateLimited(age) ==
    /\ strikes' = strikes + 1
    /\ \E d \in CooldownFor(strikes + 1) : cooldown' = Greatest(0, d - age)
    /\ probe' = 0
    /\ UNCHANGED <<state, firstAuth, failedFor, rejected>>

\* Mutant of RecordError: the first rejection is overwritten by every later one.
RecordErrorForgetsFirst(auth, age) ==
    /\ rejected' = IF auth THEN Least(rejected + 1, 2) ELSE rejected
    /\ state' = IF state = "healthy" THEN "transient_failing" ELSE state
    /\ firstAuth' = IF auth THEN age ELSE None
    /\ UNCHANGED <<failedFor, strikes, cooldown, probe>>

\* A rejection at least Threshold after the first one benches the minter; any
\* other failure restarts that count.
RecordError(auth, age) ==
    LET since == IF firstAuth = None THEN age ELSE firstAuth IN
    /\ rejected' = IF auth THEN Least(rejected + 1, 2) ELSE rejected
    /\ CASE state = "healthy" ->
              /\ state' = "transient_failing"
              /\ firstAuth' = IF auth THEN age ELSE firstAuth
              /\ UNCHANGED failedFor
         [] state = "transient_failing" /\ auth ->
              /\ firstAuth' = since
              /\ IF since - age >= Threshold
                   THEN state' = "auth_failing" /\ failedFor' = age
                   ELSE UNCHANGED <<state, failedFor>>
         [] state = "transient_failing" /\ ~auth ->
              /\ firstAuth' = None
              /\ UNCHANGED <<state, failedFor>>
         [] OTHER -> UNCHANGED <<state, firstAuth, failedFor>>
    /\ UNCHANGED <<strikes, cooldown, probe>>

-----------------------------------------------------------------------------
(* Sending a call. *)

\* Mutant of Issue: the claim lasts as long as one call, not longer.
IssueShortGrace(c) ==
    /\ c \in Issuers /\ At(c, "idle") /\ Acquirable
    /\ probe' = IF strikes > 0 THEN CallMax ELSE probe
    /\ Send(c, strikes > 0, FALSE)
    /\ UNCHANGED <<state, firstAuth, failedFor, rejected, strikes, cooldown, world>>

\* selectMinter: TryAcquire takes the half-open claim when strikes remain.
Issue(c) ==
    /\ c \in Issuers /\ At(c, "idle") /\ Acquirable
    /\ probe' = IF strikes > 0 THEN Grace ELSE probe
    /\ Send(c, strikes > 0, FALSE)
    /\ UNCHANGED <<state, firstAuth, failedFor, rejected, strikes, cooldown, world>>

\* credentialName failed after the minter was acquired: nothing is recorded.
Abandon(c) ==
    /\ c \in Issuers /\ At(c, "calling") /\ faults < MaxFaults
    /\ Return(c)
    /\ faults' = faults + 1
    /\ UNCHANGED <<machine, cred, breaks>>

\* getMinter: a revoke uses the minter that issued, whatever its state.
Revoke(c) ==
    /\ c \in Revokers /\ At(c, "idle")
    /\ Send(c, FALSE, FALSE)
    /\ UNCHANGED <<machine, world>>

HealthCheck(c) ==
    /\ c \in Checkers /\ At(c, "idle") /\ NeedsHealthCheck
    /\ Send(c, FALSE, FALSE)
    /\ UNCHANGED <<machine, world>>

\* Gate.VerifyRole: no login is spent on a credential already rejected.
ProbeRole(c) ==
    /\ c \in Writers /\ At(c, "idle")
    /\ rejected = 0 /\ ~InRateLimitCooldown
    /\ Send(c, FALSE, FALSE)
    /\ UNCHANGED <<machine, world>>

\* Gate.VerifySet, for a set write that replaces this minter's credential.
ProbeSet(c) ==
    /\ c \in Writers /\ At(c, "idle") /\ ~InRateLimitCooldown
    /\ Send(c, FALSE, TRUE)
    /\ UNCHANGED <<machine, world>>

-----------------------------------------------------------------------------
(* The answer. *)

\* What the cloud may answer: a credential is accepted or rejected, and a
\* fault may strike either way.  A candidate credential is a working one.
Answers(c, o) ==
    \/ /\ o = (IF call[c].fresh \/ cred = "good" THEN "ok" ELSE "auth")
       /\ UNCHANGED faults
    \/ /\ o \in Outcomes \ {"ok"} /\ faults < MaxFaults
       /\ faults' = faults + 1

\* StateMachine.Record, stamped with the instant the call began.
Record(c, o, age) ==
    CASE o = "ok"        -> RecordSuccess /\ Return(c)
      [] o = "blameless" -> ReleaseProbe /\ Return(c)
      [] o = "quota"     -> RateLimited(age) /\ call' = [call EXCEPT ![c].pc = "torn"]
      [] o = "auth"      -> RecordError(TRUE, age) /\ Return(c)
      [] o = "busy"      -> RecordError(FALSE, age) /\ Return(c)

\* Issuance and revocation record every answer.
Answer(c, o) ==
    /\ c \in Issuers \cup Revokers /\ At(c, "calling") /\ Answers(c, o)
    /\ Record(c, o, call[c].age)
    /\ UNCHANGED <<cred, breaks>>

\* Mutant of CheckAnswer: a successful check is not recorded.
CheckAnswerSilent(c, o) ==
    /\ c \in Checkers /\ At(c, "calling") /\ Answers(c, o)
    /\ IF o = "ok" THEN Return(c) /\ UNCHANGED machine ELSE Record(c, o, call[c].age)
    /\ UNCHANGED <<cred, breaks>>

\* The worker records an answer but not the lack of one.
CheckAnswer(c, o) ==
    /\ c \in Checkers /\ At(c, "calling") /\ Answers(c, o)
    /\ \/ Record(c, o, call[c].age)
       \/ /\ o = "busy"
          /\ Return(c) /\ UNCHANGED machine
    /\ UNCHANGED <<cred, breaks>>

\* Limiter.record: a success and a rate limit, stamped now; any other failure
\* only releases the claim.  A passed set write goes on to be stored.
ProbeAnswer(c, o) ==
    /\ c \in Writers /\ At(c, "calling") /\ Answers(c, o)
    /\ CASE o = "ok" ->
              /\ RecordSuccess
              /\ call' = [call EXCEPT ![c] =
                    IF call[c].fresh THEN [@ EXCEPT !.pc = "commit"] ELSE Idle]
         [] o = "quota" -> Record(c, o, 0)
         [] OTHER -> ReleaseProbe /\ Return(c)
    /\ UNCHANGED <<cred, breaks>>

\* The second critical section of recordRateLimited.
RecordRest(c) ==
    /\ At(c, "torn")
    /\ RecordError(FALSE, IF c \in Writers THEN 0 ELSE call[c].age)
    /\ Return(c)
    /\ UNCHANGED world

\* The set write is stored and loadMinterSet keeps this state machine, or the
\* write fails.
Commit(c) ==
    /\ At(c, "commit")
    /\ \/ cred' = "good" /\ UNCHANGED faults
       \/ faults < MaxFaults /\ faults' = faults + 1 /\ UNCHANGED cred
    /\ Return(c)
    /\ UNCHANGED <<machine, breaks>>

-----------------------------------------------------------------------------
\* The stored credential expires, is revoked or locked out, or works again.
Flip(v) ==
    /\ breaks < MaxBreaks /\ cred # v
    /\ cred' = v
    /\ breaks' = breaks + 1
    /\ UNCHANGED <<machine, call, faults>>

\* Time since an instant stops being told apart beyond the longest difference
\* any method compares it with.
Tick ==
    /\ \A c \in Callers : call[c].pc # "idle" => call[c].age < CallMax
    /\ call' = [c \in Callers |->
          IF call[c].pc = "idle" THEN call[c] ELSE [call[c] EXCEPT !.age = @ + 1]]
    /\ firstAuth' = IF firstAuth = None THEN None
                    ELSE Least(firstAuth + 1, Threshold + CallMax)
    /\ failedFor' = Least(failedFor + 1, Greatest(CheckInterval, CallMax))
    /\ cooldown' = Greatest(0, cooldown - 1)
    /\ probe' = Greatest(0, probe - 1)
    /\ UNCHANGED <<state, rejected, strikes, world>>

Start(c) ==
    \/ Issue(c) \/ Revoke(c) \/ HealthCheck(c) \/ ProbeRole(c) \/ ProbeSet(c)

Finish(c) ==
    \/ \E o \in Outcomes : Answer(c, o) \/ CheckAnswer(c, o) \/ ProbeAnswer(c, o)
    \/ RecordRest(c) \/ Commit(c)

Next ==
    \/ \E c \in Callers : Start(c) \/ Finish(c) \/ Abandon(c)
    \/ \E v \in {"good", "bad"} : Flip(v)
    \/ Tick

Spec == Init /\ [][Next]_vars

\* Time passes, calls end, the health-check worker runs, and there is always
\* another request for a credential.  Nobody has to write a role or the set.
Fairness ==
    /\ WF_vars(Tick)
    /\ \A c \in Callers : WF_vars(Finish(c))
    /\ \A c \in Issuers : WF_vars(Issue(c))
    /\ \A c \in Checkers : WF_vars(HealthCheck(c))
FairSpec == Spec /\ Fairness

-----------------------------------------------------------------------------
(* Properties. *)

\* The machine's fields (StateMachine) and the calls in progress have their
\* types; no number of strikes keeps a minter out for longer than
\* MaxRateLimitCooldown, nor does a claim outlast ProbeGrace.
TypeOK ==
    /\ state \in {"healthy", "transient_failing", "auth_failing"}
    /\ firstAuth \in Nat \cup {None} /\ failedFor \in Nat /\ rejected \in 0..2
    /\ strikes \in Nat /\ cooldown \in 0..Cap /\ probe \in 0..Grace
    /\ call \in [Callers -> Call]
    /\ cred \in {"good", "bad"} /\ faults \in Nat /\ breaks \in Nat

\* Snapshot never reports a state that contradicts itself, however the answers
\* interleave: auth_failing rests on two rejections, a healthy minter has none
\* outstanding, a claim or a cooldown belongs to a strike, and a healthy minter
\* has a strike only while a rate limit is half recorded.
Coherent ==
    /\ state = "auth_failing" => rejected = 2
    /\ state = "healthy" => rejected = 0 /\ firstAuth = None
    /\ firstAuth # None => rejected > 0
    /\ strikes = 0 => cooldown = 0 /\ probe = 0
    /\ state = "healthy" /\ strikes > 0 => \E c \in Callers : At(c, "torn")

\* The half-open claim never runs out under a probe still waiting for its
\* answer (ProbeGrace, "so a hung call cannot be double-probed while still in
\* flight"), whoever else released and retook the claim meanwhile.
ClaimOutlastsCall ==
    \A c \in Callers :
        At(c, "calling") /\ call[c].probe /\ probe > 0 => CallMax - call[c].age < probe

\* A minter whose credential the cloud accepts ends up fully available, from
\* whatever cooldown, half-open window or auth_failing it was driven into, and
\* with no write by an operator: the health check and the requests are enough.
BreakerCloses ==
    cred = "good" ~> (cred = "bad" \/ (state = "healthy" /\ strikes = 0))

\* A minter whose credential the cloud rejects stops being selected for
\* issuance: the rejections are counted, whatever other answers come between.
Benched == cred = "bad" ~> (cred = "good" \/ ~serviceable)

\* Limiter and Gate.refuseLoginRejected: a set write is never refused for the
\* old credential's rejections, so an operator who keeps trying to replace the
\* credential gets a probe through.  The operator is assumed here alone, and
\* the strikes of an earlier rate limit still shut it out.
RepairSpec == FairSpec /\ \A c \in Writers : WF_vars(ProbeSet(c))
Repairable ==
    state = "auth_failing" ~> (state # "auth_failing" \/ \E c \in Writers : call[c].fresh)

-----------------------------------------------------------------------------
(* The inductive invariant behind the safety properties. *)

\* The part of TypeOK and Coherent that is about the state machine alone.
MachineOK ==
    /\ state \in {"healthy", "transient_failing", "auth_failing"}
    /\ firstAuth \in Nat \cup {None} /\ failedFor \in Nat /\ rejected \in 0..2
    /\ strikes \in Nat /\ cooldown \in 0..Cap /\ probe \in 0..Grace
    /\ state = "auth_failing" => rejected = 2
    /\ state = "healthy" => rejected = 0 /\ firstAuth = None
    /\ firstAuth # None => rejected > 0
    /\ strikes = 0 => cooldown = 0 /\ probe = 0

CallsOK ==
    /\ call \in [Callers -> Call]
    /\ \A c \in Callers : call[c].age <= CallMax
    /\ cred \in {"good", "bad"} /\ faults \in Nat /\ breaks \in Nat

TornExplains == state = "healthy" /\ strikes > 0 => \E c \in Callers : At(c, "torn")

\* A probe and the claim it took began together, so between them they always
\* account for the whole grace, unless a later probe retook the claim.
ClaimInv ==
    \A c \in Callers :
        At(c, "calling") /\ call[c].probe /\ probe > 0 => call[c].age + probe >= Grace

IInv == MachineOK /\ CallsOK /\ TornExplains /\ ClaimInv
=============================================================================
