------------------------------- MODULE Roles -------------------------------
(***************************************************************************)
(* Writing the configuration credentials are issued from: the role of a    *)
(* mount, the minter set it is bound to, and the capability gate through   *)
(* which both writes pass.  These are the parts that CloudRoles puts       *)
(* together, cloud by cloud.                                               *)
(*                                                                         *)
(* A write is a read, a fan-out of probe mints at the cloud and a put, and *)
(* nothing holds a lock from its beginning to its end.  The gate lets a    *)
(* recent verdict stand in for a probe, and shares the rate-limit state of *)
(* each minter with issuance, whose reads, like the clock, the health      *)
(* check and the cache sweep, run while a write is in flight.              *)
(*                                                                         *)
(* Simplifications: one role and the set it names; a role is its disabled  *)
(* flag and its scope, which stands for every other field; only selectable *)
(* minters are members of the set (MinterSet models the retired ones).     *)
(***************************************************************************)
EXTENDS Integers, FiniteSets, FiniteSetsExt

CONSTANTS
    Clouds,        \* which clouds the mount may be of
    Rotating,      \* those whose minters can be rotated
    Procs,         \* goroutines serving writes
    Minters,       \* minter ids, in the order of their names
    Creds,         \* credentials a minter id may stand for
    Scopes,        \* what a role may ask for besides its disabled flag
    Configs,       \* [enabled, ttl]: verify_minter_capability, capability_cache_ttl
    DefaultConfig, \* of a mount that was never configured
    NoRole, NoCred, NoVerdict, \* nothing stored
    Unset,         \* a field the request does not carry
    Shapeless,     \* the mint shape where no role field reaches the cloud
    MaxTime,       \* bound: last instant of the clock
    MaxProbes,     \* bound: probes that minted
    MaxWrites      \* bound: role, set, config writes and rotations

ASSUME RolesAssumption ==
    /\ Minters \subseteq Nat /\ IsFiniteSet(Minters) /\ Minters # {}
    /\ Unset \notin BOOLEAN \cup Scopes /\ Shapeless \notin Scopes /\ NoCred \notin Creds
    /\ Configs \subseteq [enabled : BOOLEAN, ttl : Nat] /\ DefaultConfig \in Configs
    /\ NoRole \notin [disabled : BOOLEAN, scope : Scopes]
    /\ NoVerdict \notin [cred : Creds, at : Nat]
    /\ MaxTime \in Nat /\ MaxProbes \in Nat /\ MaxWrites \in Nat

VARIABLES
    cloud,     \* the cloud of the mount, which never changes
    role,      \* the role in storage
    set,       \* the minter set in storage: the credential of each member
    cache,     \* storage under the capability cache's prefix
    health,    \* recovery state of each member: cooldown and rejected logins
    config,    \* the two settings of the gate, in memory
    req,       \* what each goroutine is writing
    proofs,    \* ghost: which credential minted what, and when
    waived,    \* ghost: a write passed while verification was turned off
    writes, now

vars == <<cloud, role, set, cache, health, config, req, proofs, waived, writes, now>>

Shapes == Scopes \cup {Shapeless}
Role == [disabled : BOOLEAN, scope : Scopes]
MinterSet == [Minters -> Creds \cup {NoCred}]
Check == [minter : Minters, cred : Creds, shape : Shapes]
Fresh0 == [cooldown |-> "none", rejected |-> FALSE]

EmptySet == [m \in Minters |-> NoCred]
ActiveMinters(s) == {m \in Minters : s[m] # NoCred}

NoReq == [pc |-> "idle", body |-> [disabled |-> Unset, scope |-> Unset], role |-> NoRole,
          set |-> EmptySet, cand |-> EmptySet, todo |-> {}, ttl |-> 0]

Init ==
    /\ cloud \in Clouds /\ config = DefaultConfig
    /\ role = NoRole /\ set = EmptySet
    /\ cache = [c \in Minters \X Shapes |-> NoVerdict]
    /\ health = [m \in Minters |-> Fresh0]
    /\ req = [p \in Procs |-> NoReq]
    /\ proofs = {} /\ waived = FALSE /\ writes = 0 /\ now = 0

-----------------------------------------------------------------------------
(* The verdict cache and the limiter.                                       *)

\* Mutant of Fresh: the fingerprint of the credential is not compared.
FreshById(c, ttl) ==
    LET v == cache[<<c.minter, c.shape>>] IN ttl > 0 /\ v # NoVerdict /\ now - v.at <= ttl

Fresh(c, ttl) ==
    LET v == cache[<<c.minter, c.shape>>]
    IN ttl > 0 /\ v # NoVerdict /\ v.cred = c.cred /\ now - v.at <= ttl

Store(c, ttl) ==
    IF ttl = 0 THEN cache
    ELSE [cache EXCEPT ![<<c.minter, c.shape>>] = [cred |-> c.cred, at |-> now]]

\* PruneCache, run by every reconcile worker.
SweepCache ==
    /\ LET Dead(v) == v # NoVerdict /\ (config.ttl = 0 \/ now - v.at > config.ttl)
       IN /\ \E k \in DOMAIN cache : Dead(cache[k])
          /\ cache' = [k \in DOMAIN cache |-> IF Dead(cache[k]) THEN NoVerdict ELSE cache[k]]
    /\ UNCHANGED <<cloud, role, set, health, config, req, proofs, waived, writes, now>>

\* A member has a state machine; a candidate that is not one has none.
InRateLimitCooldown(m) == set[m] # NoCred /\ health[m].cooldown # "none"
LoginRejected(m) == set[m] # NoCred /\ health[m].rejected

\* Mutant of StatesOf: a minter that leaves the set keeps its state.
StatesOfAll(s) == health

\* loadMinterSet: a known minter carries its state forward.
StatesOf(s) == [m \in Minters |-> IF set[m] # NoCred /\ s[m] # NoCred THEN health[m] ELSE Fresh0]

Record(m, outcome) ==
    IF set[m] = NoCred THEN health
    ELSE CASE outcome = "minted" -> [health EXCEPT ![m] = Fresh0]
           [] outcome = "quota" -> [health EXCEPT ![m].cooldown = "open"]
           [] OTHER -> health

-----------------------------------------------------------------------------
(* Role writes.                                                             *)

Bodies == [disabled : BOOLEAN \cup {Unset}, scope : Scopes \cup {Unset}]

\* Fields the request does not carry are those of the stored role, or the
\* defaults of the schema where there is none.
PrefillRoleWrite(stored, b) ==
    [disabled |-> IF b.disabled # Unset THEN b.disabled
                  ELSE IF stored = NoRole THEN FALSE ELSE stored.disabled,
     scope |-> IF b.scope # Unset \/ stored = NoRole THEN b.scope ELSE stored.scope]

Begin(p, r) ==
    /\ req[p] = NoReq /\ writes < MaxWrites
    /\ req' = [req EXCEPT ![p] = r] /\ writes' = writes + 1
    /\ UNCHANGED <<cloud, role, set, cache, health, config, proofs, waived, now>>

\* The write is read, prefilled and validated.
BeginRoleWrite(p) ==
    \E b \in Bodies :
        LET r == PrefillRoleWrite(role, b) IN
        /\ b.disabled # Unset \/ b.scope # Unset
        /\ r.scope # Unset
        /\ Begin(p, [NoReq EXCEPT !.pc = "role", !.body = b, !.role = r])

Done(p) == req' = [req EXCEPT ![p] = NoReq]

StoreRole(p) ==
    /\ req[p].pc = "probe" /\ req[p].todo = {} /\ req[p].role # NoRole
    /\ role' = req[p].role /\ Done(p)
    /\ UNCHANGED <<cloud, set, cache, health, config, proofs, waived, writes, now>>

RoleWrite(p) == BeginRoleWrite(p) \/ StoreRole(p)

RoleDelete(p) ==
    /\ req[p] = NoReq /\ role # NoRole
    /\ role' = NoRole
    /\ UNCHANGED <<cloud, set, cache, health, config, req, proofs, waived, writes, now>>

-----------------------------------------------------------------------------
(* The gate.                                                                *)

\* Mutant of ChecksPerMinter: one minter stands for the set.
ChecksOneMinter(s, shape) ==
    {[minter |-> m, cred |-> s[m], shape |-> shape] :
        m \in {n \in ActiveMinters(s) : \A k \in ActiveMinters(s) : n <= k}}

ChecksPerMinter(s, shape) ==
    {[minter |-> m, cred |-> s[m], shape |-> shape] : m \in ActiveMinters(s)}

\* The roles a set write must prove its minters for.
RolesBoundTo == IF role = NoRole \/ role.disabled THEN {} ELSE {role}

Gated(p, checks) ==
    /\ req' = [req EXCEPT ![p].pc = "probe", ![p].ttl = config.ttl,
                          ![p].todo = IF config.enabled THEN checks ELSE {}]
    /\ waived' = (waived \/ ~config.enabled)
    /\ UNCHANGED <<cloud, role, set, cache, health, config, proofs, writes, now>>

Refuse(p) ==
    /\ Done(p)
    /\ UNCHANGED <<cloud, role, set, cache, health, config, proofs, waived, writes, now>>

\* The set must exist whatever the gate thinks of it.  A disabled role is not
\* probed, and an enabled one is refused while a minter's login is rejected.
VerifyRole(p, checks) ==
    /\ req[p].pc = "role"
    /\ LET probed == config.enabled /\ ~req[p].role.disabled IN
       \/ set = EmptySet /\ Refuse(p)
       \/ set # EmptySet /\ ~probed /\ Gated(p, {})
       \/ set # EmptySet /\ probed /\ (\E m \in ActiveMinters(set) : LoginRejected(m)) /\ Refuse(p)
       \/ /\ set # EmptySet /\ probed /\ ~\E m \in ActiveMinters(set) : LoginRejected(m)
          /\ Gated(p, checks)

\* Both a set write and a rotation: the minters to prove are req[p].cand.
VerifySet(p, checks) == req[p].pc = "set" /\ Gated(p, checks)

-----------------------------------------------------------------------------
(* Runner.Verify: the checks in the order of their keys, the first failure  *)
(* ending the write.                                                        *)

Next1(p) == CHOOSE c \in req[p].todo : \A d \in req[p].todo : c.minter <= d.minter

Passed(p, c) == req' = [req EXCEPT ![p].todo = @ \ {c}]

Probing(p) == req[p].pc = "probe" /\ req[p].todo # {}

UseVerdict(p) ==
    /\ Probing(p) /\ Fresh(Next1(p), req[p].ttl)
    /\ Passed(p, Next1(p))
    /\ UNCHANGED <<cloud, role, set, cache, health, config, proofs, waived, writes, now>>

Throttled(p) ==
    /\ Probing(p) /\ ~Fresh(Next1(p), req[p].ttl) /\ InRateLimitCooldown(Next1(p).minter)
    /\ Refuse(p)

MayProbe(p) ==
    /\ Probing(p) /\ ~Fresh(Next1(p), req[p].ttl) /\ ~InRateLimitCooldown(Next1(p).minter)

ProbeMint(p) ==
    LET c == Next1(p) IN
    /\ MayProbe(p)
    /\ \/ /\ Cardinality(proofs) < MaxProbes
          /\ Passed(p, c) /\ cache' = Store(c, req[p].ttl)
          /\ health' = Record(c.minter, "minted")
          /\ proofs' = proofs \cup {[cred |-> c.cred, shape |-> c.shape, at |-> now]}
       \/ /\ Done(p) /\ \E o \in {"refused", "quota"} : health' = Record(c.minter, o)
          /\ UNCHANGED <<cache, proofs>>
    /\ UNCHANGED <<cloud, role, set, config, waived, writes, now>>

\* A cloud that cannot be probed: the check is skipped and proves nothing.
ProbeUnsupported(p) ==
    /\ MayProbe(p) /\ Passed(p, Next1(p))
    /\ UNCHANGED <<cloud, role, set, cache, health, config, proofs, waived, writes, now>>

-----------------------------------------------------------------------------
(* The writes of the set, as far as the gate sees them.                     *)

BeginSetWrite(p) ==
    \E s \in MinterSet \ {EmptySet} : Begin(p, [NoReq EXCEPT !.pc = "set", !.set = s, !.cand = s])

\* The successor takes a new id and is proved alone.
BeginRotate(p) ==
    \E m \in ActiveMinters(set), n \in Minters \ ActiveMinters(set), k \in Creds :
        /\ cloud \in Rotating
        /\ \A i \in Minters : set[i] # k
        /\ Begin(p, [NoReq EXCEPT !.pc = "set", !.set = [set EXCEPT ![m] = NoCred, ![n] = k],
                                  !.cand = [EmptySet EXCEPT ![n] = k]])

StoreSet(p) ==
    /\ req[p].pc = "probe" /\ req[p].todo = {} /\ req[p].role = NoRole
    /\ set' = req[p].set /\ health' = StatesOf(req[p].set) /\ Done(p)
    /\ UNCHANGED <<cloud, role, cache, config, proofs, waived, writes, now>>

SetDelete(p) ==
    /\ req[p] = NoReq /\ set # EmptySet
    /\ set' = EmptySet /\ health' = StatesOf(EmptySet)
    /\ UNCHANGED <<cloud, role, cache, config, req, proofs, waived, writes, now>>

-----------------------------------------------------------------------------
(* What runs beside a write.                                                *)

\* Issuance draws a minter: TryAcquire, the mint, Record.
Issue ==
    /\ role # NoRole /\ ~role.disabled
    /\ \E m \in ActiveMinters(set) :
        /\ health[m].cooldown # "open"
        /\ \/ health' = Record(m, "minted")
           \/ health' = Record(m, "quota")
           \/ health' = [health EXCEPT ![m].rejected = TRUE]
    /\ health' # health
    /\ UNCHANGED <<cloud, role, set, cache, config, req, proofs, waived, writes, now>>

\* A minter found failing authentication is tried again by the health check.
HealthCheck ==
    /\ \E m \in ActiveMinters(set) : LoginRejected(m) /\ health' = Record(m, "minted")
    /\ UNCHANGED <<cloud, role, set, cache, config, req, proofs, waived, writes, now>>

\* The cooldown runs out: the strikes that opened it remain.
WindowEnds ==
    /\ \E m \in Minters :
        health[m].cooldown = "open" /\ health' = [health EXCEPT ![m].cooldown = "half-open"]
    /\ UNCHANGED <<cloud, role, set, cache, config, req, proofs, waived, writes, now>>

ConfigWrite ==
    /\ writes < MaxWrites /\ writes' = writes + 1
    /\ config' \in Configs \ {config}
    /\ UNCHANGED <<cloud, role, set, cache, health, req, proofs, waived, now>>

\* The backend is rebuilt: requests and the states of the minters are gone.
Reload ==
    /\ req # [p \in Procs |-> NoReq] \/ health # [m \in Minters |-> Fresh0]
    /\ req' = [p \in Procs |-> NoReq] /\ health' = [m \in Minters |-> Fresh0]
    /\ UNCHANGED <<cloud, role, set, cache, config, proofs, waived, writes, now>>

Tick ==
    /\ now < MaxTime /\ now' = now + 1
    /\ UNCHANGED <<cloud, role, set, cache, health, config, req, proofs, waived, writes>>
=============================================================================
