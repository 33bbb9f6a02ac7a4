------------------------- MODULE CloudRoles_proofs -------------------------
(***************************************************************************)
(* Proofs, for every cloud and every number of minters, credentials,       *)
(* scopes, settings and concurrent writes, of what the capability gate     *)
(* keeps true; and, where writes do not overlap, of what it is for.        *)
(***************************************************************************)
EXTENDS CloudRoles, TLAPS

-----------------------------------------------------------------------------
(* The ten plugins, reduced to the operations of Roles.                     *)

\* A set write or a rotation enters the gate with at least the checks its
\* candidates need for the enabled role.
SetGate(p) ==
    \E C \in SUBSET Check :
        /\ VerifySet(p, C)
        /\ cloud # "oci" => \A r \in RolesBoundTo, m \in ActiveMinters(req[p].cand) :
              [minter |-> m, cred |-> req[p].cand[m], shape |-> Shape(r)] \in C

\* A role write enters it with a check of every member of the set.
RoleGate(p) ==
    \E C \in SUBSET Check :
        /\ VerifyRole(p, C)
        /\ cloud # "oci" => \A m \in ActiveMinters(set) :
              [minter |-> m, cred |-> set[m], shape |-> Shape(req[p].role)] \in C

WriteStep(p) ==
    \/ BeginRoleWrite(p) \/ StoreRole(p) \/ RoleDelete(p)
    \/ BeginSetWrite(p) \/ BeginRotate(p) \/ StoreSet(p) \/ SetDelete(p)

ProbeStep(p) ==
    \/ SetGate(p) \/ RoleGate(p) \/ UseVerdict(p) \/ Throttled(p) \/ ProbeMint(p)
    \/ cloud = "oci" /\ ProbeUnsupported(p)

Beside == SweepCache \/ ConfigWrite \/ Issue \/ HealthCheck \/ WindowEnds \/ Tick

\* What the checks of a write are, in the clouds whose mint call a role's fields
\* reach and in those where they do not.
LEMMA ScopedChecks ==
    ASSUME NEW s \in MinterSet, NEW r \in Role, cloud \notin {"oci", "ovh", "upcloud"}
    PROVE  /\ ChecksPerMinter(s, r.scope) \subseteq Check
           /\ \A m \in ActiveMinters(s) :
                 [minter |-> m, cred |-> s[m], shape |-> Shape(r)] \in ChecksPerMinter(s, r.scope)
BY RolesAssumption DEF ChecksPerMinter, Check, Shapes, ActiveMinters, MinterSet, Role, Shape

LEMMA ShapelessChecks ==
    ASSUME NEW s \in MinterSet, NEW r, cloud \in {"oci", "ovh", "upcloud"}
    PROVE  /\ ChecksPerMinter(s, Shapeless) \subseteq Check
           /\ \A m \in ActiveMinters(s) :
                 [minter |-> m, cred |-> s[m], shape |-> Shape(r)] \in ChecksPerMinter(s, Shapeless)
BY RolesAssumption DEF ChecksPerMinter, Check, Shapes, ActiveMinters, MinterSet, Shape

\* The gate of a cloud that proves the scopes of roles.
LEMMA ScopedGate ==
    ASSUME IInv, NEW p \in Procs, cloud \notin {"oci", "ovh", "upcloud"},
           \/ VerifySet(p, UNION {ChecksPerMinter(req[p].cand, r.scope) : r \in RolesBoundTo})
           \/ VerifyRole(p, ChecksPerMinter(set, req[p].role.scope))
    PROVE  SetGate(p) \/ RoleGate(p)
<1>0. req[p] \in Req /\ set \in MinterSet /\ req[p].cand \in MinterSet /\ RolesBoundTo \subseteq Role
  BY DEF IInv, TypeOK, Req, RolesBoundTo
<1>1. CASE VerifySet(p, UNION {ChecksPerMinter(req[p].cand, r.scope) : r \in RolesBoundTo})
  <2> DEFINE C == UNION {ChecksPerMinter(req[p].cand, r.scope) : r \in RolesBoundTo}
  <2>1. C \subseteq Check
    BY <1>0, ScopedChecks
  <2>2. \A r \in RolesBoundTo, m \in ActiveMinters(req[p].cand) :
           [minter |-> m, cred |-> req[p].cand[m], shape |-> Shape(r)] \in C
    BY <1>0, ScopedChecks
  <2> QED
    BY <1>1, <2>1, <2>2 DEF SetGate
<1>2. CASE VerifyRole(p, ChecksPerMinter(set, req[p].role.scope))
  <2>1. req[p].role \in Role
    BY <1>0, <1>2 DEF VerifyRole, IInv, Req
  <2> QED
    BY <1>0, <1>2, <2>1, ScopedChecks DEF RoleGate
<1> QED
  BY <1>1, <1>2

\* The gate of a cloud where every role's mint call is the same.
LEMMA ShapelessGate ==
    ASSUME IInv, NEW p \in Procs, cloud \in {"oci", "ovh", "upcloud"},
           \/ VerifySet(p, UNION {ChecksPerMinter(req[p].cand, Shapeless) : r \in RolesBoundTo})
           \/ VerifyRole(p, ChecksPerMinter(set, Shapeless))
    PROVE  SetGate(p) \/ RoleGate(p)
<1>0. req[p] \in Req /\ set \in MinterSet /\ req[p].cand \in MinterSet
  BY DEF IInv, TypeOK, Req
<1>1. CASE VerifySet(p, UNION {ChecksPerMinter(req[p].cand, Shapeless) : r \in RolesBoundTo})
  <2> DEFINE C == UNION {ChecksPerMinter(req[p].cand, Shapeless) : r \in RolesBoundTo}
  <2>1. C \subseteq Check
    BY <1>0, ShapelessChecks
  <2>2. \A r \in RolesBoundTo, m \in ActiveMinters(req[p].cand) :
           [minter |-> m, cred |-> req[p].cand[m], shape |-> Shape(r)] \in C
    BY <1>0, ShapelessChecks
  <2> QED
    BY <1>1, <2>1, <2>2 DEF SetGate
<1>2. CASE VerifyRole(p, ChecksPerMinter(set, Shapeless))
  BY <1>0, <1>2, ShapelessChecks DEF RoleGate
<1> QED
  BY <1>1, <1>2

\* Every step of every plugin is one of the shared operations.
LEMMA Shared ==
    ASSUME IInv, Next
    PROVE  Beside \/ Reload \/ \E p \in Procs : WriteStep(p) \/ ProbeStep(p)
<1>1. ASSUME NEW p \in Procs,
             \/ AkamaiProbeMint(p) \/ AWSProbeMint(p) \/ AzureProbeMint(p) \/ DOProbeMint(p)
             \/ ExoscaleProbeMint(p) \/ GCPProbeMint(p) \/ OCIProbeMint(p) \/ OVHProbeMint(p)
             \/ UpCloudProbeMint(p) \/ VultrProbeMint(p) \/ UseVerdict(p) \/ Throttled(p)
      PROVE  ProbeStep(p)
  BY <1>1 DEF ProbeStep, AkamaiProbeMint, AWSProbeMint, AzureProbeMint, DOProbeMint, ExoscaleProbeMint,
     GCPProbeMint, OCIProbeMint, OVHProbeMint, UpCloudProbeMint, VultrProbeMint
<1>2. ASSUME NEW p \in Procs,
             \/ AkamaiVerify(p) \/ AWSVerify(p) \/ AzureVerify(p) \/ DOVerify(p)
             \/ ExoscaleVerify(p) \/ GCPVerify(p) \/ VultrVerify(p)
      PROVE  ProbeStep(p)
  BY <1>2, ScopedGate DEF ProbeStep, AkamaiVerify, AWSVerify, AzureVerify, DOVerify, ExoscaleVerify,
     GCPVerify, VultrVerify, AkamaiCapabilityChecks, AWSCapabilityChecks, AzureCapabilityChecks,
     DOCapabilityChecks, ExoscaleCapabilityChecks, GCPCapabilityChecks, VultrCapabilityChecks
<1>3. ASSUME NEW p \in Procs, OCIVerify(p) \/ OVHVerify(p) \/ UpCloudVerify(p) PROVE ProbeStep(p)
  BY <1>3, ShapelessGate DEF ProbeStep, OCIVerify, OVHVerify, UpCloudVerify, OCICapabilityChecks,
     OVHCapabilityChecks, UpCloudCapabilityChecks
<1>4. ASSUME NEW p \in Procs,
             \/ AkamaiRoleWrite(p) \/ AWSRoleWrite(p) \/ AzureRoleWrite(p) \/ DORoleWrite(p)
             \/ ExoscaleRoleWrite(p) \/ GCPRoleWrite(p) \/ OCIRoleWrite(p) \/ OVHRoleWrite(p)
             \/ UpCloudRoleWrite(p) \/ VultrRoleWrite(p)
             \/ BeginSetWrite(p) \/ BeginRotate(p) \/ StoreSet(p) \/ SetDelete(p)
      PROVE  WriteStep(p)
  BY <1>4 DEF WriteStep, RoleWrite, AkamaiRoleWrite, AWSRoleWrite, AzureRoleWrite, DORoleWrite,
     ExoscaleRoleWrite, GCPRoleWrite, OCIRoleWrite, OVHRoleWrite, UpCloudRoleWrite, VultrRoleWrite
<1>5. ASSUME NEW p \in Procs,
             \/ AkamaiRoleDelete(p) \/ AWSRoleDelete(p) \/ AzureRoleDelete(p) \/ DORoleDelete(p)
             \/ ExoscaleRoleDelete(p) \/ GCPRoleDelete(p) \/ OCIRoleDelete(p) \/ OVHRoleDelete(p)
             \/ UpCloudRoleDelete(p) \/ VultrRoleDelete(p)
      PROVE  WriteStep(p)
  BY <1>5 DEF WriteStep, AkamaiRoleDelete, AWSRoleDelete, AzureRoleDelete, DORoleDelete,
     ExoscaleRoleDelete, GCPRoleDelete, OCIRoleDelete, OVHRoleDelete, UpCloudRoleDelete, VultrRoleDelete
<1> QED
  BY <1>1, <1>2, <1>3, <1>4, <1>5 DEF Next, Beside

-----------------------------------------------------------------------------
(* Types, and the verdicts behind what is cached.                           *)

\* A request record built from NoReq, and the empty set, have their types.
LEMMA NoReqOK == NoReq \in Req /\ NoReq.pc = "idle" /\ EmptySet \in MinterSet /\ ActiveMinters(EmptySet) = {}
BY DEF NoReq, Req, Bodies, EmptySet, MinterSet, ActiveMinters

LEMMA InitInv == Init => IInv
<1> SUFFICES ASSUME Init PROVE IInv
  OBVIOUS
<1>1. req \in [Procs -> Req] /\ \A p \in Procs : req[p] = NoReq
  BY NoReqOK DEF Init
<1>2. health \in [Minters -> [cooldown : {"none", "open", "half-open"}, rejected : BOOLEAN]]
      /\ \A m \in Minters : health[m] = Fresh0
  BY DEF Init, Fresh0
<1>3. cache = [k \in Minters \X Shapes |-> cache[k]]
      /\ \A m \in Minters, s \in Shapes : cache[<<m, s>>] = NoVerdict
  BY DEF Init
<1>4. set \in MinterSet /\ config \in Configs
  BY NoReqOK, RolesAssumption DEF Init
<1>5. \A p \in Procs :
          /\ req[p].pc \in {"idle", "role", "set", "probe"} /\ req[p].body \in Bodies
          /\ req[p].role \in Role \cup {NoRole} /\ req[p].set \in MinterSet
          /\ req[p].cand \in MinterSet /\ req[p].todo \subseteq Check /\ req[p].ttl \in Nat
  BY <1>1 DEF Req
<1>6. /\ cloud \in Clouds /\ role = NoRole /\ proofs = {} /\ waived = FALSE
      /\ writes \in 0..MaxWrites /\ now \in 0..MaxTime
  BY RolesAssumption DEF Init
<1>7. TypeOK
  BY <1>2, <1>3, <1>4, <1>5, <1>6 DEF TypeOK
<1> QED
  BY <1>1, <1>3, <1>7, NoReqOK DEF IInv

\* What a prefilled role is: the fields a request does not carry come from the
\* stored role or the schema.
LEMMA PrefillOK ==
    ASSUME NEW stored \in Role \cup {NoRole}, NEW b \in Bodies, PrefillRoleWrite(stored, b).scope # Unset
    PROVE  PrefillRoleWrite(stored, b) \in Role
BY RolesAssumption DEF PrefillRoleWrite, Bodies, Role

\* Changing the request of one goroutine for another that is typed.
LEMMA ReqStep ==
    ASSUME IInv, NEW p \in Procs, NEW r \in Req, req' = [req EXCEPT ![p] = r],
           r.pc = "role" => r.role # NoRole
    PROVE  /\ req' \in [Procs -> Req]
           /\ req'[p] = r /\ \A q \in Procs \ {p} : req'[q] = req[q]
           /\ \A q \in Procs : req'[q].pc = "role" => req'[q].role # NoRole
           /\ \A q \in Procs :
                /\ req'[q].pc \in {"idle", "role", "set", "probe"} /\ req'[q].body \in Bodies
                /\ req'[q].role \in Role \cup {NoRole} /\ req'[q].set \in MinterSet
                /\ req'[q].cand \in MinterSet /\ req'[q].todo \subseteq Check /\ req'[q].ttl \in Nat
<1>1. req' \in [Procs -> Req] /\ req'[p] = r /\ \A q \in Procs \ {p} : req'[q] = req[q]
  BY DEF IInv
<1>2. \A q \in Procs : req'[q].pc = "role" => req'[q].role # NoRole
  BY <1>1 DEF IInv
<1> QED
  BY <1>1, <1>2 DEF Req

\* The recovery states a reload of the set carries forward, and those a result
\* recorded for a minter leaves.
Healths == [Minters -> [cooldown : {"none", "open", "half-open"}, rejected : BOOLEAN]]

LEMMA StatesOK ==
    ASSUME IInv, NEW s \in MinterSet
    PROVE  StatesOf(s) \in Healths /\ \A m \in Minters : StatesOf(s)[m] # Fresh0 => s[m] # NoCred
BY DEF IInv, TypeOK, StatesOf, Fresh0, Healths

LEMMA RecordOK ==
    ASSUME IInv, NEW m0, NEW o
    PROVE  Record(m0, o) \in Healths /\ \A m \in Minters : Record(m0, o)[m] # Fresh0 => set[m] # NoCred
<1>1. health \in Healths /\ \A m \in Minters : health[m] # Fresh0 => set[m] # NoCred
  BY DEF IInv, TypeOK, Healths
<1>2. Fresh0 \in [cooldown : {"none", "open", "half-open"}, rejected : BOOLEAN]
  BY DEF Fresh0
<1>3. CASE Record(m0, o) = health
  BY <1>1, <1>3
<1>4. CASE Record(m0, o) = [health EXCEPT ![m0] = Fresh0]
  BY <1>1, <1>2, <1>4 DEF Healths
<1>5. CASE set[m0] # NoCred /\ Record(m0, o) = [health EXCEPT ![m0].cooldown = "open"]
  <2>1. \A m \in Minters \ {m0} : Record(m0, o)[m] = health[m]
    BY <1>1, <1>5 DEF Healths
  <2>2. Record(m0, o) \in Healths
    BY <1>1, <1>5 DEF Healths
  <2> QED
    BY <1>1, <1>5, <2>1, <2>2
<1> QED
  BY <1>3, <1>4, <1>5 DEF Record

\* The steps that begin, drop or store a write.
LEMMA WriteInv == ASSUME IInv, NEW p \in Procs, WriteStep(p) PROVE IInv'
<1> USE RolesAssumption DEF IInv, TypeOK
<1>0. req[p] \in Req /\ NoReq \in Req /\ NoReq.pc = "idle" /\ NoReq.role = NoRole
  BY NoReqOK DEF NoReq
<1>1. ASSUME NEW r \in Req, r.pc = "role" => r.role # NoRole, Begin(p, r) PROVE IInv'
  <2>1. req' = [req EXCEPT ![p] = r] /\ UNCHANGED <<cloud, role, set, cache, health, config, proofs, waived, now>>
    BY <1>1 DEF Begin
  <2>2. writes' \in 0..MaxWrites
    BY <1>1 DEF Begin
  <2> QED
    BY <1>1, <2>1, <2>2, ReqStep
<1>2. CASE BeginRoleWrite(p)
  <2>1. PICK b \in Bodies : /\ PrefillRoleWrite(role, b).scope # Unset
                            /\ Begin(p, [NoReq EXCEPT !.pc = "role", !.body = b, !.role = PrefillRoleWrite(role, b)])
    BY <1>2 DEF BeginRoleWrite
  <2>2. PrefillRoleWrite(role, b) \in Role
    BY <2>1, PrefillOK
  <2> DEFINE r == [NoReq EXCEPT !.pc = "role", !.body = b, !.role = PrefillRoleWrite(role, b)]
  <2>3. r \in Req /\ r.role # NoRole
    BY <1>0, <2>2 DEF Req, Role
  <2> QED
    BY <1>1, <2>1, <2>3
<1>3. CASE BeginSetWrite(p)
  <2>1. PICK s \in MinterSet : Begin(p, [NoReq EXCEPT !.pc = "set", !.set = s, !.cand = s])
    BY <1>3 DEF BeginSetWrite
  <2> DEFINE r == [NoReq EXCEPT !.pc = "set", !.set = s, !.cand = s]
  <2>2. r \in Req /\ r.pc = "set"
    BY <1>0 DEF Req
  <2> QED
    BY <1>1, <2>1, <2>2
<1>4. CASE BeginRotate(p)
  <2>1. PICK m \in ActiveMinters(set), n \in Minters \ ActiveMinters(set), k \in Creds :
           Begin(p, [NoReq EXCEPT !.pc = "set", !.set = [set EXCEPT ![m] = NoCred, ![n] = k],
                                  !.cand = [EmptySet EXCEPT ![n] = k]])
    BY <1>4 DEF BeginRotate
  <2>2. [set EXCEPT ![m] = NoCred, ![n] = k] \in MinterSet /\ [EmptySet EXCEPT ![n] = k] \in MinterSet
    BY NoReqOK DEF MinterSet
  <2> DEFINE r == [NoReq EXCEPT !.pc = "set", !.set = [set EXCEPT ![m] = NoCred, ![n] = k],
                                !.cand = [EmptySet EXCEPT ![n] = k]]
  <2>3. r \in Req /\ r.pc = "set"
    BY <1>0, <2>2 DEF Req
  <2> QED
    BY <1>1, <2>1, <2>3
<1>5. CASE StoreRole(p)
  <2>1. /\ role' \in Role \cup {NoRole} /\ req' = [req EXCEPT ![p] = NoReq]
        /\ UNCHANGED <<cloud, set, cache, health, config, proofs, waived, writes, now>>
    BY <1>0, <1>5 DEF StoreRole, Done
  <2> QED
    BY <1>0, <2>1, ReqStep, ZenonT(30)
<1>6. CASE StoreSet(p)
  <2>1. req[p].set \in MinterSet
    BY <1>0 DEF Req
  <2>2. /\ set' = req[p].set /\ health' = StatesOf(req[p].set) /\ req' = [req EXCEPT ![p] = NoReq]
        /\ UNCHANGED <<cloud, role, cache, config, proofs, waived, writes, now>>
    BY <1>6 DEF StoreSet, Done
  <2>3. health' \in Healths /\ \A m \in Minters : health'[m] # Fresh0 => set'[m] # NoCred
    BY <2>1, <2>2, StatesOK
  <2> QED
    BY <1>0, <2>1, <2>2, <2>3, ReqStep, ZenonT(30) DEF Healths
<1>7. CASE RoleDelete(p)
  BY <1>7 DEF RoleDelete
<1>8. CASE SetDelete(p)
  BY <1>8, NoReqOK, StatesOK DEF SetDelete, Healths
<1> QED
  BY <1>2, <1>3, <1>4, <1>5, <1>6, <1>7, <1>8 DEF WriteStep

\* The checks of a write, one after the other: a verdict is stored with the
\* probe that earned it.
LEMMA ProbeInv == ASSUME IInv, NEW p \in Procs, ProbeStep(p) PROVE IInv'
<1>r. \A m0, o : /\ Record(m0, o) \in Healths
                 /\ \A m \in Minters : Record(m0, o)[m] # Fresh0 => set[m] # NoCred
  BY RecordOK
<1> USE RolesAssumption DEF IInv, TypeOK
<1>0. req[p] \in Req /\ NoReq \in Req /\ NoReq.pc = "idle"
  BY NoReqOK
<1>1. ASSUME Refuse(p) PROVE IInv'
  BY <1>0, <1>1, ReqStep DEF Refuse, Done
<1>2. ASSUME NEW C \in SUBSET Check, Gated(p, C) PROVE IInv'
  <2>1. PICK r : r = [req[p] EXCEPT !.pc = "probe", !.ttl = config.ttl, !.todo = IF config.enabled THEN C ELSE {}]
    OBVIOUS
  <2>2. config.ttl \in Nat /\ (IF config.enabled THEN C ELSE {}) \in SUBSET Check
    BY <1>2
  <2>3. r \in Req /\ r.pc = "probe"
    BY <1>0, <2>1, <2>2 DEF Req
  <2>4. /\ req' = [req EXCEPT ![p] = r] /\ waived' \in BOOLEAN
        /\ UNCHANGED <<cloud, role, set, cache, health, config, proofs, writes, now>>
    BY <1>2, <2>1 DEF Gated
  <2> QED
    BY <2>3, <2>4, ReqStep
<1>3. CASE SetGate(p)
  BY <1>2, <1>3 DEF SetGate, VerifySet
<1>4. CASE RoleGate(p)
  BY <1>1, <1>2, <1>4 DEF RoleGate, VerifyRole
<1>5. ASSUME NEW c, Passed(p, c), req[p].pc = "probe"
      PROVE  \E r \in Req : req' = [req EXCEPT ![p] = r] /\ r.pc = "probe"
  <2>1. PICK r : r = [req[p] EXCEPT !.todo = @ \ {c}]
    OBVIOUS
  <2>2. r \in Req /\ r.pc = "probe"
    BY <1>0, <1>5, <2>1 DEF Req
  <2> QED
    BY <1>5, <2>1, <2>2 DEF Passed
<1>6. CASE UseVerdict(p) \/ ProbeUnsupported(p)
  <2>1. PICK r \in Req : req' = [req EXCEPT ![p] = r] /\ r.pc = "probe"
    BY <1>5, <1>6 DEF UseVerdict, ProbeUnsupported, MayProbe, Probing
  <2>2. UNCHANGED <<cloud, role, set, cache, health, config, proofs, waived, writes, now>>
    BY <1>6 DEF UseVerdict, ProbeUnsupported
  <2> QED
    BY <2>1, <2>2, ReqStep
<1>7. CASE Throttled(p)
  BY <1>1, <1>7 DEF Throttled
<1>8. CASE ProbeMint(p) /\ UNCHANGED <<cache, proofs>>
  <2>1. /\ \E o : health' = Record(Next1(p).minter, o)
        /\ UNCHANGED <<cloud, role, set, config, waived, writes, now>>
    BY <1>8 DEF ProbeMint
  <2>2. health' \in Healths /\ \A m \in Minters : health'[m] # Fresh0 => set'[m] # NoCred
    <3>1. PICK o : health' = Record(Next1(p).minter, o)
      BY <2>1
    <3>2. /\ Record(Next1(p).minter, o) \in Healths
          /\ \A m \in Minters : Record(Next1(p).minter, o)[m] # Fresh0 => set[m] # NoCred
      BY <1>r
    <3>3. set' = set
      BY <2>1
    <3> QED
      BY <3>1, <3>2, <3>3
  <2>3. PICK r \in Req : req' = [req EXCEPT ![p] = r] /\ (r.pc = "role" => r.role # NoRole)
    BY <1>0, <1>5, <1>8 DEF ProbeMint, MayProbe, Probing, Done
  <2> QED
    BY <1>8, <2>1, <2>2, <2>3, ReqStep DEF Healths
<1>9. CASE /\ ProbeMint(p) /\ Passed(p, Next1(p)) /\ cache' = Store(Next1(p), req[p].ttl)
           /\ proofs' = proofs \cup {[cred |-> Next1(p).cred, shape |-> Next1(p).shape, at |-> now]}
  <2>1. PICK c : c = Next1(p)
    OBVIOUS
  <2>2. /\ \E o : health' = Record(c.minter, o)
        /\ UNCHANGED <<cloud, role, set, config, waived, writes, now>>
    BY <1>9, <2>1 DEF ProbeMint
  <2>3. health' \in Healths /\ \A m \in Minters : health'[m] # Fresh0 => set'[m] # NoCred
    <3>1. PICK o : health' = Record(c.minter, o)
      BY <2>2
    <3>2. /\ Record(c.minter, o) \in Healths
          /\ \A m \in Minters : Record(c.minter, o)[m] # Fresh0 => set[m] # NoCred
      BY <1>r
    <3>3. set' = set
      BY <2>2
    <3> QED
      BY <3>1, <3>2, <3>3
  <2>4. PICK r \in Req : req' = [req EXCEPT ![p] = r] /\ r.pc = "probe"
    BY <1>5, <1>9 DEF ProbeMint, MayProbe, Probing
  <2>5. proofs' = proofs \cup {[cred |-> c.cred, shape |-> c.shape, at |-> now]}
    BY <1>9, <2>1
  <2>6. cache' = cache \/ cache' = [cache EXCEPT ![<<c.minter, c.shape>>] = [cred |-> c.cred, at |-> now]]
    BY <1>9, <2>1 DEF Store
  <2>7. cache' = [k \in Minters \X Shapes |-> cache'[k]]
    BY <2>6
  <2>8. ASSUME NEW m \in Minters, NEW s \in Shapes
        PROVE  \/ cache'[<<m, s>>] = NoVerdict
               \/ [cred |-> cache'[<<m, s>>].cred, shape |-> s, at |-> cache'[<<m, s>>].at] \in proofs'
    <3>1. CASE cache'[<<m, s>>] = cache[<<m, s>>]
      BY <2>5, <3>1
    <3>2. CASE <<m, s>> = <<c.minter, c.shape>> /\ cache'[<<m, s>>] = [cred |-> c.cred, at |-> now]
      <4>1. s = c.shape
        BY <3>2
      <4> QED
        BY <2>5, <3>2, <4>1
    <3>3. <<m, s>> \in Minters \X Shapes
      OBVIOUS
    <3> QED
      BY <2>6, <3>1, <3>2, <3>3
  <2>9. \A x \in proofs' : x.at \in 0..now'
    BY <2>2, <2>5
  <2> QED
    BY <2>2, <2>3, <2>4, <2>7, <2>8, <2>9, ReqStep DEF Healths
<1> QED
  BY <1>3, <1>4, <1>6, <1>7, <1>8, <1>9 DEF ProbeStep, ProbeMint

\* What runs beside the writes.
LEMMA BesideInv == ASSUME IInv, Beside PROVE IInv'
<1>r. \A m0, o : /\ Record(m0, o) \in Healths
                 /\ \A m \in Minters : Record(m0, o)[m] # Fresh0 => set[m] # NoCred
  BY RecordOK
<1> USE RolesAssumption DEF IInv, TypeOK
<1>1. ASSUME UNCHANGED <<cloud, role, set, cache, config, req, proofs, waived, writes, now>>,
             health' \in Healths, \A m \in Minters : health'[m] # Fresh0 => set[m] # NoCred
      PROVE  IInv'
  BY <1>1 DEF Healths
<1>2. CASE SweepCache
  <2>1. UNCHANGED <<cloud, role, set, health, config, req, proofs, waived, writes, now>>
    BY <1>2 DEF SweepCache
  <2>2. /\ cache' = [k \in Minters \X Shapes |-> cache'[k]]
        /\ \A k \in Minters \X Shapes : cache'[k] = cache[k] \/ cache'[k] = NoVerdict
    BY <1>2 DEF SweepCache
  <2>3. \A m \in Minters, s \in Shapes :
           \/ cache'[<<m, s>>] = NoVerdict
           \/ [cred |-> cache'[<<m, s>>].cred, shape |-> s, at |-> cache'[<<m, s>>].at] \in proofs
    BY <2>2
  <2> QED
    BY <2>1, <2>2, <2>3
<1>3. CASE ConfigWrite
  <2>1. /\ UNCHANGED <<cloud, role, set, cache, health, req, proofs, waived, now>>
        /\ config' \in Configs /\ writes' \in 0..MaxWrites
    BY <1>3 DEF ConfigWrite
  <2> QED
    BY <2>1
<1>4. CASE Issue
  <2>1. PICK m \in ActiveMinters(set) :
           \/ health' = Record(m, "minted") \/ health' = Record(m, "quota")
           \/ health' = [health EXCEPT ![m].rejected = TRUE]
    BY <1>4 DEF Issue
  <2>2. CASE health' = [health EXCEPT ![m].rejected = TRUE]
    <3>1. health' \in Healths /\ m \in Minters /\ set[m] # NoCred
      BY <2>2 DEF Healths, ActiveMinters
    <3>2. \A n \in Minters \ {m} : health'[n] = health[n]
      BY <2>2
    <3> QED
      BY <1>1, <1>4, <3>1, <3>2 DEF Issue
  <2>3. ASSUME NEW o, health' = Record(m, o) PROVE IInv'
    <3>1. Record(m, o) \in Healths /\ \A n \in Minters : Record(m, o)[n] # Fresh0 => set[n] # NoCred
      BY <1>r
    <3> QED
      BY <1>1, <1>4, <2>3, <3>1 DEF Issue
  <2> QED
    BY <2>1, <2>2, <2>3
<1>5. CASE HealthCheck
  <2>1. PICK m : health' = Record(m, "minted")
    BY <1>5 DEF HealthCheck
  <2>2. Record(m, "minted") \in Healths
        /\ \A n \in Minters : Record(m, "minted")[n] # Fresh0 => set[n] # NoCred
    BY <1>r
  <2> QED
    BY <1>1, <1>5, <2>1, <2>2 DEF HealthCheck
<1>6. CASE WindowEnds
  <2>1. PICK m \in Minters : health[m].cooldown = "open" /\ health' = [health EXCEPT ![m].cooldown = "half-open"]
    BY <1>6 DEF WindowEnds
  <2>2. health' \in Healths /\ set[m] # NoCred
    BY <2>1 DEF Healths, Fresh0
  <2>3. \A n \in Minters \ {m} : health'[n] = health[n]
    BY <2>1
  <2> QED
    BY <1>1, <1>6, <2>2, <2>3 DEF WindowEnds
<1>7. CASE Tick
  <2>1. UNCHANGED <<cloud, role, set, cache, health, config, req, proofs, waived, writes>> /\ now' \in 0..MaxTime
        /\ \A x \in proofs : x.at \in 0..now'
    BY <1>7 DEF Tick
  <2> QED
    BY <2>1
<1> QED
  BY <1>2, <1>3, <1>4, <1>5, <1>6, <1>7 DEF Beside

LEMMA StepInv == IInv /\ [Next]_vars => IInv'
<1> SUFFICES ASSUME IInv, [Next]_vars PROVE IInv'
  OBVIOUS
<1>1. CASE UNCHANGED vars
  BY <1>1 DEF vars, IInv, TypeOK
<1>2. CASE Reload
  <2>1. /\ \A m \in Minters : health'[m] = Fresh0
        /\ health' \in [Minters -> [cooldown : {"none", "open", "half-open"}, rejected : BOOLEAN]]
        /\ UNCHANGED <<cloud, role, set, cache, config, proofs, waived, writes, now>>
    BY <1>2 DEF Reload, Fresh0
  <2>2. req' \in [Procs -> Req] /\ \A p \in Procs : req'[p] = NoReq
    BY <1>2, NoReqOK DEF Reload
  <2>3. \A p \in Procs :
          /\ req'[p].pc \in {"idle", "role", "set", "probe"} /\ req'[p].body \in Bodies
          /\ req'[p].role \in Role \cup {NoRole} /\ req'[p].set \in MinterSet
          /\ req'[p].cand \in MinterSet /\ req'[p].todo \subseteq Check /\ req'[p].ttl \in Nat
    BY <2>2 DEF Req
  <2> QED
    BY <2>1, <2>2, <2>3, NoReqOK DEF IInv, TypeOK
<1> QED
  BY <1>1, <1>2, Shared, WriteInv, ProbeInv, BesideInv

LEMMA Inductive == Spec => []IInv
BY InitInv, StepInv, PTL DEF Spec

\* Type correctness, for any number of concurrent writes: only members of the set
\* have a recovery state, and nothing is in the cache that a probe did not earn.
THEOREM TypeCorrect == Spec => []TypeOK
<1>1. IInv => TypeOK
  BY DEF IInv
<1> QED
  BY <1>1, Inductive, PTL

-----------------------------------------------------------------------------
(* No check is passed without a proof.                                      *)

\* What a check of p is dropped for, in one step: a probe that has just minted
\* with that credential, or a verdict of one that did within the write's ttl.
Earned(p) ==
    \A c \in req[p].todo \ req'[p].todo :
        cloud = "oci" \/ \E x \in proofs' : x.cred = c.cred /\ x.shape = c.shape /\ now - x.at <= req[p].ttl

LEMMA ProbesEarn ==
    ASSUME IInv, NEW p \in Procs, req[p].pc = "probe", UseVerdict(p) \/ ProbeMint(p), req'[p].pc = "probe"
    PROVE  Earned(p)
<1>0. req[p] \in Req /\ req \in [Procs -> Req] /\ NoReq.pc = "idle" /\ now \in Nat
  BY RolesAssumption, NoReqOK DEF IInv, TypeOK
<1>1. Passed(p, Next1(p))
  <2>1. UseVerdict(p) \/ Passed(p, Next1(p)) \/ req' = [req EXCEPT ![p] = NoReq]
    BY DEF ProbeMint, Done
  <2>2. req' # [req EXCEPT ![p] = NoReq]
    BY <1>0
  <2> QED
    BY <2>1, <2>2 DEF UseVerdict
<1>2. PICK c : c = Next1(p)
  OBVIOUS
<1>3. req'[p].todo = req[p].todo \ {c}
  BY <1>0, <1>1, <1>2 DEF Passed, Req
<1>4. SUFFICES ASSUME c \in req[p].todo
               PROVE  \E x \in proofs' : x.cred = c.cred /\ x.shape = c.shape /\ now - x.at <= req[p].ttl
  BY <1>3 DEF Earned
<1>5. c \in Check /\ req[p].ttl \in Nat
  BY <1>0, <1>4 DEF Req
<1>6. CASE UseVerdict(p)
  <2>1. Fresh(c, req[p].ttl) /\ proofs' = proofs
    BY <1>2, <1>6 DEF UseVerdict
  <2> DEFINE v == cache[<<c.minter, c.shape>>]
  <2>2. v # NoVerdict /\ v.cred = c.cred /\ now - v.at <= req[p].ttl
    BY <2>1 DEF Fresh
  <2>3. c.minter \in Minters /\ c.shape \in Shapes
    BY <1>5 DEF Check
  <2>4. [cred |-> v.cred, shape |-> c.shape, at |-> v.at] \in proofs
    BY <2>2, <2>3 DEF IInv, TypeOK
  <2> QED
    BY <2>1, <2>2, <2>4
<1>7. CASE ProbeMint(p)
  <2>1. proofs' = proofs \cup {[cred |-> c.cred, shape |-> c.shape, at |-> now]}
    <3>1. req' # [req EXCEPT ![p] = NoReq]
      BY <1>0
    <3> QED
      BY <1>2, <1>7, <3>1 DEF ProbeMint, Done
  <2>2. PICK x \in proofs' : x = [cred |-> c.cred, shape |-> c.shape, at |-> now]
    BY <2>1
  <2>3. x.cred = c.cred /\ x.shape = c.shape /\ x.at = now
    BY <2>2
  <2>4. now - x.at <= req[p].ttl
    BY <1>0, <1>5, <2>3
  <2> QED
    BY <2>3, <2>4
<1> QED
  BY <1>6, <1>7

\* Where there is no probe of p, there is no check of p to lose.
LEMMA ChecksKept ==
    ASSUME IInv, Next, NEW p \in Procs, req[p].pc = "probe", req'[p].pc = "probe",
           cloud = "oci" \/ ~(UseVerdict(p) \/ ProbeMint(p))
    PROVE  cloud = "oci" \/ req'[p] = req[p]
<1> SUFFICES ASSUME cloud # "oci" PROVE req'[p] = req[p]
  OBVIOUS
<1>0. req \in [Procs -> Req] /\ NoReq.pc = "idle" /\ req[p] # NoReq
  BY NoReqOK DEF IInv
<1>1. ASSUME NEW q \in Procs, NEW r, req' = [req EXCEPT ![q] = r], q = p => r = NoReq PROVE req'[p] = req[p]
  BY <1>0, <1>1
<1>2. ASSUME NEW q \in Procs, WriteStep(q) PROVE req'[p] = req[p]
  <2>1. ASSUME NEW r, Begin(q, r) PROVE req'[p] = req[p]
    BY <1>0, <1>1, <2>1 DEF Begin
  <2> QED
    BY <1>0, <1>1, <1>2, <2>1 DEF WriteStep, BeginRoleWrite, StoreRole, RoleDelete, BeginSetWrite, BeginRotate,
       StoreSet, SetDelete, Done
<1>3. ASSUME NEW q \in Procs, ProbeStep(q) PROVE req'[p] = req[p]
  <2>1. \E r : req' = [req EXCEPT ![q] = r]
    BY <1>3, SMTT(30) DEF ProbeStep, SetGate, RoleGate, VerifySet, VerifyRole, Gated, Refuse, Done, UseVerdict, Throttled,
       ProbeMint, ProbeUnsupported, Passed
  <2>2. CASE q # p
    BY <1>0, <2>1, <2>2
  <2>3. CASE q = p
    <3>1. req' = [req EXCEPT ![p] = NoReq]
      BY <1>3, <2>3 DEF ProbeStep, SetGate, RoleGate, VerifySet, VerifyRole, Throttled, Refuse, Done
    <3> QED
      BY <1>0, <3>1
  <2> QED
    BY <2>2, <2>3
<1>4. ASSUME Beside PROVE req'[p] = req[p]
  BY <1>4 DEF Beside, SweepCache, ConfigWrite, Issue, HealthCheck, WindowEnds, Tick
<1>5. CASE Reload
  BY <1>0, <1>5 DEF Reload
<1> QED
  BY <1>2, <1>3, <1>4, <1>5, Shared

\* However writes, probes, verdicts, sweeps of the cache and reloads interleave,
\* a check is dropped from a write (Runner.Verify) only when that very credential
\* minted that very shape then, or within capability_cache_ttl.
THEOREM VerdictsHonest == Spec => CacheHonest
<1> DEFINE Honest == \A p \in Procs : req[p].pc = "probe" /\ req'[p].pc = "probe" =>
                \A c \in req[p].todo \ req'[p].todo :
                    cloud = "oci" \/ \E x \in proofs' :
                        x.cred = c.cred /\ x.shape = c.shape /\ now - x.at <= req[p].ttl
<1>1. IInv /\ [Next]_vars => [Honest]_vars
  <2> SUFFICES ASSUME IInv, Next, NEW p \in Procs, req[p].pc = "probe", req'[p].pc = "probe" PROVE Earned(p)
    BY DEF Earned
  <2>1. CASE cloud # "oci" /\ (UseVerdict(p) \/ ProbeMint(p))
    BY <2>1, ProbesEarn
  <2>2. CASE cloud = "oci" \/ ~(UseVerdict(p) \/ ProbeMint(p))
    BY <2>2, ChecksKept DEF Earned
  <2> QED
    BY <2>1, <2>2
<1> HIDE DEF Honest
<1>2. Spec => [][Honest]_vars
  BY <1>1, Inductive, PTL DEF Spec
<1> QED
  BY <1>2 DEF Honest, CacheHonest

-----------------------------------------------------------------------------
(* What the gate is for, where writes do not overlap.                       *)

\* A check that leaves the list of a write leaves a proof.
LEMMA ProvingKept ==
    ASSUME IInv, NEW s, NEW r, NEW todo, Proving(s, r, todo), NEW todo2,
           cloud' = cloud, proofs \subseteq proofs',
           \A c \in todo \ todo2 : \E x \in proofs' : x.cred = c.cred /\ x.shape = c.shape
    PROVE  \A m \in ActiveMinters(s) :
              \/ [minter |-> m, cred |-> s[m], shape |-> Shape(r)] \in todo2
              \/ \E x \in proofs' : x.cred = s[m] /\ x.shape = Shape(r)
<1> SUFFICES ASSUME NEW m \in ActiveMinters(s)
             PROVE  \/ [minter |-> m, cred |-> s[m], shape |-> Shape(r)] \in todo2
                    \/ \E x \in proofs' : x.cred = s[m] /\ x.shape = Shape(r)
  OBVIOUS
<1>1. PICK c : c = [minter |-> m, cred |-> s[m], shape |-> Shape(r)]
  OBVIOUS
<1>2. c.cred = s[m] /\ c.shape = Shape(r)
  BY <1>1
<1>3. c \in todo \/ \E x \in proofs : x.cred = s[m] /\ x.shape = Shape(r)
  BY <1>1 DEF Proving, Proven
<1> QED
  BY <1>1, <1>2, <1>3

\* Capable says of the stored set and role what Proving says with no check left.
LEMMA CapableIs ==
    ASSUME IInv
    PROVE  Capable <=> (role # NoRole /\ ~waived /\ cloud # "oci" =>
                          role.disabled \/ \A m \in ActiveMinters(set) : Proven(set[m], Shape(role)))
BY DEF Capable, Proven, Shape

\* Without a request there is nothing to hold a write to.
LEMMA IdleGate ==
    ASSUME OneWriter, NEW p \in Procs, req'[p].pc \notin {"set", "probe"}
    PROVE  GatesHold'
BY DEF OneWriter, GatesHold, GateInv

LEMMA WriteGate ==
    ASSUME OneWriter, IInv, Capable, GatesHold, NEW p \in Procs, WriteStep(p)
    PROVE  Capable' /\ GatesHold'
<1>0. /\ req \in [Procs -> Req] /\ NoReq.pc = "idle" /\ NoReq.role = NoRole /\ NoReq \in Req
      /\ set \in MinterSet
  BY NoReqOK DEF NoReq, IInv, TypeOK
<1>1. GateInv(p)
  BY DEF GatesHold
<1>2. ASSUME NEW r, Begin(p, r) PROVE Capable' /\ req'[p] = r /\ UNCHANGED <<set, cloud>>
  BY <1>0, <1>2 DEF Begin, Capable
<1>3. CASE BeginRoleWrite(p)
  <2>1. PICK b : Begin(p, [NoReq EXCEPT !.pc = "role", !.body = b, !.role = PrefillRoleWrite(role, b)])
    BY <1>3 DEF BeginRoleWrite
  <2>2. [NoReq EXCEPT !.pc = "role", !.body = b, !.role = PrefillRoleWrite(role, b)].pc = "role"
    BY DEF NoReq
  <2> QED
    BY <1>2, <2>1, <2>2, IdleGate
<1>4. ASSUME NEW s, NEW c, Begin(p, [NoReq EXCEPT !.pc = "set", !.set = s, !.cand = c]),
             \A m \in ActiveMinters(s) : c[m] = s[m] \/ set[m] = s[m]
      PROVE  Capable' /\ GatesHold'
  <2>1. PICK r : r = [NoReq EXCEPT !.pc = "set", !.set = s, !.cand = c]
    OBVIOUS
  <2>2. r.pc = "set" /\ r.role = NoRole /\ r.set = s /\ r.cand = c
    BY <2>1 DEF NoReq
  <2>3. Capable' /\ req'[p] = r /\ set' = set
    BY <1>2, <1>4, <2>1
  <2>4. GateInv(p)'
    BY <1>4, <2>2, <2>3 DEF GateInv
  <2> QED
    BY <2>3, <2>4 DEF GatesHold, OneWriter
<1>5. CASE BeginSetWrite(p)
  BY <1>4, <1>5 DEF BeginSetWrite
<1>6. CASE BeginRotate(p)
  <2>1. PICK m \in ActiveMinters(set), n \in Minters \ ActiveMinters(set), k \in Creds :
           Begin(p, [NoReq EXCEPT !.pc = "set", !.set = [set EXCEPT ![m] = NoCred, ![n] = k],
                                  !.cand = [EmptySet EXCEPT ![n] = k]])
    BY <1>6 DEF BeginRotate
  <2>2. \A i \in ActiveMinters([set EXCEPT ![m] = NoCred, ![n] = k]) :
           \/ [EmptySet EXCEPT ![n] = k][i] = [set EXCEPT ![m] = NoCred, ![n] = k][i]
           \/ set[i] = [set EXCEPT ![m] = NoCred, ![n] = k][i]
    BY <1>0 DEF ActiveMinters, MinterSet, EmptySet
  <2> QED
    BY <1>4, <2>1, <2>2
<1>7. CASE StoreRole(p)
  <2>1. /\ req[p].pc = "probe" /\ req[p].todo = {} /\ req[p].role # NoRole /\ role' = req[p].role
        /\ req'[p] = NoReq /\ UNCHANGED <<cloud, set, proofs, waived>>
    BY <1>0, <1>7 DEF StoreRole, Done
  <2>2. ~waived /\ cloud # "oci" =>
           role'.disabled \/ \A m \in ActiveMinters(set) : \E x \in proofs : x.cred = set[m] /\ x.shape = Shape(req[p].role)
    BY <1>1, <2>1 DEF GateInv, Proving, Proven
  <2>3. Capable'
    BY <2>1, <2>2 DEF Capable, Shape
  <2> QED
    BY <1>0, <2>1, <2>3, IdleGate
<1>8. CASE StoreSet(p)
  <2>1. /\ req[p].pc = "probe" /\ req[p].todo = {} /\ req[p].role = NoRole /\ set' = req[p].set
        /\ req'[p] = NoReq /\ UNCHANGED <<cloud, role, proofs, waived>>
    BY <1>0, <1>8 DEF StoreSet, Done
  <2>2. ~waived /\ cloud # "oci" /\ role # NoRole =>
           role.disabled \/ \A m \in ActiveMinters(set') : \E x \in proofs : x.cred = set'[m] /\ x.shape = Shape(role)
    BY <1>1, <2>1 DEF GateInv, Proving, Proven
  <2>3. Capable'
    BY <2>1, <2>2 DEF Capable, Shape
  <2> QED
    BY <1>0, <2>1, <2>3, IdleGate
<1>9. CASE RoleDelete(p)
  BY <1>0, <1>9, IdleGate DEF RoleDelete, Capable
<1>10. CASE SetDelete(p)
  BY <1>0, <1>10, IdleGate, NoReqOK DEF SetDelete, Capable
<1> QED
  BY <1>3, <1>5, <1>6, <1>7, <1>8, <1>9, <1>10 DEF WriteStep

\* GateInv after a step that leaves the stored role and set alone.
LEMMA GateAfter ==
    ASSUME NEW p \in Procs, req'[p].pc = "probe", UNCHANGED <<cloud, role, set>>,
           ~waived' /\ cloud # "oci" =>
              /\ req'[p].role # NoRole => req'[p].role.disabled \/ \A m \in ActiveMinters(set) :
                    \/ [minter |-> m, cred |-> set[m], shape |-> Shape(req'[p].role)] \in req'[p].todo
                    \/ \E x \in proofs' : x.cred = set[m] /\ x.shape = Shape(req'[p].role)
              /\ req'[p].role = NoRole /\ role # NoRole => role.disabled \/ \A m \in ActiveMinters(req'[p].set) :
                    \/ [minter |-> m, cred |-> req'[p].set[m], shape |-> Shape(role)] \in req'[p].todo
                    \/ \E x \in proofs' : x.cred = req'[p].set[m] /\ x.shape = Shape(role)
    PROVE  GateInv(p)'
BY DEF GateInv, Proving, Proven, Shape

LEMMA ProbeGate ==
    ASSUME OneWriter, IInv, Capable, GatesHold, NEW p \in Procs, ProbeStep(p)
    PROVE  Capable' /\ GatesHold'
<1>0. /\ req \in [Procs -> Req] /\ req[p] \in Req /\ NoReq.pc = "idle" /\ set \in MinterSet
      /\ waived \in BOOLEAN
  BY NoReqOK DEF IInv, TypeOK
<1>1. GateInv(p)
  BY DEF GatesHold
<1>2. UNCHANGED <<cloud, role, set>> /\ proofs \subseteq proofs' /\ (waived => waived')
  <2>1. ASSUME NEW C, Gated(p, C) PROVE UNCHANGED <<cloud, role, set, proofs>> /\ (waived => waived')
    BY <1>0, <2>1 DEF Gated
  <2>2. ASSUME Refuse(p) PROVE UNCHANGED <<cloud, role, set, proofs, waived>>
    BY <2>2 DEF Refuse
  <2>3. CASE SetGate(p) \/ RoleGate(p)
    BY <2>1, <2>2, <2>3 DEF SetGate, VerifySet, RoleGate, VerifyRole
  <2>4. CASE UseVerdict(p) \/ Throttled(p) \/ ProbeUnsupported(p)
    BY <2>2, <2>4 DEF UseVerdict, Throttled, ProbeUnsupported
  <2>5. CASE ProbeMint(p)
    BY <2>5 DEF ProbeMint
  <2> QED
    BY <2>3, <2>4, <2>5 DEF ProbeStep
<1>3. Capable'
  BY <1>2 DEF Capable
<1>4. CASE req'[p].pc \notin {"set", "probe"}
  BY <1>3, <1>4, IdleGate
<1>5. ASSUME GateInv(p)' PROVE GatesHold'
  BY <1>5 DEF GatesHold, OneWriter
<1>6. ASSUME NEW C, Gated(p, C)
      PROVE  /\ req'[p].pc = "probe" /\ req'[p].role = req[p].role /\ req'[p].set = req[p].set
             /\ ~waived' => ~waived /\ config.enabled /\ req'[p].todo = C
  BY <1>0, <1>6 DEF Gated, Req
<1>7. CASE SetGate(p)
  <2>1. PICK C : /\ req[p].pc = "set" /\ Gated(p, C)
                 /\ cloud # "oci" => \A r \in RolesBoundTo, m \in ActiveMinters(req[p].cand) :
                       [minter |-> m, cred |-> req[p].cand[m], shape |-> Shape(r)] \in C
    BY <1>7 DEF SetGate, VerifySet
  <2>2. /\ req'[p].pc = "probe" /\ req'[p].role = NoRole /\ req'[p].set = req[p].set
        /\ ~waived' => ~waived /\ req'[p].todo = C
    BY <1>1, <1>6, <2>1 DEF GateInv
  <2>3. ASSUME ~waived', cloud # "oci", role # NoRole, ~role.disabled, NEW m \in ActiveMinters(req[p].set)
        PROVE  \/ [minter |-> m, cred |-> req[p].set[m], shape |-> Shape(role)] \in C
               \/ Proven(req[p].set[m], Shape(role))
    <3>1. role \in RolesBoundTo /\ m \in Minters /\ req[p].set[m] # NoCred
      BY <2>3 DEF RolesBoundTo, ActiveMinters
    <3>2. CASE req[p].cand[m] = req[p].set[m]
      BY <2>1, <2>3, <3>1, <3>2 DEF ActiveMinters
    <3>3. CASE set[m] = req[p].set[m]
      <4>1. m \in ActiveMinters(set)
        BY <3>1, <3>3 DEF ActiveMinters
      <4> QED
        BY <2>2, <2>3, <3>3, <4>1, CapableIs
    <3> QED
      BY <1>1, <2>1, <3>2, <3>3 DEF GateInv
  <2>4. GateInv(p)'
    BY <1>2, <2>2, <2>3, GateAfter DEF Proven
  <2> QED
    BY <1>3, <1>5, <2>4
<1>8. CASE RoleGate(p)
  <2>1. PICK C : /\ VerifyRole(p, C)
                 /\ cloud # "oci" => \A m \in ActiveMinters(set) :
                       [minter |-> m, cred |-> set[m], shape |-> Shape(req[p].role)] \in C
    BY <1>8 DEF RoleGate
  <2>2. req[p].role # NoRole
    BY <2>1 DEF VerifyRole, IInv
  <2>3. CASE Refuse(p)
    BY <1>0, <1>4, <2>3 DEF Refuse, Done
  <2>4. CASE Gated(p, {}) /\ ~(config.enabled /\ ~req[p].role.disabled)
    <3>1. ~waived' => req'[p].role.disabled
      BY <1>6, <2>4
    <3> QED
      BY <1>2, <1>3, <1>5, <1>6, <2>2, <2>4, <3>1, GateAfter
  <2>5. CASE Gated(p, C)
    <3>1. ~waived' => req'[p].todo = C
      BY <1>6, <2>5
    <3> QED
      BY <1>2, <1>3, <1>5, <1>6, <2>1, <2>2, <2>5, <3>1, GateAfter
  <2> QED
    BY <2>1, <2>3, <2>4, <2>5 DEF VerifyRole
<1>9. CASE Throttled(p)
  BY <1>0, <1>4, <1>9 DEF Throttled, Refuse, Done
<1>10. CASE (UseVerdict(p) \/ ProbeMint(p) \/ (cloud = "oci" /\ ProbeUnsupported(p))) /\ req'[p].pc \in {"set", "probe"}
  <2>1. /\ req[p].pc = "probe" /\ waived' = waived
        /\ req' = [req EXCEPT ![p] = NoReq] \/ Passed(p, Next1(p))
    BY <1>10 DEF UseVerdict, ProbeMint, ProbeUnsupported, MayProbe, Probing, Done
  <2>2. /\ req'[p].pc = "probe" /\ req'[p].role = req[p].role /\ req'[p].set = req[p].set
    BY <1>0, <1>10, <2>1 DEF Passed, Req
  <2>3. ASSUME cloud # "oci", NEW c \in req[p].todo \ req'[p].todo
        PROVE  \E x \in proofs' : x.cred = c.cred /\ x.shape = c.shape
    BY <1>10, <2>1, <2>2, <2>3, ProbesEarn DEF Earned
  <2>4. ASSUME cloud # "oci", NEW s, NEW r, Proving(s, r, req[p].todo)
        PROVE  \A m \in ActiveMinters(s) :
                  \/ [minter |-> m, cred |-> s[m], shape |-> Shape(r)] \in req'[p].todo
                  \/ \E x \in proofs' : x.cred = s[m] /\ x.shape = Shape(r)
    BY <1>2, <2>3, <2>4, ProvingKept
  <2>5. ASSUME ~waived, cloud # "oci"
        PROVE  /\ req[p].role # NoRole => req[p].role.disabled \/ Proving(set, req[p].role, req[p].todo)
               /\ req[p].role = NoRole /\ role # NoRole => role.disabled \/ Proving(req[p].set, role, req[p].todo)
    BY <1>1, <2>1, <2>5 DEF GateInv
  <2>6. GateInv(p)'
    BY <1>2, <2>1, <2>2, <2>4, <2>5, GateAfter
  <2> QED
    BY <1>3, <1>5, <2>6
<1> QED
  BY <1>3, <1>4, <1>7, <1>8, <1>9, <1>10 DEF ProbeStep

\* As long as writes do not overlap, every selectable minter of the set has
\* minted, with the very credential it has, what the enabled role asks for:
\* however role and set writes, rotations, disabling, deletion, verdicts of any
\* age and restarts follow each other.
THEOREM SetCapable == OneWriter /\ Spec => []Capable
<1>1. Init => Capable /\ GatesHold
  BY NoReqOK DEF Init, Capable, GatesHold, GateInv
<1>2. ASSUME OneWriter, IInv, Capable, GatesHold, [Next]_vars PROVE Capable' /\ GatesHold'
  <2>1. ASSUME UNCHANGED <<cloud, role, set, req, proofs, waived>> PROVE Capable' /\ GatesHold'
    BY <1>2, <2>1 DEF Capable, GatesHold, GateInv, Proving, Proven, Shape
  <2>2. CASE Beside \/ UNCHANGED vars
    BY <2>1, <2>2 DEF Beside, SweepCache, ConfigWrite, Issue, HealthCheck, WindowEnds, Tick, vars
  <2>3. CASE Reload
    <3>1. UNCHANGED <<cloud, role, set, proofs, waived>> /\ \A p \in Procs : req'[p].pc = "idle"
      BY <2>3, NoReqOK DEF Reload
    <3>2. Capable'
      BY <1>2, <3>1 DEF Capable
    <3> QED
      BY <3>1, <3>2 DEF GatesHold, GateInv
  <2> QED
    BY <1>2, <2>2, <2>3, Shared, WriteGate, ProbeGate
<1>3. CASE OneWriter
  <2>1. IInv /\ Capable /\ GatesHold /\ [Next]_vars => Capable' /\ GatesHold'
    BY <1>2, <1>3
  <2> QED
    BY <1>1, <2>1, Inductive, PTL DEF Spec
<1> QED
  BY <1>3
=============================================================================
