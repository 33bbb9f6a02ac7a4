-------------------------- MODULE Plugins_proofs --------------------------
(***************************************************************************)
(* Proofs about the life of an issued credential, for every plugin and     *)
(* any number of goroutines, minters and credentials: the steps of the     *)
(* plugins are first reduced to the operations they share, and each of     *)
(* these is shown to keep the invariant and to be a step of Credential.    *)
(***************************************************************************)
EXTENDS Plugins, TLAPS, FiniteSetTheorems

\* An idle goroutine's locals.
LEMMA IdleOK ==
    /\ Idle \in Job /\ Idle.pc = "idle" /\ Idle.key = None /\ Idle.at = 0 /\ Idle.ttl = 0
    /\ Idle.todo = {} /\ Idle.left = {}
BY DEF Idle, Job, Issuing

\* None is no credential, no instant and no minter.
LEMMA Nothing == None \notin Keys /\ None \notin Nat /\ None \notin Minters /\ None \notin Cred /\ Keys \subseteq Nat
BY BoundAssumption, NoneAssumption DEF Keys

-----------------------------------------------------------------------------
(* What the plugins share. *)

Fit == {m \in Healthy : HasRoom(m)}

\* A lease that ends no later than a credential of that age would.
Granted(ttl, k) == ttl \in Nat /\ (cred[k].ends # None => cred[k].asked + ttl <= cred[k].ends)

Issue(p) ==
    \/ Admit(p, role = "open") \/ Choose(p, Fit) \/ Refuse(p, Fit)
    \/ \E e \in Nat \cup {None} :
          /\ Fitting(e, job[p].at)
          /\ (\E l \in {"record", "track"} : Create(p, e, l)) \/ CreateFail(p, e)
    \/ Ledger(p)
    \/ \E t \in Nat :
          /\ At(p, "track") /\ Granted(t, job[p].key)
          /\ TrackOrUndo(p, t) \/ (plugin \in Local /\ TrackIfPossible(p, t))
    \/ Undo(p) \/ Register(p)

RevokeStep(p) ==
    \/ \E k \in Keys : Revoke(p, k)
    \/ RevokeDelete(p, Deleters(job[p].key)) \/ RevokeForget(p, Deleters(job[p].key))
    \/ plugin \in Local /\ RevokeLocally(p)

ReconcileStep(p) ==
    \/ /\ plugin \notin Local
       /\ \/ \E old \in SUBSET (OldByDate \cup OldByLedger) : List(p, old)
          \/ Own(p, tracked) \/ Reclaim(p)
    \/ /\ plugin \in Local
       /\ \E expired \in SUBSET tracked : PruneExpired(p, expired)

PurgeStep(p) ==
    \/ Arm(p) \/ Sweep(p) \/ PurgeScan(p) \/ PurgeDrop(p) \/ SaveIntent(p)
    \/ \E k \in Keys : PurgeDelete(p, k, Deleters(k))

Step ==
    \/ \E p \in Goroutines : Issue(p) \/ RevokeStep(p) \/ ReconcileStep(p) \/ PurgeStep(p)
    \/ \E k \in Keys : (plugin \in Endless /\ Renew(k)) \/ Expire(k)
    \/ \E m \in Minters : MinterFails(m) \/ MinterRepaired(m) \/ MinterLeaves(m)
    \/ \E r \in {"open", "disabled", "gone"} : RoleWrite(r)
    \/ Tick \/ Crash \/ UNCHANGED vars

\* The default_ttl is what a credential with an end of its own is made for.
LEMMA GrantTTL ==
    ASSUME IInv, NEW p \in Goroutines, At(p, "track"), plugin \notin {"aws", "gcp"}
    PROVE  Granted(TTL, job[p].key)
<1> DEFINE k == job[p].key
<1>1. k \in Keys /\ cred[k] # None
  BY DEF IInv, IssueInv, At, Holding, Issuing
<1>2. cred[k].ends # None => cred[k].ends >= cred[k].asked + TTL
  BY <1>1 DEF IInv, KeyInv, Fitting
<1>3. cred[k] \in Cred
  BY <1>1 DEF IInv, TypeOK
<1> QED
  BY <1>2, <1>3, LifeAssumption DEF Granted, Cred

\* What is left of it, but at least a second.
LEMMA GrantRest ==
    ASSUME IInv, NEW p \in Goroutines, At(p, "track"), plugin \in {"aws", "gcp"}
    PROVE  /\ Granted(AWSLeaseTTL(job[p].key), job[p].key)
           /\ Granted(GCPLeaseTTL(job[p].key), job[p].key)
<1> DEFINE k == job[p].key
<1>1. k \in Keys /\ cred[k] # None
  BY DEF IInv, IssueInv, At, Holding, Issuing
<1>2. cred[k] \in Cred /\ clock \in Nat
  BY <1>1 DEF IInv, TypeOK
<1>3. /\ cred[k].ends # None /\ cred[k].ends >= cred[k].asked + 1
      /\ cred[k].asked <= cred[k].made /\ cred[k].made <= clock
  BY <1>1 DEF IInv, KeyInv, Fitting, Local
<1>4. cred[k].ends \in Nat /\ cred[k].asked \in Nat /\ cred[k].made \in Nat
  BY <1>2, <1>3 DEF Cred
<1> HIDE DEF k
<1>5. CASE cred[k].ends - clock < 1
  BY <1>2, <1>3, <1>4, <1>5 DEF Granted, AWSLeaseTTL, GCPLeaseTTL, k
<1>6. CASE ~(cred[k].ends - clock < 1)
  <2> DEFINE rest == cred[k].ends - clock
  <2>1. rest \in Nat /\ cred[k].asked + rest <= cred[k].ends
    BY <1>2, <1>3, <1>4, <1>6
  <2>2. AWSLeaseTTL(k) = rest /\ GCPLeaseTTL(k) = rest
    BY <1>6 DEF AWSLeaseTTL, GCPLeaseTTL
  <2> HIDE DEF rest
  <2> QED
    BY <2>1, <2>2 DEF Granted, k
<1> QED
  BY <1>5, <1>6

\* The ends that are asked for.
LEMMA Ends ==
    ASSUME IInv, NEW p \in Goroutines, At(p, "create")
    PROVE  /\ plugin \in Endless => Fitting(None, job[p].at)
           /\ plugin = "azure" => Fitting(job[p].at + TTL, job[p].at) /\ job[p].at + TTL \in Nat
           /\ plugin = "upcloud" => Fitting(clock + TTL, job[p].at) /\ clock + TTL \in Nat
           /\ plugin \in {"aws", "gcp"} => \A life \in Lives : Fitting(clock + life, job[p].at) /\ clock + life \in Nat
           /\ plugin = "ovh" => Fitting(clock + OAuthLife, job[p].at) /\ clock + OAuthLife \in Nat
<1> DEFINE a == job[p].at
<1>1. a \in Nat /\ clock \in Nat /\ a <= clock
  BY DEF IInv, TypeOK, IssueInv, At, Issuing, Job
<1>2. TTL \in Nat /\ OAuthLife \in Nat /\ TTL <= OAuthLife /\ \A life \in Lives : life \in Nat /\ life >= 1
  BY LifeAssumption
<1>3. None \notin Nat
  BY Nothing
<1> HIDE DEF a
<1>4. Local \cap Endless = {} /\ "azure" \notin Endless \cup Local /\ "upcloud" \notin Endless \cup Local
      /\ "aws" \notin Endless /\ "gcp" \notin Endless /\ "ovh" \notin Endless
  BY DEF Local, Endless
<1> QED
  BY <1>1, <1>2, <1>3, <1>4 DEF Fitting, a

\* Reading a role's credentials comes to the same steps for every plugin.
LEMMA SharedReads == ASSUME IInv, NEW p \in Goroutines, Read(p) PROVE Issue(p)
<1> USE DEF Fit, Issue
<1>1. CASE AkamaiCredsRead(p) \/ AkamaiCredsResponse(p)
  <2>1. plugin = "akamai"
    BY <1>1 DEF AkamaiCredsRead, AkamaiCredsResponse
  <2>2. CASE At(p, "create")
    BY <1>1, <2>1, <2>2, Ends DEF AkamaiCredsRead, AkamaiCredsResponse, AkamaiLoadRole, AkamaiSelectMinter, Endless, Admit,
      Choose, Refuse, TrackOrUndo, Undo, Register, At
  <2>3. CASE At(p, "track")
    BY <1>1, <2>1, <2>3, GrantTTL, LifeAssumption DEF AkamaiCredsRead, AkamaiCredsResponse, Admit, Choose, Refuse, Create,
      CreateFail, At
  <2>4. CASE ~At(p, "create") /\ ~At(p, "track")
    BY <1>1, <2>4 DEF AkamaiCredsRead, AkamaiCredsResponse, AkamaiLoadRole, AkamaiSelectMinter, Create, CreateFail, TrackOrUndo
  <2> QED
    BY <2>2, <2>3, <2>4
<1>2. CASE AzureCredsRead(p) \/ AzureTrackIssuedCredential(p)
  <2>1. plugin = "azure"
    BY <1>2 DEF AzureCredsRead, AzureTrackIssuedCredential
  <2>2. CASE At(p, "create")
    BY <1>2, <2>1, <2>2, Ends DEF AzureCredsRead, AzureTrackIssuedCredential, Admit, Choose, Refuse, TrackOrUndo, Undo,
      Register, At
  <2>3. CASE At(p, "track")
    BY <1>2, <2>1, <2>3, GrantTTL, LifeAssumption DEF AzureCredsRead, AzureTrackIssuedCredential, Admit, Choose, Refuse,
      Create, CreateFail, Register, At
  <2>4. CASE ~At(p, "create") /\ ~At(p, "track")
    BY <1>2, <2>4 DEF AzureCredsRead, AzureTrackIssuedCredential, AzureLoadRole, AzureSelectMinter, Create, CreateFail,
      TrackOrUndo
  <2> QED
    BY <2>2, <2>3, <2>4
<1>3. CASE DOCredsRead(p) \/ DOCredsResponse(p) \/ SpacesKeyIssue(p) \/ SpacesResponse(p)
  <2>1. plugin \in {"do", "spaces"}
    BY <1>3 DEF DOCredsRead, DOCredsResponse, SpacesKeyIssue, SpacesResponse
  <2>2. CASE At(p, "create")
    BY <1>3, <2>1, <2>2, Ends DEF DOCredsRead, DOCredsResponse, SpacesKeyIssue, SpacesResponse, Endless, Admit, Choose,
      Refuse, TrackOrUndo, Undo, Register, At
  <2>3. CASE At(p, "track")
    BY <1>3, <2>1, <2>3, GrantTTL, LifeAssumption DEF DOCredsRead, DOCredsResponse, SpacesKeyIssue, SpacesResponse, Admit,
      Choose, Refuse, Create, CreateFail, At
  <2>4. CASE ~At(p, "create") /\ ~At(p, "track")
    BY <1>3, <2>4 DEF DOCredsRead, DOCredsResponse, SpacesKeyIssue, SpacesResponse, DOLoadRole, DOSelectMinter, Create,
      CreateFail, TrackOrUndo
  <2> QED
    BY <2>2, <2>3, <2>4
<1>4. CASE UpCloudCredsRead(p) \/ UpCloudCredsResponse(p)
  <2>1. plugin = "upcloud"
    BY <1>4 DEF UpCloudCredsRead, UpCloudCredsResponse
  <2>2. CASE At(p, "create")
    BY <1>4, <2>1, <2>2, Ends DEF UpCloudCredsRead, UpCloudCredsResponse, Admit, Choose, Refuse, TrackOrUndo, Undo,
      Register, At
  <2>3. CASE At(p, "track")
    BY <1>4, <2>1, <2>3, GrantTTL, LifeAssumption DEF UpCloudCredsRead, UpCloudCredsResponse, Admit, Choose, Refuse, Create,
      CreateFail, At
  <2>4. CASE ~At(p, "create") /\ ~At(p, "track")
    BY <1>4, <2>4 DEF UpCloudCredsRead, UpCloudCredsResponse, UpCloudLoadRole, UpCloudSelectMinter, Create, CreateFail,
      TrackOrUndo
  <2> QED
    BY <2>2, <2>3, <2>4
<1>5. CASE VultrCredsRead(p) \/ VultrRecordIssuedUser(p)
  <2>1. plugin = "vultr"
    BY <1>5 DEF VultrCredsRead, VultrRecordIssuedUser
  <2>2. CASE At(p, "create")
    BY <1>5, <2>1, <2>2, Ends DEF VultrCredsRead, VultrRecordIssuedUser, Endless, Admit, Choose, Refuse, Ledger, TrackOrUndo,
      Undo, Register, At
  <2>3. CASE At(p, "track")
    BY <1>5, <2>1, <2>3, GrantTTL, LifeAssumption DEF VultrCredsRead, VultrRecordIssuedUser, Admit, Choose, Refuse, Create,
      CreateFail, Ledger, Register, At
  <2>4. CASE ~At(p, "create") /\ ~At(p, "track")
    BY <1>5, <2>4 DEF VultrCredsRead, VultrRecordIssuedUser, VultrLoadRole, VultrSelectMinter, Create, CreateFail, TrackOrUndo
  <2> QED
    BY <2>2, <2>3, <2>4
<1>6. CASE AWSCredsRead(p) \/ AWSCredsResponse(p)
  <2>1. plugin = "aws"
    BY <1>6 DEF AWSCredsRead, AWSCredsResponse
  <2>2. CASE At(p, "create")
    BY <1>6, <2>1, <2>2, Ends DEF AWSCredsRead, AWSCredsResponse, Admit, Choose, Refuse, Register, At
  <2>3. CASE At(p, "track")
    BY <1>6, <2>1, <2>3, GrantRest DEF AWSCredsRead, AWSCredsResponse, Admit, Choose, Refuse, Create, CreateFail,
      Register, At, Local, Granted
  <2>4. CASE ~At(p, "create") /\ ~At(p, "track")
    BY <1>6, <2>4 DEF AWSCredsRead, AWSCredsResponse, AWSLoadRole, AWSSelectMinter, Create, CreateFail
  <2> QED
    BY <2>2, <2>3, <2>4
<1>7. CASE GCPCredsRead(p)
  <2>1. plugin = "gcp"
    BY <1>7 DEF GCPCredsRead
  <2>2. CASE At(p, "create")
    BY <1>7, <2>1, <2>2, Ends DEF GCPCredsRead, Admit, Choose, Refuse, Register, At
  <2>3. CASE At(p, "track")
    BY <1>7, <2>1, <2>3, GrantRest DEF GCPCredsRead, Admit, Choose, Refuse, Create, CreateFail, Register, At, Local, Granted
  <2>4. CASE ~At(p, "create") /\ ~At(p, "track")
    BY <1>7, <2>4 DEF GCPCredsRead, GCPLoadRole, GCPSelectMinter, Create, CreateFail
  <2> QED
    BY <2>2, <2>3, <2>4
<1>8. CASE OVHCredsRead(p) \/ OVHCredsResponse(p)
  <2>1. plugin = "ovh"
    BY <1>8 DEF OVHCredsRead, OVHCredsResponse
  <2>2. CASE At(p, "create")
    BY <1>8, <2>1, <2>2, Ends DEF OVHCredsRead, OVHCredsResponse, Admit, Choose, Refuse, TrackIfPossible, Register, At
  <2>3. CASE At(p, "track")
    BY <1>8, <2>1, <2>3, GrantTTL, LifeAssumption DEF OVHCredsRead, OVHCredsResponse, Admit, Choose, Refuse, Create,
      CreateFail, Register, At, Local
  <2>4. CASE ~At(p, "create") /\ ~At(p, "track")
    BY <1>8, <2>4 DEF OVHCredsRead, OVHCredsResponse, OVHLoadRole, OVHSelectMinter, Create, CreateFail, TrackIfPossible
  <2> QED
    BY <2>2, <2>3, <2>4
<1> HIDE DEF Fit, Issue
<1> QED
  BY <1>1, <1>2, <1>3, <1>4, <1>5, <1>6, <1>7, <1>8 DEF Read

\* So do the other calls.
LEMMA Shared == ASSUME IInv, [Next]_vars PROVE Step
<1>1. ASSUME NEW p \in Goroutines, RevokeCall(p) PROVE RevokeStep(p)
  BY <1>1 DEF RevokeCall, RevokeStep, Local, AkamaiRevoke, AzureRevoke, DORevoke, SpacesKeyRevoke, UpCloudRevoke,
    VultrRevoke, AWSRevoke, GCPRevoke, OVHRevoke, AkamaiGetMinter, AzureGetMinter, DOGetMinter, UpCloudGetMinter,
    VultrGetMinter
<1>2. ASSUME NEW p \in Goroutines, Reconcile(p) PROVE ReconcileStep(p)
  <2>1. CASE AWSReconcile(p) \/ GCPReconcile(p) \/ OVHReconcile(p)
    BY <2>1 DEF ReconcileStep, Local, AWSReconcile, GCPReconcile, OVHReconcile
  <2>2. CASE AkamaiReconcile(p) \/ AzureReconcile(p)
    BY <2>2 DEF ReconcileStep, Local, AkamaiReconcile, AzureReconcile, AkamaiListTaggedEntities, AkamaiOwnedIDs,
      AzureListTaggedEntities, AzureOwnedIDs
  <2>3. CASE DOReconcile(p)
    BY <2>3 DEF ReconcileStep, Local, DOReconcile, DOListTaggedEntities, DOOwnedIDs
  <2>4. CASE UpCloudReconcile(p) \/ VultrReconcile(p)
    BY <2>4 DEF ReconcileStep, Local, UpCloudReconcile, VultrReconcile, UpCloudListTaggedEntities, UpCloudOwnedIDs,
      VultrListTaggedEntities, VultrOwnedIDs
  <2> QED
    BY <1>2, <2>1, <2>2, <2>3, <2>4 DEF Reconcile
<1>3. ASSUME NEW p \in Goroutines, Purge(p) PROVE PurgeStep(p)
  BY <1>3 DEF Purge, PurgeStep, AkamaiPurge, AzurePurge, DOPurge, UpCloudPurge, VultrPurge, AkamaiGetMinter,
    AzureGetMinter, DOGetMinter, UpCloudGetMinter, VultrGetMinter
<1>4. ASSUME NEW k \in Keys, AkamaiRenew(k) \/ DORenew(k) \/ VultrRenew(k) PROVE plugin \in Endless /\ Renew(k)
  BY <1>4 DEF AkamaiRenew, DORenew, VultrRenew, Endless
<1>5. CASE Next
  BY <1>1, <1>2, <1>3, <1>4, <1>5, SharedReads DEF Next, Step
<1> QED
  BY <1>5 DEF Step

-----------------------------------------------------------------------------
(* What a step leaves alone. *)

\* No instant passes; what was made stays as made, and only what is made now
\* begins to work.  A lease is given only on what an issue holds, and changed under
\* no other issue.  A record appears only of a late issue, and goes only where
\* nobody needs it.
Steady ==
    /\ plugin' = plugin /\ clock' = clock
    /\ \A k \in Keys : cred[k] # None => cred'[k] = cred[k]
    /\ \A k \in live' \ live : cred[k] = None /\ cred'[k] # None
    /\ \A k \in Keys : InFlight(k)' => InFlight(k) \/ cred[k] = None
    /\ \A k \in Keys : lease'[k] = "active" => lease[k] = "active" \/ InFlight(k)
    /\ \A q \in Goroutines :
          job'[q] = job[q] /\ job[q].pc \in Holding => lease'[job[q].key] = lease[job[q].key]
    /\ \A k \in tracked' \ tracked : cred[k] # None /\ clock <= cred[k].asked + MaxOp
    /\ \A k \in tracked \ tracked' : k \notin live' \/ plugin \in Local \/ (lease[k] # "active" /\ ~InFlight(k))
    /\ armed # None => armed' # None /\ armed <= armed'
    /\ closed' # None => closed' = closed \/ closed' = clock

\* What an issue holds has been made, and works for no client yet.
LEMMA HeldKey ==
    ASSUME IInv, NEW p \in Goroutines, job[p].pc \in Holding
    PROVE  /\ job[p].key \in Keys /\ cred[job[p].key] # None /\ cred[job[p].key] \in Cred
           /\ lease[job[p].key] = "none" /\ InFlight(job[p].key)
           /\ cred[job[p].key].asked = job[p].at /\ cred[job[p].key].by = job[p].by
           /\ \A q \in Goroutines \ {p} : ~(job[q].pc \in Issuing /\ job[q].key = job[p].key)
<1>1. /\ job[p].key \in Keys /\ cred[job[p].key] # None /\ lease[job[p].key] = "none"
      /\ cred[job[p].key].asked = job[p].at /\ cred[job[p].key].by = job[p].by
  BY DEF IInv, IssueInv
<1>2. cred[job[p].key] \in Cred
  BY <1>1 DEF IInv, TypeOK
<1>3. InFlight(job[p].key)
  BY DEF InFlight, Holding
<1>4. ASSUME NEW q \in Goroutines \ {p}, job[q].pc \in Issuing, job[q].key = job[p].key PROVE FALSE
  <2>1. job[q].pc \in Holding
    BY <1>1, <1>4, Nothing DEF IInv, IssueInv, Holding
  <2> QED
    BY <1>4, <2>1 DEF IInv, OneIssuer
<1> QED
  BY <1>1, <1>2, <1>3, <1>4

LEMMA OthersKept ==
    ASSUME IInv, TypeOK', Steady, NEW q \in Goroutines, job'[q] = job[q]
    PROVE  IssueInv(q)' /\ RevokeInv(q)' /\ ReconcileInv(q)' /\ PurgeInv(q)'
<1> USE DEF Steady
<1>1. IssueInv(q) /\ RevokeInv(q) /\ ReconcileInv(q) /\ PurgeInv(q)
  BY DEF IInv
<1>2. job[q] \in Job /\ clock \in Nat /\ MaxOp \in Nat /\ tracked \subseteq Keys /\ tracked' \subseteq Keys /\ live \subseteq Keys
  BY HoldAssumption DEF IInv, TypeOK
<1>3. IssueInv(q)'
  <2>1. CASE job[q].pc \in Holding
    <3> DEFINE k == job[q].key
    <3>1. /\ k \in Keys /\ cred[k] # None /\ cred'[k] = cred[k] /\ lease[k] = "none" /\ lease'[k] = lease[k]
          /\ cred[k].asked = job[q].at /\ cred[k].by = job[q].by /\ InFlight(k)
      BY <2>1, HeldKey
    <3>2. job[q].pc = "register" /\ plugin \notin Local /\ k \in live' => k \in tracked'
      BY <1>1, <3>1 DEF IssueInv, At
    <3> HIDE DEF k
    <3> QED
      BY <1>1, <2>1, <3>1, <3>2 DEF IssueInv, At, k, Holding
  <2>2. CASE job[q].pc \notin Holding
    <3>1. job[q].pc \in {"admitted", "create"} => job[q].at <= clock
      BY <1>1 DEF IssueInv, Issuing
    <3>2. job[q].at \in Nat /\ (closed' # None => closed' \in Nat)
      BY <1>2 DEF Job, TypeOK
    <3> QED
      BY <1>1, <1>2, <2>2, <3>1, <3>2 DEF IssueInv, At, Holding, Issuing
  <2> QED
    BY <2>1, <2>2
<1>4. RevokeInv(q)'
  BY <1>1 DEF RevokeInv, At
<1>5. ReconcileInv(q)'
  <2>1. job[q].todo \subseteq Keys
    BY <1>2 DEF Job
  <2> QED
    BY <1>1, <2>1 DEF ReconcileInv, At
<1>6. PurgeInv(q)'
  <2>1. job[q].todo \subseteq Keys /\ job[q].at \in Nat
    BY <1>2 DEF Job
  <2>2. armed # None => armed \in Nat /\ armed <= clock /\ armed' \in Nat /\ armed <= armed'
    BY DEF IInv, TypeOK, IntentInv
  <2>3. \A k \in Keys : cred[k] # None => cred'[k] = cred[k] /\ cred[k].asked \in Nat
    BY DEF IInv, TypeOK, Cred
  <2>4. \A k \in tracked' : k \notin tracked => clock <= cred'[k].asked + MaxOp
    BY <1>2
  <2>5. \A k \in tracked : cred[k] # None
    BY <1>2 DEF IInv, KeyInv
  <2>6. job[q].pc \in Purging => armed' # None /\ job[q].at <= armed' /\ job[q].at <= clock
    BY <1>1, <1>2, <2>1, <2>2 DEF PurgeInv
  <2>7. job[q].pc \in {"purge", "drop"} => \A k \in tracked' : k \in job[q].left \/ job[q].at <= cred'[k].asked + MaxOp
    <3> SUFFICES ASSUME job[q].pc \in {"purge", "drop"}, NEW k \in tracked', k \notin job[q].left
                 PROVE  job[q].at <= cred'[k].asked + MaxOp
      OBVIOUS
    <3>1. CASE k \in tracked
      BY <1>1, <1>2, <2>3, <2>5, <3>1 DEF PurgeInv
    <3>2. CASE k \notin tracked
      <4>1. cred'[k].asked \in Nat /\ clock <= cred'[k].asked + MaxOp
        BY <1>2, <2>3, <2>4, <3>2
      <4> QED
        BY <1>2, <2>1, <2>6, <4>1 DEF Purging
    <3> QED
      BY <3>1, <3>2
  <2> QED
    BY <1>1, <2>1, <2>3, <2>6, <2>7 DEF PurgeInv, At
<1> QED
  BY <1>3, <1>4, <1>5, <1>6

LEMMA KeyKept ==
    ASSUME IInv, TypeOK', Steady, NEW k \in Keys, cred'[k] = cred[k], lease'[k] = lease[k], until'[k] = until[k]
    PROVE  KeyInv(k)'
<1> USE DEF Steady
<1>1. KeyInv(k)
  BY DEF IInv
<1>2. cred[k] = None => k \notin live' \cup tracked'
  BY <1>1 DEF KeyInv
<1>3. clock \in Nat /\ MaxOp \in Nat /\ (cred[k] # None => cred[k].asked \in Nat /\ cred[k].made \in Nat)
  BY HoldAssumption DEF IInv, TypeOK, Cred
<1>4. cred[k] # None /\ closed' # None => cred[k].asked <= closed' + MaxOp
  BY <1>1, <1>3 DEF KeyInv
<1>5. Fitting(cred[k].ends, cred[k].asked) => Fitting(cred[k].ends, cred[k].asked)'
  BY DEF Fitting
<1>6. lease[k] = "active" /\ plugin \notin Local /\ k \in live' => k \in tracked'
  BY <1>1 DEF KeyInv
<1> QED
  BY <1>1, <1>2, <1>4, <1>5, <1>6 DEF KeyInv

LEMMA FlightKept ==
    ASSUME IInv, NEW p \in Goroutines, \A q \in Goroutines \ {p} : job'[q] = job[q],
           job'[p].pc \in Issuing =>
              \/ job'[p].key = None
              \/ job[p].pc \in Issuing /\ job'[p].key = job[p].key
              \/ cred[job'[p].key] = None
    PROVE  OneIssuer' /\ \A k \in Keys : InFlight(k)' => InFlight(k) \/ cred[k] = None
<1>1. ASSUME NEW q \in Goroutines \ {p}, job'[p].pc \in Holding, job'[q].pc \in Holding, job'[q].key = job'[p].key
      PROVE  FALSE
  <2>1. job[q].pc \in Holding /\ job[q].key = job'[p].key
    BY <1>1
  <2>2. job'[p].key \in Keys /\ cred[job'[p].key] # None
    BY <2>1, HeldKey
  <2>3. job[p].pc \in Issuing /\ job[p].key = job[q].key
    BY <1>1, <2>1, <2>2, Nothing DEF Holding
  <2> QED
    BY <2>1, <2>3, HeldKey
<1>2. OneIssuer'
  BY <1>1 DEF IInv, OneIssuer
<1>3. ASSUME NEW k \in Keys, InFlight(k)' PROVE InFlight(k) \/ cred[k] = None
  BY <1>3, Nothing DEF InFlight
<1> QED
  BY <1>2, <1>3

\* A purge's intent, and the role, if nobody writes them.
LEMMA IntentKept ==
    ASSUME IInv, TypeOK', Steady, UNCHANGED <<intent, armed>>
    PROVE  IntentInv'
<1>1. \A k \in tracked : cred[k] # None /\ cred'[k] = cred[k]
  BY DEF IInv, TypeOK, KeyInv, Steady
<1>2. clock \in Nat /\ MaxOp \in Nat /\ (armed # None => armed \in Nat) /\ (intent # None => intent.cutoff \in Nat)
  BY HoldAssumption DEF IInv, TypeOK, Intent
<1>3. ASSUME intent # None, intent.complete, NEW k \in tracked' PROVE intent.cutoff <= cred'[k].asked + MaxOp
  <2>1. CASE k \in tracked
    BY <1>1, <1>3, <2>1 DEF IInv, IntentInv
  <2>2. CASE k \notin tracked
    <3>1. k \in Keys /\ cred[k] # None /\ cred'[k] = cred[k] /\ clock <= cred[k].asked + MaxOp
      BY <1>3, <2>2 DEF Steady, TypeOK
    <3>2. cred[k].asked \in Nat
      BY <3>1 DEF IInv, TypeOK, Cred
    <3>3. intent.cutoff <= armed /\ armed # None /\ armed <= clock
      BY <1>3 DEF IInv, IntentInv
    <3> QED
      BY <1>2, <1>3, <3>1, <3>2, <3>3
  <2> QED
    BY <2>1, <2>2
<1>4. armed # None => armed <= clock
  BY DEF IInv, IntentInv
<1>5. intent # None => armed # None /\ intent.cutoff <= armed
  BY DEF IInv, IntentInv
<1> QED
  BY <1>3, <1>4, <1>5 DEF IntentInv, Steady

LEMMA RoleKept == ASSUME IInv, UNCHANGED <<role, closed, clock>> PROVE RoleInv'
BY DEF IInv, RoleInv

\* A step of one goroutine that makes nothing, gives nobody a lease and writes
\* neither the role nor the set.
Minor(p, n) ==
    /\ n \in Job /\ job' = [job EXCEPT ![p] = n]
    /\ n.pc \in Issuing => n.key = None \/ (job[p].pc \in Issuing /\ n.key = job[p].key)
    /\ UNCHANGED <<plugin, clock, role, closed, minter, cred, until>>
    /\ intent' \in Intent \cup {None} /\ armed' \in {armed, clock}
    /\ ledger' \subseteq Keys /\ faults' \in Nat /\ acts' \in Nat
    /\ live' \subseteq live /\ tracked' \subseteq Keys
    /\ \A k \in tracked' \ tracked : cred[k] # None /\ clock <= cred[k].asked + MaxOp
    /\ \A k \in tracked \ tracked' : k \notin live' \/ plugin \in Local \/ (lease[k] # "active" /\ ~InFlight(k))
    /\ lease' \in [Keys -> {"none", "active", "ending", "over"}]
    /\ \A k \in Keys : lease'[k] = lease[k] \/ (lease[k] # "none" /\ lease'[k] \in {"ending", "over"})

LEMMA MinorStep ==
    ASSUME IInv, NEW p \in Goroutines, NEW n, Minor(p, n)
    PROVE  /\ job'[p] = n
           /\ \A k \in Keys : InFlight(k)' => InFlight(k)
           /\ UNCHANGED <<intent, armed>> => IntentInv'
           /\ IntentInv' /\ IssueInv(p)' /\ RevokeInv(p)' /\ ReconcileInv(p)' /\ PurgeInv(p)' => IInv'
<1> USE DEF Minor
<1>1. job'[p] = n /\ \A q \in Goroutines \ {p} : job'[q] = job[q]
  BY DEF IInv, TypeOK
<1>2. TypeOK'
  <2>1. job' \in [Goroutines -> Job]
    BY DEF IInv, TypeOK
  <2>2. armed' \in Nat \cup {None} /\ closed' \in Nat \cup {None} /\ live' \subseteq Keys
    BY DEF IInv, TypeOK
  <2> QED
    BY <2>1, <2>2 DEF IInv, TypeOK
<1>3. \A k \in Keys : InFlight(k)' => InFlight(k)
  BY <1>1, Nothing DEF InFlight
<1>4. OneIssuer'
  BY <1>1, FlightKept
<1>5. \A q \in Goroutines : job'[q] = job[q] /\ job[q].pc \in Holding => lease'[job[q].key] = lease[job[q].key]
  BY HeldKey
<1>6. armed # None => armed' # None /\ armed <= armed'
  BY Nothing DEF IInv, TypeOK, IntentInv
<1>7. Steady
  BY <1>3, <1>5, <1>6 DEF Steady
<1>8. \A q \in Goroutines \ {p} : IssueInv(q)' /\ RevokeInv(q)' /\ ReconcileInv(q)' /\ PurgeInv(q)'
  BY <1>1, <1>2, <1>7, OthersKept
<1>9. ASSUME NEW k \in Keys PROVE KeyInv(k)'
  <2>1. CASE lease'[k] = lease[k]
    BY <1>2, <1>7, <2>1, KeyKept
  <2>2. CASE lease[k] # "none" /\ lease'[k] \in {"ending", "over"}
    <3>1. cred[k] # None /\ KeyInv(k)
      BY <2>2 DEF IInv, KeyInv
    <3>2. Fitting(cred[k].ends, cred[k].asked)'
      BY <3>1 DEF KeyInv, Fitting
    <3> QED
      BY <2>2, <3>1, <3>2 DEF KeyInv
  <2> QED
    BY <2>1, <2>2
<1>10. UNCHANGED <<intent, armed>> => IntentInv'
  BY <1>2, <1>7, IntentKept
<1>11. RoleInv'
  BY RoleKept
<1> QED
  BY <1>1, <1>2, <1>3, <1>4, <1>8, <1>9, <1>10, <1>11 DEF IInv

\* A goroutine that is done owes nothing.
LEMMA Finished ==
    ASSUME IInv, NEW p \in Goroutines, Minor(p, Idle), IntentInv' \/ UNCHANGED <<intent, armed>>
    PROVE  IInv'
<1>1. job'[p] = Idle
  BY MinorStep
<1>2. IssueInv(p)' /\ RevokeInv(p)' /\ ReconcileInv(p)' /\ PurgeInv(p)'
  BY <1>1, IdleOK DEF IssueInv, RevokeInv, ReconcileInv, PurgeInv, At, Issuing, Holding, Purging
<1> QED
  BY <1>2, MinorStep

\* The bounds are counted up.
LEMMA Counted ==
    ASSUME IInv, UNCHANGED bounds \/ Fault \/ Act
    PROVE  faults' \in Nat /\ acts' \in Nat
BY DEF IInv, TypeOK, bounds, Fault, Act

\* Most of them change nothing but the goroutine's locals.
LEMMA OnlyLocals ==
    ASSUME IInv, NEW p \in Goroutines, NEW n \in Job, job' = [job EXCEPT ![p] = n],
           n.pc \in Issuing => n.key = None \/ (job[p].pc \in Issuing /\ n.key = job[p].key),
           UNCHANGED <<plugin, clock, storage, minter, upstream, leases, history>>,
           UNCHANGED bounds \/ Fault \/ Act
    PROVE  Minor(p, n)
<1>1. faults' \in Nat /\ acts' \in Nat
  BY Counted
<1> QED
  BY <1>1 DEF Minor, IInv, TypeOK, storage, upstream, leases, history

-----------------------------------------------------------------------------
(* The read of creds/<role>. *)

LEMMA AdmitKept == ASSUME IInv, NEW p \in Goroutines, Admit(p, role = "open") PROVE IInv'
<1> DEFINE n == [job[p] EXCEPT !.pc = "admitted", !.at = clock]
<1>1. job[p] = Idle /\ role = "open" /\ job' = [job EXCEPT ![p] = n]
  BY DEF Admit, IInv, IssueInv, TypeOK, At
<1>2. n \in Job /\ n.pc = "admitted" /\ n.at = clock /\ n.key = None
  BY <1>1, IdleOK DEF IInv, TypeOK, Job, Issuing
<1> HIDE DEF n
<1>3. Minor(p, n)
  BY <1>1, <1>2, OnlyLocals DEF Admit
<1>4. job'[p] = n /\ closed' = None /\ clock' = clock
  BY <1>1, <1>3, MinorStep, ZenonT(30) DEF Minor, IInv, RoleInv
<1>5. clock \in Nat /\ MaxOp \in Nat
  BY HoldAssumption DEF IInv, TypeOK
<1>6. IssueInv(p)' /\ RevokeInv(p)' /\ ReconcileInv(p)' /\ PurgeInv(p)'
  BY <1>2, <1>4, <1>5 DEF IssueInv, RevokeInv, ReconcileInv, PurgeInv, At, Issuing, Holding, Purging
<1> QED
  BY <1>3, <1>6, MinorStep DEF Admit, storage, history

LEMMA ChooseKept == ASSUME IInv, NEW p \in Goroutines, Choose(p, Fit) PROVE IInv'
<1>1. PICK m \in Fit : job' = [job EXCEPT ![p].pc = "create", ![p].by = m, ![p].at = clock]
  BY DEF Choose
<1> DEFINE n == [job[p] EXCEPT !.pc = "create", !.by = m, !.at = clock]
<1>2. job' = [job EXCEPT ![p] = n] /\ m \in Minters
  BY <1>1 DEF IInv, TypeOK, Fit, Healthy
<1>3. At(p, "admitted") /\ job[p] \in Job /\ job[p].key = None
  BY DEF Choose, IInv, TypeOK, IssueInv, At
<1>4. n \in Job /\ n.pc = "create" /\ n.at = clock /\ n.key = None /\ n.by \in Minters
  BY <1>2, <1>3 DEF IInv, TypeOK, Job, Issuing
<1> HIDE DEF n
<1>5. Minor(p, n)
  BY <1>2, <1>4, OnlyLocals DEF Choose
<1>6. job'[p] = n /\ closed' = closed /\ clock' = clock
  BY <1>5, MinorStep DEF Minor
<1>7. clock \in Nat /\ MaxOp \in Nat /\ job[p].at \in Nat /\ (closed # None => closed \in Nat)
  BY <1>3, HoldAssumption DEF IInv, TypeOK, Job
<1>8. clock <= job[p].at + MaxOp /\ (closed # None => job[p].at <= closed)
  BY <1>3 DEF IInv, IssueInv, At, Issuing
<1>9. closed # None => clock <= closed + MaxOp
  BY <1>7, <1>8
<1>10. IssueInv(p)' /\ RevokeInv(p)' /\ ReconcileInv(p)' /\ PurgeInv(p)'
  BY <1>4, <1>6, <1>7, <1>9 DEF IssueInv, RevokeInv, ReconcileInv, PurgeInv, At, Issuing, Holding, Purging
<1> QED
  BY <1>5, <1>10, MinorStep DEF Choose, storage, history

LEMMA RefuseKept == ASSUME IInv, NEW p \in Goroutines, Refuse(p, Fit) PROVE IInv'
<1>1. Minor(p, Idle)
  BY IdleOK, OnlyLocals DEF Refuse, Finish
<1> QED
  BY <1>1, Finished DEF Refuse, storage, history

\* A credential is made, and is on nobody's record yet.
Making(p, k, e, n) ==
    /\ e \in Nat \cup {None} /\ Fitting(e, job[p].at)
    /\ At(p, "create") /\ Make(p, k, e)
    /\ n \in Job /\ (n.pc \in Issuing => n.key = k) /\ job' = [job EXCEPT ![p] = n]
    /\ UNCHANGED <<plugin, clock, storage, minter, leases, history>> /\ (UNCHANGED bounds \/ Fault)

LEMMA MakeStep ==
    ASSUME IInv, NEW p \in Goroutines, NEW k \in Keys, NEW e, NEW n, Making(p, k, e, n)
    PROVE  /\ job'[p] = n /\ cred'[k] \in Cred /\ cred'[k] # None
           /\ cred'[k].asked = job[p].at /\ cred'[k].by = job[p].by /\ lease[k] = "none" /\ k \notin tracked
           /\ cred'[k].made = clock /\ cred'[k].ends = e
           /\ \A j \in Keys \ {k} : cred'[j] = cred[j]
           /\ IssueInv(p)' /\ RevokeInv(p)' /\ ReconcileInv(p)' /\ PurgeInv(p)' => IInv'
<1> USE DEF Making
<1> DEFINE r == [asked |-> job[p].at, made |-> clock, by |-> job[p].by, ends |-> e]
<1>1. job[p] \in Job /\ job[p].by \in Minters /\ job[p].at \in Nat /\ clock \in Nat /\ job[p].at <= clock
  BY DEF IInv, TypeOK, IssueInv, At, Issuing, Job
<1>2. r \in Cred /\ r.asked = job[p].at /\ r.by = job[p].by /\ r.made = clock /\ r.ends = e
  BY <1>1 DEF Cred
<1>3. cred[k] = None /\ cred' = [cred EXCEPT ![k] = r] /\ live' = live \cup {k}
  BY DEF Make
<1> HIDE DEF r
<1>4. r # None
  BY <1>2, Nothing
<1>5. cred'[k] = r /\ (\A j \in Keys \ {k} : cred'[j] = cred[j]) /\ cred' \in [Keys -> Cred \cup {None}]
  BY <1>2, <1>3 DEF IInv, TypeOK
<1>6. job'[p] = n /\ (\A q \in Goroutines \ {p} : job'[q] = job[q]) /\ job' \in [Goroutines -> Job]
  BY DEF IInv, TypeOK
<1>7. UNCHANGED <<plugin, clock, role, tracked, ledger, intent, minter, lease, until, closed, armed>>
  BY DEF storage, leases, history
<1>8. TypeOK'
  <2>1. faults' \in Nat /\ acts' \in Nat
    BY Counted
  <2> QED
    BY <1>3, <1>5, <1>6, <1>7, <2>1 DEF IInv, TypeOK
<1>9. lease[k] = "none" /\ k \notin tracked /\ k \notin live
  BY <1>3 DEF IInv, KeyInv
<1>10. OneIssuer' /\ \A j \in Keys : InFlight(j)' => InFlight(j) \/ cred[j] = None
  BY <1>3, <1>6, FlightKept
<1>11. Steady
  <2>1. armed # None => armed <= armed'
    BY <1>7 DEF IInv, TypeOK
  <2> QED
    BY <1>3, <1>4, <1>5, <1>7, <1>10, <2>1 DEF Steady
<1>12. \A q \in Goroutines \ {p} : IssueInv(q)' /\ RevokeInv(q)' /\ ReconcileInv(q)' /\ PurgeInv(q)'
  BY <1>6, <1>8, <1>11, OthersKept
<1>13. \A j \in Keys \ {k} : KeyInv(j)'
  BY <1>5, <1>7, <1>8, <1>11, KeyKept
<1>14. KeyInv(k)'
  <2>1. closed # None => job[p].at <= closed + MaxOp
    BY DEF IInv, IssueInv
  <2>2. Fitting(cred[k].ends, cred[k].asked)'
    BY <1>2, <1>5, <1>7 DEF Fitting
  <2> QED
    BY <1>1, <1>2, <1>4, <1>5, <1>7, <1>9, <2>1, <2>2 DEF KeyInv
<1>15. IntentInv' /\ RoleInv'
  BY <1>7, <1>8, <1>11, IntentKept, RoleKept
<1> QED
  BY <1>2, <1>4, <1>5, <1>6, <1>8, <1>9, <1>10, <1>12, <1>13, <1>14, <1>15 DEF IInv

LEMMA CreateKept ==
    ASSUME IInv, NEW p \in Goroutines, NEW e \in Nat \cup {None}, Fitting(e, job[p].at), NEW l \in {"record", "track"},
           Create(p, e, l)
    PROVE  IInv'
<1>1. PICK k \in Keys : Make(p, k, e) /\ job' = [job EXCEPT ![p].pc = l, ![p].key = k]
  BY DEF Create
<1> DEFINE n == [job[p] EXCEPT !.pc = l, !.key = k]
<1>2. At(p, "create") /\ job[p] \in Job /\ job' = [job EXCEPT ![p] = n]
  BY <1>1 DEF Create, IInv, TypeOK
<1>3. n \in Job /\ n.pc = l /\ n.key = k /\ n.at = job[p].at /\ n.by = job[p].by
  BY <1>2 DEF Job, Issuing
<1> HIDE DEF n
<1>4. UNCHANGED <<plugin, clock, storage, minter, leases, history>> /\ UNCHANGED bounds
  BY DEF Create
<1>5. /\ job'[p] = n /\ cred'[k] # None /\ cred'[k].asked = job[p].at /\ cred'[k].by = job[p].by /\ lease[k] = "none"
      /\ IssueInv(p)' /\ RevokeInv(p)' /\ ReconcileInv(p)' /\ PurgeInv(p)' => IInv'
  <2>1. Making(p, k, e, n)
    BY <1>1, <1>2, <1>3, <1>4 DEF Making
  <2> QED
    BY <2>1, MakeStep
<1>6. clock' = clock /\ lease' = lease
  BY <1>4 DEF leases
<1>7. job[p].at <= clock /\ clock <= job[p].at + MaxOp
  BY <1>2 DEF IInv, IssueInv, At, Issuing
<1>8. IssueInv(p)' /\ RevokeInv(p)' /\ ReconcileInv(p)' /\ PurgeInv(p)'
  BY <1>3, <1>5, <1>6, <1>7 DEF IssueInv, RevokeInv, ReconcileInv, PurgeInv, At, Issuing, Holding, Purging
<1> QED
  BY <1>5, <1>8

LEMMA CreateFailKept ==
    ASSUME IInv, NEW p \in Goroutines, NEW e \in Nat \cup {None}, Fitting(e, job[p].at), CreateFail(p, e)
    PROVE  IInv'
<1>1. CASE UNCHANGED upstream
  <2>1. UNCHANGED bounds \/ Fault
    BY DEF CreateFail
  <2>2. Minor(p, Idle)
    BY <1>1, <2>1, IdleOK, OnlyLocals DEF CreateFail, Finish
  <2> QED
    BY <2>2, Finished DEF CreateFail, storage, history
<1>2. CASE Fault /\ \E k \in Keys : Make(p, k, e)
  <2>1. PICK k \in Keys : Make(p, k, e)
    BY <1>2
  <2>2. job'[p] = Idle /\ (IssueInv(p)' /\ RevokeInv(p)' /\ ReconcileInv(p)' /\ PurgeInv(p)' => IInv')
    <3>1. Making(p, k, e, Idle)
      BY <1>2, <2>1, IdleOK DEF CreateFail, Finish, Issuing, Making
    <3> QED
      BY <3>1, MakeStep
  <2>3. IssueInv(p)' /\ RevokeInv(p)' /\ ReconcileInv(p)' /\ PurgeInv(p)'
    BY <2>2, IdleOK DEF IssueInv, RevokeInv, ReconcileInv, PurgeInv, At, Issuing, Holding, Purging
  <2> QED
    BY <2>2, <2>3
<1> QED
  BY <1>1, <1>2 DEF CreateFail

\* An issue goes on with what it has made.
LEMMA HeldOn ==
    ASSUME IInv, NEW p \in Goroutines, job[p].pc \in Holding, NEW n \in Job, Minor(p, n),
           n.pc \in {"track", "undo", "register"}, n.key = job[p].key, n.at = job[p].at, n.by = job[p].by,
           UNCHANGED <<intent, armed, lease>>,
           n.pc = "register" =>
              /\ cred[n.key].ends # None => n.at + n.ttl <= cred[n.key].ends
              /\ plugin \notin Local /\ n.key \in live' => n.key \in tracked'
    PROVE  IInv'
<1>1. /\ n.key \in Keys /\ cred[n.key] # None /\ lease[n.key] = "none"
      /\ cred[n.key].asked = n.at /\ cred[n.key].by = n.by
  BY HeldKey
<1>2. n.at <= clock /\ clock <= n.at + MaxOp
  BY DEF IInv, IssueInv, Holding
<1>3. job'[p] = n /\ cred' = cred /\ clock' = clock /\ plugin' = plugin
  BY MinorStep DEF Minor
<1>4. IssueInv(p)' /\ RevokeInv(p)' /\ ReconcileInv(p)' /\ PurgeInv(p)'
  BY <1>1, <1>2, <1>3 DEF IssueInv, RevokeInv, ReconcileInv, PurgeInv, At, Issuing, Holding, Purging
<1> QED
  BY <1>4, MinorStep

LEMMA LedgerKept == ASSUME IInv, NEW p \in Goroutines, Ledger(p) PROVE IInv'
<1> DEFINE n == [job[p] EXCEPT !.pc = "track"]
<1>1. job[p] \in Job /\ job[p].pc = "record" /\ job[p].pc \in Holding /\ job' = [job EXCEPT ![p] = n]
  BY DEF Ledger, IInv, TypeOK, At, Issuing, Holding
<1>2. n \in Job /\ n.pc = "track" /\ n.key = job[p].key /\ n.at = job[p].at /\ n.by = job[p].by
  BY <1>1 DEF Job, Issuing
<1> HIDE DEF n
<1>3. faults' \in Nat /\ acts' \in Nat
  BY Counted DEF Ledger
<1>4. ledger' \subseteq Keys
  BY <1>1, HeldKey DEF Ledger, IInv, TypeOK
<1>5. Minor(p, n)
  BY <1>1, <1>2, <1>3, <1>4 DEF Minor, Ledger, Issuing, IInv, TypeOK, upstream, leases, history
<1> QED
  BY <1>1, <1>2, <1>5, HeldOn DEF Ledger, history, leases

\* The record of a late issue.
LEMMA Tracks ==
    ASSUME IInv, NEW p \in Goroutines, At(p, "track"), NEW n \in Job, job' = [job EXCEPT ![p] = n],
           n.pc \in Issuing, n.key = job[p].key, tracked' \in {tracked, tracked \cup {job[p].key}},
           UNCHANGED <<plugin, clock, role, ledger, intent, minter, upstream, leases, history>>,
           UNCHANGED bounds \/ Fault
    PROVE  Minor(p, n)
<1>1. job[p].pc \in Holding /\ job[p].pc \in Issuing
  BY DEF At, Holding, Issuing
<1>2. job[p].key \in Keys /\ cred[job[p].key] # None /\ cred[job[p].key].asked = job[p].at
  BY <1>1, HeldKey
<1>3. clock <= job[p].at + MaxOp
  BY <1>1 DEF IInv, IssueInv
<1>4. faults' \in Nat /\ acts' \in Nat
  BY Counted
<1> QED
  BY <1>1, <1>2, <1>3, <1>4 DEF Minor, IInv, TypeOK, upstream, leases, history

LEMMA TrackKept ==
    ASSUME IInv, NEW p \in Goroutines, NEW t \in Nat, Granted(t, job[p].key),
           TrackOrUndo(p, t) \/ (plugin \in Local /\ TrackIfPossible(p, t))
    PROVE  IInv'
<1>1. job[p] \in Job /\ At(p, "track") /\ job[p].pc \in Holding
  BY DEF TrackOrUndo, TrackIfPossible, IInv, TypeOK, At, Issuing, Holding
<1>2. CASE TrackOrUndo(p, t) /\ tracked' = tracked
  <2> DEFINE n == [job[p] EXCEPT !.pc = "undo"]
  <2>1. n \in Job /\ n.pc = "undo" /\ n.key = job[p].key /\ n.at = job[p].at /\ n.by = job[p].by
    BY <1>1 DEF Job, Issuing
  <2>2. CASE job' = [job EXCEPT ![p].pc = "undo"]
    <3>1. job' = [job EXCEPT ![p] = n]
      BY <2>2 DEF IInv, TypeOK
    <3> HIDE DEF n
    <3>2. Minor(p, n)
      BY <1>1, <1>2, <2>1, <3>1, Tracks DEF TrackOrUndo, Issuing
    <3> QED
      BY <1>1, <1>2, <2>1, <3>2, HeldOn DEF TrackOrUndo, history, leases
  <2>3. CASE ~(job' = [job EXCEPT ![p].pc = "undo"])
    <3> DEFINE m == [job[p] EXCEPT !.pc = "register", !.ttl = t]
    <3>1. job' = [job EXCEPT ![p] = m] /\ job[p].key \in tracked'
      BY <1>2, <2>3 DEF TrackOrUndo, IInv, TypeOK
    <3>2. m \in Job /\ m.pc = "register" /\ m.key = job[p].key /\ m.at = job[p].at /\ m.by = job[p].by /\ m.ttl = t
      BY <1>1 DEF Job, Issuing
    <3> HIDE DEF m
    <3>3. Minor(p, m)
      BY <1>1, <1>2, <2>3, <3>1, <3>2, Tracks DEF TrackOrUndo, Issuing
    <3>4. cred[m.key].ends # None => m.at + m.ttl <= cred[m.key].ends
      BY <1>1, <3>2, HeldKey DEF Granted
    <3> QED
      BY <1>1, <1>2, <3>1, <3>2, <3>3, <3>4, HeldOn DEF TrackOrUndo, history, leases
  <2> QED
    BY <2>2, <2>3
<1>3. CASE tracked' # tracked \/ (plugin \in Local /\ TrackIfPossible(p, t))
  <2> DEFINE m == [job[p] EXCEPT !.pc = "register", !.ttl = t]
  <2>1. job' = [job EXCEPT ![p] = m]
    BY <1>3 DEF TrackOrUndo, TrackIfPossible, IInv, TypeOK
  <2>2. m \in Job /\ m.pc = "register" /\ m.key = job[p].key /\ m.at = job[p].at /\ m.by = job[p].by /\ m.ttl = t
    BY <1>1 DEF Job, Issuing
  <2> HIDE DEF m
  <2>3. tracked' \in {tracked, tracked \cup {job[p].key}} /\ (plugin \in Local \/ job[p].key \in tracked')
    BY <1>3 DEF TrackOrUndo, TrackIfPossible
  <2>4. /\ UNCHANGED <<plugin, clock, role, ledger, intent, minter, upstream, leases, history>>
        /\ UNCHANGED bounds \/ Fault
    BY DEF TrackOrUndo, TrackIfPossible
  <2>5. Minor(p, m)
    BY <1>1, <2>1, <2>2, <2>3, <2>4, Tracks DEF Issuing
  <2>6. cred[m.key].ends # None => m.at + m.ttl <= cred[m.key].ends
    BY <1>1, <2>2, HeldKey DEF Granted
  <2> QED
    BY <1>1, <2>2, <2>3, <2>4, <2>5, <2>6, HeldOn DEF history, leases
<1> QED
  BY <1>2, <1>3

LEMMA UndoKept == ASSUME IInv, NEW p \in Goroutines, Undo(p) PROVE IInv'
<1>1. faults' \in Nat /\ acts' \in Nat
  BY Counted DEF Undo
<1>2. Minor(p, Idle)
  BY <1>1, IdleOK DEF Minor, Undo, Finish, Issuing, IInv, TypeOK, storage, leases, history
<1> QED
  BY <1>2, Finished DEF Undo, storage, history

LEMMA RegisterKept == ASSUME IInv, NEW p \in Goroutines, Register(p) PROVE IInv'
<1>1. job[p] \in Job /\ At(p, "register") /\ job[p].pc \in Holding
  BY DEF Register, IInv, TypeOK, At, Issuing, Holding
<1>0. PICK k \in Keys : k = job[p].key
  BY <1>1, HeldKey
<1>2. /\ k \in Keys /\ cred[k] # None /\ cred[k] \in Cred /\ lease[k] = "none" /\ cred[k].asked = job[p].at
      /\ InFlight(k) /\ \A q \in Goroutines \ {p} : ~(job[q].pc \in Issuing /\ job[q].key = k)
  BY <1>0, <1>1, HeldKey
<1>3. UNCHANGED <<plugin, clock, role, tracked, ledger, intent, minter, cred, live, closed, armed>>
  BY DEF Register, storage, upstream, history
<1>4. faults' \in Nat /\ acts' \in Nat
  BY Counted DEF Register
<1>5. CASE Finish(p) /\ lease' = [lease EXCEPT ![k] = "active"] /\ until' = [until EXCEPT ![k] = clock + job[p].ttl]
  <2>1. job'[p] = Idle /\ (\A q \in Goroutines \ {p} : job'[q] = job[q]) /\ job' \in [Goroutines -> Job]
    BY <1>5, IdleOK DEF Finish, IInv, TypeOK
  <2>2. clock \in Nat /\ MaxOp \in Nat /\ job[p].ttl \in Nat /\ job[p].at \in Nat
    BY <1>1, HoldAssumption DEF IInv, TypeOK, Job
  <2>3. lease'[k] = "active" /\ (\A j \in Keys \ {k} : lease'[j] = lease[j] /\ until'[j] = until[j])
        /\ until'[k] = clock + job[p].ttl /\ lease' \in [Keys -> {"none", "active", "ending", "over"}]
    BY <1>2, <1>5 DEF IInv, TypeOK
  <2>4. until' \in [Keys -> Nat \cup {None}]
    BY <1>2, <1>5, <2>2 DEF IInv, TypeOK
  <2>5. TypeOK'
    BY <1>3, <1>4, <2>1, <2>3, <2>4 DEF IInv, TypeOK
  <2>6. OneIssuer' /\ \A j \in Keys : InFlight(j)' => InFlight(j) \/ cred[j] = None
    BY <2>1, IdleOK, FlightKept
  <2>7. ASSUME NEW q \in Goroutines, job'[q] = job[q], job[q].pc \in Holding PROVE lease'[job[q].key] = lease[job[q].key]
    <3>1. q # p
      BY <1>1, <2>1, <2>7, IdleOK DEF Holding, Issuing
    <3>2. job[q].key \in Keys \ {k}
      BY <1>2, <2>7, <3>1, HeldKey DEF Holding
    <3> QED
      BY <2>3, <3>2
  <2>8. Steady
    <3>1. armed # None => armed <= armed'
      BY <1>3 DEF IInv, TypeOK
    <3> QED
      BY <1>2, <1>3, <2>3, <2>6, <2>7, <3>1 DEF Steady
  <2>9. \A q \in Goroutines \ {p} : IssueInv(q)' /\ RevokeInv(q)' /\ ReconcileInv(q)' /\ PurgeInv(q)'
    BY <2>1, <2>5, <2>8, OthersKept
  <2>10. IssueInv(p)' /\ RevokeInv(p)' /\ ReconcileInv(p)' /\ PurgeInv(p)'
    BY <2>1, IdleOK DEF IssueInv, RevokeInv, ReconcileInv, PurgeInv, At, Issuing, Holding, Purging
  <2>11. \A j \in Keys \ {k} : KeyInv(j)'
    BY <1>3, <2>3, <2>5, <2>8, KeyKept
  <2>12. KeyInv(k)'
    <3>1. KeyInv(k) /\ IssueInv(p)
      BY <1>2 DEF IInv
    <3>2. cred[k].ends # None => until'[k] <= cred[k].ends + MaxOp
      <4>1. SUFFICES ASSUME cred[k].ends # None PROVE until'[k] <= cred[k].ends + MaxOp
        OBVIOUS
      <4>2. job[p].at + job[p].ttl <= cred[k].ends /\ clock <= job[p].at + MaxOp /\ cred[k].ends \in Nat
        BY <1>0, <1>1, <1>2, <3>1, <4>1 DEF IssueInv, At, Issuing, Cred
      <4> QED
        BY <2>2, <2>3, <4>2
    <3>3. plugin \notin Local /\ k \in live => k \in tracked
      BY <1>0, <1>1, <3>1 DEF IssueInv
    <3>4. Fitting(cred[k].ends, cred[k].asked)'
      BY <1>2, <1>3, <3>1 DEF KeyInv, Fitting
    <3>5. until'[k] # None
      BY <2>2, <2>3, Nothing
    <3> QED
      BY <1>2, <1>3, <3>1, <3>2, <3>3, <3>4, <3>5 DEF KeyInv
  <2>13. IntentInv' /\ RoleInv'
    BY <1>3, <2>5, <2>8, IntentKept, RoleKept
  <2> QED
    BY <2>5, <2>6, <2>9, <2>10, <2>11, <2>12, <2>13 DEF IInv
<1>6. CASE UNCHANGED leases /\ job' = [job EXCEPT ![p] = [Idle EXCEPT !.pc = "revoke", !.key = k]]
  <2> DEFINE n == [Idle EXCEPT !.pc = "revoke", !.key = k]
  <2>1. n \in Job /\ n.pc = "revoke" /\ n.key = k
    BY <1>2 DEF Idle, Job, Issuing
  <2> HIDE DEF n
  <2>2. Minor(p, n)
    BY <1>3, <1>4, <1>6, <2>1 DEF n, Minor, Issuing, IInv, TypeOK, leases
  <2>3. job'[p] = n /\ \A q \in Goroutines \ {p} : job'[q] = job[q]
    BY <2>2, MinorStep DEF Minor, IInv, TypeOK
  <2>4. ~InFlight(k)'
    BY <1>2, <2>1, <2>3 DEF InFlight, Issuing
  <2>5. lease' = lease
    BY <1>6 DEF leases
  <2>6. IssueInv(p)' /\ RevokeInv(p)' /\ ReconcileInv(p)' /\ PurgeInv(p)'
    BY <1>2, <1>3, <2>1, <2>3, <2>4, <2>5
    DEF IssueInv, RevokeInv, ReconcileInv, PurgeInv, At, Issuing, Holding, Purging
  <2> QED
    BY <1>3, <2>2, <2>6, MinorStep
<1> QED
  BY <1>0, <1>5, <1>6 DEF Register

-----------------------------------------------------------------------------
(* Renewal and revocation. *)

\* A step that no goroutine of the plugin takes.
LEMMA WorldStep ==
    ASSUME IInv, TypeOK', Steady, job' = job, IntentInv', RoleInv', \A k \in Keys : KeyInv(k)'
    PROVE  IInv'
<1>1. \A q \in Goroutines : IssueInv(q)' /\ RevokeInv(q)' /\ ReconcileInv(q)' /\ PurgeInv(q)'
  BY OthersKept
<1>2. OneIssuer'
  BY DEF IInv, OneIssuer
<1> QED
  BY <1>1, <1>2 DEF IInv

LEMMA RenewKept == ASSUME IInv, NEW k \in Keys, plugin \in Endless, Renew(k) PROVE IInv'
<1>1. UNCHANGED <<plugin, clock, role, tracked, ledger, intent, minter, cred, live, lease, job, closed, armed, faults, acts>>
  BY DEF Renew, storage, upstream, history, bounds
<1>2. KeyInv(k) /\ lease[k] = "active" /\ cred[k] # None /\ cred[k] \in Cred
  BY DEF Renew, IInv, TypeOK, KeyInv
<1>3. until[k] \in Nat /\ cred[k].asked + MaxTTL \in Nat /\ clock + TTL \in Nat
  BY <1>2, LifeAssumption DEF IInv, TypeOK, KeyInv, Cred
<1>4. (\A j \in Keys \ {k} : until'[j] = until[j]) /\ until'[k] \in Nat /\ until' \in [Keys -> Nat \cup {None}]
  BY <1>3 DEF Renew, IInv, TypeOK
<1>5. TypeOK'
  BY <1>1, <1>4 DEF IInv, TypeOK
<1>6. \A j \in Keys : InFlight(j)' = InFlight(j)
  BY <1>1 DEF InFlight
<1>7. Steady
  <2>1. armed # None => armed <= armed'
    BY <1>1 DEF IInv, TypeOK
  <2> QED
    BY <1>1, <1>6, <2>1 DEF Steady
<1>8. \A j \in Keys \ {k} : KeyInv(j)'
  BY <1>1, <1>4, <1>5, <1>7, KeyKept
<1>9. KeyInv(k)'
  <2>1. cred[k].ends = None /\ until'[k] # None
    BY <1>2, <1>4, Nothing DEF KeyInv, Fitting
  <2>2. Fitting(cred[k].ends, cred[k].asked)'
    BY <1>1, <1>2 DEF KeyInv, Fitting
  <2> QED
    BY <1>1, <1>2, <2>1, <2>2 DEF KeyInv
<1> QED
  BY <1>1, <1>5, <1>7, <1>8, <1>9, IntentKept, RoleKept, WorldStep

LEMMA ExpireKept == ASSUME IInv, NEW k \in Keys, Expire(k) PROVE IInv'
<1>1. UNCHANGED <<plugin, clock, role, tracked, ledger, intent, minter, cred, live, until, job, closed, armed>>
  BY DEF Expire, storage, upstream, history
<1>2. faults' \in Nat /\ acts' \in Nat
  BY Counted DEF Expire
<1>3. lease[k] = "active" /\ (\A j \in Keys \ {k} : lease'[j] = lease[j]) /\ lease'[k] = "ending"
      /\ lease' \in [Keys -> {"none", "active", "ending", "over"}]
  BY DEF Expire, IInv, TypeOK
<1>4. TypeOK'
  BY <1>1, <1>2, <1>3 DEF IInv, TypeOK
<1>5. \A j \in Keys : InFlight(j)' = InFlight(j)
  BY <1>1 DEF InFlight
<1>6. \A q \in Goroutines : job[q].pc \in Holding => lease'[job[q].key] = lease[job[q].key]
  BY <1>3, HeldKey
<1>7. Steady
  <2>1. armed # None => armed <= armed'
    BY <1>1 DEF IInv, TypeOK
  <2> QED
    BY <1>1, <1>3, <1>5, <1>6, <2>1 DEF Steady
<1>8. \A j \in Keys \ {k} : KeyInv(j)'
  BY <1>1, <1>3, <1>4, <1>7, KeyKept
<1>9. KeyInv(k)'
  <2>1. KeyInv(k)
    BY DEF IInv
  <2>2. Fitting(cred[k].ends, cred[k].asked) => Fitting(cred[k].ends, cred[k].asked)'
    BY <1>1 DEF Fitting
  <2> QED
    BY <1>1, <1>3, <2>1, <2>2 DEF KeyInv
<1> QED
  BY <1>1, <1>4, <1>7, <1>8, <1>9, IntentKept, RoleKept, WorldStep

LEMMA RevokeKept == ASSUME IInv, NEW p \in Goroutines, NEW k \in Keys, Revoke(p, k) PROVE IInv'
<1> DEFINE n == [job[p] EXCEPT !.pc = "revoke", !.key = k]
<1>1. job[p] \in Job /\ job' = [job EXCEPT ![p] = n] /\ lease[k] = "ending"
  BY DEF Revoke, IInv, TypeOK
<1>2. n \in Job /\ n.pc = "revoke" /\ n.key = k
  BY <1>1 DEF Job
<1> HIDE DEF n
<1>3. Minor(p, n)
  BY <1>1, <1>2, OnlyLocals DEF Revoke, Issuing
<1>4. job'[p] = n /\ cred' = cred /\ lease' = lease /\ (InFlight(k)' => InFlight(k))
  BY <1>3, MinorStep DEF Minor, Revoke, leases
<1>5. cred[k] # None /\ ~InFlight(k)
  <2>1. cred[k] # None
    BY <1>1 DEF IInv, KeyInv
  <2>2. ASSUME NEW q \in Goroutines, job[q].pc \in Issuing, job[q].key = k PROVE FALSE
    <3>1. job[q].pc \in Holding
      BY <2>2, Nothing DEF IInv, IssueInv, Holding
    <3> QED
      BY <1>1, <2>2, <3>1, HeldKey
  <2> QED
    BY <2>1, <2>2 DEF InFlight
<1>6. IssueInv(p)' /\ RevokeInv(p)' /\ ReconcileInv(p)' /\ PurgeInv(p)'
  BY <1>1, <1>2, <1>4, <1>5 DEF IssueInv, RevokeInv, ReconcileInv, PurgeInv, At, Issuing, Holding, Purging
<1> QED
  BY <1>3, <1>6, MinorStep DEF Revoke, storage, history

LEMMA RevokeDeleteKept == ASSUME IInv, NEW p \in Goroutines, NEW by, RevokeDelete(p, by) PROVE IInv'
<1>1. At(p, "revoke") /\ job[p] \in Job
  BY DEF RevokeDelete, IInv, TypeOK
<1>2. PICK k \in Keys : k = job[p].key /\ cred[k] # None /\ lease[k] # "active" /\ ~InFlight(k)
  BY <1>1 DEF IInv, RevokeInv, At
<1>3. faults' \in Nat /\ acts' \in Nat
  BY Counted DEF RevokeDelete
<1>4. UNCHANGED <<plugin, clock, role, tracked, ledger, intent, minter, cred, lease, until, closed, armed>>
  BY DEF RevokeDelete, storage, leases, history
<1>5. CASE Finish(p)
  <2>1. live' \subseteq live
    BY DEF RevokeDelete
  <2>2. Minor(p, Idle)
    BY <1>3, <1>4, <1>5, <2>1, IdleOK DEF Minor, Finish, Issuing, IInv, TypeOK
  <2> QED
    BY <1>4, <2>2, Finished
<1>6. CASE live' = live \ {k} /\ job' = [job EXCEPT ![p].pc = "forget"]
  <2> DEFINE n == [job[p] EXCEPT !.pc = "forget"]
  <2>1. n \in Job /\ n.pc = "forget" /\ n.key = k
    BY <1>1, <1>2 DEF Job
  <2>2. job' = [job EXCEPT ![p] = n]
    BY <1>6 DEF IInv, TypeOK
  <2> HIDE DEF n
  <2>3. Minor(p, n)
    BY <1>3, <1>4, <1>6, <2>1, <2>2 DEF Minor, Issuing, IInv, TypeOK
  <2>4. job'[p] = n /\ ~InFlight(k)'
    BY <1>2, <2>3, MinorStep
  <2>5. IssueInv(p)' /\ RevokeInv(p)' /\ ReconcileInv(p)' /\ PurgeInv(p)'
    BY <1>2, <1>4, <1>6, <2>1, <2>4 DEF IssueInv, RevokeInv, ReconcileInv, PurgeInv, At, Issuing, Holding, Purging
  <2> QED
    BY <1>4, <2>3, <2>5, MinorStep
<1> QED
  BY <1>2, <1>5, <1>6 DEF RevokeDelete

LEMMA ForgetKept ==
    ASSUME IInv, NEW p \in Goroutines, At(p, "forget") \/ At(p, "revoke"), Forget(p)
    PROVE  IInv'
<1> DEFINE k == job[p].key
<1>1. k \in Keys /\ cred[k] # None /\ lease[k] # "active" /\ ~InFlight(k)
  BY DEF IInv, RevokeInv, At
<1>2. faults' \in Nat /\ acts' \in Nat
  BY Counted DEF Forget
<1>3. UNCHANGED <<plugin, clock, role, ledger, intent, minter, cred, live, until, closed, armed>>
  BY DEF Forget, upstream, history
<1>4. job' = [job EXCEPT ![p] = Idle] /\ tracked' \in {tracked, tracked \ {k}}
      /\ lease' = [lease EXCEPT ![k] = IF @ = "ending" THEN "over" ELSE @]
  BY DEF Forget, Finish
<1> HIDE DEF k
<1>5. lease' \in [Keys -> {"none", "active", "ending", "over"}]
      /\ \A j \in Keys : lease'[j] = lease[j] \/ (lease[j] # "none" /\ lease'[j] \in {"ending", "over"})
  BY <1>1, <1>4 DEF IInv, TypeOK
<1>6. Minor(p, Idle)
  BY <1>1, <1>2, <1>3, <1>4, <1>5, IdleOK DEF Minor, Issuing, IInv, TypeOK
<1> QED
  BY <1>3, <1>6, Finished

-----------------------------------------------------------------------------
(* The reconcile pass. *)

\* An issue is younger than anything a pass looks at.
LEMMA Aged == ASSUME IInv, NEW k \in OldByDate \cup OldByLedger PROVE k \in Keys /\ cred[k] # None /\ ~InFlight(k)
<1>1. k \in live /\ k \in Keys
  BY DEF OldByDate, OldByLedger, IInv, TypeOK
<1>2. cred[k] # None /\ cred[k].asked \in Nat /\ cred[k].made \in Nat /\ cred[k].asked <= cred[k].made
  BY <1>1 DEF IInv, KeyInv, TypeOK, Cred
<1>3. clock \in Nat /\ Hold \in Nat /\ MaxOp \in Nat /\ MaxOp < Hold
  BY HoldAssumption DEF IInv, TypeOK
<1>4. clock - cred[k].asked >= Hold
  BY <1>2, <1>3 DEF OldByDate, OldByLedger
<1>5. ASSUME NEW q \in Goroutines, job[q].pc \in Issuing, job[q].key = k PROVE FALSE
  <2>1. job[q].pc \in Holding
    BY <1>1, <1>5, Nothing DEF IInv, IssueInv, Holding
  <2>2. cred[k].asked = job[q].at /\ clock <= job[q].at + MaxOp
    BY <1>5, <2>1, HeldKey DEF IInv, IssueInv
  <2> QED
    BY <1>2, <1>3, <1>4, <2>2
<1> QED
  BY <1>1, <1>2, <1>5 DEF InFlight

LEMMA ListKept ==
    ASSUME IInv, NEW p \in Goroutines, plugin \notin Local, NEW old \in SUBSET (OldByDate \cup OldByLedger), List(p, old)
    PROVE  IInv'
<1>1. PICK m \in Healthy : job' = [job EXCEPT ![p].pc = "own", ![p].by = m, ![p].todo = old]
  BY DEF List
<1> DEFINE n == [job[p] EXCEPT !.pc = "own", !.by = m, !.todo = old]
<1>2. job[p] \in Job /\ job' = [job EXCEPT ![p] = n] /\ m \in Minters
  BY <1>1 DEF IInv, TypeOK, Healthy
<1>3. \A k \in old : k \in Keys /\ cred[k] # None /\ ~InFlight(k)
  BY Aged
<1>4. n \in Job /\ n.pc = "own" /\ n.todo = old
  BY <1>2, <1>3 DEF Job
<1> HIDE DEF n
<1>5. Minor(p, n)
  BY <1>2, <1>4, OnlyLocals DEF List, Issuing
<1>6. job'[p] = n /\ cred' = cred /\ plugin' = plugin /\ \A k \in old : ~InFlight(k)'
  BY <1>3, <1>5, MinorStep DEF Minor
<1>7. IssueInv(p)' /\ RevokeInv(p)' /\ ReconcileInv(p)' /\ PurgeInv(p)'
  BY <1>3, <1>4, <1>6 DEF IssueInv, RevokeInv, ReconcileInv, PurgeInv, At, Issuing, Holding, Purging
<1> QED
  BY <1>5, <1>7, MinorStep DEF List, storage, history

LEMMA OwnKept == ASSUME IInv, NEW p \in Goroutines, Own(p, tracked) PROVE IInv'
<1> DEFINE n == [job[p] EXCEPT !.pc = "reclaim", !.todo = @ \ tracked]
<1>1. job[p] \in Job /\ At(p, "own") /\ job' = [job EXCEPT ![p] = n]
  BY DEF Own, IInv, TypeOK
<1>2. n \in Job /\ n.pc = "reclaim" /\ n.todo = job[p].todo \ tracked /\ n.todo \subseteq Keys
  BY <1>1 DEF Job
<1> HIDE DEF n
<1>3. Minor(p, n)
  BY <1>1, <1>2, OnlyLocals DEF Own, Issuing
<1>4. plugin \notin Local /\ \A k \in n.todo : cred[k] # None /\ ~InFlight(k)
  BY <1>1, <1>2 DEF IInv, ReconcileInv, At
<1>5. \A k \in n.todo \cap live : lease[k] # "active"
  BY <1>2, <1>4 DEF IInv, KeyInv
<1>6. job'[p] = n /\ UNCHANGED <<cred, plugin, live, lease>> /\ \A k \in n.todo : ~InFlight(k)'
  BY <1>2, <1>3, <1>4, MinorStep DEF Own, upstream, leases
<1>7. IssueInv(p)' /\ RevokeInv(p)' /\ ReconcileInv(p)' /\ PurgeInv(p)'
  BY <1>2, <1>4, <1>5, <1>6 DEF IssueInv, RevokeInv, ReconcileInv, PurgeInv, At, Issuing, Holding, Purging
<1> QED
  BY <1>3, <1>7, MinorStep DEF Own, storage, history

LEMMA ReclaimKept == ASSUME IInv, NEW p \in Goroutines, Reclaim(p) PROVE IInv'
<1>1. job[p] \in Job /\ At(p, "reclaim")
  BY DEF Reclaim, IInv, TypeOK
<1>2. faults' \in Nat /\ acts' \in Nat
  BY Counted DEF Reclaim
<1>3. UNCHANGED <<plugin, clock, role, tracked, ledger, intent, minter, cred, lease, until, closed, armed>>
  BY DEF Reclaim, storage, leases, history
<1>4. live' \subseteq live
  BY DEF Reclaim
<1>5. CASE Finish(p)
  <2>1. Minor(p, Idle)
    BY <1>2, <1>3, <1>4, <1>5, IdleOK DEF Minor, Finish, Issuing, IInv, TypeOK
  <2> QED
    BY <1>3, <2>1, Finished
<1>6. ASSUME NEW k, job' = [job EXCEPT ![p].todo = @ \ {k}] PROVE IInv'
  <2> DEFINE n == [job[p] EXCEPT !.todo = @ \ {k}]
  <2>1. job' = [job EXCEPT ![p] = n]
    BY <1>6 DEF IInv, TypeOK
  <2>2. n \in Job /\ n.pc = "reclaim" /\ n.todo \subseteq job[p].todo /\ n.todo \subseteq Keys
    BY <1>1 DEF Job, At
  <2> HIDE DEF n
  <2>3. Minor(p, n)
    BY <1>2, <1>3, <1>4, <2>1, <2>2 DEF Minor, Issuing, IInv, TypeOK
  <2>4. plugin \notin Local /\ (\A j \in n.todo : cred[j] # None /\ ~InFlight(j)) /\ \A j \in n.todo \cap live : lease[j] # "active"
    BY <1>1, <2>2 DEF IInv, ReconcileInv, At
  <2>5. job'[p] = n /\ \A j \in n.todo : ~InFlight(j)'
    BY <2>2, <2>3, <2>4, MinorStep
  <2>6. IssueInv(p)' /\ RevokeInv(p)' /\ ReconcileInv(p)' /\ PurgeInv(p)'
    BY <1>3, <1>4, <2>2, <2>4, <2>5 DEF IssueInv, RevokeInv, ReconcileInv, PurgeInv, At, Issuing, Holding, Purging
  <2> QED
    BY <1>3, <2>3, <2>6, MinorStep
<1> QED
  BY <1>5, <1>6 DEF Reclaim

LEMMA PruneKept ==
    ASSUME IInv, NEW p \in Goroutines, plugin \in Local, NEW expired \in SUBSET tracked, PruneExpired(p, expired)
    PROVE  IInv'
<1>1. UNCHANGED <<plugin, clock, role, ledger, intent, minter, cred, live, lease, until, job, closed, armed, faults, acts>>
  BY DEF PruneExpired, upstream, leases, history, bounds
<1>2. tracked' = tracked \ expired
  BY DEF PruneExpired
<1>3. TypeOK'
  BY <1>1, <1>2 DEF IInv, TypeOK
<1>4. \A j \in Keys : InFlight(j)' = InFlight(j)
  BY <1>1 DEF InFlight
<1>5. Steady
  <2>1. armed # None => armed <= armed'
    BY <1>1 DEF IInv, TypeOK
  <2> QED
    BY <1>1, <1>2, <1>4, <2>1 DEF Steady
<1>6. \A k \in Keys : KeyInv(k)'
  BY <1>1, <1>3, <1>5, KeyKept
<1> QED
  BY <1>1, <1>3, <1>5, <1>6, IntentKept, RoleKept, WorldStep

-----------------------------------------------------------------------------
(* The purge. *)

\* What the purge does not see was asked for too late.
LEMMA Scanned ==
    ASSUME IInv, NEW t \in Nat
    PROVE  /\ Scan(t) \subseteq Keys /\ \A k \in Scan(t) : cred[k] # None /\ cred[k].asked <= t
           /\ \A k \in tracked : k \in Scan(t) \/ t <= cred[k].asked + MaxOp
           /\ \A k \in tracked : cred[k].asked \in Nat /\ cred[k].asked <= clock
<1>1. \A k \in tracked : k \in Keys /\ cred[k] # None /\ cred[k] \in Cred
  BY DEF IInv, TypeOK, KeyInv
<1>2. \A k \in tracked : cred[k].asked \in Nat /\ cred[k].asked <= clock
  <2> SUFFICES ASSUME NEW k \in tracked PROVE cred[k].asked \in Nat /\ cred[k].asked <= clock
    OBVIOUS
  <2>1. cred[k].asked \in Nat /\ cred[k].made \in Nat /\ clock \in Nat
    BY <1>1 DEF Cred, IInv, TypeOK
  <2>2. cred[k].asked <= cred[k].made /\ cred[k].made <= clock
    BY <1>1 DEF IInv, KeyInv
  <2> QED
    BY <2>1, <2>2
<1>3. \A k \in tracked : k \in Scan(t) \/ t <= cred[k].asked + MaxOp
  BY <1>2, HoldAssumption DEF Scan
<1> QED
  BY <1>1, <1>2, <1>3 DEF Scan

LEMMA ArmKept == ASSUME IInv, NEW p \in Goroutines, Arm(p) PROVE IInv'
<1>1. UNCHANGED <<plugin, clock, role, tracked, ledger, minter, cred, live, lease, until, closed>>
  BY DEF Arm, upstream, leases
<1>2. faults' \in Nat /\ acts' \in Nat
  BY Counted DEF Arm
<1>3. clock \in Nat /\ clock # None
  BY Nothing DEF IInv, TypeOK
<1>4. intent' = [cutoff |-> clock, complete |-> Scan(clock) = {}] /\ armed' = clock
  BY DEF Arm
<1>5. intent' \in Intent /\ intent'.cutoff = clock /\ (intent'.complete <=> Scan(clock) = {})
  BY <1>3, <1>4 DEF Intent
<1>6. Scan(clock) = {} => tracked = {}
  BY <1>3, Scanned DEF Scan
<1>7. IntentInv'
  BY <1>1, <1>3, <1>4, <1>5, <1>6 DEF IntentInv
<1>8. CASE job' = [job EXCEPT ![p] = Idle]
  <2>1. Minor(p, Idle)
    BY <1>1, <1>2, <1>4, <1>5, <1>8, IdleOK DEF Minor, Issuing, IInv, TypeOK
  <2> QED
    BY <1>7, <2>1, Finished
<1>9. CASE job' = [job EXCEPT ![p] = [Idle EXCEPT !.pc = "scan", !.at = clock]]
  <2> DEFINE n == [Idle EXCEPT !.pc = "scan", !.at = clock]
  <2>1. n \in Job /\ n.pc = "scan" /\ n.at = clock /\ n.key = None
    BY <1>3 DEF Idle, Job
  <2> HIDE DEF n
  <2>2. Minor(p, n)
    BY <1>1, <1>2, <1>4, <1>5, <1>9, <2>1 DEF n, Minor, Issuing, IInv, TypeOK
  <2>3. job'[p] = n
    BY <2>2, MinorStep
  <2>4. IssueInv(p)' /\ RevokeInv(p)' /\ ReconcileInv(p)' /\ PurgeInv(p)'
    BY <1>1, <1>3, <1>4, <2>1, <2>3 DEF IssueInv, RevokeInv, ReconcileInv, PurgeInv, At, Issuing, Holding, Purging
  <2> QED
    BY <1>7, <2>2, <2>4, MinorStep
<1> QED
  BY <1>8, <1>9 DEF Arm

LEMMA SweepKept == ASSUME IInv, NEW p \in Goroutines, Sweep(p) PROVE IInv'
<1> DEFINE n == [job[p] EXCEPT !.pc = "scan", !.at = intent.cutoff]
<1>1. job[p] \in Job /\ job' = [job EXCEPT ![p] = n] /\ intent # None /\ intent.cutoff \in Nat
  BY DEF Sweep, IInv, TypeOK, Intent
<1>2. n \in Job /\ n.pc = "scan" /\ n.at = intent.cutoff
  BY <1>1 DEF Job
<1> HIDE DEF n
<1>3. Minor(p, n)
  BY <1>1, <1>2, OnlyLocals DEF Sweep, Issuing
<1>4. armed # None /\ intent.cutoff <= armed
  BY <1>1 DEF IInv, IntentInv
<1>5. job'[p] = n /\ armed' = armed
  BY <1>3, MinorStep DEF Sweep, history
<1>6. IssueInv(p)' /\ RevokeInv(p)' /\ ReconcileInv(p)' /\ PurgeInv(p)'
  BY <1>2, <1>4, <1>5 DEF IssueInv, RevokeInv, ReconcileInv, PurgeInv, At, Issuing, Holding, Purging
<1> QED
  BY <1>3, <1>6, MinorStep DEF Sweep, storage, history

LEMMA PurgeScanKept == ASSUME IInv, NEW p \in Goroutines, PurgeScan(p) PROVE IInv'
<1> DEFINE s == Scan(job[p].at)
           n == [job[p] EXCEPT !.pc = "purge", !.todo = s, !.left = s]
<1>1. job[p] \in Job /\ At(p, "scan") /\ job' = [job EXCEPT ![p] = n] /\ job[p].at \in Nat
  BY DEF PurgeScan, IInv, TypeOK, Job
<1>2. s \subseteq Keys /\ (\A k \in s : cred[k] # None /\ cred[k].asked <= job[p].at)
      /\ \A k \in tracked : k \in s \/ job[p].at <= cred[k].asked + MaxOp
  BY <1>1, Scanned
<1>3. n \in Job /\ n.pc = "purge" /\ n.todo = s /\ n.left = s /\ n.at = job[p].at
  BY <1>1, <1>2 DEF Job
<1>4. (\A k \in n.todo : cred[k] # None /\ cred[k].asked <= n.at)
      /\ \A k \in tracked : k \in n.left \/ n.at <= cred[k].asked + MaxOp
  BY <1>2, <1>3
<1> HIDE DEF n, s
<1>5. Minor(p, n)
  BY <1>1, <1>3, OnlyLocals DEF PurgeScan, Issuing
<1>6. armed # None /\ n.at <= armed
  BY <1>1, <1>3 DEF IInv, PurgeInv, At, Purging
<1>7. job'[p] = n /\ UNCHANGED <<cred, tracked, armed>>
  BY <1>5, MinorStep DEF PurgeScan, storage, upstream, history
<1>8. IssueInv(p)' /\ RevokeInv(p)' /\ ReconcileInv(p)' /\ PurgeInv(p)'
  BY <1>3, <1>4, <1>6, <1>7 DEF IssueInv, RevokeInv, ReconcileInv, PurgeInv, At, Issuing, Holding, Purging
<1> QED
  BY <1>5, <1>8, MinorStep DEF PurgeScan, storage, history

\* A purge goes on with less to do, and owes no less than before.
LEMMA PurgesOn ==
    ASSUME IInv, NEW p \in Goroutines, job[p].pc \in {"purge", "drop"}, NEW n, Minor(p, n),
           n.pc \in {"purge", "drop"}, n.at = job[p].at, n.todo \subseteq job[p].todo,
           tracked' \subseteq tracked, \A k \in tracked' : k \in job[p].left => k \in n.left,
           n.pc = "drop" => n.key \in Keys /\ cred[n.key] # None /\ n.key \notin live',
           UNCHANGED <<intent, armed>>
    PROVE  IInv'
<1>1. /\ armed # None /\ n.at <= armed /\ \A k \in n.todo : cred[k] # None /\ cred[k].asked <= n.at
      /\ \A k \in tracked' : k \in n.left \/ n.at <= cred[k].asked + MaxOp
  BY DEF IInv, PurgeInv, Purging
<1>2. job'[p] = n /\ cred' = cred
  BY MinorStep DEF Minor
<1>3. IssueInv(p)' /\ RevokeInv(p)' /\ ReconcileInv(p)' /\ PurgeInv(p)'
  BY <1>1, <1>2 DEF IssueInv, RevokeInv, ReconcileInv, PurgeInv, At, Issuing, Holding, Purging
<1> QED
  BY <1>3, MinorStep

LEMMA PurgeDeleteKept ==
    ASSUME IInv, NEW p \in Goroutines, NEW k \in Keys, NEW by, PurgeDelete(p, k, by)
    PROVE  IInv'
<1>1. job[p] \in Job /\ job[p].pc = "purge" /\ k \in job[p].todo /\ cred[k] # None
  BY DEF PurgeDelete, IInv, TypeOK, At, PurgeInv
<1>2. faults' \in Nat /\ acts' \in Nat
  BY Counted DEF PurgeDelete
<1>3. UNCHANGED <<plugin, clock, role, tracked, ledger, intent, minter, cred, lease, until, closed, armed>>
  BY DEF PurgeDelete, storage, leases, history
<1>4. live' \subseteq live
  BY DEF PurgeDelete
<1>5. CASE live' = live \ {k} /\ job' = [job EXCEPT ![p].pc = "drop", ![p].key = k, ![p].todo = @ \ {k}]
  <2> DEFINE n == [job[p] EXCEPT !.pc = "drop", !.key = k, !.todo = @ \ {k}]
  <2>1. job' = [job EXCEPT ![p] = n]
    BY <1>5 DEF IInv, TypeOK
  <2>2. n \in Job /\ n.pc = "drop" /\ n.key = k /\ n.todo \subseteq job[p].todo /\ n.left = job[p].left /\ n.at = job[p].at
    BY <1>1 DEF Job
  <2> HIDE DEF n
  <2>3. Minor(p, n)
    BY <1>2, <1>3, <1>4, <2>1, <2>2 DEF Minor, Issuing, IInv, TypeOK
  <2> QED
    BY <1>1, <1>3, <1>5, <2>2, <2>3, PurgesOn
<1>6. ASSUME NEW t \in SUBSET job[p].todo, job' = [job EXCEPT ![p].todo = t] PROVE IInv'
  <2> DEFINE n == [job[p] EXCEPT !.todo = t]
  <2>1. job' = [job EXCEPT ![p] = n]
    BY <1>6 DEF IInv, TypeOK
  <2>2. n \in Job /\ n.pc = "purge" /\ n.todo \subseteq job[p].todo /\ n.left = job[p].left /\ n.at = job[p].at
    BY <1>1 DEF Job
  <2> HIDE DEF n
  <2>3. Minor(p, n)
    BY <1>2, <1>3, <1>4, <2>1, <2>2 DEF Minor, Issuing, IInv, TypeOK
  <2> QED
    BY <1>1, <1>3, <2>2, <2>3, PurgesOn
<1>7. CASE job' = [job EXCEPT ![p].todo = @ \ {k}]
  BY <1>6, <1>7 DEF IInv, TypeOK
<1>8. CASE job' = [job EXCEPT ![p].todo = {}]
  <2>1. {} \in SUBSET job[p].todo
    OBVIOUS
  <2> QED
    BY <1>6, <1>8, <2>1
<1> QED
  BY <1>5, <1>7, <1>8 DEF PurgeDelete

LEMMA PurgeDropKept == ASSUME IInv, NEW p \in Goroutines, PurgeDrop(p) PROVE IInv'
<1>1. job[p] \in Job /\ job[p].pc = "drop" /\ job[p].key \in Keys /\ job[p].key \notin live
  BY DEF PurgeDrop, IInv, TypeOK, At, PurgeInv
<1>2. faults' \in Nat /\ acts' \in Nat
  BY Counted DEF PurgeDrop
<1>3. UNCHANGED <<plugin, clock, role, ledger, intent, minter, cred, live, lease, until, closed, armed>>
  BY DEF PurgeDrop, upstream, leases, history
<1>4. CASE Finish(p) /\ tracked' = tracked
  <2>1. Minor(p, Idle)
    BY <1>2, <1>3, <1>4, IdleOK DEF Minor, Finish, Issuing, IInv, TypeOK
  <2> QED
    BY <1>3, <2>1, Finished
<1>5. CASE /\ tracked' = tracked \ {job[p].key}
           /\ job' = [job EXCEPT ![p].pc = "purge", ![p].key = None, ![p].left = @ \ {job[p].key}]
  <2> DEFINE n == [job[p] EXCEPT !.pc = "purge", !.key = None, !.left = @ \ {job[p].key}]
  <2>1. job' = [job EXCEPT ![p] = n]
    BY <1>5 DEF IInv, TypeOK
  <2>2. n \in Job /\ n.pc = "purge" /\ n.todo = job[p].todo /\ n.left = job[p].left \ {job[p].key} /\ n.at = job[p].at
    BY <1>1 DEF Job
  <2> HIDE DEF n
  <2>3. Minor(p, n)
    BY <1>1, <1>2, <1>3, <1>5, <2>1, <2>2 DEF Minor, Issuing, IInv, TypeOK
  <2> QED
    BY <1>1, <1>3, <1>5, <2>2, <2>3, PurgesOn
<1> QED
  BY <1>4, <1>5 DEF PurgeDrop

LEMMA SaveIntentKept == ASSUME IInv, NEW p \in Goroutines, SaveIntent(p) PROVE IInv'
<1>1. job[p] \in Job /\ job[p].pc = "purge"
  BY DEF SaveIntent, IInv, TypeOK, At
<1>2. faults' \in Nat /\ acts' \in Nat
  BY Counted DEF SaveIntent
<1>3. UNCHANGED <<plugin, clock, role, tracked, ledger, minter, cred, live, lease, until, closed, armed>>
  BY DEF SaveIntent, upstream, leases, history
<1>4. job[p].at \in Nat /\ armed # None /\ job[p].at <= armed
      /\ \A k \in tracked : k \in job[p].left \/ job[p].at <= cred[k].asked + MaxOp
  BY <1>1 DEF IInv, PurgeInv, Purging, Job
<1>5. intent' \in Intent \cup {None} /\ (intent' = intent \/ intent' = [cutoff |-> job[p].at, complete |-> job[p].left = {}])
  <2>1. [cutoff |-> job[p].at, complete |-> job[p].left = {}] \in Intent
    BY <1>4 DEF Intent
  <2>2. intent' = intent \/ intent' = [cutoff |-> job[p].at, complete |-> job[p].left = {}]
    BY DEF SaveIntent
  <2> QED
    BY <2>1, <2>2 DEF IInv, TypeOK
<1>6. Minor(p, Idle)
  BY <1>2, <1>3, <1>5, IdleOK DEF Minor, SaveIntent, Finish, Issuing, IInv, TypeOK
<1>7. CASE intent' = intent
  BY <1>3, <1>6, <1>7, Finished
<1>8. CASE intent' = [cutoff |-> job[p].at, complete |-> job[p].left = {}]
  <2>1. intent'.cutoff = job[p].at /\ (intent'.complete <=> job[p].left = {})
    BY <1>8
  <2>2. armed # None => armed <= clock
    BY DEF IInv, IntentInv
  <2>3. IntentInv'
    BY <1>3, <1>4, <2>1, <2>2 DEF IntentInv
  <2> QED
    BY <1>6, <2>3, Finished
<1> QED
  BY <1>5, <1>7, <1>8

-----------------------------------------------------------------------------
(* Time, operators and failures. *)

LEMMA TickKept == ASSUME IInv, Tick PROVE IInv'
<1>1. UNCHANGED <<plugin, role, tracked, ledger, intent, minter, cred, lease, until, job, closed, armed, faults, acts>>
  BY DEF Tick, storage, leases, history, bounds
<1>2. clock \in Nat /\ clock' = clock + 1 /\ MaxOp \in Nat /\ live' \subseteq live
  BY HoldAssumption DEF Tick, IInv, TypeOK
<1>3. TypeOK'
  BY <1>1, <1>2 DEF IInv, TypeOK
<1>4. OneIssuer'
  BY <1>1 DEF IInv, OneIssuer
<1>5. IntentInv' /\ RoleInv'
  <2>1. (armed # None => armed \in Nat) /\ (closed # None => closed \in Nat)
    BY DEF IInv, TypeOK
  <2> QED
    BY <1>1, <1>2, <2>1 DEF IInv, IntentInv, RoleInv
<1>6. ASSUME NEW k \in Keys PROVE KeyInv(k)'
  <2>1. KeyInv(k)
    BY DEF IInv
  <2>2. cred[k] # None => cred[k].made \in Nat /\ cred[k].made <= clock'
    BY <1>2, <2>1 DEF KeyInv, IInv, TypeOK, Cred
  <2>3. Fitting(cred[k].ends, cred[k].asked) => Fitting(cred[k].ends, cred[k].asked)'
    BY <1>1 DEF Fitting
  <2> QED
    BY <1>1, <1>2, <2>1, <2>2, <2>3 DEF KeyInv
<1>7. \A k \in Keys : InFlight(k)' = InFlight(k)
  BY <1>1 DEF InFlight
<1>8. ASSUME NEW p \in Goroutines PROVE IssueInv(p)' /\ RevokeInv(p)' /\ ReconcileInv(p)' /\ PurgeInv(p)'
  <2>1. IssueInv(p) /\ RevokeInv(p) /\ ReconcileInv(p) /\ PurgeInv(p) /\ job[p] \in Job
    BY DEF IInv, TypeOK
  <2>2. job[p].at \in Nat /\ job[p].todo \subseteq Keys
    BY <2>1 DEF Job
  <2>3. job[p].pc \in Issuing => job[p].at <= clock' /\ clock' <= job[p].at + MaxOp
    BY <1>2, <2>1, <2>2 DEF Tick, IssueInv
  <2>4. IssueInv(p)'
    BY <1>1, <1>2, <2>1, <2>3 DEF IssueInv, At
  <2>5. RevokeInv(p)' /\ ReconcileInv(p)'
    BY <1>1, <1>2, <1>7, <2>1, <2>2 DEF RevokeInv, ReconcileInv, At
  <2>6. PurgeInv(p)'
    BY <1>1, <1>2, <2>1 DEF PurgeInv, At
  <2> QED
    BY <2>4, <2>5, <2>6
<1> QED
  BY <1>3, <1>4, <1>5, <1>6, <1>8 DEF IInv

LEMMA RoleWriteKept == ASSUME IInv, NEW r \in {"open", "disabled", "gone"}, RoleWrite(r) PROVE IInv'
<1>1. UNCHANGED <<plugin, clock, tracked, ledger, intent, minter, cred, live, lease, until, job, armed>>
  BY DEF RoleWrite, upstream, leases
<1>2. faults' \in Nat /\ acts' \in Nat
  BY Counted DEF RoleWrite
<1>3. role' = r /\ closed' = (IF r = "open" THEN None ELSE IF closed = None THEN clock ELSE closed)
  BY DEF RoleWrite
<1>4. clock \in Nat /\ clock # None
  BY Nothing DEF IInv, TypeOK
<1>5. TypeOK'
  BY <1>1, <1>2, <1>3, <1>4 DEF IInv, TypeOK
<1>6. \A j \in Keys : InFlight(j)' = InFlight(j)
  BY <1>1 DEF InFlight
<1>7. Steady
  <2>1. armed # None => armed <= armed'
    BY <1>1 DEF IInv, TypeOK
  <2> QED
    BY <1>1, <1>3, <1>6, <2>1 DEF Steady
<1>8. RoleInv'
  BY <1>1, <1>3, <1>4 DEF IInv, RoleInv
<1>9. \A k \in Keys : KeyInv(k)'
  BY <1>1, <1>5, <1>7, KeyKept
<1> QED
  BY <1>1, <1>5, <1>7, <1>8, <1>9, IntentKept, WorldStep

LEMMA MinterKept ==
    ASSUME IInv, NEW m \in Minters, MinterFails(m) \/ MinterRepaired(m) \/ MinterLeaves(m)
    PROVE  IInv'
<1>1. UNCHANGED <<plugin, clock, role, tracked, ledger, intent, cred, live, lease, until, job, closed, armed>>
  BY DEF MinterFails, MinterRepaired, MinterLeaves, storage, upstream, leases, history
<1>2. faults' \in Nat /\ acts' \in Nat
  BY Counted DEF MinterFails, MinterRepaired, MinterLeaves
<1>3. minter' \in [Minters -> {"ok", "down", "retired", "gone"}]
  BY DEF MinterFails, MinterRepaired, MinterLeaves, IInv, TypeOK
<1>4. TypeOK'
  BY <1>1, <1>2, <1>3 DEF IInv, TypeOK
<1>5. \A j \in Keys : InFlight(j)' = InFlight(j)
  BY <1>1 DEF InFlight
<1>6. Steady
  <2>1. armed # None => armed <= armed'
    BY <1>1 DEF IInv, TypeOK
  <2> QED
    BY <1>1, <1>5, <2>1 DEF Steady
<1>7. \A k \in Keys : KeyInv(k)'
  BY <1>1, <1>4, <1>6, KeyKept
<1> QED
  BY <1>1, <1>4, <1>6, <1>7, IntentKept, RoleKept, WorldStep

LEMMA CrashKept == ASSUME IInv, Crash PROVE IInv'
<1>1. UNCHANGED <<plugin, clock, role, tracked, ledger, intent, minter, cred, live, lease, until, closed, armed>>
  BY DEF Crash, storage, upstream, leases, history
<1>2. faults' \in Nat /\ acts' \in Nat
  BY Counted DEF Crash
<1>3. job' = [p \in Goroutines |-> Idle]
  BY DEF Crash
<1>4. TypeOK'
  BY <1>1, <1>2, <1>3, IdleOK DEF IInv, TypeOK
<1>5. \A p \in Goroutines : IssueInv(p)' /\ RevokeInv(p)' /\ ReconcileInv(p)' /\ PurgeInv(p)'
  BY <1>3, IdleOK DEF IssueInv, RevokeInv, ReconcileInv, PurgeInv, At, Issuing, Holding, Purging
<1>6. OneIssuer' /\ \A j \in Keys : ~InFlight(j)'
  BY <1>3, IdleOK DEF OneIssuer, InFlight, Holding, Issuing
<1>7. Steady
  <2>1. armed # None => armed <= armed'
    BY <1>1 DEF IInv, TypeOK
  <2> QED
    BY <1>1, <1>6, <2>1 DEF Steady
<1>8. \A k \in Keys : KeyInv(k)'
  BY <1>1, <1>4, <1>7, KeyKept
<1> QED
  BY <1>1, <1>4, <1>5, <1>6, <1>7, <1>8, IntentKept, RoleKept DEF IInv

-----------------------------------------------------------------------------
(* The invariant. *)

LEMMA InitInv == Init => IInv
<1> SUFFICES ASSUME Init PROVE IInv
  OBVIOUS
<1>1. TypeOK
  BY IdleOK DEF Init, TypeOK
<1>2. OneIssuer /\ \A p \in Goroutines : IssueInv(p) /\ RevokeInv(p) /\ ReconcileInv(p) /\ PurgeInv(p)
  BY IdleOK DEF Init, OneIssuer, IssueInv, RevokeInv, ReconcileInv, PurgeInv, At, Issuing, Holding, Purging
<1>3. IntentInv /\ RoleInv /\ \A k \in Keys : KeyInv(k)
  BY DEF Init, IntentInv, RoleInv, KeyInv
<1> QED
  BY <1>1, <1>2, <1>3 DEF IInv

LEMMA NextInv == IInv /\ [Next]_vars => IInv'
<1> SUFFICES ASSUME IInv, [Next]_vars PROVE IInv'
  OBVIOUS
<1>1. Step
  BY Shared
<1>2. ASSUME NEW p \in Goroutines, Issue(p) PROVE IInv'
  BY <1>2, AdmitKept, ChooseKept, RefuseKept, CreateKept, CreateFailKept, LedgerKept, TrackKept, UndoKept, RegisterKept
  DEF Issue
<1>3. ASSUME NEW p \in Goroutines, RevokeStep(p) PROVE IInv'
  BY <1>3, RevokeKept, RevokeDeleteKept, ForgetKept DEF RevokeStep, RevokeForget, RevokeLocally
<1>4. ASSUME NEW p \in Goroutines, ReconcileStep(p) PROVE IInv'
  BY <1>4, ListKept, OwnKept, ReclaimKept, PruneKept DEF ReconcileStep
<1>5. ASSUME NEW p \in Goroutines, PurgeStep(p) PROVE IInv'
  BY <1>5, ArmKept, SweepKept, PurgeScanKept, PurgeDropKept, SaveIntentKept, PurgeDeleteKept DEF PurgeStep
<1>6. CASE UNCHANGED vars
  <2>1. UNCHANGED <<plugin, clock, role, tracked, ledger, intent, minter, cred, live, lease, until, job, closed, armed, faults,
                    acts>>
    BY <1>6 DEF vars, storage, upstream, leases, history, bounds
  <2>2. TypeOK'
    BY <2>1 DEF IInv, TypeOK
  <2>3. \A j \in Keys : InFlight(j)' = InFlight(j)
    BY <2>1 DEF InFlight
  <2>4. Steady
    <3>1. armed # None => armed <= armed'
      BY <2>1 DEF IInv, TypeOK
    <3> QED
      BY <2>1, <2>3, <3>1 DEF Steady
  <2>5. \A k \in Keys : KeyInv(k)'
    BY <2>1, <2>2, <2>4, KeyKept
  <2> QED
    BY <2>1, <2>2, <2>4, <2>5, IntentKept, RoleKept, WorldStep
<1> QED
  BY <1>1, <1>2, <1>3, <1>4, <1>5, <1>6, RenewKept, ExpireKept, MinterKept, RoleWriteKept, TickKept, CrashKept DEF Step

LEMMA Invariant == Spec => []IInv
BY InitInv, NextInv, PTL DEF Spec

\* Types: every record, lease and handler's locals of every plugin.
THEOREM TypeCorrect == Spec => []TypeOK
<1>1. IInv => TypeOK
  BY DEF IInv
<1> QED
  BY <1>1, Invariant, PTL

\* leaseTTL and the granted ttl never outlast what the cloud gave by more than the
\* time the response took.
THEOREM LeasesFit == Spec => []LeaseHonest
<1>1. IInv => LeaseHonest
  BY DEF IInv, KeyInv, LeaseHonest, Mortal
<1> QED
  BY <1>1, Invariant, PTL

\* Closing a role and then purging it ends everything, whatever was in flight in
\* selectMinter and the create call when it was closed.
THEOREM ClosedAndPurged == Spec => []Contained
<1>1. IInv => Contained
  <2> SUFFICES ASSUME IInv, closed # None PROVE Contained
    BY DEF Contained
  <2>1. closed \in Nat /\ MaxOp \in Nat
    BY HoldAssumption DEF IInv, TypeOK
  <2>2. \A k \in Keys : cred[k] # None => cred[k].asked <= closed + MaxOp
    BY DEF IInv, KeyInv
  <2>3. ASSUME intent # None, intent.complete, intent.cutoff > closed + 2 * MaxOp, NEW k \in tracked PROVE FALSE
    <3>1. k \in Keys /\ cred[k] # None /\ cred[k] \in Cred
      BY DEF IInv, TypeOK, KeyInv
    <3>2. cred[k].asked <= closed + MaxOp /\ cred[k].asked \in Nat
      BY <2>2, <3>1 DEF Cred
    <3>3. intent.cutoff <= cred[k].asked + MaxOp /\ intent.cutoff \in Nat
      BY <2>3 DEF IInv, IntentInv, TypeOK, Intent
    <3> QED
      BY <2>1, <2>3, <3>2, <3>3
  <2> QED
    BY <2>2, <2>3 DEF Contained
<1> QED
  BY <1>1, Invariant, PTL

-----------------------------------------------------------------------------
(* Capacity. *)

\* What is made was asked for by somebody at "create", and keeps that asking; a
\* minter is chosen now, with room; a record appears only of a late issue.
Comings ==
    /\ \A k \in Keys : cred[k] # None => cred'[k] = cred[k]
    /\ \A k \in Keys : cred[k] = None /\ cred'[k] # None =>
          \E p \in Goroutines : At(p, "create") /\ cred'[k].by = job[p].by /\ cred'[k].asked = job[p].at
    /\ \A p \in Goroutines : At(p, "create")' =>
          \/ At(p, "create") /\ job'[p].by = job[p].by /\ job'[p].at = job[p].at
          \/ job'[p].by \in Fit /\ job'[p].at = clock
    /\ \A k \in tracked' \ tracked : cred[k] # None /\ clock <= cred[k].asked + MaxOp

\* A step that makes and tracks nothing, and chooses no minter.
LEMMA NoComing ==
    ASSUME IInv, UNCHANGED cred, tracked' \subseteq tracked,
           \A p \in Goroutines : At(p, "create")' => job'[p] = job[p]
    PROVE  Comings
BY DEF Comings, At

LEMMA IssueComes == ASSUME IInv, NEW p \in Goroutines, Issue(p) PROVE Comings
<1> USE DEF Comings
<1>0. job \in [Goroutines -> Job] /\ cred \in [Keys -> Cred \cup {None}]
  BY DEF IInv, TypeOK
<1>1. CASE Admit(p, role = "open") \/ Refuse(p, Fit)
  <2>1. UNCHANGED <<cred, tracked>>
    BY <1>1 DEF Admit, Refuse, storage, upstream
  <2>2. job'[p].pc # "create" /\ \A q \in Goroutines \ {p} : job'[q] = job[q]
    BY <1>0, <1>1, IdleOK DEF Admit, Refuse, Finish, Job
  <2> QED
    BY <2>1, <2>2, NoComing DEF At
<1>2. CASE Choose(p, Fit)
  <2>1. UNCHANGED <<cred, tracked>> /\ \A q \in Goroutines \ {p} : job'[q] = job[q]
    BY <1>0, <1>2 DEF Choose, storage, upstream
  <2>2. job'[p].by \in Fit /\ job'[p].at = clock
    BY <1>0, <1>2 DEF Choose
  <2> QED
    BY <2>1, <2>2 DEF At
<1>3. ASSUME NEW e \in Nat \cup {None}, (\E l \in {"record", "track"} : Create(p, e, l)) \/ CreateFail(p, e) PROVE Comings
  <2>1. At(p, "create") /\ UNCHANGED tracked
    BY <1>3 DEF Create, CreateFail, storage
  <2>2. job'[p].pc # "create" /\ \A q \in Goroutines \ {p} : job'[q] = job[q]
    BY <1>0, <1>3, IdleOK DEF Create, CreateFail, Finish, Job
  <2>3. UNCHANGED cred \/ \E k \in Keys : Make(p, k, e)
    BY <1>3 DEF Create, CreateFail, upstream
  <2>4. ASSUME NEW k \in Keys, Make(p, k, e)
        PROVE  cred[k] = None /\ cred'[k].by = job[p].by /\ cred'[k].asked = job[p].at /\ \A j \in Keys \ {k} : cred'[j] = cred[j]
    BY <1>0, <2>4 DEF Make
  <2> QED
    BY <2>1, <2>2, <2>3, <2>4 DEF At
<1>4. CASE Ledger(p) \/ Undo(p) \/ Register(p)
  <2>1. UNCHANGED <<cred, tracked>>
    BY <1>4 DEF Ledger, Undo, Register, storage, upstream
  <2>2. job'[p].pc # "create" /\ \A q \in Goroutines \ {p} : job'[q] = job[q]
    <3>1. CASE Ledger(p)
      BY <1>0, <3>1 DEF Ledger, Job
    <3>2. CASE Undo(p)
      BY <1>0, <3>2, IdleOK DEF Undo, Finish
    <3>3. CASE Register(p)
      <4>1. job' = [job EXCEPT ![p] = Idle] \/ job' = [job EXCEPT ![p] = [Idle EXCEPT !.pc = "revoke", !.key = job[p].key]]
        BY <3>3 DEF Register, Finish
      <4>2. [Idle EXCEPT !.pc = "revoke", !.key = job[p].key].pc = "revoke"
        BY DEF Idle
      <4> QED
        BY <1>0, <4>1, <4>2, IdleOK
    <3> QED
      BY <1>4, <3>1, <3>2, <3>3
  <2> QED
    BY <2>1, <2>2, NoComing DEF At
<1>5. ASSUME NEW t \in Nat, At(p, "track"), TrackOrUndo(p, t) \/ TrackIfPossible(p, t) PROVE Comings
  <2>1. UNCHANGED cred /\ tracked' \subseteq tracked \cup {job[p].key}
    BY <1>5 DEF TrackOrUndo, TrackIfPossible, upstream
  <2>2. job'[p].pc # "create" /\ \A q \in Goroutines \ {p} : job'[q] = job[q]
    BY <1>0, <1>5 DEF TrackOrUndo, TrackIfPossible, Job
  <2>3. job[p].pc \in Holding /\ clock <= job[p].at + MaxOp
    BY <1>5 DEF At, Holding, Issuing, IInv, IssueInv
  <2>4. cred[job[p].key] # None /\ cred[job[p].key].asked = job[p].at
    BY <2>3, HeldKey
  <2> QED
    BY <2>1, <2>2, <2>3, <2>4 DEF At
<1> HIDE DEF Comings
<1> QED
  BY <1>1, <1>2, <1>3, <1>4, <1>5 DEF Issue

LEMMA StepComes == ASSUME IInv, Step PROVE Comings
<1>0. job \in [Goroutines -> Job]
  BY DEF IInv, TypeOK
<1>1. ASSUME NEW p \in Goroutines, RevokeStep(p) PROVE Comings
  <2>1. UNCHANGED cred /\ tracked' \subseteq tracked
    BY <1>1 DEF RevokeStep, Revoke, RevokeDelete, RevokeForget, RevokeLocally, Forget, storage, upstream
  <2>2. job'[p].pc # "create" /\ \A q \in Goroutines \ {p} : job'[q] = job[q]
    <3>1. ASSUME NEW k, Revoke(p, k) PROVE job'[p].pc # "create" /\ \A q \in Goroutines \ {p} : job'[q] = job[q]
      BY <1>0, <3>1 DEF Revoke, Job
    <3>2. CASE RevokeDelete(p, Deleters(job[p].key))
      BY <1>0, <3>2, IdleOK DEF RevokeDelete, Finish, Job
    <3>3. CASE Forget(p)
      BY <1>0, <3>3, IdleOK DEF Forget, Finish
    <3> QED
      BY <1>1, <3>1, <3>2, <3>3 DEF RevokeStep, RevokeForget, RevokeLocally
  <2> QED
    BY <2>1, <2>2, NoComing DEF At
<1>2. ASSUME NEW p \in Goroutines, ReconcileStep(p) PROVE Comings
  <2>1. UNCHANGED cred /\ tracked' \subseteq tracked
    BY <1>2 DEF ReconcileStep, List, Own, Reclaim, PruneExpired, storage, upstream
  <2>2. job'[p].pc # "create" /\ \A q \in Goroutines \ {p} : job'[q] = job[q]
    <3>1. ASSUME NEW old, List(p, old) \/ Own(p, old) PROVE job'[p].pc # "create" /\ \A q \in Goroutines \ {p} : job'[q] = job[q]
      <4>1. job[p] \in Job
        BY <1>0
      <4>2. CASE List(p, old)
        BY <1>0, <4>1, <4>2 DEF List, Job
      <4>3. CASE Own(p, old)
        BY <1>0, <4>1, <4>3 DEF Own, Job
      <4> QED
        BY <3>1, <4>2, <4>3
    <3>2. CASE Reclaim(p)
      <4>1. job[p].pc = "reclaim" /\ job[p] \in Job
        BY <1>0, <3>2 DEF Reclaim, At
      <4> QED
        BY <1>0, <3>2, <4>1, IdleOK DEF Reclaim, Finish, Job
    <3>3. ASSUME NEW e, PruneExpired(p, e) PROVE job'[p].pc # "create" /\ \A q \in Goroutines \ {p} : job'[q] = job[q]
      BY <3>3 DEF PruneExpired, At
    <3> QED
      BY <1>2, <3>1, <3>2, <3>3 DEF ReconcileStep
  <2> QED
    BY <2>1, <2>2, NoComing DEF At
<1>3. ASSUME NEW p \in Goroutines, Arm(p) \/ Sweep(p) \/ PurgeScan(p) \/ PurgeDrop(p) \/ SaveIntent(p) PROVE Comings
  <2>1. UNCHANGED cred /\ tracked' \subseteq tracked
    BY <1>3 DEF Arm, Sweep, PurgeScan, PurgeDrop, SaveIntent, storage, upstream
  <2>2. job'[p].pc # "create" /\ \A q \in Goroutines \ {p} : job'[q] = job[q]
    <3>1. CASE Arm(p)
      BY <1>0, <3>1 DEF Arm, Idle
    <3>2. CASE Sweep(p) \/ PurgeScan(p)
      BY <1>0, <3>2 DEF Sweep, PurgeScan, Job
    <3>3. CASE PurgeDrop(p)
      BY <1>0, <3>3, IdleOK DEF PurgeDrop, Finish, Job
    <3>4. CASE SaveIntent(p)
      BY <1>0, <3>4, IdleOK DEF SaveIntent, Finish
    <3> QED
      BY <1>3, <3>1, <3>2, <3>3, <3>4
  <2> QED
    BY <2>1, <2>2, NoComing DEF At
<1>4. ASSUME NEW p \in Goroutines, NEW k \in Keys, PurgeDelete(p, k, Deleters(k)) PROVE Comings
  <2>1. UNCHANGED cred /\ tracked' \subseteq tracked
    BY <1>4 DEF PurgeDelete, storage
  <2>2. job'[p].pc # "create" /\ \A q \in Goroutines \ {p} : job'[q] = job[q]
    <3>1. job[p].pc = "purge" /\ job[p] \in Job
      BY <1>0, <1>4 DEF PurgeDelete, At
    <3> QED
      BY <1>0, <1>4, <3>1 DEF PurgeDelete, Job
  <2> QED
    BY <2>1, <2>2, NoComing DEF At
<1>5. ASSUME NEW k \in Keys, Renew(k) \/ Expire(k) PROVE Comings
  BY <1>5, NoComing DEF Renew, Expire, storage, upstream
<1>6. ASSUME NEW m \in Minters, MinterFails(m) \/ MinterRepaired(m) \/ MinterLeaves(m) PROVE Comings
  BY <1>6, NoComing DEF MinterFails, MinterRepaired, MinterLeaves, storage, upstream
<1>7. ASSUME NEW r, RoleWrite(r) PROVE Comings
  BY <1>7, NoComing DEF RoleWrite, upstream
<1>8. CASE Tick \/ Crash \/ UNCHANGED vars
  BY <1>8, NoComing, IdleOK DEF Tick, Crash, vars, storage, upstream, At
<1> QED
  BY <1>1, <1>2, <1>3, <1>4, <1>5, <1>6, <1>7, <1>8, IssueComes DEF Step, PurgeStep

LEMMA FiniteKeys == IsFiniteSet(Keys)
<1>1. MaxKeys \in Int /\ 1 \in Int
  BY BoundAssumption
<1> QED
  BY <1>1, FS_Interval DEF Keys

\* What was asked for long enough before an instant of the past only grows fewer.
LEMMA Fewer ==
    ASSUME IInv, TypeOK', Comings, NEW m \in Minters, NEW t \in Nat, t <= clock
    PROVE  /\ Before(m, t)' \subseteq Before(m, t)
           /\ Cardinality(Before(m, t)') <= Cardinality(Before(m, t))
           /\ Cardinality(Before(m, t)) \in Nat /\ Cardinality(Before(m, t)') \in Nat
<1>1. Before(m, t) \subseteq Keys /\ Before(m, t)' \subseteq Keys
  BY DEF Before, Outstanding, IInv, TypeOK
<1>2. IsFiniteSet(Before(m, t)) /\ IsFiniteSet(Before(m, t)')
  BY <1>1, FiniteKeys, FS_Subset
<1>3. ASSUME NEW k \in Before(m, t)' PROVE k \in Before(m, t)
  <2>1. k \in tracked' /\ k \in Keys /\ cred'[k].by = m /\ cred'[k].asked + MaxOp < t
    BY DEF Before, Outstanding, TypeOK
  <2>2. CASE k \in tracked
    <3>1. cred[k] # None /\ cred'[k] = cred[k]
      BY <2>1, <2>2 DEF IInv, KeyInv, Comings
    <3> QED
      BY <2>1, <2>2, <3>1 DEF Before, Outstanding
  <2>3. CASE k \notin tracked
    <3>1. cred[k] # None /\ cred'[k] = cred[k] /\ clock <= cred[k].asked + MaxOp
      BY <2>1, <2>3 DEF Comings
    <3>2. cred[k].asked \in Nat /\ clock \in Nat /\ MaxOp \in Nat
      BY <2>1, <3>1, HoldAssumption DEF IInv, TypeOK, Cred
    <3> QED
      BY <2>1, <3>1, <3>2
  <2> QED
    BY <2>2, <2>3
<1>4. Before(m, t)' \subseteq Before(m, t)
  BY <1>3
<1> QED
  BY <1>2, <1>4, FS_Subset, FS_CardinalityType

\* A minter passes its limit only by issues that ran side by side.
LEMMA CapacityKept == ASSUME IInv, IInv', CapacityInv, Comings PROVE CapacityInv'
<1> SUFFICES ASSUME Limit > 0
             PROVE  /\ \A p \in Goroutines : At(p, "create")' => Cardinality(Before(job[p].by, job[p].at)') < Limit
                    /\ \A k \in Keys : cred'[k] # None => Cardinality(Before(cred[k].by, cred[k].asked)') < Limit
  BY DEF CapacityInv
<1>1. TypeOK' /\ clock \in Nat /\ Limit \in Nat
  BY HoldAssumption DEF IInv, TypeOK
<1>2. ASSUME NEW m \in Minters, NEW t \in Nat, t <= clock, Cardinality(Before(m, t)) < Limit
      PROVE  Cardinality(Before(m, t)') < Limit
  BY <1>1, <1>2, Fewer
<1>3. ASSUME NEW m \in Fit PROVE m \in Minters /\ Cardinality(Before(m, clock)) < Limit
  <2>1. m \in Minters /\ Cardinality(Outstanding(m)) < Limit
    BY <1>1, <1>3 DEF Fit, Healthy, HasRoom
  <2>2. Before(m, clock) \subseteq Outstanding(m) /\ Outstanding(m) \subseteq Keys
    BY DEF Before, Outstanding, IInv, TypeOK
  <2>3. IsFiniteSet(Outstanding(m))
    BY <2>2, FiniteKeys, FS_Subset
  <2>4. Cardinality(Before(m, clock)) <= Cardinality(Outstanding(m)) /\ Cardinality(Before(m, clock)) \in Nat
        /\ Cardinality(Outstanding(m)) \in Nat
    BY <2>2, <2>3, FS_Subset, FS_CardinalityType
  <2> QED
    BY <1>1, <2>1, <2>4
<1>4. ASSUME NEW p \in Goroutines, At(p, "create")
      PROVE  /\ job[p].by \in Minters /\ job[p].at \in Nat /\ job[p].at <= clock
             /\ Cardinality(Before(job[p].by, job[p].at)) < Limit
  BY <1>4 DEF IInv, IssueInv, TypeOK, At, Issuing, Job, CapacityInv
<1>5. ASSUME NEW p \in Goroutines, At(p, "create")' PROVE Cardinality(Before(job[p].by, job[p].at)') < Limit
  <2>1. CASE At(p, "create") /\ job'[p].by = job[p].by /\ job'[p].at = job[p].at
    <3>1. PICK m \in Minters, t \in Nat : m = job[p].by /\ t = job[p].at
      BY <1>4, <2>1
    <3>2. Cardinality(Before(m, t)') < Limit
      BY <1>2, <1>4, <2>1, <3>1
    <3> QED
      BY <2>1, <3>1, <3>2 DEF Before, Outstanding
  <2>2. CASE job'[p].by \in Fit /\ job'[p].at = clock
    <3>1. PICK m \in Fit, t \in Nat : m = job'[p].by /\ t = clock
      BY <1>1, <2>2
    <3>2. Cardinality(Before(m, t)') < Limit
      BY <1>1, <1>2, <1>3, <3>1
    <3> QED
      BY <2>2, <3>1, <3>2 DEF Before, Outstanding
  <2> QED
    BY <1>5, <2>1, <2>2 DEF Comings
<1>6. ASSUME NEW k \in Keys, cred'[k] # None PROVE Cardinality(Before(cred[k].by, cred[k].asked)') < Limit
  <2>1. CASE cred[k] # None
    <3>1. cred'[k] = cred[k] /\ cred[k] \in Cred /\ cred[k].asked <= cred[k].made /\ cred[k].made <= clock
      BY <2>1 DEF Comings, IInv, KeyInv, TypeOK
    <3>2. PICK m \in Minters, t \in Nat : m = cred[k].by /\ t = cred[k].asked /\ t <= clock
      BY <1>1, <3>1 DEF Cred
    <3>3. Cardinality(Before(m, t)') < Limit
      BY <1>2, <2>1, <3>2 DEF CapacityInv
    <3> QED
      BY <3>1, <3>2, <3>3 DEF Before, Outstanding
  <2>2. CASE cred[k] = None
    <3>1. PICK p \in Goroutines : At(p, "create") /\ cred'[k].by = job[p].by /\ cred'[k].asked = job[p].at
      BY <1>6, <2>2 DEF Comings
    <3>2. PICK m \in Minters, t \in Nat : m = job[p].by /\ t = job[p].at
      BY <1>4, <3>1
    <3>3. Cardinality(Before(m, t)') < Limit
      BY <1>2, <1>4, <3>1, <3>2
    <3> QED
      BY <3>1, <3>2, <3>3 DEF Before, Outstanding
  <2> QED
    BY <2>1, <2>2
<1> QED
  BY <1>5, <1>6

\* Limits of selectMinter: of what a minter holds, fewer than its limit were asked
\* for more than MaxOp before any one of them.
THEOREM LimitsKept == Spec => []CapacityBound
<1>1. Init => CapacityInv
  BY IdleOK DEF Init, CapacityInv, At
<1>2. IInv /\ CapacityInv /\ [Next]_vars => CapacityInv'
  BY NextInv, Shared, StepComes, CapacityKept
<1>3. IInv /\ CapacityInv => CapacityBound
  <2> SUFFICES ASSUME IInv, CapacityInv, Limit > 0, NEW m \in Minters, NEW k \in Outstanding(m)
               PROVE  Cardinality({j \in Outstanding(m) : cred[j].asked + MaxOp < cred[k].asked}) < Limit
    BY DEF CapacityBound
  <2>1. k \in Keys /\ cred[k] # None /\ cred[k].by = m
    BY DEF Outstanding, IInv, TypeOK, KeyInv
  <2> QED
    BY <2>1 DEF CapacityInv, Before
<1> QED
  BY <1>1, <1>2, <1>3, Invariant, PTL DEF Spec

-----------------------------------------------------------------------------
(* The promise of Credential. *)

\* The phase of a credential, now and after the step.
LEMMA Phases ==
    ASSUME NEW k \in Keys
    PROVE  /\ lease[k] = "active" => Phase(k) = "held"
           /\ lease[k] = "ending" => Phase(k) = "ending"
           /\ lease[k] = "over" => Phase(k) = "over"
           /\ lease[k] = "none" /\ InFlight(k) => Phase(k) = "minting"
           /\ lease[k] = "none" /\ ~InFlight(k) /\ cred[k] # None => Phase(k) = "stray"
           /\ lease[k] = "none" /\ ~InFlight(k) /\ cred[k] = None => Phase(k) = "none"
BY DEF Phase

LEMMA NextPhases ==
    ASSUME NEW k \in Keys
    PROVE  /\ lease'[k] = "active" => Phase(k)' = "held"
           /\ lease'[k] = "ending" => Phase(k)' = "ending"
           /\ lease'[k] = "over" => Phase(k)' = "over"
           /\ lease'[k] = "none" /\ InFlight(k)' => Phase(k)' = "minting"
           /\ lease'[k] = "none" /\ ~InFlight(k)' /\ cred'[k] # None => Phase(k)' = "stray"
           /\ lease'[k] = "none" /\ ~InFlight(k)' /\ cred'[k] = None => Phase(k)' = "none"
BY DEF Phase

LEMMA Unmoved ==
    ASSUME IInv, IInv', NEW k \in Keys, lease'[k] = lease[k], cred'[k] = cred[k], InFlight(k)' = InFlight(k)
    PROVE  Phase(k)' = Phase(k)
<1>1. lease[k] \in {"none", "active", "ending", "over"}
  BY DEF IInv, TypeOK
<1> QED
  BY <1>1, Phases, NextPhases

LEMMA Moves ==
    ASSUME NEW k \in Keys, NEW from, NEW to, Phase(k) = from, Phase(k)' = to, \A j \in Keys \ {k} : Phase(j)' = Phase(j)
    PROVE  Life!Move(k, from, to)
<1>1. [j \in Keys |-> Phase(j)'] = [[j \in Keys |-> Phase(j)] EXCEPT ![k] = to]
  OBVIOUS
<1> QED
  BY <1>1 DEF Life!Move

\* Nothing changes but that credentials die, none of them in a client's hands
\* except for the condemned.
LEMMA Dying ==
    ASSUME IInv, IInv', Condemned \subseteq Condemned', cred' = cred, live' \subseteq live,
           \A k \in Keys : lease'[k] = lease[k] /\ InFlight(k)' = InFlight(k),
           \A k \in live \ live' : InFlight(k) \/ lease[k] = "active" => k \in Condemned'
    PROVE  Life!Next
<1>1. \A k \in Keys : Phase(k)' = Phase(k)
  BY Unmoved
<1>2. Mortal' = Mortal
  BY DEF Mortal
<1>3. live \subseteq Keys /\ \A k \in Keys : lease[k] \in {"none", "active", "ending", "over"}
  BY DEF IInv, TypeOK
<1>4. \A k \in live \ live' : Phase(k) \in {"minting", "held"} => k \in Condemned'
  BY <1>3, Phases
<1>5. \A k \in live \ live' : [j \in Keys |-> Phase(j)][k] \in {"minting", "held"} => k \in Condemned'
  BY <1>3, <1>4
<1>6. [k \in Keys |-> Phase(k)'] = [k \in Keys |-> Phase(k)]
  BY <1>1
<1>7. Life!Die
  BY <1>2, <1>5, <1>6 DEF Life!Die
<1> QED
  BY <1>7 DEF Life!Next

\* Who is in flight depends on the goroutine that moves.
LEMMA SameFlight ==
    ASSUME NEW p \in Goroutines, \A q \in Goroutines \ {p} : job'[q] = job[q],
           \/ /\ job[p].pc \in Issuing /\ job'[p].pc \in Issuing /\ job'[p].key = job[p].key
           \/ /\ job[p].pc \notin Issuing \/ job[p].key = None
              /\ job'[p].pc \notin Issuing \/ job'[p].key = None
    PROVE  \A k \in Keys : InFlight(k)' = InFlight(k)
BY Nothing DEF InFlight

\* The clock and the purges go forward, and what was made stays made.
LEMMA Onward == ASSUME IInv, Step PROVE clock' \in {clock, clock + 1} /\ armed' \in {armed, clock}
<1>1. ASSUME NEW p \in Goroutines, Issue(p) PROVE UNCHANGED <<clock, armed>>
  BY <1>1 DEF Issue, Admit, Choose, Refuse, Create, CreateFail, Ledger, TrackOrUndo, TrackIfPossible, Undo, Register, history
<1>2. ASSUME NEW p \in Goroutines, RevokeStep(p) PROVE UNCHANGED <<clock, armed>>
  BY <1>2 DEF RevokeStep, Revoke, RevokeDelete, RevokeForget, RevokeLocally, Forget, history
<1>3. ASSUME NEW p \in Goroutines, ReconcileStep(p) PROVE UNCHANGED <<clock, armed>>
  BY <1>3 DEF ReconcileStep, List, Own, Reclaim, PruneExpired, history
<1>4. ASSUME NEW p \in Goroutines, PurgeStep(p) PROVE clock' = clock /\ armed' \in {armed, clock}
  BY <1>4 DEF PurgeStep, Arm, Sweep, PurgeScan, PurgeDrop, SaveIntent, PurgeDelete, history
<1>5. ASSUME NEW k \in Keys, Renew(k) \/ Expire(k) PROVE UNCHANGED <<clock, armed>>
  BY <1>5 DEF Renew, Expire, history
<1>6. ASSUME NEW m \in Minters, MinterFails(m) \/ MinterRepaired(m) \/ MinterLeaves(m) PROVE UNCHANGED <<clock, armed>>
  BY <1>6 DEF MinterFails, MinterRepaired, MinterLeaves, history
<1>7. ASSUME NEW r, RoleWrite(r) PROVE UNCHANGED <<clock, armed>>
  BY <1>7 DEF RoleWrite
<1>8. CASE Tick \/ Crash \/ UNCHANGED vars
  BY <1>8 DEF Tick, Crash, vars, history
<1> QED
  BY <1>1, <1>2, <1>3, <1>4, <1>5, <1>6, <1>7, <1>8 DEF Step

LEMMA Grown == ASSUME IInv, IInv', Step PROVE Condemned \subseteq Condemned'
<1>1. Comings /\ clock' \in {clock, clock + 1} /\ armed' \in {armed, clock}
  BY StepComes, Onward
<1>2. clock \in Nat /\ (armed # None => armed \in Nat /\ armed <= clock) /\ clock # None
  BY Nothing DEF IInv, TypeOK, IntentInv
<1>3. SUFFICES ASSUME NEW k \in Condemned PROVE k \in Condemned'
  OBVIOUS
<1>4. k \in Keys /\ cred[k] # None /\ cred[k] \in Cred /\ cred'[k] = cred[k]
  BY <1>1 DEF Condemned, Comings, IInv, TypeOK
<1>5. cred[k].asked \in Nat /\ (cred[k].ends # None => cred[k].ends \in Nat)
  BY <1>4 DEF Cred
<1>6. CASE cred[k].ends # None /\ cred[k].ends <= clock
  BY <1>1, <1>2, <1>4, <1>5, <1>6 DEF Condemned
<1>7. CASE armed # None /\ cred[k].asked <= armed
  BY <1>1, <1>2, <1>4, <1>5, <1>7 DEF Condemned
<1> QED
  BY <1>6, <1>7 DEF Condemned

\* The read of creds/<role> mints, hands over, or loses.
LEMMA IssuePromise ==
    ASSUME IInv, IInv', Condemned \subseteq Condemned', NEW p \in Goroutines, Issue(p)
    PROVE  Life!Next
<1>0. job \in [Goroutines -> Job] /\ cred \in [Keys -> Cred \cup {None}] /\ job[p] \in Job
      /\ lease \in [Keys -> {"none", "active", "ending", "over"}] /\ live \subseteq Keys
  BY DEF IInv, TypeOK
<1>1. CASE Admit(p, role = "open") \/ Choose(p, Fit) \/ Refuse(p, Fit)
  <2>1. UNCHANGED <<cred, live, lease>>
    BY <1>1 DEF Admit, Choose, Refuse, upstream, leases
  <2>2. job[p].key = None /\ job'[p].key = None /\ \A q \in Goroutines \ {p} : job'[q] = job[q]
    <3>1. job[p].key = None
      BY <1>1, IdleOK DEF Admit, Choose, Refuse, At, IInv, IssueInv
    <3>2. CASE Admit(p, role = "open")
      BY <1>0, <3>1, <3>2 DEF Admit, Job
    <3>3. CASE Choose(p, Fit)
      <4>1. PICK m \in Fit : job' = [job EXCEPT ![p].pc = "create", ![p].by = m, ![p].at = clock]
        BY <3>3 DEF Choose
      <4> QED
        BY <1>0, <3>1, <4>1 DEF Job
    <3>4. CASE Refuse(p, Fit)
      BY <1>0, <3>1, <3>4, IdleOK DEF Refuse, Finish
    <3> QED
      BY <1>1, <3>1, <3>2, <3>3, <3>4
  <2> QED
    BY <2>1, <2>2, SameFlight, Dying
<1>2. ASSUME NEW e \in Nat \cup {None}, NEW l \in {"record", "track"}, Create(p, e, l) PROVE Life!Next
  <2>1. PICK k \in Keys : Make(p, k, e) /\ job' = [job EXCEPT ![p].pc = l, ![p].key = k]
    BY <1>2 DEF Create
  <2>2. job'[p].pc \in Issuing /\ job'[p].key = k /\ \A q \in Goroutines \ {p} : job'[q] = job[q]
    BY <1>0, <2>1 DEF Job, Issuing
  <2>3. cred[k] = None /\ live' = live \cup {k} /\ lease' = lease /\ (\A j \in Keys \ {k} : cred'[j] = cred[j])
    BY <1>0, <1>2, <2>1 DEF Make, Create, leases
  <2>4. cred'[k].ends = e
    BY <1>0, <2>1 DEF Make
  <2>5. lease[k] = "none" /\ ~InFlight(k)
    <3>1. lease[k] = "none"
      BY <2>3 DEF IInv, KeyInv
    <3>2. ASSUME NEW q \in Goroutines, job[q].pc \in Issuing, job[q].key = k PROVE FALSE
      <4>1. job[q].pc \in Holding
        BY <3>2, Nothing DEF IInv, IssueInv, Holding
      <4> QED
        BY <2>3, <3>2, <4>1, HeldKey
    <3> QED
      BY <3>1, <3>2 DEF InFlight
  <2>6. job[p].key = None
    BY <1>2 DEF Create, At, IInv, IssueInv
  <2>7. InFlight(k)' /\ \A j \in Keys \ {k} : InFlight(j)' = InFlight(j)
    BY <2>2, <2>6, Nothing DEF InFlight
  <2>8. Phase(k) = "none" /\ Phase(k)' = "minting" /\ \A j \in Keys \ {k} : Phase(j)' = Phase(j)
    BY <2>3, <2>5, <2>7, Phases, NextPhases, Unmoved
  <2>9. Life!Move(k, "none", "minting")
    BY <2>8, Moves
  <2>10. Mortal' \in {Mortal, Mortal \cup {k}}
    <3>1. \A j \in Keys \ {k} : j \in Mortal' <=> j \in Mortal
      BY <2>3 DEF Mortal
    <3>2. Mortal \subseteq Keys /\ Mortal' \subseteq Keys /\ k \notin Mortal
      BY <2>3 DEF Mortal
    <3> QED
      BY <3>1, <3>2
  <2>11. Life!Mint(k)
    BY <2>3, <2>9, <2>10 DEF Life!Mint
  <2> QED
    BY <2>11 DEF Life!Next
<1>3. ASSUME NEW e \in Nat \cup {None}, CreateFail(p, e) PROVE Life!Next
  <2>1. job'[p] = Idle /\ (\A q \in Goroutines \ {p} : job'[q] = job[q]) /\ lease' = lease /\ job[p].key = None
    BY <1>0, <1>3, IdleOK DEF CreateFail, Finish, leases, At, IInv, IssueInv
  <2>2. \A j \in Keys : InFlight(j)' = InFlight(j)
    BY <2>1, IdleOK, SameFlight
  <2>3. CASE UNCHANGED upstream
    BY <2>1, <2>2, <2>3, Dying DEF upstream
  <2>4. ASSUME NEW k \in Keys, Make(p, k, e) PROVE Life!Next
    <3>1. cred[k] = None /\ live' = live \cup {k} /\ (\A j \in Keys \ {k} : cred'[j] = cred[j]) /\ cred'[k].ends = e
      BY <1>0, <2>4 DEF Make
    <3>2. k \in live' /\ cred'[k] # None
      BY <3>1 DEF IInv, KeyInv
    <3>3. lease[k] = "none" /\ ~InFlight(k)
      <4>1. lease[k] = "none"
        BY <3>1 DEF IInv, KeyInv
      <4>2. ASSUME NEW q \in Goroutines, job[q].pc \in Issuing, job[q].key = k PROVE FALSE
        <5>1. job[q].pc \in Holding
          BY <4>2, Nothing DEF IInv, IssueInv, Holding
        <5> QED
          BY <3>1, <4>2, <5>1, HeldKey
      <4> QED
        BY <4>1, <4>2 DEF InFlight
    <3>4. Phase(k) = "none" /\ Phase(k)' = "stray" /\ \A j \in Keys \ {k} : Phase(j)' = Phase(j)
      BY <2>1, <2>2, <3>1, <3>2, <3>3, Phases, NextPhases, Unmoved
    <3>5. Life!Move(k, "none", "stray")
      BY <3>4, Moves
    <3>6. Mortal' \in {Mortal, Mortal \cup {k}}
      <4>1. \A j \in Keys \ {k} : j \in Mortal' <=> j \in Mortal
        BY <3>1 DEF Mortal
      <4>2. Mortal \subseteq Keys /\ Mortal' \subseteq Keys /\ k \notin Mortal
        BY <3>1 DEF Mortal
      <4> QED
        BY <4>1, <4>2
    <3>7. Life!Mint(k)
      BY <3>1, <3>5, <3>6 DEF Life!Mint
    <3> QED
      BY <3>7 DEF Life!Next
  <2> QED
    BY <1>3, <2>3, <2>4 DEF CreateFail
<1>4. CASE Ledger(p) \/ \E t \in Nat : TrackOrUndo(p, t) \/ TrackIfPossible(p, t)
  <2>1. UNCHANGED <<cred, live, lease>>
    BY <1>4 DEF Ledger, TrackOrUndo, TrackIfPossible, upstream, leases
  <2>2. job[p].pc \in Issuing
    BY <1>4 DEF Ledger, TrackOrUndo, TrackIfPossible, At, Issuing
  <2>3. job'[p].pc \in Issuing /\ job'[p].key = job[p].key /\ \A q \in Goroutines \ {p} : job'[q] = job[q]
    <3>1. CASE Ledger(p)
      BY <1>0, <3>1 DEF Ledger, Job, Issuing
    <3>2. ASSUME NEW t \in Nat, TrackOrUndo(p, t)
          PROVE  job'[p].pc \in Issuing /\ job'[p].key = job[p].key /\ \A q \in Goroutines \ {p} : job'[q] = job[q]
      BY <1>0, <3>2 DEF TrackOrUndo, Job, Issuing
    <3>3. ASSUME NEW t \in Nat, TrackIfPossible(p, t)
          PROVE  job'[p].pc \in Issuing /\ job'[p].key = job[p].key /\ \A q \in Goroutines \ {p} : job'[q] = job[q]
      BY <1>0, <3>3 DEF TrackIfPossible, Job, Issuing
    <3> QED
      BY <1>4, <3>1, <3>2, <3>3
  <2> QED
    BY <2>1, <2>2, <2>3, SameFlight, Dying
<1>5. CASE Undo(p) \/ (Register(p) /\ UNCHANGED leases)
  <2>1. job[p].pc \in Holding
    BY <1>5 DEF Undo, Register, At, Holding, Issuing
  <2>2. PICK k \in Keys : k = job[p].key /\ cred[k] # None /\ lease[k] = "none" /\ InFlight(k)
    BY <2>1, HeldKey
  <2>3. job'[p].pc \notin Issuing /\ \A q \in Goroutines \ {p} : job'[q] = job[q]
    <3>1. job' = [job EXCEPT ![p] = Idle] \/ job' = [job EXCEPT ![p] = [Idle EXCEPT !.pc = "revoke", !.key = job[p].key]]
      BY <1>5 DEF Undo, Register, Finish
    <3>2. [Idle EXCEPT !.pc = "revoke", !.key = job[p].key].pc = "revoke"
      BY DEF Idle
    <3> QED
      BY <1>0, <3>1, <3>2, IdleOK DEF Issuing
  <2>4. cred' = cred /\ lease' = lease /\ live' \in {live, live \ {k}}
    BY <1>5, <2>2 DEF Undo, Register, upstream, leases
  <2>5. ~InFlight(k)' /\ \A j \in Keys \ {k} : InFlight(j)' = InFlight(j)
    <3>1. \A q \in Goroutines \ {p} : ~(job[q].pc \in Issuing /\ job[q].key = k)
      BY <2>1, <2>2, HeldKey
    <3> QED
      BY <2>2, <2>3, <3>1 DEF InFlight
  <2>6. Phase(k) = "minting" /\ Phase(k)' = "stray" /\ \A j \in Keys \ {k} : Phase(j)' = Phase(j)
    BY <2>2, <2>4, <2>5, Phases, NextPhases, Unmoved
  <2>7. Life!Lose(k)
    BY <2>4, <2>6, Moves DEF Life!Lose, Mortal
  <2> QED
    BY <2>7 DEF Life!Next
<1>6. CASE Register(p) /\ ~UNCHANGED leases
  <2>1. job[p].pc \in Holding
    BY <1>6 DEF Register, At, Holding, Issuing
  <2>2. PICK k \in Keys : k = job[p].key /\ cred[k] # None /\ lease[k] = "none" /\ InFlight(k)
    BY <2>1, HeldKey
  <2>3. job'[p] = Idle /\ \A q \in Goroutines \ {p} : job'[q] = job[q]
    BY <1>0, <1>6 DEF Register, Finish
  <2>4. UNCHANGED <<cred, live>> /\ lease' = [lease EXCEPT ![k] = "active"]
    BY <1>6, <2>2 DEF Register, upstream
  <2>5. \A j \in Keys \ {k} : InFlight(j)' = InFlight(j) /\ lease'[j] = lease[j]
    BY <1>0, <2>2, <2>3, <2>4, IdleOK DEF InFlight, Issuing
  <2>6. lease'[k] = "active"
    BY <1>0, <2>4
  <2>7. Phase(k) = "minting" /\ Phase(k)' = "held" /\ \A j \in Keys \ {k} : Phase(j)' = Phase(j)
    BY <2>2, <2>4, <2>5, <2>6, Phases, NextPhases, Unmoved
  <2>8. Life!Hand(k)
    BY <2>4, <2>7, Moves DEF Life!Hand, Mortal
  <2> QED
    BY <2>8 DEF Life!Next
<1> QED
  BY <1>1, <1>2, <1>3, <1>4, <1>5, <1>6 DEF Issue

\* A revoke deletes what is in nobody's hands, and lets go of the lease only of
\* what is dead, ends by itself, or has nobody left to delete it.
LEMMA RevokePromise ==
    ASSUME IInv, IInv', Condemned \subseteq Condemned', NEW p \in Goroutines, RevokeStep(p)
    PROVE  Life!Next
<1>0. job \in [Goroutines -> Job] /\ job[p] \in Job /\ live \subseteq Keys
      /\ lease \in [Keys -> {"none", "active", "ending", "over"}]
  BY DEF IInv, TypeOK
<1>1. ASSUME NEW k \in Keys, Revoke(p, k) PROVE Life!Next
  <2>1. UNCHANGED <<cred, live, lease>>
    BY <1>1 DEF Revoke, upstream, leases
  <2>2. job[p].pc = "idle" /\ job'[p].pc = "revoke" /\ \A q \in Goroutines \ {p} : job'[q] = job[q]
    BY <1>0, <1>1 DEF Revoke, At, Job
  <2>3. \A j \in Keys : InFlight(j)' = InFlight(j)
    BY <2>2, SameFlight DEF Issuing
  <2> QED
    BY <2>1, <2>3, Dying
<1>2. CASE RevokeDelete(p, Deleters(job[p].key))
  <2>1. PICK k \in Keys : k = job[p].key /\ lease[k] # "active" /\ ~InFlight(k)
    BY <1>2 DEF RevokeDelete, At, IInv, RevokeInv
  <2>2. UNCHANGED <<cred, lease>> /\ live' \in {live, live \ {k}}
    BY <1>2, <2>1 DEF RevokeDelete, leases
  <2>3. job[p].pc = "revoke" /\ job'[p].pc \in {"forget", "idle"} /\ \A q \in Goroutines \ {p} : job'[q] = job[q]
    BY <1>0, <1>2, IdleOK DEF RevokeDelete, At, Finish, Job
  <2>4. \A j \in Keys : InFlight(j)' = InFlight(j)
    BY <2>3, SameFlight DEF Issuing
  <2> QED
    BY <2>1, <2>2, <2>4, Dying
<1>3. CASE Forget(p) /\ (At(p, "forget") \/ (At(p, "revoke") /\ (Deleters(job[p].key) = {} \/ plugin \in Local)))
  <2>1. PICK k \in Keys : k = job[p].key /\ cred[k] # None /\ lease[k] # "active" /\ ~InFlight(k)
    BY <1>3 DEF At, IInv, RevokeInv
  <2>2. UNCHANGED <<cred, live>> /\ lease' = [lease EXCEPT ![k] = IF @ = "ending" THEN "over" ELSE @]
    BY <1>3, <2>1 DEF Forget, upstream
  <2>3. job[p].pc \in {"revoke", "forget"} /\ job'[p].pc = "idle" /\ \A q \in Goroutines \ {p} : job'[q] = job[q]
    BY <1>0, <1>3, IdleOK DEF Forget, At, Finish
  <2>4. \A j \in Keys : InFlight(j)' = InFlight(j)
    BY <2>3, SameFlight DEF Issuing
  <2>5. CASE lease[k] # "ending"
    <3>1. lease' = lease
      BY <1>0, <2>2, <2>5
    <3> QED
      BY <2>2, <2>4, <3>1, Dying
  <2>6. CASE lease[k] = "ending"
    <3>1. lease'[k] = "over" /\ \A j \in Keys \ {k} : lease'[j] = lease[j]
      BY <1>0, <2>2, <2>6
    <3>2. Phase(k) = "ending" /\ Phase(k)' = "over" /\ \A j \in Keys \ {k} : Phase(j)' = Phase(j)
      BY <2>2, <2>4, <2>6, <3>1, Phases, NextPhases, Unmoved
    <3>3. k \notin live \/ k \in Mortal \/ k \notin Manned
      <4>1. CASE At(p, "forget")
        BY <2>1, <4>1 DEF IInv, RevokeInv
      <4>2. CASE Deleters(job[p].key) = {}
        BY <2>1, <4>2 DEF Manned
      <4>3. CASE plugin \in Local
        BY <2>1, <4>3 DEF IInv, KeyInv, Fitting, Mortal
      <4> QED
        BY <1>3, <4>1, <4>2, <4>3
    <3>4. UNCHANGED <<live, Mortal>>
      BY <2>2 DEF Mortal
    <3>5. Life!Release(k)
      BY <3>2, <3>3, <3>4, Moves DEF Life!Release
    <3> QED
      BY <3>5 DEF Life!Next
  <2> QED
    BY <2>5, <2>6
<1> QED
  BY <1>1, <1>2, <1>3 DEF RevokeStep, RevokeForget, RevokeLocally

\* A reconcile pass deletes what no issue has and no client holds.
LEMMA ReconcilePromise ==
    ASSUME IInv, IInv', Condemned \subseteq Condemned', NEW p \in Goroutines, ReconcileStep(p)
    PROVE  Life!Next
<1>0. job \in [Goroutines -> Job] /\ job[p] \in Job /\ live \subseteq Keys
  BY DEF IInv, TypeOK
<1>1. ASSUME NEW old, List(p, old) \/ Own(p, old) PROVE Life!Next
  <2>1. UNCHANGED <<cred, live, lease>>
    BY <1>1 DEF List, Own, upstream, leases
  <2>2. job[p].pc \notin Issuing /\ job'[p].pc \notin Issuing /\ \A q \in Goroutines \ {p} : job'[q] = job[q]
    <3>1. CASE List(p, old)
      BY <1>0, <3>1 DEF List, At, Job, Issuing
    <3>2. CASE Own(p, old)
      BY <1>0, <3>2 DEF Own, At, Job, Issuing
    <3> QED
      BY <1>1, <3>1, <3>2
  <2>3. \A j \in Keys : InFlight(j)' = InFlight(j)
    BY <2>2, SameFlight
  <2> QED
    BY <2>1, <2>3, Dying
<1>2. CASE Reclaim(p)
  <2>1. UNCHANGED <<cred, lease>> /\ job[p].pc = "reclaim"
    BY <1>2 DEF Reclaim, leases, At
  <2>2. live' = live \/ \E k \in job[p].todo : live' = live \ {k}
    BY <1>2 DEF Reclaim
  <2>3. \A k \in job[p].todo : ~InFlight(k) /\ (k \in live => lease[k] # "active")
    BY <2>1 DEF At, IInv, ReconcileInv
  <2>4. job'[p].pc \notin Issuing /\ \A q \in Goroutines \ {p} : job'[q] = job[q]
    BY <1>0, <1>2, <2>1, IdleOK DEF Reclaim, Finish, Issuing, Job
  <2>5. \A j \in Keys : InFlight(j)' = InFlight(j)
    BY <2>1, <2>4, SameFlight DEF Issuing
  <2> QED
    BY <2>1, <2>2, <2>3, <2>5, Dying
<1>3. ASSUME NEW expired, PruneExpired(p, expired) PROVE Life!Next
  <2>1. UNCHANGED <<cred, live, lease, job>>
    BY <1>3 DEF PruneExpired, upstream, leases
  <2>2. \A j \in Keys : InFlight(j)' = InFlight(j)
    BY <2>1 DEF InFlight
  <2> QED
    BY <2>1, <2>2, Dying
<1> QED
  BY <1>1, <1>2, <1>3 DEF ReconcileStep

\* A purge deletes what the operator condemned when arming it.
LEMMA PurgePromise ==
    ASSUME IInv, IInv', Condemned \subseteq Condemned', NEW p \in Goroutines, PurgeStep(p)
    PROVE  Life!Next
<1>0. job \in [Goroutines -> Job] /\ job[p] \in Job /\ live \subseteq Keys
  BY DEF IInv, TypeOK
<1>1. UNCHANGED <<cred, lease>>
  BY DEF PurgeStep, Arm, Sweep, PurgeScan, PurgeDrop, SaveIntent, PurgeDelete, upstream, leases
<1>2. job[p].pc \in {"idle", "scan", "purge", "drop"}
  BY DEF PurgeStep, Arm, Sweep, PurgeScan, PurgeDrop, SaveIntent, PurgeDelete, At
<1>3. job'[p].pc \in {"idle", "scan", "purge", "drop"} /\ \A q \in Goroutines \ {p} : job'[q] = job[q]
  <2>1. CASE Arm(p)
    <3>1. [Idle EXCEPT !.pc = "scan", !.at = clock].pc = "scan"
      BY DEF Idle
    <3> QED
      BY <1>0, <2>1, <3>1, IdleOK DEF Arm
  <2>2. CASE Sweep(p)
    BY <1>0, <2>2 DEF Sweep, Job
  <2>3. CASE PurgeScan(p)
    BY <1>0, <2>3 DEF PurgeScan, Job
  <2>4. CASE PurgeDrop(p)
    BY <1>0, <2>4, IdleOK DEF PurgeDrop, Finish, Job
  <2>5. CASE SaveIntent(p)
    BY <1>0, <2>5, IdleOK DEF SaveIntent, Finish
  <2>6. ASSUME NEW k \in Keys, PurgeDelete(p, k, Deleters(k))
        PROVE  job'[p].pc \in {"idle", "scan", "purge", "drop"} /\ \A q \in Goroutines \ {p} : job'[q] = job[q]
    BY <1>0, <1>2, <2>6 DEF PurgeDelete, Job
  <2> QED
    BY <2>1, <2>2, <2>3, <2>4, <2>5, <2>6 DEF PurgeStep
<1>4. \A j \in Keys : InFlight(j)' = InFlight(j)
  BY <1>2, <1>3, SameFlight DEF Issuing
<1>5. CASE live' = live
  BY <1>1, <1>4, <1>5, Dying
<1>6. ASSUME NEW k \in Keys, PurgeDelete(p, k, Deleters(k)) PROVE Life!Next
  <2>1. live' \in {live, live \ {k}}
    BY <1>6 DEF PurgeDelete
  <2>2. job[p].pc = "purge" /\ k \in job[p].todo
    BY <1>6 DEF PurgeDelete, At
  <2>3. /\ armed # None /\ job[p].at <= armed
        /\ cred[k] # None /\ cred[k].asked <= job[p].at
    BY <2>2 DEF IInv, PurgeInv, Purging
  <2>4. armed \in Nat /\ job[p].at \in Nat /\ cred[k].asked \in Nat
    BY <1>0, <2>3 DEF IInv, TypeOK, Job, Cred
  <2>5. k \in Condemned'
    BY <2>3, <2>4 DEF Condemned
  <2> QED
    BY <1>1, <1>4, <2>1, <2>5, Dying
<1> QED
  BY <1>5, <1>6 DEF PurgeStep, Arm, Sweep, PurgeScan, PurgeDrop, SaveIntent, upstream

\* Renewals, expiry, time, the role, the set and a failover.
LEMMA WorldPromise ==
    ASSUME IInv, IInv', Condemned \subseteq Condemned', UNCHANGED job, UNCHANGED cred, UNCHANGED lease,
           live' \subseteq live, live \ live' \subseteq Condemned'
    PROVE  Life!Next
<1>1. \A j \in Keys : InFlight(j)' = InFlight(j)
  BY DEF InFlight
<1> QED
  BY <1>1, Dying

LEMMA ExpirePromise ==
    ASSUME IInv, IInv', Condemned \subseteq Condemned', NEW k \in Keys, Expire(k)
    PROVE  Life!Next
<1>1. UNCHANGED <<cred, live, job>> /\ lease[k] = "active" /\ lease' = [lease EXCEPT ![k] = "ending"]
  BY DEF Expire, upstream
<1>2. lease'[k] = "ending" /\ \A j \in Keys \ {k} : lease'[j] = lease[j]
  BY <1>1 DEF IInv, TypeOK
<1>3. \A j \in Keys : InFlight(j)' = InFlight(j)
  BY <1>1 DEF InFlight
<1>4. Phase(k) = "held" /\ Phase(k)' = "ending" /\ \A j \in Keys \ {k} : Phase(j)' = Phase(j)
  BY <1>1, <1>2, <1>3, Phases, NextPhases, Unmoved
<1>5. Life!End(k)
  BY <1>1, <1>4, Moves DEF Life!End, Mortal
<1> QED
  BY <1>5 DEF Life!Next

LEMMA TickPromise == ASSUME IInv, IInv', Condemned \subseteq Condemned', Tick PROVE Life!Next
<1>1. UNCHANGED <<cred, lease, job>> /\ live' = {k \in live : cred[k].ends = None \/ cred[k].ends > clock'}
  BY DEF Tick, leases
<1>2. ASSUME NEW k \in live \ live' PROVE k \in Condemned'
  <2>1. k \in Keys /\ cred[k] # None /\ cred[k] \in Cred
    BY DEF IInv, TypeOK, KeyInv
  <2>2. cred[k].ends # None /\ cred[k].ends \in Nat /\ ~(cred[k].ends > clock') /\ clock' \in Nat
    BY <1>1, <2>1 DEF Cred, IInv, TypeOK
  <2> QED
    BY <1>1, <2>1, <2>2 DEF Condemned
<1> QED
  BY <1>1, <1>2, WorldPromise

\* What was in flight when the node fell over is astray.
LEMMA CrashPromise == ASSUME IInv, IInv', Condemned \subseteq Condemned', Crash PROVE Life!Next
<1> DEFINE S == {k \in Keys : InFlight(k)}
<1>1. UNCHANGED <<cred, live, lease>> /\ \A p \in Goroutines : job'[p].pc = "idle"
  BY IdleOK DEF Crash, upstream, leases
<1>2. \A k \in Keys : ~InFlight(k)'
  BY <1>1 DEF InFlight, Issuing
<1>3. \A k \in Keys : InFlight(k) => cred[k] # None /\ lease[k] = "none"
  <2> SUFFICES ASSUME NEW k \in Keys, NEW p \in Goroutines, job[p].pc \in Issuing, job[p].key = k
               PROVE  cred[k] # None /\ lease[k] = "none"
    BY DEF InFlight
  <2>1. job[p].pc \in Holding
    BY Nothing DEF IInv, IssueInv, Holding
  <2> QED
    BY <2>1, HeldKey
<1>4. ASSUME NEW k \in Keys, InFlight(k) PROVE Phase(k) = "minting" /\ Phase(k)' = "stray"
  BY <1>1, <1>2, <1>3, <1>4, Phases, NextPhases
<1>5. ASSUME NEW k \in Keys, ~InFlight(k) PROVE Phase(k)' = Phase(k)
  <2>1. InFlight(k)' = InFlight(k)
    BY <1>2, <1>5 DEF InFlight
  <2>2. lease'[k] = lease[k] /\ cred'[k] = cred[k]
    BY <1>1
  <2> QED
    BY <2>1, <2>2, Unmoved
<1>6. [k \in Keys |-> Phase(k)'] = [k \in Keys |-> IF k \in S THEN "stray" ELSE [j \in Keys |-> Phase(j)][k]]
  BY <1>4, <1>5
<1>7. \A k \in S : [j \in Keys |-> Phase(j)][k] = "minting"
  BY <1>4
<1>8. Mortal' = Mortal /\ S \in SUBSET Keys
  BY <1>1 DEF Mortal
<1> HIDE DEF S
<1> QED
  BY <1>1, <1>6, <1>7, <1>8 DEF Life!Next

LEMMA StepPromise == ASSUME IInv, IInv', Step PROVE Life!Next
<1>1. Condemned \subseteq Condemned'
  BY Grown
<1>2. ASSUME NEW p \in Goroutines, Issue(p) \/ RevokeStep(p) \/ ReconcileStep(p) \/ PurgeStep(p) PROVE Life!Next
  BY <1>1, <1>2, IssuePromise, RevokePromise, ReconcilePromise, PurgePromise
<1>3. ASSUME NEW k \in Keys, Renew(k) PROVE Life!Next
  BY <1>1, <1>3, WorldPromise DEF Renew, upstream
<1>4. ASSUME NEW m \in Minters, MinterFails(m) \/ MinterRepaired(m) \/ MinterLeaves(m) PROVE Life!Next
  BY <1>1, <1>4, WorldPromise DEF MinterFails, MinterRepaired, MinterLeaves, upstream, leases
<1>5. ASSUME NEW r, RoleWrite(r) PROVE Life!Next
  BY <1>1, <1>5, WorldPromise DEF RoleWrite, upstream, leases
<1>6. CASE UNCHANGED vars
  BY <1>1, <1>6, WorldPromise DEF vars, upstream, leases
<1> QED
  BY <1>1, <1>2, <1>3, <1>4, <1>5, <1>6, ExpirePromise, TickPromise, CrashPromise DEF Step

\* What a client was handed works until its time is up or it is condemned, and is
\* let go only when nothing is left to do: every plugin's reads, revokes, passes
\* and purges, step by step.
THEOREM PromiseKept == Spec => KeepsPromise
<1>1. Init => Life!Init
  <2> SUFFICES ASSUME Init PROVE Life!Init
    OBVIOUS
  <2>1. \A k \in Keys : ~InFlight(k) /\ cred[k] = None /\ lease[k] = "none"
    BY IdleOK DEF Init, InFlight, Issuing
  <2>2. \A k \in Keys : Phase(k) = "none"
    BY <2>1, Phases
  <2>3. Mortal = {} /\ Condemned = {} /\ Manned \subseteq Keys
    BY <2>1 DEF Mortal, Condemned, Manned
  <2>4. live = {}
    BY DEF Init
  <2> QED
    BY <2>2, <2>3, <2>4 DEF Life!Init
<1>2. IInv /\ [Next]_vars => Life!Next
  BY NextInv, Shared, StepPromise
<1> QED
  BY <1>1, <1>2, Invariant, PTL DEF Spec, KeepsPromise, Life!Spec
=============================================================================
