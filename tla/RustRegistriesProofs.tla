------------------------ MODULE RustRegistriesProofs ------------------------
(***************************************************************************)
(* Proofs about the two Rust registries, as parts of SideBySide, for any   *)
(* instances, leases and tasks: the keepalive task that runs is the one of *)
(* the handle, and the etcd registry implements InstanceListing.           *)
(***************************************************************************)
EXTENDS SideBySide, TLAPS

--------------------------------------------------------------------------
(* RustEtcdRegistry                                                        *)

LEMMA EtcdConstants == None \notin Lease /\ Owner \notin {"absent", "lapsing"}
BY PartsAssumption DEF RustEtcd!NoneAssumption

LEMMA EtcdInit == RustEtcd!Init => RustEtcd!IInv
BY EtcdConstants
   DEF RustEtcd!Init, RustEtcd!IInv, RustEtcd!TypeOK, RustEtcd!CallInv, RustEtcd!HeldInv,
       RustEtcd!PendingInv, RustEtcd!LeaseInv, RustEtcd!TaskIsHandled,
       RustEtcd!RenewedIsHealthy

\* A step keeps the types, and what a call may rely on.
LEMMA EtcdTypes ==
  ASSUME RustEtcd!TypeOK, RustEtcd!CallInv, RustEtcd!Next
  PROVE  RustEtcd!TypeOK' /\ RustEtcd!CallInv'
<1> USE EtcdConstants
        DEF RustEtcd!TypeOK, RustEtcd!CallInv, RustEtcd!Request, RustEtcd!Goto,
            RustEtcd!Return, RustEtcd!etcd
<1>1. ASSUME NEW s \in Service, RustEtcd!Step(s)
      PROVE  RustEtcd!TypeOK' /\ RustEtcd!CallInv'
  <2>1. CASE RustEtcd!BeginRegister(s)
    BY <2>1 DEF RustEtcd!BeginRegister
  <2>2. CASE RustEtcd!RegisterService(s)
    BY <2>2 DEF RustEtcd!RegisterService
  <2>3. CASE RustEtcd!StartKeepalive(s)
    BY <2>3 DEF RustEtcd!StartKeepalive
  <2>4. CASE \E l \in Lease : RustEtcd!GrantLease(s, l)
    BY <2>4 DEF RustEtcd!GrantLease
  <2>5. CASE RustEtcd!BeginDeregister(s)
    BY <2>5 DEF RustEtcd!BeginDeregister
  <2>6. CASE RustEtcd!Delete(s)
    BY <2>6 DEF RustEtcd!Delete
  <2>7. CASE RustEtcd!StopKeepalive(s)
    BY <2>7 DEF RustEtcd!StopKeepalive
  <2>8. CASE RustEtcd!GiveUp(s)
    BY <2>8 DEF RustEtcd!GiveUp
  <2> QED
    BY <1>1, <2>1, <2>2, <2>3, <2>4, <2>5, <2>6, <2>7, <2>8 DEF RustEtcd!Step
<1>2. ASSUME NEW l \in Lease, RustEtcd!KeepaliveEnds(l) \/ RustEtcd!Expire(l)
      PROVE  RustEtcd!TypeOK' /\ RustEtcd!CallInv'
  BY <1>2 DEF RustEtcd!KeepaliveEnds, RustEtcd!Expire
<1>3. ASSUME NEW q \in etcdPending, RustEtcd!ArrivesLate(q)
      PROVE  RustEtcd!TypeOK' /\ RustEtcd!CallInv'
  BY <1>3 DEF RustEtcd!ArrivesLate
<1>4. CASE RustEtcd!Crash
  BY <1>4 DEF RustEtcd!Crash
<1> QED
  BY <1>1, <1>2, <1>3, <1>4 DEF RustEtcd!Next

\* The steps that only move a call on.
LEMMA EtcdCallKeeps ==
  ASSUME RustEtcd!IInv, RustEtcd!TypeOK', RustEtcd!CallInv',
         UNCHANGED <<kv, lease, etcdPending, keepalive, etcdHandle, held>>,
         etcdHealthy \subseteq etcdHealthy'
  PROVE  RustEtcd!IInv'
BY DEF RustEtcd!IInv, RustEtcd!HeldInv, RustEtcd!PendingInv, RustEtcd!LeaseInv,
       RustEtcd!TaskIsHandled, RustEtcd!RenewedIsHealthy

\* A granted lease was free, so that nothing knows it yet.
LEMMA EtcdGrantKeeps ==
  ASSUME RustEtcd!IInv, RustEtcd!TypeOK', RustEtcd!CallInv',
         NEW s \in Service, NEW l \in Lease, RustEtcd!GrantLease(s, l)
  PROVE  RustEtcd!IInv'
<1> USE EtcdConstants DEF RustEtcd!IInv, RustEtcd!TypeOK, RustEtcd!GrantLease
<1>1. RustEtcd!HeldInv'
  BY DEF RustEtcd!HeldInv, RustEtcd!PendingInv, RustEtcd!LeaseInv, RustEtcd!Request
<1>2. RustEtcd!PendingInv'
  BY DEF RustEtcd!PendingInv, RustEtcd!Request
<1>3. RustEtcd!LeaseInv'
  BY DEF RustEtcd!LeaseInv
<1>4. RustEtcd!TaskIsHandled' /\ RustEtcd!RenewedIsHealthy'
  BY DEF RustEtcd!TaskIsHandled, RustEtcd!RenewedIsHealthy
<1> QED
  BY <1>1, <1>2, <1>3, <1>4

LEMMA EtcdPutKeeps ==
  ASSUME RustEtcd!IInv, RustEtcd!TypeOK', RustEtcd!CallInv',
         NEW s \in Service, RustEtcd!RegisterService(s)
  PROVE  RustEtcd!IInv'
<1> USE EtcdConstants DEF RustEtcd!IInv, RustEtcd!TypeOK, RustEtcd!RegisterService
<1>1. held[s] \in Lease
  BY DEF RustEtcd!CallInv
<1>2. \A t \in Service : kv'[t] = IF t = s THEN held[s] ELSE kv[t]
  OBVIOUS
<1>3. RustEtcd!HeldInv'
  BY <1>1, <1>2 DEF RustEtcd!HeldInv
<1>4. RustEtcd!PendingInv'
  BY <1>1, <1>2 DEF RustEtcd!PendingInv, RustEtcd!HeldInv
<1>5. RustEtcd!LeaseInv'
  BY <1>1, <1>2 DEF RustEtcd!LeaseInv, RustEtcd!HeldInv
<1>6. RustEtcd!TaskIsHandled' /\ RustEtcd!RenewedIsHealthy'
  BY <1>1, <1>2 DEF RustEtcd!TaskIsHandled, RustEtcd!RenewedIsHealthy, RustEtcd!HeldInv
<1> QED
  BY <1>3, <1>4, <1>5, <1>6

\* The call gives its lease to the task.
LEMMA EtcdStartKeeps ==
  ASSUME RustEtcd!IInv, RustEtcd!TypeOK', RustEtcd!CallInv',
         NEW s \in Service, RustEtcd!StartKeepalive(s)
  PROVE  RustEtcd!IInv'
<1> USE EtcdConstants
        DEF RustEtcd!IInv, RustEtcd!TypeOK, RustEtcd!StartKeepalive, RustEtcd!Return,
            RustEtcd!etcd
<1>1. held[s] \in Lease /\ s \in etcdHealthy
  BY DEF RustEtcd!CallInv
<1>2. keepalive' = {held[s]}
  BY DEF RustEtcd!TaskIsHandled
<1>3. \A t \in Service : held'[t] = IF t = s THEN None ELSE held[t]
  OBVIOUS
<1>4. RustEtcd!HeldInv'
  BY <1>1, <1>2, <1>3 DEF RustEtcd!HeldInv
<1>5. RustEtcd!PendingInv'
  BY <1>1, <1>2 DEF RustEtcd!PendingInv, RustEtcd!HeldInv
<1>6. RustEtcd!LeaseInv'
  BY <1>1, <1>2 DEF RustEtcd!LeaseInv, RustEtcd!HeldInv
<1>7. RustEtcd!TaskIsHandled' /\ RustEtcd!RenewedIsHealthy'
  BY <1>1, <1>2 DEF RustEtcd!TaskIsHandled, RustEtcd!RenewedIsHealthy, RustEtcd!HeldInv
<1> QED
  BY <1>4, <1>5, <1>6, <1>7

LEMMA EtcdDeleteKeeps ==
  ASSUME RustEtcd!IInv, RustEtcd!TypeOK', RustEtcd!CallInv',
         NEW s \in Service, RustEtcd!Delete(s)
  PROVE  RustEtcd!IInv'
<1> USE EtcdConstants DEF RustEtcd!IInv, RustEtcd!TypeOK, RustEtcd!Delete
<1>1. \A t \in Service : kv'[t] = IF t = s THEN None ELSE kv[t]
  OBVIOUS
<1>2. RustEtcd!HeldInv' /\ RustEtcd!PendingInv' /\ RustEtcd!LeaseInv'
  BY <1>1 DEF RustEtcd!HeldInv, RustEtcd!PendingInv, RustEtcd!LeaseInv
<1>3. RustEtcd!TaskIsHandled' /\ RustEtcd!RenewedIsHealthy'
  BY <1>1 DEF RustEtcd!TaskIsHandled, RustEtcd!RenewedIsHealthy
<1> QED
  BY <1>2, <1>3

\* No task is left that could renew anything.
LEMMA EtcdStopKeeps ==
  ASSUME RustEtcd!IInv, RustEtcd!TypeOK', RustEtcd!CallInv',
         NEW s \in Service, RustEtcd!StopKeepalive(s)
  PROVE  RustEtcd!IInv'
<1> USE DEF RustEtcd!IInv, RustEtcd!TypeOK, RustEtcd!StopKeepalive, RustEtcd!Return,
            RustEtcd!etcd
<1>1. keepalive' = {}
  BY DEF RustEtcd!TaskIsHandled
<1>2. \A t \in Service : held'[t] = IF t = s THEN None ELSE held[t]
  OBVIOUS
<1>3. RustEtcd!HeldInv' /\ RustEtcd!PendingInv' /\ RustEtcd!LeaseInv'
  BY <1>1, <1>2 DEF RustEtcd!HeldInv, RustEtcd!PendingInv, RustEtcd!LeaseInv
<1>4. RustEtcd!TaskIsHandled' /\ RustEtcd!RenewedIsHealthy'
  BY <1>1 DEF RustEtcd!TaskIsHandled, RustEtcd!RenewedIsHealthy
<1> QED
  BY <1>3, <1>4

\* The lease of a call that ends is left to a request that may arrive.
LEMMA EtcdGiveUpKeeps ==
  ASSUME RustEtcd!IInv, RustEtcd!TypeOK', RustEtcd!CallInv',
         NEW s \in Service, RustEtcd!GiveUp(s)
  PROVE  RustEtcd!IInv'
<1> USE DEF RustEtcd!IInv, RustEtcd!TypeOK, RustEtcd!GiveUp, RustEtcd!Return
<1>1. \A t \in Service : held'[t] = IF t = s THEN None ELSE held[t]
  OBVIOUS
<1>2. etcdPending' \subseteq etcdPending \cup {[svc |-> s, lease |-> held[s]]}
  OBVIOUS
<1>3. RustEtcd!HeldInv'
  BY <1>1, <1>2 DEF RustEtcd!HeldInv
<1>4. RustEtcd!PendingInv'
  BY <1>1, <1>2 DEF RustEtcd!PendingInv, RustEtcd!HeldInv
<1>5. RustEtcd!LeaseInv'
  BY DEF RustEtcd!LeaseInv
<1>6. RustEtcd!TaskIsHandled' /\ RustEtcd!RenewedIsHealthy'
  BY DEF RustEtcd!TaskIsHandled, RustEtcd!RenewedIsHealthy
<1> QED
  BY <1>3, <1>4, <1>5, <1>6

LEMMA EtcdEndsKeeps ==
  ASSUME RustEtcd!IInv, RustEtcd!TypeOK', RustEtcd!CallInv',
         NEW l \in Lease, RustEtcd!KeepaliveEnds(l)
  PROVE  RustEtcd!IInv'
BY DEF RustEtcd!IInv, RustEtcd!TypeOK, RustEtcd!KeepaliveEnds, RustEtcd!etcd,
       RustEtcd!HeldInv, RustEtcd!PendingInv, RustEtcd!LeaseInv, RustEtcd!TaskIsHandled,
       RustEtcd!RenewedIsHealthy

LEMMA EtcdExpireKeeps ==
  ASSUME RustEtcd!IInv, RustEtcd!TypeOK', RustEtcd!CallInv',
         NEW l \in Lease, RustEtcd!Expire(l)
  PROVE  RustEtcd!IInv'
<1> USE EtcdConstants DEF RustEtcd!IInv, RustEtcd!TypeOK, RustEtcd!Expire
<1>1. \A t \in Service : kv'[t] = IF kv[t] = l THEN None ELSE kv[t]
  OBVIOUS
<1>2. \A k \in Lease : lease'[k] = IF k = l THEN "expired" ELSE lease[k]
  OBVIOUS
<1>3. RustEtcd!HeldInv'
  BY <1>1, <1>2 DEF RustEtcd!HeldInv
<1>4. RustEtcd!PendingInv'
  BY <1>1, <1>2 DEF RustEtcd!PendingInv, RustEtcd!Request
<1>5. RustEtcd!LeaseInv'
  BY <1>1, <1>2 DEF RustEtcd!LeaseInv
<1>6. RustEtcd!TaskIsHandled' /\ RustEtcd!RenewedIsHealthy'
  BY <1>1 DEF RustEtcd!TaskIsHandled, RustEtcd!RenewedIsHealthy
<1> QED
  BY <1>3, <1>4, <1>5, <1>6

\* A late put is under a lease that is never renewed.
LEMMA EtcdArrivesKeeps ==
  ASSUME RustEtcd!IInv, RustEtcd!TypeOK', RustEtcd!CallInv',
         NEW q \in etcdPending, RustEtcd!ArrivesLate(q)
  PROVE  RustEtcd!IInv'
<1> USE EtcdConstants DEF RustEtcd!IInv, RustEtcd!TypeOK, RustEtcd!ArrivesLate
<1>1. q.svc \in Service /\ q.lease \in Lease \cup {None}
  BY DEF RustEtcd!Request
<1>2. \A t \in Service : kv'[t] = IF t = q.svc THEN q.lease ELSE kv[t]
  BY <1>1
<1>3. RustEtcd!HeldInv'
  BY <1>1, <1>2 DEF RustEtcd!HeldInv
<1>4. RustEtcd!PendingInv'
  BY <1>1, <1>2 DEF RustEtcd!PendingInv
<1>5. RustEtcd!LeaseInv'
  BY <1>1, <1>2 DEF RustEtcd!LeaseInv, RustEtcd!PendingInv
<1>6. RustEtcd!TaskIsHandled' /\ RustEtcd!RenewedIsHealthy'
  BY <1>1, <1>2 DEF RustEtcd!TaskIsHandled, RustEtcd!RenewedIsHealthy, RustEtcd!PendingInv
<1> QED
  BY <1>3, <1>4, <1>5, <1>6

LEMMA EtcdCrashKeeps ==
  ASSUME RustEtcd!IInv, RustEtcd!TypeOK', RustEtcd!CallInv', RustEtcd!Crash
  PROVE  RustEtcd!IInv'
<1> USE EtcdConstants DEF RustEtcd!IInv, RustEtcd!TypeOK, RustEtcd!Crash
<1>1. ASSUME NEW p \in etcdPending', p \notin etcdPending
      PROVE  \E s \in Service : p = [svc |-> s, lease |-> held[s]]
  BY <1>1
<1>2. RustEtcd!HeldInv'
  BY DEF RustEtcd!HeldInv
<1>3. RustEtcd!PendingInv'
  <2> SUFFICES ASSUME NEW p \in etcdPending', p.lease # None
               PROVE  /\ lease[p.lease] # "free"
                      /\ \A t \in Service : kv[t] = p.lease => t = p.svc
                      /\ \A r \in etcdPending' : r.lease = p.lease => r = p
    BY DEF RustEtcd!PendingInv
  <2>1. CASE p \in etcdPending
    <3>1. ASSUME NEW r \in etcdPending', r.lease = p.lease, r \notin etcdPending PROVE FALSE
      <4>1. PICK s \in Service : r = [svc |-> s, lease |-> held[s]]
        BY <1>1, <3>1
      <4> QED
        BY <2>1, <3>1, <4>1 DEF RustEtcd!HeldInv
    <3> QED
      BY <2>1, <3>1 DEF RustEtcd!PendingInv
  <2>2. CASE p \notin etcdPending
    <3>1. PICK s \in Service : p = [svc |-> s, lease |-> held[s]]
      BY <1>1, <2>2
    <3>2. p.svc = s /\ p.lease = held[s]
      BY <3>1
    <3>3. ASSUME NEW r \in etcdPending', r.lease = p.lease PROVE r = p
      <4>1. r \notin etcdPending
        BY <3>2, <3>3 DEF RustEtcd!HeldInv
      <4>2. PICK t \in Service : r = [svc |-> t, lease |-> held[t]]
        BY <1>1, <4>1
      <4>3. held[t] = held[s]
        BY <3>2, <3>3, <4>2
      <4> QED
        BY <3>1, <3>2, <4>2, <4>3 DEF RustEtcd!HeldInv
    <3> QED
      BY <3>2, <3>3 DEF RustEtcd!HeldInv
  <2> QED
    BY <2>1, <2>2
<1>4. RustEtcd!LeaseInv' /\ RustEtcd!TaskIsHandled' /\ RustEtcd!RenewedIsHealthy'
  BY DEF RustEtcd!LeaseInv, RustEtcd!TaskIsHandled, RustEtcd!RenewedIsHealthy
<1> QED
  BY <1>2, <1>3, <1>4

LEMMA EtcdInductive ==
  RustEtcd!IInv /\ [RustEtcd!Next]_(RustEtcd!vars) => RustEtcd!IInv'
<1> SUFFICES ASSUME RustEtcd!IInv, [RustEtcd!Next]_(RustEtcd!vars) PROVE RustEtcd!IInv'
  OBVIOUS
<1>1. ASSUME RustEtcd!Next PROVE RustEtcd!IInv'
  <2>1. RustEtcd!TypeOK' /\ RustEtcd!CallInv'
    BY <1>1, EtcdTypes DEF RustEtcd!IInv
  <2>2. ASSUME NEW s \in Service, RustEtcd!Step(s) PROVE RustEtcd!IInv'
    <3>1. ASSUME RustEtcd!BeginRegister(s) \/ RustEtcd!BeginDeregister(s)
          PROVE  RustEtcd!IInv'
      BY <2>1, <3>1, EtcdCallKeeps
         DEF RustEtcd!BeginRegister, RustEtcd!BeginDeregister, RustEtcd!etcd
    <3>2. ASSUME NEW l \in Lease, RustEtcd!GrantLease(s, l) PROVE RustEtcd!IInv'
      BY <2>1, <3>2, EtcdGrantKeeps
    <3> QED
      BY <2>1, <2>2, <3>1, <3>2, EtcdPutKeeps, EtcdStartKeeps, EtcdDeleteKeeps,
         EtcdStopKeeps, EtcdGiveUpKeeps
         DEF RustEtcd!Step
  <2>3. ASSUME NEW l \in Lease, RustEtcd!KeepaliveEnds(l) \/ RustEtcd!Expire(l)
        PROVE  RustEtcd!IInv'
    BY <2>1, <2>3, EtcdEndsKeeps, EtcdExpireKeeps
  <2>4. ASSUME NEW q \in etcdPending, RustEtcd!ArrivesLate(q) PROVE RustEtcd!IInv'
    BY <2>1, <2>4, EtcdArrivesKeeps
  <2> QED
    BY <1>1, <2>1, <2>2, <2>3, <2>4, EtcdCrashKeeps DEF RustEtcd!Next
<1>2. ASSUME UNCHANGED RustEtcd!vars PROVE RustEtcd!IInv'
  <2>1. RustEtcd!TypeOK' /\ RustEtcd!CallInv'
    BY <1>2 DEF RustEtcd!IInv, RustEtcd!TypeOK, RustEtcd!CallInv, RustEtcd!vars
  <2> QED
    BY <1>2, <2>1, EtcdCallKeeps DEF RustEtcd!vars
<1> QED
  BY <1>1, <1>2

--------------------------------------------------------------------------
(* The part in the program that has it: while another part moves, or none, *)
(* the registry rests.                                                     *)

LEMMA EtcdIsAPart == PartsSpec => RustEtcd!Init /\ [][RustEtcd!Next]_(RustEtcd!vars)
<1>1. PartsInit => RustEtcd!Init
  BY DEF PartsInit
<1>2. [PartsNext]_partVars => [RustEtcd!Next]_(RustEtcd!vars)
  BY DEF PartsNext, partVars, rustEtcd, RustEtcd!vars
<1> QED
  BY <1>1, <1>2, PTL DEF PartsSpec

LEMMA EtcdSafety == PartsSpec => []RustEtcd!IInv
BY EtcdInit, EtcdInductive, EtcdIsAPart, PTL

--------------------------------------------------------------------------
(* Each step of the registry is one of the listing, or none.               *)

\* The key of s is put, under a lease the task of the registry is not for.
LEMMA PutLists ==
  ASSUME RustEtcd!IInv, NEW s \in Service, NEW l \in Lease, l \notin keepalive,
         kv' = [kv EXCEPT ![s] = l], keepalive' = keepalive
  PROVE  RustEtcd!Abstract!List(s)
BY EtcdConstants
   DEF RustEtcd!IInv, RustEtcd!TypeOK, RustEtcd!Abstract!List, RustEtcd!Listing

LEMMA DeleteRemoves ==
  ASSUME RustEtcd!IInv, NEW s \in Service,
         kv' = [kv EXCEPT ![s] = None], keepalive' = keepalive
  PROVE  RustEtcd!Abstract!Remove(s)
BY DEF RustEtcd!IInv, RustEtcd!TypeOK, RustEtcd!Abstract!Remove, RustEtcd!Listing

\* As there is at most one task, nothing is renewed once one has ended.
LEMMA EndStops ==
  ASSUME RustEtcd!IInv, kv' = kv, \A s \in Service : kv[s] \notin keepalive'
  PROVE  RustEtcd!Abstract!Stop(Owner)
BY EtcdConstants
   DEF RustEtcd!IInv, RustEtcd!TypeOK, RustEtcd!Abstract!Stop,
       RustEtcd!Abstract!Released, RustEtcd!Listing

LEMMA StartRenews ==
  ASSUME RustEtcd!IInv, NEW s \in Service, RustEtcd!StartKeepalive(s)
  PROVE  RustEtcd!Abstract!Renew(Owner, s) \/ RustEtcd!Abstract!Stop(Owner)
<1> USE EtcdConstants DEF RustEtcd!IInv, RustEtcd!TypeOK
<1>1. held[s] \in Lease /\ held[s] \notin keepalive
  BY DEF RustEtcd!StartKeepalive, RustEtcd!CallInv, RustEtcd!HeldInv
<1>2. keepalive' = {held[s]} /\ kv' = kv
  BY DEF RustEtcd!StartKeepalive, RustEtcd!TaskIsHandled, RustEtcd!etcd
<1>3. \A t \in Service : t # s => kv[t] # held[s]
  BY <1>1 DEF RustEtcd!HeldInv
<1>4. CASE kv[s] = held[s]
  <2>1. RustEtcd!Listing[s] = "lapsing"
    BY <1>1, <1>4 DEF RustEtcd!Listing
  <2>2. RustEtcd!Listing' = [RustEtcd!Abstract!Released(Owner) EXCEPT ![s] = Owner]
    BY <1>1, <1>2, <1>3, <1>4 DEF RustEtcd!Abstract!Released, RustEtcd!Listing
  <2> QED
    BY <2>1, <2>2 DEF RustEtcd!Abstract!Renew
<1>5. CASE kv[s] # held[s]
  BY <1>2, <1>3, <1>5, EndStops
<1> QED
  BY <1>4, <1>5

LEMMA ExpireRemoves ==
  ASSUME RustEtcd!IInv, NEW l \in Lease, RustEtcd!Expire(l)
  PROVE  (\E s \in Service : RustEtcd!Abstract!Remove(s)) \/ UNCHANGED RustEtcd!Listing
<1> USE DEF RustEtcd!IInv, RustEtcd!TypeOK, RustEtcd!Expire
<1>1. ASSUME NEW s \in Service, kv[s] = l PROVE RustEtcd!Abstract!Remove(s)
  <2>1. kv' = [kv EXCEPT ![s] = None]
    BY <1>1, EtcdConstants DEF RustEtcd!LeaseInv
  <2> QED
    BY <2>1, DeleteRemoves
<1>2. (\A s \in Service : kv[s] # l) => UNCHANGED RustEtcd!Listing
  BY DEF RustEtcd!Listing
<1> QED
  BY <1>1, <1>2

LEMMA ArrivalListsOrRemoves ==
  ASSUME RustEtcd!IInv, NEW q \in etcdPending, RustEtcd!ArrivesLate(q)
  PROVE  \E s \in Service : RustEtcd!Abstract!List(s) \/ RustEtcd!Abstract!Remove(s)
<1> USE DEF RustEtcd!IInv, RustEtcd!ArrivesLate
<1>1. q.svc \in Service /\ q.lease \in Lease \cup {None}
  BY DEF RustEtcd!TypeOK, RustEtcd!Request
<1>2. q.lease # None => RustEtcd!Abstract!List(q.svc)
  BY <1>1, PutLists DEF RustEtcd!PendingInv
<1>3. q.lease = None => RustEtcd!Abstract!Remove(q.svc)
  BY <1>1, DeleteRemoves
<1> QED
  BY <1>1, <1>2, <1>3

LEMMA EtcdStepLists ==
  ASSUME RustEtcd!IInv, RustEtcd!Next
  PROVE  RustEtcd!Abstract!Next \/ UNCHANGED RustEtcd!Listing
<1>1. ASSUME NEW s \in Service, RustEtcd!Step(s)
      PROVE  RustEtcd!Abstract!Next \/ UNCHANGED RustEtcd!Listing
  <2>1. CASE RustEtcd!RegisterService(s)
    <3>1. held[s] \in Lease /\ held[s] \notin keepalive
      BY <2>1, EtcdConstants
         DEF RustEtcd!RegisterService, RustEtcd!IInv, RustEtcd!TypeOK, RustEtcd!CallInv,
             RustEtcd!HeldInv
    <3> QED
      BY <2>1, <3>1, PutLists DEF RustEtcd!RegisterService, RustEtcd!Abstract!Next
  <2>2. CASE RustEtcd!StartKeepalive(s)
    BY <2>2, StartRenews DEF RustEtcd!Abstract!Next
  <2>3. CASE RustEtcd!Delete(s)
    BY <2>3, DeleteRemoves DEF RustEtcd!Delete, RustEtcd!Abstract!Next
  <2>4. CASE RustEtcd!StopKeepalive(s)
    BY <2>4, EndStops
       DEF RustEtcd!StopKeepalive, RustEtcd!Abstract!Next, RustEtcd!etcd, RustEtcd!IInv,
           RustEtcd!TaskIsHandled
  <2>5. CASE \/ RustEtcd!BeginRegister(s) \/ RustEtcd!BeginDeregister(s)
             \/ RustEtcd!GiveUp(s) \/ \E l \in Lease : RustEtcd!GrantLease(s, l)
    BY <2>5
       DEF RustEtcd!BeginRegister, RustEtcd!BeginDeregister, RustEtcd!GiveUp,
           RustEtcd!GrantLease, RustEtcd!etcd, RustEtcd!Listing
  <2> QED
    BY <1>1, <2>1, <2>2, <2>3, <2>4, <2>5 DEF RustEtcd!Step
<1>2. ASSUME NEW l \in Lease, RustEtcd!KeepaliveEnds(l) PROVE RustEtcd!Abstract!Next
  <2>1. keepalive' = {} /\ kv' = kv
    BY <1>2
       DEF RustEtcd!KeepaliveEnds, RustEtcd!IInv, RustEtcd!TaskIsHandled, RustEtcd!etcd
  <2> QED
    BY <2>1, EndStops DEF RustEtcd!Abstract!Next
<1>3. CASE RustEtcd!Crash
  BY <1>3, EndStops DEF RustEtcd!Crash, RustEtcd!Abstract!Next
<1> QED
  BY <1>1, <1>2, <1>3, ExpireRemoves, ArrivalListsOrRemoves
     DEF RustEtcd!Next, RustEtcd!Abstract!Next

(* The Rust etcd registry implements the life of a listed instance: its    *)
(* keys and its one task, through calls that run together and are dropped, *)
(* move a listing only as InstanceListing allows.                          *)
THEOREM RustEtcdImplementsListing == PartsSpec => ImplementsListing
<1>1. RustEtcd!Init => RustEtcd!Abstract!Init
  BY DEF RustEtcd!Init, RustEtcd!Abstract!Init, RustEtcd!Listing
<1>2. RustEtcd!IInv /\ [RustEtcd!Next]_(RustEtcd!vars)
        => [RustEtcd!Abstract!Next]_(RustEtcd!Listing)
  BY EtcdStepLists DEF RustEtcd!vars, RustEtcd!Listing
<1> QED
  BY <1>1, <1>2, EtcdSafety, EtcdIsAPart, PTL
     DEF ImplementsListing, RustEtcd!ImplementsListing, RustEtcd!Abstract!Spec

--------------------------------------------------------------------------
(* RustConsulRegistry                                                      *)

LEMMA ConsulConstants == None \notin Service \cup Task
BY PartsAssumption DEF RustConsul!NoneAssumption

LEMMA ConsulInit == RustConsul!Init => RustConsul!IInv
BY ConsulConstants
   DEF RustConsul!Init, RustConsul!IInv, RustConsul!TypeOK, RustConsul!CheckState,
       RustConsul!Request, RustConsul!CallInv, RustConsul!TaskIsHandled

LEMMA CarriedOutTypes ==
  ASSUME RustConsul!TypeOK, NEW s \in Service, NEW what, RustConsul!CarriedOut(s, what)
  PROVE  /\ consulListed' \in SUBSET Service
         /\ check' \in [Service -> RustConsul!CheckState]
BY DEF RustConsul!TypeOK, RustConsul!CarriedOut, RustConsul!CheckState

LEMMA LeftTypes ==
  ASSUME RustConsul!TypeOK, NEW S \in SUBSET RustConsul!Request, RustConsul!Left(S)
  PROVE  consulPending' \in SUBSET RustConsul!Request
BY DEF RustConsul!TypeOK, RustConsul!Left

LEMMA OnItsWayRequests ==
  ASSUME RustConsul!TypeOK, NEW s \in Service
  PROVE  RustConsul!OnItsWay(s) \in SUBSET RustConsul!Request
BY DEF RustConsul!TypeOK, RustConsul!OnItsWay, RustConsul!Request

\* Whichever call takes the lock, no task survives it.
LEMMA NoneSurvives ==
  ASSUME RustConsul!TypeOK, RustConsul!TaskIsHandled
  PROVE  RustConsul!Aborted = [t \in Task |-> None]
BY DEF RustConsul!TypeOK, RustConsul!TaskIsHandled, RustConsul!Aborted

\* What is carried out at the agent, and what is left on its way to it,
\* changes nothing for the tasks.
LEMMA ConsulAgentKeeps ==
  ASSUME RustConsul!IInv,
         consulListed' \in SUBSET Service, check' \in [Service -> RustConsul!CheckState],
         consulPending' \in SUBSET RustConsul!Request,
         UNCHANGED <<beats, consulHandle, consulHealthy, consulPc>>
  PROVE  RustConsul!IInv'
BY DEF RustConsul!IInv, RustConsul!TypeOK, RustConsul!CallInv, RustConsul!TaskIsHandled

LEMMA ConsulCallKeeps ==
  ASSUME RustConsul!IInv, NEW s \in Service, RustConsul!CallStep(s)
  PROVE  RustConsul!IInv'
<1> USE ConsulConstants
        DEF RustConsul!IInv, RustConsul!TypeOK, RustConsul!CallInv,
            RustConsul!TaskIsHandled, RustConsul!Goto, RustConsul!agent
<1>1. CASE RustConsul!BeginRegister(s)
  BY <1>1 DEF RustConsul!BeginRegister
<1>2. CASE RustConsul!RegisterService(s)
  BY <1>2, CarriedOutTypes DEF RustConsul!RegisterService
<1>3. ASSUME NEW t \in Task, RustConsul!StartKeepalive(s, t) PROVE RustConsul!IInv'
  <2>1. \A u \in Task : beats'[u] = IF u = t THEN s ELSE None
    BY <1>3, NoneSurvives DEF RustConsul!StartKeepalive
  <2>2. beats' \in [Task -> Service \cup {None}]
    BY <1>3, NoneSurvives DEF RustConsul!StartKeepalive
  <2>3. consulPending' \in SUBSET RustConsul!Request
    BY <1>3, LeftTypes DEF RustConsul!StartKeepalive, RustConsul!MayArrive
  <2>4. \A u \in Service : consulPc[u] \in {"check", "remove"} => u # s
    BY <1>3 DEF RustConsul!StartKeepalive
  <2> QED
    BY <1>3, <2>1, <2>2, <2>3, <2>4 DEF RustConsul!StartKeepalive
<1>4. CASE RustConsul!BeginDeregister(s)
  BY <1>4 DEF RustConsul!BeginDeregister
<1>5. CASE RustConsul!StopKeepalive(s)
  <2>1. beats' = [t \in Task |-> None]
    BY <1>5, NoneSurvives DEF RustConsul!StopKeepalive
  <2>2. consulPending' \in SUBSET RustConsul!Request
    BY <1>5, LeftTypes DEF RustConsul!StopKeepalive, RustConsul!MayArrive
  <2> QED
    BY <1>5, <2>1, <2>2 DEF RustConsul!StopKeepalive
<1>6. CASE RustConsul!DeregisterCheck(s)
  <2>1. /\ consulListed' \in SUBSET Service
        /\ check' \in [Service -> RustConsul!CheckState]
        /\ consulPending' \in SUBSET RustConsul!Request
    BY <1>6, CarriedOutTypes, LeftTypes DEF RustConsul!DeregisterCheck, RustConsul!Request
  <2> QED
    BY <1>6, <2>1 DEF RustConsul!DeregisterCheck
<1>7. CASE RustConsul!DeregisterService(s)
  BY <1>7, CarriedOutTypes DEF RustConsul!DeregisterService
<1>8. CASE RustConsul!GiveUp(s)
  <2>1. consulPending' \in SUBSET RustConsul!Request
    BY <1>8, LeftTypes, OnItsWayRequests DEF RustConsul!GiveUp
  <2> QED
    BY <1>8, <2>1 DEF RustConsul!GiveUp
<1> QED
  BY <1>1, <1>2, <1>3, <1>4, <1>5, <1>6, <1>7, <1>8 DEF RustConsul!CallStep

LEMMA ConsulInductive ==
  RustConsul!IInv /\ [RustConsul!Next]_(RustConsul!vars) => RustConsul!IInv'
<1> SUFFICES ASSUME RustConsul!IInv, [RustConsul!Next]_(RustConsul!vars)
             PROVE  RustConsul!IInv'
  OBVIOUS
<1>1. RustConsul!TypeOK
  BY DEF RustConsul!IInv
<1>2. ASSUME NEW s \in Service, RustConsul!CheckExpires(s) PROVE RustConsul!IInv'
  BY <1>1, <1>2, ConsulAgentKeeps
     DEF RustConsul!CheckExpires, RustConsul!TypeOK, RustConsul!CheckState
<1>3. ASSUME NEW s \in Service, RustConsul!Reap(s) PROVE RustConsul!IInv'
  BY <1>1, <1>3, CarriedOutTypes, ConsulAgentKeeps DEF RustConsul!Reap, RustConsul!TypeOK
<1>4. ASSUME NEW t \in Task, RustConsul!Heartbeat(t) PROVE RustConsul!IInv'
  <2>1. beats[t] \in Service
    BY <1>1, <1>4 DEF RustConsul!Heartbeat, RustConsul!TypeOK
  <2> QED
    BY <1>1, <1>4, <2>1, CarriedOutTypes, ConsulAgentKeeps
       DEF RustConsul!Heartbeat, RustConsul!TypeOK
<1>5. ASSUME NEW q \in consulPending, RustConsul!ArrivesLate(q) PROVE RustConsul!IInv'
  <2>1. q.svc \in Service /\ consulPending' \in SUBSET RustConsul!Request
    BY <1>1, <1>5 DEF RustConsul!ArrivesLate, RustConsul!TypeOK, RustConsul!Request
  <2> QED
    BY <1>1, <1>5, <2>1, CarriedOutTypes, ConsulAgentKeeps DEF RustConsul!ArrivesLate
<1>6. CASE RustConsul!Crash
  <2>1. UNION {RustConsul!OnItsWay(s) : s \in Service} \in SUBSET RustConsul!Request
    BY <1>1, OnItsWayRequests
  <2>2. consulPending' \in SUBSET RustConsul!Request
    BY <1>1, <1>6, <2>1, LeftTypes DEF RustConsul!Crash
  <2> QED
    BY <1>1, <1>6, <2>2, ConsulConstants
       DEF RustConsul!Crash, RustConsul!IInv, RustConsul!TypeOK, RustConsul!CallInv,
           RustConsul!TaskIsHandled, RustConsul!agent
<1>7. CASE UNCHANGED RustConsul!vars
  BY <1>1, <1>7, ConsulAgentKeeps DEF RustConsul!vars, RustConsul!TypeOK
<1> QED
  BY <1>2, <1>3, <1>4, <1>5, <1>6, <1>7, ConsulCallKeeps DEF RustConsul!Next

LEMMA ConsulSafety == PartsSpec => []RustConsul!IInv
<1>1. PartsInit => RustConsul!Init
  BY DEF PartsInit
<1>2. [PartsNext]_partVars => [RustConsul!Next]_(RustConsul!vars)
  BY DEF PartsNext, partVars, rustConsul, RustConsul!vars
<1> QED
  BY <1>1, <1>2, ConsulInit, ConsulInductive, PTL DEF PartsSpec

(* In both Rust registries the task that runs is the one the handle can    *)
(* abort, and serves what its struct says is healthy, however many calls   *)
(* run together, fail, or are dropped at an await.                         *)
THEOREM RustTasksAreHandled == PartsSpec => []TasksAreHandled
BY EtcdSafety, ConsulSafety, PTL DEF TasksAreHandled, RustEtcd!IInv, RustConsul!IInv
==========================================================================
