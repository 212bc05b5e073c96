----------------------- MODULE EtcdRegistryProofs -----------------------
(***************************************************************************)
(* Proofs about EtcdRegistry, for any registries, instances and leases.    *)
(***************************************************************************)
EXTENDS EtcdRegistry, TLAPS

(* Every variable keeps its type, and every call its arguments, whatever   *)
(* is called, fails or crashes.                                            *)
LEMMA TypeCorrect == Spec => [](TypeOK /\ CallInv)
<1> USE NoneAssumption, ServesAssumption
        DEF TypeOK, CallInv, PutRequest, DeleteRequest
<1>1. Init => TypeOK /\ CallInv
  BY DEF Init
<1>2. TypeOK /\ CallInv /\ [Next]_vars => TypeOK' /\ CallInv'
  <2> SUFFICES ASSUME TypeOK, CallInv, [Next]_vars
               PROVE  TypeOK' /\ CallInv'
    OBVIOUS
  <2> USE DEF store, local, Goto, Return
  <2>1. ASSUME NEW r \in Registry, NEW s \in Service, BeginRegister(r, s)
        PROVE TypeOK' /\ CallInv'
    BY <2>1 DEF BeginRegister
  <2>2. ASSUME NEW r \in Registry, NEW l \in Lease, GrantLease(r, l)
        PROVE TypeOK' /\ CallInv'
    BY <2>2 DEF GrantLease
  <2>3. ASSUME NEW r \in Registry, GrantFails(r) PROVE TypeOK' /\ CallInv'
    BY <2>3 DEF GrantFails
  <2>4. ASSUME NEW r \in Registry, Put(r) PROVE TypeOK' /\ CallInv'
    BY <2>4 DEF Put
  <2>5. ASSUME NEW r \in Registry, PutFails(r) PROVE TypeOK' /\ CallInv'
    BY <2>5 DEF PutFails, GiveUp, Request
  <2>6. ASSUME NEW r \in Registry, StartKeepalive(r) PROVE TypeOK' /\ CallInv'
    BY <2>6 DEF StartKeepalive, Cancelled
  <2>7. ASSUME NEW r \in Registry, KeepaliveFails(r) PROVE TypeOK' /\ CallInv'
    BY <2>7 DEF KeepaliveFails, Cancelled
  <2>8. ASSUME NEW r \in Registry, NEW s \in Service, BeginDeregister(r, s)
        PROVE TypeOK' /\ CallInv'
    BY <2>8 DEF BeginDeregister
  <2>9. ASSUME NEW r \in Registry, Delete(r) PROVE TypeOK' /\ CallInv'
    BY <2>9 DEF Delete, Cancelled
  <2>10. ASSUME NEW r \in Registry, DeleteFails(r) PROVE TypeOK' /\ CallInv'
    BY <2>10 DEF DeleteFails, GiveUp, Request
  <2>11. ASSUME NEW r \in Registry, Crash(r) PROVE TypeOK' /\ CallInv'
    BY <2>11 DEF Crash, GiveUp, Request
  <2>12. ASSUME NEW l \in Lease, KeepaliveLost(l) PROVE TypeOK' /\ CallInv'
    BY <2>12 DEF KeepaliveLost
  <2>13. ASSUME NEW l \in Lease, Expire(l) PROVE TypeOK' /\ CallInv'
    BY <2>13 DEF Expire
  <2>14. ASSUME NEW q \in pending, ArrivesLate(q) PROVE TypeOK' /\ CallInv'
    BY <2>14 DEF ArrivesLate
  <2>15. CASE UNCHANGED vars
    BY <2>15 DEF vars
  <2> QED
    BY <2>1, <2>2, <2>3, <2>4, <2>5, <2>6, <2>7, <2>8, <2>9, <2>10, <2>11,
       <2>12, <2>13, <2>14, <2>15 DEF Next, RegisterStep, DeregisterStep
<1> QED
  BY <1>1, <1>2, PTL DEF Spec

--------------------------------------------------------------------------
(* The inductive step, one action at a time.                               *)

\* It marks s Healthy before anything else.
LEMMA BeginRegisterKeeps ==
  ASSUME IInv, TypeOK', CallInv', NEW r \in Registry, NEW s \in Service, BeginRegister(r, s)
  PROVE  IInv'
<1> USE NoneAssumption DEF IInv, SafetyInv, TypeOK
<1>1. HeldInv'
  BY DEF BeginRegister, store, Goto, HeldInv, CallInv
<1>2. RenewedIsHealthy'
  BY DEF BeginRegister, store, Goto, RenewedIsHealthy
<1>3. NothingRenewedForNothing'
  BY DEF BeginRegister, store, Goto, NothingRenewedForNothing
<1>4. PendingInv' /\ FreeInv' /\ RenewalIsCancellable' /\ OneKeyPerLease'
  BY DEF BeginRegister, store, Goto, PendingInv, FreeInv,
         RenewalIsCancellable, OneKeyPerLease
<1> QED
  BY <1>1, <1>2, <1>3, <1>4

\* A free lease is nowhere in use.
LEMMA GrantLeaseKeeps ==
  ASSUME IInv, TypeOK', CallInv', NEW r \in Registry, NEW l \in Lease, GrantLease(r, l)
  PROVE  IInv'
<1> USE NoneAssumption DEF IInv, SafetyInv, TypeOK
<1>1. HeldInv'
  BY DEF GrantLease, Goto, HeldInv, CallInv, FreeInv, PendingInv,
         PutRequest, DeleteRequest
<1>2. PendingInv'
  BY DEF GrantLease, Goto, PendingInv, PutRequest, DeleteRequest
<1>3. FreeInv'
  BY DEF GrantLease, Goto, FreeInv
<1>4. RenewalIsCancellable' /\ RenewedIsHealthy' /\
     NothingRenewedForNothing' /\ OneKeyPerLease'
  BY DEF GrantLease, Goto, RenewalIsCancellable, RenewedIsHealthy,
         NothingRenewedForNothing, OneKeyPerLease
<1> QED
  BY <1>1, <1>2, <1>3, <1>4

\* The call ends as it began.
LEMMA GrantFailsKeeps ==
  ASSUME IInv, TypeOK', CallInv', NEW r \in Registry, GrantFails(r)
  PROVE  IInv'
<1> USE NoneAssumption DEF IInv, SafetyInv, TypeOK
<1>1. HeldInv'
  BY DEF GrantFails, store, Goto, Return, HeldInv, CallInv
<1>2. PendingInv' /\ FreeInv' /\ RenewalIsCancellable' /\
     RenewedIsHealthy' /\ NothingRenewedForNothing' /\ OneKeyPerLease'
  BY DEF GrantFails, store, Goto, Return, PendingInv, FreeInv,
         RenewalIsCancellable, RenewedIsHealthy,
         NothingRenewedForNothing, OneKeyPerLease
<1> QED
  BY <1>1, <1>2

\* The lease it attaches the key to is held by r alone.
LEMMA PutKeeps ==
  ASSUME IInv, TypeOK', CallInv', NEW r \in Registry, Put(r)
  PROVE  IInv'
<1> USE NoneAssumption DEF IInv, SafetyInv, TypeOK
<1>1. HeldInv'
  BY DEF Put, Goto, HeldInv, CallInv
<1>2. PendingInv'
  BY DEF Put, Goto, PendingInv, CallInv, HeldInv, PutRequest,
         DeleteRequest
<1>3. FreeInv'
  BY DEF Put, Goto, FreeInv, CallInv, HeldInv
<1>4. RenewedIsHealthy'
  BY DEF Put, Goto, RenewedIsHealthy, CallInv, HeldInv
<1>5. OneKeyPerLease'
  BY DEF Put, Goto, OneKeyPerLease, CallInv, HeldInv
<1>6. RenewalIsCancellable' /\ NothingRenewedForNothing'
  BY DEF Put, Goto, RenewalIsCancellable, NothingRenewedForNothing
<1> QED
  BY <1>1, <1>2, <1>3, <1>4, <1>5, <1>6

\* The lease of a lost put is no longer held, hence never renewed.
LEMMA PutFailsKeeps ==
  ASSUME IInv, TypeOK', CallInv', NEW r \in Registry, PutFails(r)
  PROVE  IInv'
<1> USE NoneAssumption DEF IInv, SafetyInv, TypeOK
<1>1. HeldInv'
  BY DEF PutFails, GiveUp, Request, Goto, Return, HeldInv, CallInv
<1>2. PendingInv'
  BY DEF PutFails, GiveUp, Request, Goto, Return, PendingInv, CallInv,
         HeldInv, PutRequest, DeleteRequest
<1>3. FreeInv' /\ RenewalIsCancellable' /\ RenewedIsHealthy' /\
     NothingRenewedForNothing' /\ OneKeyPerLease'
  BY DEF PutFails, GiveUp, Request, Goto, Return, FreeInv,
         RenewalIsCancellable, RenewedIsHealthy,
         NothingRenewedForNothing, OneKeyPerLease
<1> QED
  BY <1>1, <1>2, <1>3

\* It cancels the previous renewal first.
LEMMA StartKeepaliveKeeps ==
  ASSUME IInv, TypeOK', CallInv', NEW r \in Registry, StartKeepalive(r)
  PROVE  IInv'
<1> USE NoneAssumption DEF IInv, SafetyInv, TypeOK
<1>1. HeldInv'
  BY DEF StartKeepalive, Cancelled, store, Goto, Return, HeldInv, CallInv
<1>2. PendingInv'
  BY DEF StartKeepalive, Cancelled, store, Goto, Return, PendingInv,
         CallInv, HeldInv, PutRequest, DeleteRequest
<1>3. FreeInv'
  BY DEF StartKeepalive, Cancelled, store, Goto, Return, FreeInv,
         CallInv, HeldInv
<1>4. RenewalIsCancellable'
  BY DEF StartKeepalive, Cancelled, store, Goto, Return,
         RenewalIsCancellable, CallInv
<1>5. RenewedIsHealthy'
  BY DEF StartKeepalive, Cancelled, store, Goto, Return,
         RenewedIsHealthy, CallInv, HeldInv
<1>6. NothingRenewedForNothing'
  BY DEF StartKeepalive, Cancelled, store, Goto, Return,
         NothingRenewedForNothing, CallInv
<1>7. OneKeyPerLease'
  BY DEF StartKeepalive, Cancelled, store, Goto, Return, OneKeyPerLease
<1> QED
  BY <1>1, <1>2, <1>3, <1>4, <1>5, <1>6, <1>7

\* The previous renewal ends, and no other begins.
LEMMA KeepaliveFailsKeeps ==
  ASSUME IInv, TypeOK', CallInv', NEW r \in Registry, KeepaliveFails(r)
  PROVE  IInv'
<1> USE NoneAssumption DEF IInv, SafetyInv, TypeOK
<1>1. HeldInv'
  BY DEF KeepaliveFails, Cancelled, store, Goto, Return, HeldInv, CallInv
<1>2. PendingInv'
  BY DEF KeepaliveFails, Cancelled, store, Goto, Return, PendingInv,
         PutRequest, DeleteRequest
<1>3. FreeInv'
  BY DEF KeepaliveFails, Cancelled, store, Goto, Return, FreeInv
<1>4. RenewalIsCancellable'
  BY DEF KeepaliveFails, Cancelled, store, Goto, Return,
         RenewalIsCancellable
<1>5. RenewedIsHealthy'
  BY DEF KeepaliveFails, Cancelled, store, Goto, Return, RenewedIsHealthy
<1>6. NothingRenewedForNothing'
  BY DEF KeepaliveFails, Cancelled, store, Goto, Return,
         NothingRenewedForNothing
<1>7. OneKeyPerLease'
  BY DEF KeepaliveFails, Cancelled, store, Goto, Return, OneKeyPerLease
<1> QED
  BY <1>1, <1>2, <1>3, <1>4, <1>5, <1>6, <1>7

\* Nothing is deleted or cancelled yet.
LEMMA BeginDeregisterKeeps ==
  ASSUME IInv, TypeOK', CallInv', NEW r \in Registry, NEW s \in Service, BeginDeregister(r, s)
  PROVE  IInv'
<1> USE NoneAssumption DEF IInv, SafetyInv, TypeOK
<1>1. HeldInv'
  BY DEF BeginDeregister, store, Goto, HeldInv, CallInv
<1>2. PendingInv' /\ FreeInv' /\ RenewalIsCancellable' /\
     RenewedIsHealthy' /\ NothingRenewedForNothing' /\ OneKeyPerLease'
  BY DEF BeginDeregister, store, Goto, PendingInv, FreeInv,
         RenewalIsCancellable, RenewedIsHealthy,
         NothingRenewedForNothing, OneKeyPerLease
<1> QED
  BY <1>1, <1>2

\* After it r renews nothing, as it could renew but one lease.
LEMMA DeleteKeeps ==
  ASSUME IInv, TypeOK', CallInv', NEW r \in Registry, Delete(r)
  PROVE  IInv'
<1> USE NoneAssumption DEF IInv, SafetyInv, TypeOK
<1>1. HeldInv'
  BY DEF Delete, Cancelled, Goto, Return, HeldInv, CallInv
<1>2. PendingInv'
  BY DEF Delete, Cancelled, Goto, Return, PendingInv, PutRequest,
         DeleteRequest
<1>3. FreeInv'
  BY DEF Delete, Cancelled, Goto, Return, FreeInv
<1>4. RenewalIsCancellable'
  BY DEF Delete, Cancelled, Goto, Return, RenewalIsCancellable
<1>5. RenewedIsHealthy'
  BY DEF Delete, Cancelled, Goto, Return, RenewedIsHealthy,
         RenewalIsCancellable
<1>6. NothingRenewedForNothing'
  BY DEF Delete, Cancelled, Goto, Return, NothingRenewedForNothing,
         RenewalIsCancellable
<1>7. OneKeyPerLease'
  BY DEF Delete, Cancelled, Goto, Return, OneKeyPerLease
<1> QED
  BY <1>1, <1>2, <1>3, <1>4, <1>5, <1>6, <1>7

\* The renewal goes on, and so does Healthy.
LEMMA DeleteFailsKeeps ==
  ASSUME IInv, TypeOK', CallInv', NEW r \in Registry, DeleteFails(r)
  PROVE  IInv'
<1> USE NoneAssumption DEF IInv, SafetyInv, TypeOK
<1>1. HeldInv'
  BY DEF DeleteFails, GiveUp, Request, Goto, Return, HeldInv, CallInv
<1>2. PendingInv'
  BY DEF DeleteFails, GiveUp, Request, Goto, Return, PendingInv, CallInv,
         PutRequest, DeleteRequest
<1>3. FreeInv' /\ RenewalIsCancellable' /\ RenewedIsHealthy' /\
     NothingRenewedForNothing' /\ OneKeyPerLease'
  BY DEF DeleteFails, GiveUp, Request, Goto, Return, FreeInv,
         RenewalIsCancellable, RenewedIsHealthy,
         NothingRenewedForNothing, OneKeyPerLease
<1> QED
  BY <1>1, <1>2, <1>3

\* Every renewal of r ends with it.
LEMMA CrashKeeps ==
  ASSUME IInv, TypeOK', CallInv', NEW r \in Registry, Crash(r)
  PROVE  IInv'
<1> USE NoneAssumption DEF IInv, SafetyInv, TypeOK
<1>1. HeldInv'
  BY DEF Crash, GiveUp, Request, Goto, Return, HeldInv, CallInv
<1>2. PendingInv'
  BY DEF Crash, GiveUp, Request, Goto, Return, PendingInv, CallInv,
         HeldInv, PutRequest, DeleteRequest
<1>3. FreeInv'
  BY DEF Crash, GiveUp, Request, Goto, Return, FreeInv
<1>4. RenewalIsCancellable'
  BY DEF Crash, GiveUp, Request, Goto, Return, RenewalIsCancellable
<1>5. RenewedIsHealthy'
  BY DEF Crash, GiveUp, Request, Goto, Return, RenewedIsHealthy
<1>6. NothingRenewedForNothing'
  BY DEF Crash, GiveUp, Request, Goto, Return, NothingRenewedForNothing
<1>7. OneKeyPerLease'
  BY DEF Crash, GiveUp, Request, Goto, Return, OneKeyPerLease
<1> QED
  BY <1>1, <1>2, <1>3, <1>4, <1>5, <1>6, <1>7

\* Fewer leases are renewed.
LEMMA KeepaliveLostKeeps ==
  ASSUME IInv, TypeOK', CallInv', NEW l \in Lease, KeepaliveLost(l)
  PROVE  IInv'
<1> USE NoneAssumption DEF IInv, SafetyInv, TypeOK
<1>1. HeldInv'
  BY DEF KeepaliveLost, store, local, HeldInv
<1>2. PendingInv'
  BY DEF KeepaliveLost, store, local, PendingInv, PutRequest,
         DeleteRequest
<1>3. FreeInv'
  BY DEF KeepaliveLost, store, local, FreeInv
<1>4. RenewalIsCancellable'
  BY DEF KeepaliveLost, store, local, RenewalIsCancellable
<1>5. RenewedIsHealthy'
  BY DEF KeepaliveLost, store, local, RenewedIsHealthy
<1>6. NothingRenewedForNothing'
  BY DEF KeepaliveLost, store, local, NothingRenewedForNothing
<1>7. OneKeyPerLease'
  BY DEF KeepaliveLost, store, local, OneKeyPerLease
<1> QED
  BY <1>1, <1>2, <1>3, <1>4, <1>5, <1>6, <1>7

\* The key goes with its lease.
LEMMA ExpireKeeps ==
  ASSUME IInv, TypeOK', CallInv', NEW l \in Lease, Expire(l)
  PROVE  IInv'
<1> USE NoneAssumption DEF IInv, SafetyInv, TypeOK
<1>1. HeldInv'
  BY DEF Expire, local, HeldInv
<1>2. PendingInv'
  BY DEF Expire, local, PendingInv, PutRequest, DeleteRequest
<1>3. FreeInv'
  BY DEF Expire, local, FreeInv
<1>4. RenewedIsHealthy'
  BY DEF Expire, local, RenewedIsHealthy
<1>5. OneKeyPerLease'
  BY DEF Expire, local, OneKeyPerLease
<1>6. RenewalIsCancellable' /\ NothingRenewedForNothing'
  BY DEF Expire, local, RenewalIsCancellable, NothingRenewedForNothing
<1> QED
  BY <1>1, <1>2, <1>3, <1>4, <1>5, <1>6

\* A put that arrives late is under a lease nobody renews or shares.
LEMMA ArrivesLateKeeps ==
  ASSUME IInv, TypeOK', CallInv', NEW q \in pending, ArrivesLate(q)
  PROVE  IInv'
<1> USE NoneAssumption DEF IInv, SafetyInv, TypeOK
<1>1. HeldInv'
  BY DEF ArrivesLate, local, HeldInv, PendingInv, PutRequest,
         DeleteRequest
<1>2. PendingInv'
  BY DEF ArrivesLate, local, PendingInv, PutRequest, DeleteRequest
<1>3. FreeInv'
  BY DEF ArrivesLate, local, FreeInv, PendingInv, PutRequest,
         DeleteRequest
<1>4. RenewedIsHealthy'
  BY DEF ArrivesLate, local, RenewedIsHealthy, PendingInv, PutRequest,
         DeleteRequest
<1>5. OneKeyPerLease'
  BY DEF ArrivesLate, local, OneKeyPerLease, PendingInv, PutRequest,
         DeleteRequest
<1>6. RenewalIsCancellable' /\ NothingRenewedForNothing'
  BY DEF ArrivesLate, local, RenewalIsCancellable,
         NothingRenewedForNothing
<1> QED
  BY <1>1, <1>2, <1>3, <1>4, <1>5, <1>6

(* Together with what a call holds and what may still arrive, the safety   *)
(* properties are inductive.                                               *)
LEMMA Inductive == Spec => []IInv
<1>1. Init => IInv
  BY NoneAssumption
     DEF Init, IInv, SafetyInv, TypeOK, CallInv, HeldInv, PendingInv, FreeInv,
         RenewalIsCancellable, RenewedIsHealthy, NothingRenewedForNothing,
         OneKeyPerLease
<1>2. IInv /\ [Next]_vars /\ (TypeOK /\ CallInv)' => IInv'
  <2> SUFFICES ASSUME IInv, [Next]_vars, TypeOK', CallInv'
               PROVE  IInv'
    OBVIOUS
  <2>1. CASE UNCHANGED vars
    BY <2>1
       DEF vars, IInv, SafetyInv, TypeOK, CallInv, HeldInv, PendingInv, FreeInv,
           RenewalIsCancellable, RenewedIsHealthy, NothingRenewedForNothing,
           OneKeyPerLease
  <2>2. ASSUME NEW r \in Registry, RegisterStep(r) PROVE IInv'
    BY <2>2, BeginRegisterKeeps, GrantLeaseKeeps, GrantFailsKeeps, PutKeeps,
       PutFailsKeeps, StartKeepaliveKeeps, KeepaliveFailsKeeps
       DEF RegisterStep
  <2>3. ASSUME NEW r \in Registry, DeregisterStep(r) PROVE IInv'
    BY <2>3, BeginDeregisterKeeps, DeleteKeeps, DeleteFailsKeeps
       DEF DeregisterStep
  <2> QED
    BY <2>1, <2>2, <2>3, CrashKeeps, KeepaliveLostKeeps, ExpireKeeps,
       ArrivesLateKeeps DEF Next
<1> QED
  BY <1>1, <1>2, TypeCorrect, PTL DEF Spec

(* The safety properties hold of every behaviour: a registry can stop what *)
(* it renews, renews only what it takes for healthy and nothing once it    *)
(* serves nothing, and no two keys share a lease.                          *)
THEOREM Safety ==
  Spec => [](/\ RenewalIsCancellable
             /\ RenewedIsHealthy
             /\ NothingRenewedForNothing
             /\ OneKeyPerLease)
<1>1. IInv => SafetyInv
  BY DEF IInv
<1> QED
  BY <1>1, Inductive, PTL DEF SafetyInv

--------------------------------------------------------------------------
(* The registry implements InstanceListing.                                *)

(* Every step is a step of the listing or leaves it as it is: the listing  *)
(* is what Register and Deregister promise the readers of the store.       *)
THEOREM Refinement == Spec => ImplementsListing
<1>1. Init => Abstract!Init
  BY DEF Init, Abstract!Init, Listing
<1>2. IInv /\ [Next]_vars => [Abstract!Next]_Listing
  <2> SUFFICES ASSUME IInv, Next PROVE Abstract!Next \/ UNCHANGED Listing
    BY DEF vars, Listing
  <2> USE NoneAssumption DEF TypeOK, IInv, Listing, Abstract!Next
  <2>1. ASSUME NEW r \in Registry, RegisterStep(r)
        PROVE  Abstract!Next \/ UNCHANGED Listing
    <3>1. CASE Put(r)
      <4>1. PICK s \in Service : s = arg[r]
        BY <3>1 DEF Put, CallInv
      <4>2. renewer[held[r]] = None /\ held[r] \in Lease
        BY <3>1 DEF Put, CallInv, HeldInv
      <4>3. Abstract!List(s)
        BY <3>1, <4>1, <4>2 DEF Put, Abstract!List
      <4> QED
        BY <4>1, <4>3
    <3>2. CASE StartKeepalive(r)
      <4>1. PICK s \in Service : s = arg[r]
        BY <3>2 DEF StartKeepalive, CallInv
      <4>2. renewer[held[r]] = None /\ held[r] \in Lease
        BY <3>2 DEF StartKeepalive, CallInv, HeldInv
      <4>3. CASE kv[s] = held[r]
        <5>1. Abstract!Renew(r, s)
          <6>1. Listing[s] = "lapsing"
            BY <4>2, <4>3
          <6>2. \A t \in Service : t # s => kv[t] # held[r]
            BY <4>1, <4>2, <4>3 DEF HeldInv
          <6>3. Listing' = [Abstract!Released(r) EXCEPT ![s] = r]
            BY <3>2, <4>1, <4>2, <4>3, <6>2
               DEF StartKeepalive, Cancelled, store, Abstract!Released,
                   SafetyInv, RenewalIsCancellable
          <6> QED
            BY <6>1, <6>3 DEF Abstract!Renew
        <5> QED
          BY <4>1, <5>1
      <4>4. CASE kv[s] # held[r]
        <5>1. Abstract!Stop(r)
          <6>1. \A t \in Service : kv[t] # held[r]
            BY <4>1, <4>2, <4>4 DEF HeldInv
          <6> QED
            BY <3>2, <4>2, <6>1
               DEF StartKeepalive, Cancelled, store, Abstract!Stop,
                   Abstract!Released, SafetyInv, RenewalIsCancellable
        <5> QED
          BY <5>1
      <4> QED
        BY <4>3, <4>4
    <3>3. CASE KeepaliveFails(r)
      <4>1. Abstract!Stop(r)
        BY <3>3 DEF KeepaliveFails, Cancelled, store, Abstract!Stop,
                    Abstract!Released, SafetyInv, RenewalIsCancellable
      <4> QED
        BY <4>1
    <3>4. CASE \/ \E s \in Service : BeginRegister(r, s)
               \/ \E l \in Lease : GrantLease(r, l)
               \/ GrantFails(r) \/ PutFails(r)
      BY <3>4 DEF BeginRegister, GrantLease, GrantFails, PutFails, store
    <3> QED
      BY <2>1, <3>1, <3>2, <3>3, <3>4 DEF RegisterStep
  <2>2. ASSUME NEW r \in Registry, DeregisterStep(r)
        PROVE  Abstract!Next \/ UNCHANGED Listing
    <3>1. CASE Delete(r)
      <4>1. PICK s \in Service : s = arg[r]
        BY <3>1 DEF Delete, CallInv
      <4>2. Abstract!Withdraw(r, s)
        BY <3>1, <4>1 DEF Delete, Cancelled, Abstract!Withdraw,
                          Abstract!Released, SafetyInv, RenewalIsCancellable
      <4> QED
        BY <4>1, <4>2
    <3>2. CASE DeleteFails(r) \/ \E s \in Service : BeginDeregister(r, s)
      BY <3>2 DEF DeleteFails, BeginDeregister, store
    <3> QED
      BY <2>2, <3>1, <3>2 DEF DeregisterStep
  <2>3. ASSUME NEW r \in Registry, Crash(r)
        PROVE  Abstract!Next \/ UNCHANGED Listing
    <3>1. Abstract!Stop(r)
      BY <2>3 DEF Crash, Abstract!Stop, Abstract!Released
    <3> QED
      BY <3>1
  <2>4. ASSUME NEW l \in Lease, KeepaliveLost(l)
        PROVE  Abstract!Next \/ UNCHANGED Listing
    <3>1. PICK r \in Registry : r = renewer[l]
      BY <2>4 DEF KeepaliveLost
    <3>2. Abstract!Stop(r)
      BY <2>4, <3>1 DEF KeepaliveLost, store, Abstract!Stop,
                        Abstract!Released, SafetyInv, RenewalIsCancellable
    <3> QED
      BY <3>2
  <2>5. ASSUME NEW l \in Lease, Expire(l)
        PROVE  Abstract!Next \/ UNCHANGED Listing
    <3>1. ASSUME NEW s \in Service, kv[s] = l PROVE Abstract!Remove(s)
      BY <2>5, <3>1 DEF Expire, Abstract!Remove, SafetyInv, OneKeyPerLease
    <3>2. (\A s \in Service : kv[s] # l) => UNCHANGED Listing
      BY <2>5 DEF Expire
    <3> QED
      BY <3>1, <3>2
  <2>6. ASSUME NEW q \in pending, ArrivesLate(q)
        PROVE  Abstract!Next \/ UNCHANGED Listing
    <3>1. q.svc \in Service
      BY <2>6 DEF PutRequest, DeleteRequest
    <3>2. CASE q.kind = "put"
      <4>1. q.lease \in Lease /\ renewer[q.lease] = None
        BY <2>6, <3>2 DEF PendingInv, PutRequest, DeleteRequest
      <4>2. Abstract!List(q.svc)
        BY <2>6, <3>1, <3>2, <4>1 DEF ArrivesLate, local, Abstract!List
      <4> QED
        BY <3>1, <4>2
    <3>3. CASE q.kind # "put"
      <4>1. Abstract!Remove(q.svc)
        BY <2>6, <3>1, <3>3 DEF ArrivesLate, Abstract!Remove
      <4> QED
        BY <3>1, <4>1
    <3> QED
      BY <3>2, <3>3
  <2> QED
    BY <2>1, <2>2, <2>3, <2>4, <2>5, <2>6 DEF Next
<1> QED
  BY <1>1, <1>2, Inductive, PTL DEF Spec, Abstract!Spec, ImplementsListing
==========================================================================
