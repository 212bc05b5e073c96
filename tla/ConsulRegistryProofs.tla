---------------------- MODULE ConsulRegistryProofs ----------------------
(***************************************************************************)
(* Proofs about ConsulRegistry, for any registries, instances and          *)
(* goroutines.                                                             *)
(***************************************************************************)
EXTENDS ConsulRegistry, TLAPS

(* A call, its instance and its registry's goroutines stay consistent:     *)
(* with that, the claims about heartbeats are inductive.                   *)
LEMMA Inductive == Spec => []IInv
<1> USE ConsulNoneAssumption, ConsulServesAssumption
<1>1. Init => IInv
  BY DEF Init, IInv, TypeOK, Beat, Idle, CallInv, HeartbeatIsCancellable,
         HeartbeatServesHealthy
<1>2. IInv /\ [Next]_vars => TypeOK'
  <2> SUFFICES ASSUME IInv, [Next]_vars PROVE TypeOK'
    OBVIOUS
  <2> USE DEF IInv, TypeOK, CallInv, Beat, Idle
  <2> USE DEF agent, Goto, Return
  <2>1. ASSUME NEW r \in Registry, NEW s \in Service, BeginRegister(r, s)
        PROVE  TypeOK'
    BY <2>1 DEF BeginRegister
  <2>2. ASSUME NEW r \in Registry, NEW s \in Service, BeginDeregister(r, s)
        PROVE  TypeOK'
    BY <2>2 DEF BeginDeregister, StopKeepalive
  <2>3. ASSUME NEW r \in Registry, RegisterService(r)
        PROVE  TypeOK'
    BY <2>3 DEF RegisterService, Added
  <2>4. ASSUME NEW r \in Registry, RegisterServiceFails(r)
        PROVE  TypeOK'
    BY <2>4 DEF RegisterServiceFails, Added
  <2>5. ASSUME NEW r \in Registry, StartKeepalive(r)
        PROVE  TypeOK'
    BY <2>5 DEF StartKeepalive, StopKeepalive
  <2>6. ASSUME NEW r \in Registry, DeregisterCheck(r)
        PROVE  TypeOK'
    BY <2>6 DEF DeregisterCheck
  <2>7. ASSUME NEW r \in Registry, DeregisterService(r)
        PROVE  TypeOK'
    BY <2>7 DEF DeregisterService, Removed
  <2>8. ASSUME NEW r \in Registry, DeregisterServiceFails(r)
        PROVE  TypeOK'
    BY <2>8 DEF DeregisterServiceFails, Removed
  <2>9. ASSUME NEW r \in Registry, Crash(r)
        PROVE  TypeOK'
    BY <2>9 DEF Crash
  <2>10. ASSUME NEW g \in Goroutine, Heartbeat(g)
        PROVE  TypeOK'
    BY <2>10 DEF Heartbeat
  <2>11. ASSUME NEW g \in Goroutine, Shutdown(g)
        PROVE  TypeOK'
    BY <2>11 DEF Shutdown
  <2>12. ASSUME NEW s \in Service, CheckExpires(s)
        PROVE  TypeOK'
    BY <2>12 DEF CheckExpires
  <2>13. ASSUME NEW s \in Service, Reap(s)
        PROVE  TypeOK'
    BY <2>13 DEF Reap, Removed
  <2>14. CASE UNCHANGED vars
    BY <2>14 DEF vars
  <2> QED
    BY <2>1, <2>2, <2>3, <2>4, <2>5, <2>6, <2>7, <2>8, <2>9, <2>10,
       <2>11, <2>12, <2>13, <2>14 DEF Next, BeginCall, CallStep
<1>3. IInv /\ TypeOK' /\ [Next]_vars => IInv'
  <2> SUFFICES ASSUME IInv, TypeOK', [Next]_vars PROVE IInv'
    OBVIOUS
  <2> USE DEF IInv, TypeOK, Beat, Idle, CallInv, HeartbeatIsCancellable,
              HeartbeatServesHealthy, agent, Goto, Return
  <2>1. ASSUME NEW r \in Registry, NEW s \in Service, BeginRegister(r, s)
        PROVE  IInv'
    BY <2>1 DEF BeginRegister
  <2>2. ASSUME NEW r \in Registry, NEW s \in Service, BeginDeregister(r, s)
        PROVE  IInv'
    BY <2>2 DEF BeginDeregister, StopKeepalive
  <2>3. ASSUME NEW r \in Registry, RegisterService(r)
        PROVE  IInv'
    BY <2>3 DEF RegisterService, Added
  <2>4. ASSUME NEW r \in Registry, RegisterServiceFails(r)
        PROVE  IInv'
    BY <2>4 DEF RegisterServiceFails, Added
  <2>5. ASSUME NEW r \in Registry, StartKeepalive(r)
        PROVE  IInv'
    <3>1. PICK g \in Goroutine :
            /\ beat[g].state = "free"
            /\ beat' = [StopKeepalive(r) EXCEPT ![g] =
                          [state |-> "running", owner |-> r, svc |-> arg[r]]]
            /\ cancel' = [cancel EXCEPT ![r] = g]
      BY <2>5 DEF StartKeepalive
    <3>2. /\ pc[r] = "start"
          /\ pc' = [pc EXCEPT ![r] = "idle"]
          /\ arg' = [arg EXCEPT ![r] = None]
          /\ UNCHANGED <<listed, check, healthy>>
      BY <2>5 DEF StartKeepalive
    <3>3. \A h \in Goroutine : h # g => beat'[h] = StopKeepalive(r)[h]
      BY <3>1 DEF StopKeepalive
    <3>4. beat'[g] = [state |-> "running", owner |-> r, svc |-> arg[r]]
      BY <3>1 DEF StopKeepalive
    <3>5. ASSUME NEW h \in Goroutine, h # g, beat'[h].state = "running"
          PROVE  beat'[h] = beat[h] /\ beat[h].owner # r
      BY <3>3, <3>5 DEF StopKeepalive
    <3>6. CallInv'
      BY <3>2, <3>4, <3>5
    <3>7. HeartbeatIsCancellable'
      BY <3>1, <3>4, <3>5
    <3>8. HeartbeatServesHealthy'
      BY <3>2, <3>4, <3>5
    <3> QED
      BY <3>6, <3>7, <3>8
  <2>6. ASSUME NEW r \in Registry, DeregisterCheck(r)
        PROVE  IInv'
    BY <2>6 DEF DeregisterCheck
  <2>7. ASSUME NEW r \in Registry, DeregisterService(r)
        PROVE  IInv'
    BY <2>7 DEF DeregisterService, Removed
  <2>8. ASSUME NEW r \in Registry, DeregisterServiceFails(r)
        PROVE  IInv'
    BY <2>8 DEF DeregisterServiceFails, Removed
  <2>9. ASSUME NEW r \in Registry, Crash(r)
        PROVE  IInv'
    BY <2>9 DEF Crash
  <2>10. ASSUME NEW g \in Goroutine, Heartbeat(g)
        PROVE  IInv'
    BY <2>10 DEF Heartbeat
  <2>11. ASSUME NEW g \in Goroutine, Shutdown(g)
        PROVE  IInv'
    BY <2>11 DEF Shutdown
  <2>12. ASSUME NEW s \in Service, CheckExpires(s)
        PROVE  IInv'
    BY <2>12 DEF CheckExpires
  <2>13. ASSUME NEW s \in Service, Reap(s)
        PROVE  IInv'
    BY <2>13 DEF Reap, Removed
  <2>14. CASE UNCHANGED vars
    BY <2>14 DEF vars
  <2> QED
    BY <2>1, <2>2, <2>3, <2>4, <2>5, <2>6, <2>7, <2>8, <2>9, <2>10,
       <2>11, <2>12, <2>13, <2>14 DEF Next, BeginCall, CallStep
<1> QED
  BY <1>1, <1>2, <1>3, PTL DEF Spec

(* Every variable keeps its type, whatever is called, fails or crashes.    *)
THEOREM TypeCorrect == Spec => []TypeOK
<1>1. IInv => TypeOK
  BY DEF IInv
<1> QED
  BY <1>1, Inductive, PTL

(* However calls fail and goroutines linger, a registry can stop every     *)
(* goroutine it still wants to stop, and none beats for an instance that   *)
(* is not healthy.                                                         *)
THEOREM HeartbeatSafety ==
  Spec => [](HeartbeatIsCancellable /\ HeartbeatServesHealthy)
<1>1. IInv => HeartbeatIsCancellable /\ HeartbeatServesHealthy
  BY DEF IInv
<1> QED
  BY <1>1, Inductive, PTL

(* No Register and no Deregister, failed or not, and no timer orphans an   *)
(* instance: only the death of a process does.                             *)
THEOREM OrphansNeedCrash == Spec => OrphanedByCrashOnly
<1>1. IInv /\ IInv' /\ [Next]_vars =>
        \A s \in Service :
          (~Orphan(s) /\ Orphan(s)') => \E r \in Registry : Crash(r)
  <2> SUFFICES ASSUME IInv, IInv', [Next]_vars, NEW t \in Service,
                      ~Orphan(t), Orphan(t)',
                      ~ \E r \in Registry : Crash(r)
               PROVE  FALSE
    OBVIOUS
  <2> USE DEF IInv, TypeOK, CallInv, Orphan, agent, Goto, Return
  <2>1. ASSUME NEW r \in Registry, NEW s \in Service, BeginRegister(r, s)
        PROVE  FALSE
    BY <2>1 DEF BeginRegister
  <2>2. ASSUME NEW r \in Registry, NEW s \in Service, BeginDeregister(r, s)
        PROVE  FALSE
    BY <2>2 DEF BeginDeregister
  <2>3. ASSUME NEW r \in Registry, RegisterService(r)
        PROVE  FALSE
    BY <2>3 DEF RegisterService, Added
  <2>4. ASSUME NEW r \in Registry, RegisterServiceFails(r)
        PROVE  FALSE
    BY <2>4 DEF RegisterServiceFails, Added
  <2>5. ASSUME NEW r \in Registry, StartKeepalive(r)
        PROVE  FALSE
    BY <2>5 DEF StartKeepalive
  <2>6. ASSUME NEW r \in Registry, DeregisterCheck(r)
        PROVE  FALSE
    BY <2>6 DEF DeregisterCheck
  <2>7. ASSUME NEW r \in Registry, DeregisterService(r)
        PROVE  FALSE
    BY <2>7 DEF DeregisterService, Removed
  <2>8. ASSUME NEW r \in Registry, DeregisterServiceFails(r)
        PROVE  FALSE
    BY <2>8 DEF DeregisterServiceFails, Removed
  <2>9. ASSUME NEW g \in Goroutine, Heartbeat(g)
        PROVE  FALSE
    BY <2>9 DEF Heartbeat
  <2>10. ASSUME NEW g \in Goroutine, Shutdown(g)
        PROVE  FALSE
    BY <2>10 DEF Shutdown
  <2>11. ASSUME NEW s \in Service, CheckExpires(s)
        PROVE  FALSE
    BY <2>11 DEF CheckExpires
  <2>12. ASSUME NEW s \in Service, Reap(s)
        PROVE  FALSE
    BY <2>12 DEF Reap, Removed
  <2>13. CASE UNCHANGED vars
    BY <2>13 DEF vars
  <2> QED
    BY <2>1, <2>2, <2>3, <2>4, <2>5, <2>6, <2>7, <2>8, <2>9, <2>10,
       <2>11, <2>12, <2>13 DEF Next, BeginCall, CallStep
<1> QED
  BY <1>1, Inductive, PTL DEF Spec, OrphanedByCrashOnly
==========================================================================
