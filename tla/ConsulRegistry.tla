-------------------------- MODULE ConsulRegistry --------------------------
(***************************************************************************)
(* hestia/consul/registry.go: registries that publish service instances    *)
(* through a Consul agent, with a TTL check that a goroutine keeps         *)
(* passing.                                                                *)
(*                                                                         *)
(* A registry is one consulRegistry object, in a process of its own.  Its  *)
(* calls are sequential, every request to the agent is a step of its own   *)
(* that may fail, before or after the agent carried it out, and a process  *)
(* may crash at any point and start again.  The agent is external: it      *)
(* turns a check critical when no heartbeat arrives for the TTL, and       *)
(* removes a service whose check has been critical for deregisterAfter.    *)
(***************************************************************************)
EXTENDS Naturals, FiniteSets

CONSTANTS Registry,   \* the consulRegistry objects
          Service,    \* service instances, each with its check ID
          Serves,     \* Serves[r]: the instances the process of r handles
          Goroutine,  \* bounds the keepalive goroutines that exist at once
          None        \* nil: no instance, no goroutine

ASSUME ConsulServesAssumption == Serves \in [Registry -> SUBSET Service]
ASSUME ConsulNoneAssumption == None \notin Registry \cup Service \cup Goroutine

VARIABLES
  listed,    \* agent: the services it has
  check,     \* agent: check[s] is the state of the TTL check of s, or "none"
  beat,      \* the keepalive goroutines
  cancel,    \* cancel[r]: the goroutine whose context keepaliveCancel cancels
  healthy,   \* healthy[r]: the instances whose struct says Healthy
  pc,        \* where the call of r is
  arg        \* the instance the call of r is about

agent == <<listed, check>>
vars == <<listed, check, beat, cancel, healthy, pc, arg>>

\* A goroutine runs, was cancelled and has not noticed yet, or does not exist.
Idle == [state |-> "free", owner |-> None, svc |-> None]
Beat == [state : {"running", "stopping"}, owner : Registry, svc : Service]

TypeOK ==
  /\ listed \in SUBSET Service
  /\ check \in [Service -> {"none", "critical", "passing"}]
  /\ beat \in [Goroutine -> Beat \cup {Idle}]
  /\ cancel \in [Registry -> Goroutine \cup {None}]
  /\ healthy \in [Registry -> SUBSET Service]
  /\ pc \in [Registry -> {"idle", "register", "start", "check", "service"}]
  /\ arg \in [Registry -> Service \cup {None}]

Init ==
  /\ listed = {}
  /\ check = [s \in Service |-> "none"]
  /\ beat = [g \in Goroutine |-> Idle]
  /\ cancel = [r \in Registry |-> None]
  /\ healthy = [r \in Registry |-> {}]
  /\ pc = [r \in Registry |-> "idle"]
  /\ arg = [r \in Registry |-> None]

--------------------------------------------------------------------------
(* The parts the actions are built from.                                   *)

\* The call of r goes on at p.
Goto(r, p) == pc' = [pc EXCEPT ![r] = p]

\* The call of r returns, with or without an error.
Return(r) == /\ Goto(r, "idle")
             /\ arg' = [arg EXCEPT ![r] = None]

\* Defect: a goroutine that already ended is told to end.
StopWhateverIsLatest(r) ==
  [g \in Goroutine |->
     IF g = cancel[r] THEN [beat[g] EXCEPT !.state = "stopping"] ELSE beat[g]]

\* stopKeepalive: the latest goroutine of r is told to end, whatever
\* instance it is for; nobody waits for it.
StopKeepalive(r) ==
  [g \in Goroutine |->
     IF g = cancel[r] /\ beat[g].owner = r
     THEN [beat[g] EXCEPT !.state = "stopping"] ELSE beat[g]]

\* The agent adds s: its check starts critical, or keeps the state it had.
Added(s) ==
  /\ listed' = listed \cup {s}
  /\ \E state \in {"critical", check[s]} \ {"none"} :
       check' = [check EXCEPT ![s] = state]

\* The agent removes s together with its check.
Removed(s) ==
  /\ listed' = listed \ {s}
  /\ check' = [check EXCEPT ![s] = "none"]

--------------------------------------------------------------------------
(* Register                                                                *)

\* Register sets Healthy before it splits the address or asks the agent.
BeginRegister(r, s) ==
  /\ pc[r] = "idle"
  /\ s \in Serves[r]
  /\ healthy' = [healthy EXCEPT ![r] = @ \cup {s}]
  /\ arg' = [arg EXCEPT ![r] = s]
  /\ Goto(r, "register")
  /\ UNCHANGED <<agent, beat, cancel>>

RegisterService(r) ==
  /\ pc[r] = "register"
  /\ Added(arg[r])
  /\ Goto(r, "start")
  /\ UNCHANGED <<beat, cancel, healthy, arg>>

\* Register returns the error; the agent may have added the service.
RegisterServiceFails(r) ==
  /\ pc[r] = "register"
  /\ UNCHANGED agent \/ Added(arg[r])
  /\ Return(r)
  /\ UNCHANGED <<beat, cancel, healthy>>

\* Defect: the new goroutine is started without stopping the previous one.
StartAnotherKeepalive(r) ==
  /\ pc[r] = "start"
  /\ \E g \in Goroutine :
       /\ beat[g].state = "free"
       /\ beat' = [beat EXCEPT ![g] =
                     [state |-> "running", owner |-> r, svc |-> arg[r]]]
       /\ cancel' = [cancel EXCEPT ![r] = g]
  /\ Return(r)
  /\ UNCHANGED <<agent, healthy>>

StartKeepalive(r) ==
  /\ pc[r] = "start"
  /\ \E g \in Goroutine :
       /\ beat[g].state = "free"
       /\ beat' = [StopKeepalive(r) EXCEPT ![g] =
                     [state |-> "running", owner |-> r, svc |-> arg[r]]]
       /\ cancel' = [cancel EXCEPT ![r] = g]
  /\ Return(r)
  /\ UNCHANGED <<agent, healthy>>

--------------------------------------------------------------------------
(* Deregister                                                              *)

\* Defect: the heartbeats are left for the process exit to end.
BeginDeregisterBeating(r, s) ==
  /\ pc[r] = "idle"
  /\ s \in Serves[r]
  /\ arg' = [arg EXCEPT ![r] = s]
  /\ Goto(r, "check")
  /\ UNCHANGED <<agent, beat, cancel, healthy>>

\* The heartbeats end first, even if they are those of another instance.
BeginDeregister(r, s) ==
  /\ pc[r] = "idle"
  /\ s \in Serves[r]
  /\ beat' = StopKeepalive(r)
  /\ arg' = [arg EXCEPT ![r] = s]
  /\ Goto(r, "check")
  /\ UNCHANGED <<agent, cancel, healthy>>

\* An error of CheckDeregister is logged, and Deregister goes on.
DeregisterCheck(r) ==
  /\ pc[r] = "check"
  /\ \/ check' = [check EXCEPT ![arg[r]] = "none"]
     \/ UNCHANGED check
  /\ Goto(r, "service")
  /\ UNCHANGED <<listed, beat, cancel, healthy, arg>>

DeregisterService(r) ==
  /\ pc[r] = "service"
  /\ Removed(arg[r])
  /\ healthy' = [healthy EXCEPT ![r] = @ \ {arg[r]}]
  /\ Return(r)
  /\ UNCHANGED <<beat, cancel>>

\* Defect: the error of ServiceDeregister is logged like that of the check.
DeregisterServiceFailsUnseen(r) ==
  /\ pc[r] = "service"
  /\ UNCHANGED agent \/ Removed(arg[r])
  /\ healthy' = [healthy EXCEPT ![r] = @ \ {arg[r]}]
  /\ Return(r)
  /\ UNCHANGED <<beat, cancel>>

\* Deregister returns the error: the check is gone, the service may be left.
DeregisterServiceFails(r) ==
  /\ pc[r] = "service"
  /\ UNCHANGED agent \/ Removed(arg[r])
  /\ Return(r)
  /\ UNCHANGED <<beat, cancel, healthy>>

--------------------------------------------------------------------------
(* The goroutines, the process and the agent.                              *)

\* A tick.  A cancelled goroutine may still take it: select picks either
\* case.  A heartbeat for a check the agent does not have is an error.
Heartbeat(g) ==
  /\ beat[g].state # "free"
  /\ check[beat[g].svc] # "none"
  /\ check' = [check EXCEPT ![beat[g].svc] = "passing"]
  /\ UNCHANGED <<listed, beat, cancel, healthy, pc, arg>>

\* Defect: the goroutine reports, and goes on beating.
ShutdownWithoutReturn(g) ==
  /\ beat[g].state = "stopping"
  /\ check[beat[g].svc] # "none"
  /\ check' = [check EXCEPT ![beat[g].svc] = "critical"]
  /\ UNCHANGED <<listed, beat, cancel, healthy, pc, arg>>

\* ctx.Done: the goroutine ends, and reports the check as failing if the
\* agent still has it and takes the report.
Shutdown(g) ==
  /\ beat[g].state = "stopping"
  /\ beat' = [beat EXCEPT ![g] = Idle]
  /\ \/ UNCHANGED check
     \/ /\ check[beat[g].svc] # "none"
        /\ check' = [check EXCEPT ![beat[g].svc] = "critical"]
  /\ UNCHANGED <<listed, cancel, healthy, pc, arg>>

\* The process of r dies, with its goroutines, and starts again.
Crash(r) ==
  /\ beat' = [g \in Goroutine |-> IF beat[g].owner = r THEN Idle ELSE beat[g]]
  /\ cancel' = [cancel EXCEPT ![r] = None]
  /\ healthy' = [healthy EXCEPT ![r] = {}]
  /\ Return(r)
  /\ UNCHANGED agent

\* No heartbeat arrived for the TTL.
CheckExpires(s) ==
  /\ check[s] = "passing"
  /\ check' = [check EXCEPT ![s] = "critical"]
  /\ UNCHANGED <<listed, beat, cancel, healthy, pc, arg>>

\* The check was critical for deregisterAfter.
Reap(s) ==
  /\ check[s] = "critical"
  /\ Removed(s)
  /\ UNCHANGED <<beat, cancel, healthy, pc, arg>>

\* The call of r starts, or goes on.
BeginCall(r) ==
  \E s \in Service : BeginRegister(r, s) \/ BeginDeregister(r, s)

CallStep(r) ==
  \/ RegisterService(r) \/ RegisterServiceFails(r) \/ StartKeepalive(r)
  \/ DeregisterCheck(r) \/ DeregisterService(r) \/ DeregisterServiceFails(r)

Next == \/ \E r \in Registry : BeginCall(r) \/ CallStep(r) \/ Crash(r)
        \/ \E g \in Goroutine : Heartbeat(g) \/ Shutdown(g)
        \/ \E s \in Service : CheckExpires(s) \/ Reap(s)

Spec == Init /\ [][Next]_vars

\* A call that started goes on, the agent's timers run, and a cancelled
\* goroutine sees its context done.  Callers need not call, any request may
\* fail, and heartbeats may be lost.
FairSpec == /\ Spec
            /\ \A r \in Registry : WF_vars(CallStep(r))
            /\ \A s \in Service : WF_vars(CheckExpires(s)) /\ WF_vars(Reap(s))
            /\ \A g \in Goroutine : WF_vars(Shutdown(g))

--------------------------------------------------------------------------
(* Properties                                                              *)

(* A registry has at most one goroutine that was not told to end, and      *)
(* keepaliveCancel ends that one, although Register, Deregister and the    *)
(* goroutine itself change who runs (lines 109 to 111 and 124).            *)
HeartbeatIsCancellable ==
  \A g \in Goroutine : beat[g].state = "running" => cancel[beat[g].owner] = g

(* A goroutine that was not told to end beats for an instance its registry *)
(* takes for healthy: nothing keeps an instance passing that was           *)
(* deregistered, whatever failed on the way.                               *)
HeartbeatServesHealthy ==
  \A g \in Goroutine :
    beat[g].state = "running" => beat[g].svc \in healthy[beat[g].owner]

\* The agent lists s, and no registry takes it for healthy.
Orphan(s) == s \in listed /\ \A r \in Registry : s \notin healthy[r]

(* Only the death of a process leaves an instance in the agent that no     *)
(* registry takes for healthy: a Deregister that fails in the middle       *)
(* leaves Healthy set, and a Register that fails set it before, so that    *)
(* the caller can still tell and retry.                                    *)
OrphanedByCrashOnly ==
  [][\A s \in Service :
       (~Orphan(s) /\ Orphan(s)') => \E r \in Registry : Crash(r)]_vars

(* An orphan that has its check leaves the agent by way of TTL and         *)
(* deregisterAfter, unless it is registered again or a Deregister takes    *)
(* the check away: goroutines on their way out do not keep it alive.       *)
CheckedOrphanLeaves ==
  \A s \in Service :
    (Orphan(s) /\ check[s] # "none") ~> (~Orphan(s) \/ check[s] = "none")

(* hestia/readme.md:596: after an abnormal exit the TTL expires, the check *)
(* turns critical and Consul deregisters the instance: no orphan stays.    *)
OrphanLeaves == \A s \in Service : Orphan(s) ~> ~Orphan(s)

--------------------------------------------------------------------------
(* The inductive invariant behind the safety properties.                   *)

\* A call knows its instance; that of a Register is marked Healthy already;
\* and while a Deregister is under way no goroutine of r beats on.
CallInv ==
  \A r \in Registry :
    /\ pc[r] # "idle" => arg[r] \in Service
    /\ pc[r] \in {"register", "start"} => arg[r] \in healthy[r]
    /\ pc[r] \in {"check", "service"} =>
         \A g \in Goroutine : beat[g].state = "running" => beat[g].owner # r

IInv == TypeOK /\ CallInv /\ HeartbeatIsCancellable /\ HeartbeatServesHealthy
==========================================================================
