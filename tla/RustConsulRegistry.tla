------------------------- MODULE RustConsulRegistry -------------------------
(***************************************************************************)
(* rs-hestia/src/consul/registry.rs: one ConsulRegistry object, shared by  *)
(* the tasks of a process.                                                 *)
(*                                                                         *)
(* As in RustEtcdRegistry the calls on one instance are sequential, those  *)
(* on different instances run together, and a call may end at any await.   *)
(* A keepalive task is told to end and aborted at once: what it was        *)
(* sending, or had begun to send because it was told, may still arrive.    *)
(* The agent is external, as in ConsulRegistry.                            *)
(***************************************************************************)
EXTENDS Naturals, FiniteSets

CONSTANTS Service,    \* service instances, each with its check ID
          Task,       \* bounds the keepalive tasks that exist at once
          MaxPending, \* bounds the requests that may still arrive
          None        \* no instance, no task

\* What is assumed of the constants (SideBySide has it evaluated).
NoneAssumption == None \notin Service \cup Task /\ MaxPending \in Nat

VARIABLES
  listed,    \* agent: the services it has
  check,     \* agent: check[s] is the state of the TTL check of s, or "none"
  pending,   \* requests nobody waits for, which the agent may still get
  beats,     \* beats[t]: the instance task t sends heartbeats for, or None
  handle,    \* keepalive_handle: the task it is for, or None
  healthy,   \* the instances whose struct says healthy
  pc         \* where the call on an instance is

agent == <<listed, check>>
vars == <<listed, check, pending, beats, handle, healthy, pc>>

CheckState == {"none", "critical", "passing"}
Request == [svc : Service, what : {"add", "check", "remove"} \cup CheckState]

TypeOK ==
  /\ listed \in SUBSET Service
  /\ check \in [Service -> CheckState]
  /\ pending \in SUBSET Request
  /\ beats \in [Task -> Service \cup {None}]
  /\ handle \in Task \cup {None}
  /\ healthy \in SUBSET Service
  /\ pc \in [Service -> {"idle", "add", "start", "stop", "check", "remove"}]

Init ==
  /\ listed = {}
  /\ check = [s \in Service |-> "none"]
  /\ pending = {}
  /\ beats = [t \in Task |-> None]
  /\ handle = None
  /\ healthy = {}
  /\ pc = [s \in Service |-> "idle"]

Goto(s, p) == pc' = [pc EXCEPT ![s] = p]

\* The agent carries out the request `what` for s.  A check starts critical,
\* or keeps the state it had, and goes when its service goes.
CarriedOut(s, what) ==
  \/ /\ what = "add"
     /\ listed' = listed \cup {s}
     /\ \E state \in {"critical", check[s]} \ {"none"} :
          check' = [check EXCEPT ![s] = state]
  \/ /\ what = "check"
     /\ check' = [check EXCEPT ![s] = "none"]
     /\ UNCHANGED listed
  \/ /\ what = "remove"
     /\ listed' = listed \ {s}
     /\ check' = [check EXCEPT ![s] = "none"]
  \/ /\ what \in {"passing", "critical"}
     /\ check[s] # "none"
     /\ check' = [check EXCEPT ![s] = what]
     /\ UNCHANGED listed

\* The tasks after that of the handle, if there is one, was notified and
\* aborted.
Aborted == [t \in Task |-> IF t = handle THEN None ELSE beats[t]]

\* Of the requests S none or one is left on its way to the agent.
Left(S) ==
  \/ UNCHANGED pending
  \/ /\ Cardinality(pending) < MaxPending
     /\ \E q \in S : pending' = pending \cup {q}

\* Of a heartbeat and a failing report of that task one may be on its way.
MayArrive ==
  Left({q \in Request : /\ handle # None
                        /\ q.svc = beats[handle]
                        /\ q.what \in {"passing", "critical"}})

--------------------------------------------------------------------------
(* register                                                                *)

\* An address that does not resolve is an error before this point, one
\* without a port right after it, as GiveUp is.
BeginRegister(s) ==
  /\ pc[s] = "idle"
  /\ healthy' = healthy \cup {s}
  /\ Goto(s, "add")
  /\ UNCHANGED <<agent, pending, beats, handle>>

RegisterService(s) ==
  /\ pc[s] = "add"
  /\ CarriedOut(s, "add")
  /\ Goto(s, "start")
  /\ UNCHANGED <<pending, beats, handle, healthy>>

\* Defect: the handle is replaced without the previous task being aborted.
StartAnotherKeepalive(s, t) ==
  /\ pc[s] = "start"
  /\ beats[t] = None
  /\ beats' = [beats EXCEPT ![t] = s]
  /\ handle' = t
  /\ MayArrive
  /\ Goto(s, "idle")
  /\ UNCHANGED <<agent, healthy>>

\* Under the lock the previous task, whatever instance it is for, is notified
\* and aborted, and the new one spawned.
StartKeepalive(s, t) ==
  /\ pc[s] = "start"
  /\ beats[t] = None
  /\ beats' = [Aborted EXCEPT ![t] = s]
  /\ handle' = t
  /\ MayArrive
  /\ Goto(s, "idle")
  /\ UNCHANGED <<agent, healthy>>

--------------------------------------------------------------------------
(* deregister                                                              *)

BeginDeregister(s) ==
  /\ pc[s] = "idle"
  /\ Goto(s, "stop")
  /\ UNCHANGED <<agent, pending, beats, handle, healthy>>

\* Defect: the heartbeats are left for the process exit to end.
LeaveKeepalive(s) ==
  /\ pc[s] = "stop"
  /\ Goto(s, "check")
  /\ UNCHANGED <<agent, pending, beats, handle, healthy>>

\* Under the lock the latest task, whatever instance it is for, is aborted.
StopKeepalive(s) ==
  /\ pc[s] = "stop"
  /\ beats' = Aborted
  /\ MayArrive
  /\ handle' = None
  /\ Goto(s, "check")
  /\ UNCHANGED <<agent, healthy>>

\* An error or a timeout is logged, and deregister goes on.
DeregisterCheck(s) ==
  /\ pc[s] = "check"
  /\ \/ CarriedOut(s, "check") /\ UNCHANGED pending
     \/ Left({[svc |-> s, what |-> "check"]}) /\ UNCHANGED agent
  /\ Goto(s, "remove")
  /\ UNCHANGED <<beats, handle, healthy>>

DeregisterService(s) ==
  /\ pc[s] = "remove"
  /\ CarriedOut(s, "remove")
  /\ healthy' = healthy \ {s}
  /\ Goto(s, "idle")
  /\ UNCHANGED <<pending, beats, handle>>

--------------------------------------------------------------------------
(* The tasks, the process and the agent                                    *)

\* A heartbeat for a check the agent does not have is an error, and logged.
Heartbeat(t) ==
  /\ beats[t] # None
  /\ CarriedOut(beats[t], "passing")
  /\ UNCHANGED <<pending, beats, handle, healthy, pc>>

\* What the call on s waits for and may be carried out later.
OnItsWay(s) == IF pc[s] \in {"add", "check", "remove"}
               THEN {[svc |-> s, what |-> pc[s]]} ELSE {}

\* The call on s ends at an await: a request fails or times out, or the
\* caller drops the future.
GiveUp(s) ==
  /\ pc[s] # "idle"
  /\ Left(OnItsWay(s))
  /\ Goto(s, "idle")
  /\ UNCHANGED <<agent, beats, handle, healthy>>

\* The process dies and starts again, with requests on their way.
Crash ==
  /\ Left(UNION {OnItsWay(s) : s \in Service})
  /\ beats' = [t \in Task |-> None]
  /\ handle' = None
  /\ healthy' = {}
  /\ pc' = [s \in Service |-> "idle"]
  /\ UNCHANGED agent

ArrivesLate(q) ==
  /\ q \in pending
  /\ CarriedOut(q.svc, q.what)
  /\ pending' = pending \ {q}
  /\ UNCHANGED <<beats, handle, healthy, pc>>

\* No heartbeat arrived for the TTL.
CheckExpires(s) ==
  /\ check[s] = "passing"
  /\ check' = [check EXCEPT ![s] = "critical"]
  /\ UNCHANGED <<listed, pending, beats, handle, healthy, pc>>

\* The check was critical for deregister_critical_service_after.
Reap(s) ==
  /\ check[s] = "critical"
  /\ CarriedOut(s, "remove")
  /\ UNCHANGED <<pending, beats, handle, healthy, pc>>

CallStep(s) ==
  \/ BeginRegister(s) \/ RegisterService(s)
  \/ \E t \in Task : StartKeepalive(s, t)
  \/ BeginDeregister(s) \/ StopKeepalive(s) \/ DeregisterCheck(s)
  \/ DeregisterService(s) \/ GiveUp(s)

Next == \/ \E s \in Service : CallStep(s) \/ CheckExpires(s) \/ Reap(s)
        \/ \E t \in Task : Heartbeat(t)
        \/ \E q \in pending : ArrivesLate(q)
        \/ Crash

\* The agent's timers run; nothing else is fair.
Fairness == \A s \in Service : WF_vars(CheckExpires(s)) /\ WF_vars(Reap(s))

Spec == Init /\ [][Next]_vars /\ Fairness

--------------------------------------------------------------------------
(* Properties                                                              *)

(* A task that runs is the one of the handle, so that the next call can    *)
(* abort it, and beats for an instance whose struct says healthy: calls    *)
(* that run together, end early or fail leave none behind that keeps a     *)
(* deregistered instance passing (register, lines 90 to 113; deregister,   *)
(* lines 123 to 129).                                                      *)
TaskIsHandled ==
  \A t \in Task : beats[t] # None => handle = t /\ beats[t] \in healthy

\* The agent lists s, and its process does not take it for healthy.
Orphan(s) == s \in listed /\ s \notin healthy

(* An orphan that has its check leaves the agent by way of TTL and         *)
(* deregister_critical_service_after, unless it is registered again or its *)
(* check taken away: what an aborted task had sent does not keep it alive. *)
CheckedOrphanLeaves ==
  \A s \in Service :
    (Orphan(s) /\ check[s] # "none") ~> (~Orphan(s) \/ check[s] = "none")

--------------------------------------------------------------------------
(* The inductive invariant behind them.                                    *)

\* A registering call is about a healthy instance; once a deregistering one
\* has stopped the task, none beats for its instance.
CallInv ==
  \A s \in Service :
    /\ pc[s] \in {"add", "start"} => s \in healthy
    /\ pc[s] \in {"check", "remove"} => \A t \in Task : beats[t] # s

IInv == TypeOK /\ CallInv /\ TaskIsHandled
==========================================================================
