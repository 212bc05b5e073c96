-------------------------- MODULE RustEtcdRegistry --------------------------
(***************************************************************************)
(* rs-hestia/src/etcd/registry.rs: one EtcdRegistry object, shared by the  *)
(* tasks of a process.                                                     *)
(*                                                                         *)
(* register and deregister borrow the service mutably: the calls on one    *)
(* instance are sequential, those on different instances run together.     *)
(* Between two awaits a call may stand still for any time, and its caller  *)
(* may drop the future there (a timeout, a select).  The keepalive task    *)
(* of the registry is behind a mutex; no call awaits while it holds it.    *)
(* etcd is external, as in EtcdRegistry.                                   *)
(***************************************************************************)
EXTENDS Naturals, FiniteSets

CONSTANTS Service,    \* service instances: one key (register_key) each
          Lease,      \* the lease IDs etcd may grant: bounds the grants
          Owner,      \* the registry, as the renewing party of a listing
          None        \* no lease, no task

\* What is assumed of the constants (SideBySide has it evaluated).
NoneAssumption ==
  None \notin Lease /\ Owner \notin {"absent", "lapsing"}

VARIABLES
  kv,        \* etcd: the lease the key of an instance is attached to, or None
  lease,     \* etcd: the state of every lease
  pending,   \* requests nobody waits for, which etcd may still get
  keepalive, \* the leases whose keepalive task runs
  handle,    \* keepalive_handle: the lease of the task it is for, or None
  healthy,   \* the instances whose struct says healthy
  pc,        \* where the call on an instance is
  held       \* the lease granted to the register call on an instance

etcd == <<kv, lease, pending>>
vars == <<kv, lease, pending, keepalive, handle, healthy, pc, held>>

Request == [svc : Service, lease : Lease \cup {None}]   \* None: a delete

TypeOK ==
  /\ kv \in [Service -> Lease \cup {None}]
  /\ lease \in [Lease -> {"free", "live", "expired"}]
  /\ pending \in SUBSET Request
  /\ keepalive \in SUBSET Lease
  /\ handle \in Lease \cup {None}
  /\ healthy \in SUBSET Service
  /\ pc \in [Service -> {"idle", "grant", "put", "start", "delete", "stop"}]
  /\ held \in [Service -> Lease \cup {None}]

Init ==
  /\ kv = [s \in Service |-> None]
  /\ lease = [l \in Lease |-> "free"]
  /\ pending = {}
  /\ keepalive = {}
  /\ handle = None
  /\ healthy = {}
  /\ pc = [s \in Service |-> "idle"]
  /\ held = [s \in Service |-> None]

Goto(s, p) == pc' = [pc EXCEPT ![s] = p]

\* The call on s returns, or its future is dropped.
Return(s) == Goto(s, "idle") /\ held' = [held EXCEPT ![s] = None]

--------------------------------------------------------------------------
(* register                                                                *)

\* An address that does not resolve is an error before this point.
BeginRegister(s) ==
  /\ pc[s] = "idle"
  /\ healthy' = healthy \cup {s}
  /\ Goto(s, "grant")
  /\ UNCHANGED <<etcd, keepalive, handle, held>>

\* Defect: the renewal starts as soon as the lease is granted.
GrantAndRenew(s, l) ==
  /\ pc[s] = "grant"
  /\ lease[l] = "free"
  /\ lease' = [lease EXCEPT ![l] = "live"]
  /\ held' = [held EXCEPT ![s] = l]
  /\ keepalive' = (keepalive \ {handle}) \cup {l}
  /\ handle' = l
  /\ Goto(s, "put")
  /\ UNCHANGED <<kv, pending, healthy>>

GrantLease(s, l) ==
  /\ pc[s] = "grant"
  /\ lease[l] = "free"
  /\ lease' = [lease EXCEPT ![l] = "live"]
  /\ held' = [held EXCEPT ![s] = l]
  /\ Goto(s, "put")
  /\ UNCHANGED <<kv, pending, keepalive, handle, healthy>>

RegisterService(s) ==
  /\ pc[s] = "put"
  /\ lease[held[s]] = "live"
  /\ kv' = [kv EXCEPT ![s] = held[s]]
  /\ Goto(s, "start")
  /\ UNCHANGED <<lease, pending, keepalive, handle, healthy, held>>

\* Under the lock the previous task, whatever instance it is for, is aborted
\* and the new one spawned; register returns before that has reached etcd.
StartKeepalive(s) ==
  /\ pc[s] = "start"
  /\ keepalive' = (keepalive \ {handle}) \cup {held[s]}
  /\ handle' = held[s]
  /\ Return(s)
  /\ UNCHANGED <<etcd, healthy>>

--------------------------------------------------------------------------
(* deregister                                                              *)

BeginDeregister(s) ==
  /\ pc[s] = "idle"
  /\ Goto(s, "delete")
  /\ UNCHANGED <<etcd, keepalive, handle, healthy, held>>

Delete(s) ==
  /\ pc[s] = "delete"
  /\ kv' = [kv EXCEPT ![s] = None]
  /\ Goto(s, "stop")
  /\ UNCHANGED <<lease, pending, keepalive, handle, healthy, held>>

\* Under the lock the latest task, whatever instance it is for, is aborted.
StopKeepalive(s) ==
  /\ pc[s] = "stop"
  /\ keepalive' = keepalive \ {handle}
  /\ handle' = None
  /\ healthy' = healthy \ {s}
  /\ Return(s)
  /\ UNCHANGED etcd

--------------------------------------------------------------------------
(* What may go wrong                                                       *)

\* The call on s ends at an await: a request fails or times out, or the
\* caller drops the future.  A request on its way may still arrive.
GiveUp(s) ==
  /\ pc[s] # "idle"
  /\ \/ UNCHANGED pending
     \/ /\ pc[s] \in {"put", "delete"}
        /\ pending' = pending \cup {[svc |-> s, lease |-> held[s]]}
  /\ Return(s)
  /\ UNCHANGED <<kv, lease, keepalive, handle, healthy>>

\* The task finds no stream, or the stream ends: it ends, not replaced.
KeepaliveEnds(l) ==
  /\ l \in keepalive
  /\ keepalive' = keepalive \ {l}
  /\ UNCHANGED <<etcd, handle, healthy, pc, held>>

\* The process dies and starts again, with requests on their way.
Crash ==
  /\ pending' \in {pending, pending \cup {[svc |-> s, lease |-> held[s]] :
                                            s \in {t \in Service :
                                                     pc[t] \in {"put", "delete"}}}}
  /\ keepalive' = {}
  /\ handle' = None
  /\ healthy' = {}
  /\ pc' = [s \in Service |-> "idle"]
  /\ held' = [s \in Service |-> None]
  /\ UNCHANGED <<kv, lease>>

\* A lease reaches its TTL, and its keys go with it: nobody renews it, or no
\* renewal came through in time.  The task then gets an answer that says so
\* (a TTL of zero), takes it for any other, and goes on.
Expire(l) ==
  /\ lease[l] = "live"
  /\ lease' = [lease EXCEPT ![l] = "expired"]
  /\ kv' = [s \in Service |-> IF kv[s] = l THEN None ELSE kv[s]]
  /\ UNCHANGED <<pending, keepalive, handle, healthy, pc, held>>

\* A delayed request arrives; etcd refuses a put under an expired lease.
ArrivesLate(q) ==
  /\ q \in pending
  /\ pending' = pending \ {q}
  /\ q.lease # None => lease[q.lease] = "live"
  /\ kv' = [kv EXCEPT ![q.svc] = q.lease]
  /\ UNCHANGED <<lease, keepalive, handle, healthy, pc, held>>

Step(s) ==
  \/ BeginRegister(s) \/ RegisterService(s) \/ StartKeepalive(s)
  \/ \E l \in Lease : GrantLease(s, l)
  \/ BeginDeregister(s) \/ Delete(s) \/ StopKeepalive(s) \/ GiveUp(s)

Next == \/ \E s \in Service : Step(s)
        \/ \E l \in Lease : KeepaliveEnds(l) \/ Expire(l)
        \/ \E q \in pending : ArrivesLate(q)
        \/ Crash

\* etcd expires the leases nobody renews; nothing else is fair.
Fairness == \A l \in Lease : WF_vars(l \notin keepalive /\ Expire(l))

Spec == Init /\ [][Next]_vars /\ Fairness

--------------------------------------------------------------------------
(* Properties                                                              *)

(* A keepalive task that runs is the one of the handle, so that the next   *)
(* call on any instance can abort it: neither calls that run together nor  *)
(* futures dropped between the put and the lock (register, lines 57 to 74) *)
(* leave a task behind that nothing can stop.                              *)
TaskIsHandled == keepalive \subseteq {handle}

(* A key whose lease has a task is that of an instance whose struct says   *)
(* healthy, also while calls on other instances replace the task.          *)
RenewedIsHealthy == \A s \in Service : kv[s] \in keepalive => s \in healthy

Listing == [s \in Service |->
              IF kv[s] = None THEN "absent"
              ELSE IF kv[s] \in keepalive THEN Owner ELSE "lapsing"]

Abstract == INSTANCE InstanceListing WITH Registry <- {Owner}, listing <- Listing

(* The Rust registry implements the life of a listed instance that the Go  *)
(* registry does, with concurrent and dropped calls: listed before it is   *)
(* renewed, and one instance renewed at a time.                            *)
ImplementsListing == Abstract!Spec

--------------------------------------------------------------------------
(* The inductive invariant behind them.                                    *)

\* A call holds a lease between the grant and its return, and is then about
\* an instance that is marked healthy.
CallInv ==
  \A s \in Service : /\ held[s] # None <=> pc[s] \in {"put", "start"}
                     /\ pc[s] \in {"grant", "put", "start"} => s \in healthy

\* The lease a call holds is not renewed yet, and nobody else's.
HeldInv ==
  \A s \in Service : held[s] # None =>
    /\ lease[held[s]] # "free"
    /\ held[s] \notin keepalive
    /\ \A t \in Service : held[t] = held[s] \/ kv[t] = held[s] => t = s
    /\ \A q \in pending : q.lease # held[s]

\* Nor is that of a put that may still arrive.
PendingInv ==
  \A q \in pending : q.lease # None =>
    /\ lease[q.lease] # "free"
    /\ q.lease \notin keepalive
    /\ \A t \in Service : kv[t] = q.lease => t = q.svc
    /\ \A p \in pending : p.lease = q.lease => p = q

\* A key has a lease of its own, which was granted.
LeaseInv ==
  /\ \A s \in Service : kv[s] # None =>
       lease[kv[s]] # "free" /\ \A t \in Service : kv[t] = kv[s] => t = s
  /\ \A l \in keepalive : lease[l] # "free"

IInv == /\ TypeOK /\ CallInv /\ HeldInv /\ PendingInv /\ LeaseInv
        /\ TaskIsHandled /\ RenewedIsHealthy
==========================================================================
