-------------------------- MODULE EtcdRegistry --------------------------
(***************************************************************************)
(* hestia/etcd/registry.go: registries that publish service instances in   *)
(* etcd under a lease and renew the lease from a goroutine.                *)
(*                                                                         *)
(* A registry is one etcdRegistry object, in a process of its own.  Its    *)
(* calls are sequential, every remote call is a step of its own that may   *)
(* fail or time out, and a request whose caller gave up may still reach    *)
(* etcd later.  A process may crash at any point and start again.  etcd    *)
(* itself is external: a map from keys to leases, and the leases.          *)
(***************************************************************************)
EXTENDS Naturals, FiniteSets

CONSTANTS Registry,   \* the etcdRegistry objects
          Service,    \* service instances: one key (registerKey) each
          Serves,     \* Serves[r]: the instances the process of r handles
          Lease,      \* the lease IDs etcd may grant: bounds the Grant calls
          None        \* nil: no lease, no instance, no goroutine

ASSUME ServesAssumption == Serves \in [Registry -> SUBSET Service]
ASSUME NoneAssumption ==
         /\ None \notin Registry \cup Service \cup Lease
         /\ "absent" \notin Registry /\ "lapsing" \notin Registry

VARIABLES
  kv,        \* etcd: kv[s] is the lease the key of s is attached to, or None
  lease,     \* etcd: the state of every lease
  pending,   \* requests given up by their caller, which etcd may still get
  renewer,   \* renewer[l]: the registry whose goroutine renews l, or None
  cancel,    \* cancel[r]: the lease whose renewal keepaliveCancel stops
  healthy,   \* healthy[r]: the instances whose struct says Healthy
  pc,        \* where the call of r is
  arg,       \* the instance the call of r is about
  held       \* the lease granted to the Register call of r

store == <<kv, lease, pending>>
local == <<cancel, healthy, pc, arg, held>>
vars == <<kv, lease, pending, renewer, cancel, healthy, pc, arg, held>>

PutRequest == [kind : {"put"}, svc : Service, lease : Lease]
DeleteRequest == [kind : {"delete"}, svc : Service, lease : {None}]

TypeOK ==
  /\ kv \in [Service -> Lease \cup {None}]
  /\ lease \in [Lease -> {"free", "live", "expired"}]
  /\ pending \in SUBSET (PutRequest \cup DeleteRequest)
  /\ renewer \in [Lease -> Registry \cup {None}]
  /\ cancel \in [Registry -> Lease \cup {None}]
  /\ healthy \in [Registry -> SUBSET Service]
  /\ pc \in [Registry -> {"idle", "grant", "put", "keepalive", "delete"}]
  /\ arg \in [Registry -> Service \cup {None}]
  /\ held \in [Registry -> Lease \cup {None}]

Init ==
  /\ kv = [s \in Service |-> None]
  /\ lease = [l \in Lease |-> "free"]
  /\ pending = {}
  /\ renewer = [l \in Lease |-> None]
  /\ cancel = [r \in Registry |-> None]
  /\ healthy = [r \in Registry |-> {}]
  /\ pc = [r \in Registry |-> "idle"]
  /\ arg = [r \in Registry |-> None]
  /\ held = [r \in Registry |-> None]

--------------------------------------------------------------------------
(* The parts the actions are built from.                                   *)

\* The call of r goes on at p.
Goto(r, p) == pc' = [pc EXCEPT ![r] = p]

\* The call of r returns, with or without an error.
Return(r) == /\ Goto(r, "idle")
             /\ arg' = [arg EXCEPT ![r] = None]
             /\ held' = [held EXCEPT ![r] = None]

\* r calls its keepaliveCancel: the goroutine that renews cancel[r] ends.
Cancelled(r) ==
  [l \in Lease |-> IF l = cancel[r] /\ renewer[l] = r THEN None ELSE renewer[l]]

\* Defect: the put names the lease of the previous registration.
RequestUnderOldLease(r) ==
  [kind |-> IF pc[r] = "put" THEN "put" ELSE "delete",
   svc |-> arg[r], lease |-> cancel[r]]

\* The request the call of r has on its way to etcd.
Request(r) ==
  IF pc[r] = "put" THEN [kind |-> "put", svc |-> arg[r], lease |-> held[r]]
                   ELSE [kind |-> "delete", svc |-> arg[r], lease |-> None]

\* A request whose caller gives up is lost, or is still on its way.
GiveUp(r) == \/ UNCHANGED pending
             \/ pending' = pending \cup {Request(r)}

--------------------------------------------------------------------------
(* Register                                                                *)

\* Register sets Healthy before it asks etcd for anything.
BeginRegister(r, s) ==
  /\ pc[r] = "idle"
  /\ s \in Serves[r]
  /\ healthy' = [healthy EXCEPT ![r] = @ \cup {s}]
  /\ arg' = [arg EXCEPT ![r] = s]
  /\ Goto(r, "grant")
  /\ UNCHANGED <<store, renewer, cancel, held>>

\* Defect: the renewal starts as soon as the lease is granted.
GrantAndRenew(r, l) ==
  /\ pc[r] = "grant"
  /\ lease[l] = "free"
  /\ lease' = [lease EXCEPT ![l] = "live"]
  /\ held' = [held EXCEPT ![r] = l]
  /\ renewer' = [Cancelled(r) EXCEPT ![l] = r]
  /\ cancel' = [cancel EXCEPT ![r] = l]
  /\ Goto(r, "put")
  /\ UNCHANGED <<kv, pending, healthy, arg>>

GrantLease(r, l) ==
  /\ pc[r] = "grant"
  /\ lease[l] = "free"
  /\ lease' = [lease EXCEPT ![l] = "live"]
  /\ held' = [held EXCEPT ![r] = l]
  /\ Goto(r, "put")
  /\ UNCHANGED <<kv, pending, renewer, cancel, healthy, arg>>

GrantFails(r) ==
  /\ pc[r] = "grant"
  /\ Return(r)
  /\ UNCHANGED <<store, renewer, cancel, healthy>>

\* The key is attached to the new lease, away from the lease it was on.
Put(r) ==
  /\ pc[r] = "put"
  /\ lease[held[r]] = "live"
  /\ kv' = [kv EXCEPT ![arg[r]] = held[r]]
  /\ Goto(r, "keepalive")
  /\ UNCHANGED <<lease, pending, renewer, cancel, healthy, arg, held>>

PutFails(r) ==
  /\ pc[r] = "put"
  /\ GiveUp(r)
  /\ Return(r)
  /\ UNCHANGED <<kv, lease, renewer, cancel, healthy>>

\* Defect: the previous renewal is left running.
StartAnotherKeepalive(r) ==
  /\ pc[r] = "keepalive"
  /\ renewer' = [renewer EXCEPT ![held[r]] = r]
  /\ cancel' = [cancel EXCEPT ![r] = held[r]]
  /\ Return(r)
  /\ UNCHANGED <<store, healthy>>

\* The previous renewal of r, whatever instance it is for, is cancelled, and
\* the goroutine of the new lease is started.
StartKeepalive(r) ==
  /\ pc[r] = "keepalive"
  /\ renewer' = [Cancelled(r) EXCEPT ![held[r]] = r]
  /\ cancel' = [cancel EXCEPT ![r] = held[r]]
  /\ Return(r)
  /\ UNCHANGED <<store, healthy>>

\* KeepAlive returns an error: the previous renewal is gone all the same.
KeepaliveFails(r) ==
  /\ pc[r] = "keepalive"
  /\ renewer' = Cancelled(r)
  /\ cancel' = [cancel EXCEPT ![r] = held[r]]
  /\ Return(r)
  /\ UNCHANGED <<store, healthy>>

--------------------------------------------------------------------------
(* Deregister                                                              *)

BeginDeregister(r, s) ==
  /\ pc[r] = "idle"
  /\ s \in Serves[r]
  /\ arg' = [arg EXCEPT ![r] = s]
  /\ Goto(r, "delete")
  /\ UNCHANGED <<store, renewer, cancel, healthy, held>>

\* Defect: Deregister forgets keepaliveCancel.
DeleteKeepsRenewing(r) ==
  /\ pc[r] = "delete"
  /\ kv' = [kv EXCEPT ![arg[r]] = None]
  /\ healthy' = [healthy EXCEPT ![r] = @ \ {arg[r]}]
  /\ Return(r)
  /\ UNCHANGED <<lease, pending, renewer, cancel>>

\* The key is deleted, the lease is not revoked, and the renewal that is
\* cancelled is the latest one of r, whatever instance it is for.
Delete(r) ==
  /\ pc[r] = "delete"
  /\ kv' = [kv EXCEPT ![arg[r]] = None]
  /\ renewer' = Cancelled(r)
  /\ healthy' = [healthy EXCEPT ![r] = @ \ {arg[r]}]
  /\ Return(r)
  /\ UNCHANGED <<lease, pending, cancel>>

\* Defect: the error of the delete is swallowed.
DeleteFailsUnseen(r) ==
  /\ pc[r] = "delete"
  /\ GiveUp(r)
  /\ healthy' = [healthy EXCEPT ![r] = @ \ {arg[r]}]
  /\ Return(r)
  /\ UNCHANGED <<kv, lease, renewer, cancel>>

\* Deregister returns the error before it cancels anything.
DeleteFails(r) ==
  /\ pc[r] = "delete"
  /\ GiveUp(r)
  /\ Return(r)
  /\ UNCHANGED <<kv, lease, renewer, cancel, healthy>>

--------------------------------------------------------------------------
(* The goroutine, the process and etcd.                                    *)

\* The keepalive channel is closed (heartbeats did not get through): the
\* goroutine ends and nothing registers the instance again.
KeepaliveLost(l) ==
  /\ renewer[l] # None
  /\ renewer' = [renewer EXCEPT ![l] = None]
  /\ UNCHANGED <<store, local>>

\* The process of r dies, with its goroutines, and starts again; the request
\* it had on its way may still arrive.
Crash(r) ==
  /\ IF pc[r] \in {"put", "delete"} THEN GiveUp(r) ELSE UNCHANGED pending
  /\ renewer' = [l \in Lease |-> IF renewer[l] = r THEN None ELSE renewer[l]]
  /\ cancel' = [cancel EXCEPT ![r] = None]
  /\ healthy' = [healthy EXCEPT ![r] = {}]
  /\ Return(r)
  /\ UNCHANGED <<kv, lease>>

\* A lease nobody renews reaches its TTL, and its keys go with it.
Expire(l) ==
  /\ lease[l] = "live"
  /\ renewer[l] = None
  /\ lease' = [lease EXCEPT ![l] = "expired"]
  /\ kv' = [s \in Service |-> IF kv[s] = l THEN None ELSE kv[s]]
  /\ UNCHANGED <<pending, renewer, local>>

\* A delayed request arrives; etcd refuses a put under an expired lease.
ArrivesLate(q) ==
  /\ q \in pending
  /\ pending' = pending \ {q}
  /\ IF q.kind = "put"
     THEN /\ lease[q.lease] = "live"
          /\ kv' = [kv EXCEPT ![q.svc] = q.lease]
     ELSE kv' = [kv EXCEPT ![q.svc] = None]
  /\ UNCHANGED <<lease, renewer, local>>

RegisterStep(r) ==
  \/ \E s \in Service : BeginRegister(r, s)
  \/ \E l \in Lease : GrantLease(r, l)
  \/ GrantFails(r) \/ Put(r) \/ PutFails(r)
  \/ StartKeepalive(r) \/ KeepaliveFails(r)

DeregisterStep(r) ==
  \/ \E s \in Service : BeginDeregister(r, s)
  \/ Delete(r) \/ DeleteFails(r)

Next == \/ \E r \in Registry : RegisterStep(r) \/ DeregisterStep(r) \/ Crash(r)
        \/ \E l \in Lease : KeepaliveLost(l) \/ Expire(l)
        \/ \E q \in pending : ArrivesLate(q)

Spec == Init /\ [][Next]_vars

\* etcd expires the leases nobody renews.  Nothing else is fair: callers need
\* not call, and requests may be lost.
FairSpec == Spec /\ \A l \in Lease : WF_vars(Expire(l))

--------------------------------------------------------------------------
(* Properties                                                              *)

(* A registry runs at most one renewal, and keepaliveCancel stops that one: *)
(* registering again leaves no goroutine behind that nothing can stop      *)
(* (Register, lines 109 to 113).                                           *)
RenewalIsCancellable ==
  \A l \in Lease : renewer[l] # None => cancel[renewer[l]] = l

(* A key whose lease is being renewed belongs to an instance that the      *)
(* renewing registry takes for healthy: nobody keeps a deregistered or     *)
(* half deregistered instance in the store, whatever failed on the way.    *)
RenewedIsHealthy ==
  \A s \in Service :
    (kv[s] # None /\ renewer[kv[s]] # None) => s \in healthy[renewer[kv[s]]]

(* A registry with no instance left to serve renews no lease: after the    *)
(* last successful Deregister no goroutine keeps talking to etcd, although *)
(* Deregister cancels but one renewal and never revokes a lease.           *)
NothingRenewedForNothing ==
  \A l \in Lease : renewer[l] # None => healthy[renewer[l]] # {}

(* No two keys share a lease, so the expiry of an abandoned registration   *)
(* never takes another instance with it: neither a retried Register nor a  *)
(* put that arrives late reuses a lease.                                   *)
OneKeyPerLease ==
  \A s, t \in Service : (kv[s] # None /\ kv[s] = kv[t]) => s = t

(* An instance no registry takes for healthy any more (deregistered, or    *)
(* its process died) leaves the store, unless someone registers it again,  *)
(* even when the put of an abandoned registration arrives after the        *)
(* delete.                                                                 *)
UnhealthyLeavesStore ==
  \A s \in Service :
    (\A r \in Registry : s \notin healthy[r])
      ~> (kv[s] = None \/ \E r \in Registry : s \in healthy[r])

(* hestia/readme.md:741 says that a lease is renewed automatically after a *)
(* successful registration: then a Register call ends no renewal but that  *)
(* of its own instance.                                                    *)
RegisterEndsNoOtherRenewal ==
  [][\A r \in Registry, s \in Service :
       LET l == kv[s]
       IN  (StartKeepalive(r) /\ l # None /\ renewer[l] = r)
             => (arg[r] = s \/ renewer'[l] = r)]_vars

(* What a reader of the store sees of it: the life of a listed instance.   *)
Listing == [s \in Service |->
              IF kv[s] = None THEN "absent"
              ELSE IF renewer[kv[s]] = None THEN "lapsing" ELSE renewer[kv[s]]]

Abstract == INSTANCE InstanceListing WITH listing <- Listing

(* The registry implements that life: an instance is listed before it is   *)
(* renewed, and a registry renews at most one and gives it up for another. *)
(* That what nobody renews goes in the end is UnhealthyLeavesStore.        *)
ImplementsListing == Abstract!Spec

--------------------------------------------------------------------------
(* The inductive invariant behind the safety properties.                   *)

\* A call holds a lease exactly between the grant and its return, and a
\* Register call is about an instance that is already marked Healthy.
CallInv ==
  \A r \in Registry :
    /\ (held[r] # None) <=> (pc[r] \in {"put", "keepalive"})
    /\ pc[r] # "idle" => arg[r] \in Service
    /\ pc[r] \in {"grant", "put", "keepalive"} => arg[r] \in healthy[r]

\* The lease a call holds is nobody else's yet.
HeldInv ==
  \A r \in Registry : held[r] # None =>
    /\ lease[held[r]] # "free"
    /\ renewer[held[r]] = None
    /\ \A q \in Registry : held[q] = held[r] => q = r
    /\ \A s \in Service : kv[s] = held[r] => (pc[r] = "keepalive" /\ s = arg[r])
    /\ \A p \in pending : p.lease # held[r]

\* The lease of a put that may still arrive is never renewed, and is for one
\* instance.
PendingInv ==
  \A p \in pending : p.kind = "put" =>
    /\ lease[p.lease] # "free"
    /\ renewer[p.lease] = None
    /\ \A s \in Service : kv[s] = p.lease => s = p.svc
    /\ \A q \in pending : q.lease = p.lease => q = p

FreeInv ==
  \A l \in Lease : lease[l] = "free" =>
    renewer[l] = None /\ \A s \in Service : kv[s] # l

SafetyInv == /\ RenewalIsCancellable
             /\ RenewedIsHealthy
             /\ NothingRenewedForNothing
             /\ OneKeyPerLease

IInv == TypeOK /\ CallInv /\ HeldInv /\ PendingInv /\ FreeInv /\ SafetyInv
==========================================================================
