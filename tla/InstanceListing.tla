------------------------- MODULE InstanceListing -------------------------
(***************************************************************************)
(* What the etcd registry promises to whoever reads the store: the life of *)
(* a listed service instance.  An instance is absent, lapsing (listed, but *)
(* nobody renews it, so that it disappears after the lease TTL) or renewed *)
(* by a registry.  An absent instance never becomes renewed in one step:   *)
(* it is always listed first.  A registry renews at most one instance, and *)
(* gives up the one it renewed when it starts to renew another.            *)
(***************************************************************************)

CONSTANTS Service,    \* the service instances, one store key each
          Registry    \* the registry objects that may renew them

VARIABLE listing      \* listing[s] : "absent", "lapsing" or a registry

Status == {"absent", "lapsing"} \cup Registry

ListingType == listing \in [Service -> Status]

Init == listing = [s \in Service |-> "absent"]

\* The listing after registry r stopped renewing whatever it renewed.
Released(r) == [s \in Service |-> IF listing[s] = r THEN "lapsing" ELSE listing[s]]

\* s is written again: it is listed under a lease nobody renews yet.
List(s) == listing' = [listing EXCEPT ![s] = "lapsing"]

Renew(r, s) == /\ listing[s] = "lapsing"
               /\ listing' = [Released(r) EXCEPT ![s] = r]

Stop(r) == listing' = Released(r)

\* r withdraws s, and stops renewing.
Withdraw(r, s) == listing' = [Released(r) EXCEPT ![s] = "absent"]

\* s lapses, or a delete that was delayed on its way to the store arrives.
Remove(s) == listing' = [listing EXCEPT ![s] = "absent"]

Next == \/ \E s \in Service : List(s) \/ Remove(s)
        \/ \E r \in Registry : Stop(r)
        \/ \E r \in Registry, s \in Service : Renew(r, s) \/ Withdraw(r, s)

Spec == Init /\ [][Next]_listing
==========================================================================
