----------------------------- MODULE SideBySide -----------------------------
(***************************************************************************)
(* The parts of a program that share no state with each other or with the  *)
(* other modules, explored one at a time in the same run: a behaviour is   *)
(* one of the part it chose at the start, and the others rest.  As none of *)
(* them calls another, what holds for each alone holds for all together.   *)
(***************************************************************************)
EXTENDS EtcdResolver

CONSTANTS Service, Lease, Owner, Task, MaxPending,        \* the Rust registries
          Conn, Target, Bad, MaxEntries,                  \* gRPC connections
          Key, Pointer, KeyOf, MaxWrites, Faulty,         \* settings
          Core, Root, Writer, RootCap, MaxCap             \* the Sentry core

VARIABLES
  part,                                                   \* the part explored
  kv, lease, etcdPending, keepalive, etcdHandle, etcdHealthy, etcdPc, held,
  consulListed, check, consulPending, beats, consulHandle, consulHealthy, consulPc,
  conn, table, handed, tracked, entries, services, client,
  file, loaded, watcher, events, reload, sections, value, read, crashed, outcome,
  raced,
  heap, core, write, scopes, sent, overlaps

RustEtcd == INSTANCE RustEtcdRegistry
              WITH pending <- etcdPending, handle <- etcdHandle,
                   healthy <- etcdHealthy, pc <- etcdPc
RustConsul == INSTANCE RustConsulRegistry
                WITH listed <- consulListed, pending <- consulPending,
                     handle <- consulHandle, healthy <- consulHealthy,
                     pc <- consulPc
Connections == INSTANCE GrpcConnections
Sections == INSTANCE Settings
Sentry == INSTANCE SentryCore

ASSUME PartsAssumption ==
         /\ RustEtcd!NoneAssumption /\ RustConsul!NoneAssumption
         /\ Connections!ConnAssumption /\ Sections!SettingsAssumption
         /\ Sentry!CoreAssumption

rustEtcd == <<kv, lease, etcdPending, keepalive, etcdHandle, etcdHealthy, etcdPc, held>>
rustConsul == <<consulListed, check, consulPending, beats, consulHandle,
                consulHealthy, consulPc>>
connections == <<conn, table, handed, tracked, entries, services, client>>
settings == <<file, loaded, watcher, events, reload, sections, value, read,
              crashed, outcome, raced>>
sentry == <<heap, core, write, scopes, sent, overlaps>>
partVars == <<part, allVars, rustEtcd, rustConsul, connections, settings, sentry>>

Part == {"resolver", "rust etcd", "rust consul", "connections", "settings", "sentry"}

PartsTypeOK ==
  /\ part \in Part
  /\ ResolverTypeOK /\ RustEtcd!TypeOK /\ RustConsul!TypeOK
  /\ Connections!TypeOK /\ Sections!TypeOK /\ Sentry!TypeOK

\* A part that rests does so in one of its initial states.
PartsInit ==
  /\ part \in Part
  /\ ResolverInit
  /\ RustEtcd!Init /\ RustConsul!Init /\ Connections!Init /\ Sections!Init
  /\ Sentry!Init
  /\ part # "resolver" => ~wrapped /\ ~enabled /\ listed = {}
  /\ part # "connections" => entries = <<>>
  /\ part # "settings" => watcher = "none"

PartsNext ==
  \/ /\ part = "resolver" /\ ResolverNext
     /\ UNCHANGED <<part, rustEtcd, rustConsul, connections, settings, sentry>>
  \/ /\ part = "rust etcd" /\ RustEtcd!Next
     /\ UNCHANGED <<part, allVars, rustConsul, connections, settings, sentry>>
  \/ /\ part = "rust consul" /\ RustConsul!Next
     /\ UNCHANGED <<part, allVars, rustEtcd, connections, settings, sentry>>
  \/ /\ part = "connections" /\ Connections!Next
     /\ UNCHANGED <<part, allVars, rustEtcd, rustConsul, settings, sentry>>
  \/ /\ part = "settings" /\ Sections!Next
     /\ UNCHANGED <<part, allVars, rustEtcd, rustConsul, connections, sentry>>
  \/ /\ part = "sentry" /\ Sentry!Next
     /\ UNCHANGED <<part, allVars, rustEtcd, rustConsul, connections, settings>>

\* Nothing of a part that rests is ever enabled.
PartsSpec == /\ PartsInit /\ [][PartsNext]_partVars
             /\ ResolverFairness /\ RustEtcd!Fairness /\ RustConsul!Fairness

--------------------------------------------------------------------------
(* Properties: those of the parts, under one name each                     *)

(* In both Rust registries the keepalive task that runs is the one of the  *)
(* handle, and serves what its struct says is healthy, although calls on   *)
(* several instances run together, fail, and are dropped at an await.      *)
TasksAreHandled ==
  /\ RustEtcd!TaskIsHandled /\ RustEtcd!RenewedIsHealthy
  /\ RustConsul!TaskIsHandled

(* The Rust etcd registry implements the abstract life of a listing.       *)
ImplementsListing == RustEtcd!ImplementsListing

(* What the Rust Consul registry leaves behind with a check goes, although *)
(* reports of aborted tasks and requests given up on arrive late.          *)
CheckedOrphanLeaves == RustConsul!CheckedOrphanLeaves

(* An open connection is in the table of gclient, or of a service of a     *)
(* bridge client that is not closed, but for those nobody could close: the *)
(* second of a target that gclient handed out (client.go:34), a service    *)
(* replaced by one of the same name, and what a NewClient that failed had  *)
(* dialled (bridge/client.go:56).                                          *)
OpenConnectionsAreKnown == Connections!OpenConnectionsAreKnown

(* When nothing is left to be read or decoded, a registered section holds  *)
(* what the file says, after a reload that went through: but for a section *)
(* that is gone from the file, one that was registered while a reload ran, *)
(* and a write that came before the watcher's callback was set.            *)
QuietSectionsAreFresh == Sections!QuietSectionsAreFresh

(* A logger keeps the fields it inherited, and its events carry its own    *)
(* fields, while no two Writes of the hub overlap.                         *)
FieldsStayWithTheirLogger == Sentry!FieldsStayWithTheirLogger
=============================================================================
