-------------------------- MODULE GrpcConnections --------------------------
(***************************************************************************)
(* micro/gclient/client.go and micro/bridge/client.go: who keeps track of  *)
(* the gRPC connections a program opens, so that they are closed.          *)
(*                                                                         *)
(* gclient has one table for the program, by target and behind a mutex.    *)
(* A bridge client has a map of services, by name, filled by NewClient     *)
(* from a list of entries.  Callers have the connections, too, and may     *)
(* close them directly; grpc.ClientConn is external, and its Close fails   *)
(* only when the connection is closed already.                             *)
(***************************************************************************)
EXTENDS Naturals, Sequences

CONSTANTS Conn,      \* bounds the connections that are ever opened
          Target,    \* the targets of InitGRPCClient
          Service,   \* the names of bridge services
          Bad,       \* an entry without a name or target, or of a bad target
          MaxEntries, \* bound on the entries of a bridge configuration
          None       \* no connection

\* What is assumed of the constants (SideBySide has it evaluated).
ConnAssumption == None \notin Conn /\ Bad \notin Service /\ MaxEntries \in Nat

VARIABLES
  conn,      \* the connections: not opened, open, closed
  table,     \* gRPCConnections: the connection of a target, or None
  handed,    \* handed[c]: the target c is to be registered for, or None
  tracked,   \* history: the connections the table took, and not refused
  entries,   \* the bridge configuration, from the entry NewClient is at
  services,  \* services: the connection of a name, or None
  client     \* the bridge client: being made, failed, in use, closed

gclient == <<table, handed, tracked>>
bridge == <<entries, services, client>>
vars == <<conn, gclient, bridge>>

TypeOK ==
  /\ conn \in [Conn -> {"new", "open", "closed"}]
  /\ table \in [Target -> Conn \cup {None}]
  /\ handed \in [Conn -> Target \cup {None}]
  /\ tracked \in SUBSET Conn
  /\ entries \in UNION {[1..n -> Service \cup {Bad}] : n \in 0..MaxEntries}
  /\ services \in [Service -> Conn \cup {None}]
  /\ client \in {"making", "failed", "made", "closed"}

Init ==
  /\ conn = [c \in Conn |-> "new"]
  /\ table = [t \in Target |-> None]
  /\ handed = [c \in Conn |-> None]
  /\ tracked = {}
  /\ entries \in UNION {[1..n -> Service \cup {Bad}] : n \in 0..MaxEntries}
  /\ services = [s \in Service |-> None]
  /\ client = "making"

Opened(c) == conn[c] = "new" /\ conn' = [conn EXCEPT ![c] = "open"]

\* The connections after Close was called for those of C.
Closed(C) == [c \in Conn |-> IF c \in C THEN "closed" ELSE conn[c]]

--------------------------------------------------------------------------
(* gclient                                                                 *)

\* grpc.NewClient of InitGRPCClient, or of a caller.
NewConn(c, t) ==
  /\ Opened(c)
  /\ handed' = [handed EXCEPT ![c] = t]
  /\ UNCHANGED <<table, tracked, bridge>>

\* A caller registers a connection it has, perhaps for another target.
Hand(c, t) ==
  /\ conn[c] = "open" /\ handed[c] = None
  /\ handed' = [handed EXCEPT ![c] = t]
  /\ UNCHANGED <<conn, table, tracked, bridge>>

\* Defect: a new connection takes the place of the registered one.
RegisterLatest(c) ==
  LET t == handed[c]
  IN  /\ t # None
      /\ table' = [table EXCEPT ![t] = c]
      /\ tracked' = tracked \cup {c}
      /\ handed' = [handed EXCEPT ![c] = None]
      /\ UNCHANGED <<conn, bridge>>

\* A second connection for a target is not recorded: its caller is not told.
RegisterGRPCConnections(c) ==
  LET t == handed[c]
  IN  /\ t # None
      /\ IF table[t] = None
         THEN table' = [table EXCEPT ![t] = c] /\ tracked' = tracked \cup {c}
         ELSE UNCHANGED <<table, tracked>>
      /\ handed' = [handed EXCEPT ![c] = None]
      /\ UNCHANGED <<conn, bridge>>

\* An entry whose connection was closed directly stays: Close fails for it.
CloseTarget(t) ==
  /\ table[t] # None
  /\ conn' = Closed({table[t]})
  /\ table' = [table EXCEPT ![t] = IF conn[table[t]] = "open" THEN None ELSE @]
  /\ UNCHANGED <<handed, tracked, bridge>>

\* Errors are logged, and every entry is deleted.
CloseGRPCConnections ==
  /\ conn' = Closed({table[t] : t \in Target})
  /\ table' = [t \in Target |-> None]
  /\ UNCHANGED <<handed, tracked, bridge>>

\* A caller closes the connection it has.
CloseDirectly(c) ==
  /\ conn[c] = "open"
  /\ conn' = Closed({c})
  /\ UNCHANGED <<gclient, bridge>>

--------------------------------------------------------------------------
(* bridge                                                                  *)

\* A bad entry ends NewClient; what it opened before stays open, and unknown.
EntryFails ==
  /\ client = "making"
  /\ entries # <<>> /\ Head(entries) = Bad
  /\ client' = "failed"
  /\ UNCHANGED <<conn, gclient, entries, services>>

\* newService opens a connection; a repeated name replaces the service.
NewService(c) ==
  /\ client = "making"
  /\ entries # <<>> /\ Head(entries) # Bad
  /\ Opened(c)
  /\ services' = [services EXCEPT ![Head(entries)] = c]
  /\ entries' = Tail(entries)
  /\ UNCHANGED <<gclient, client>>

NewClientReturns ==
  /\ client = "making"
  /\ entries = <<>>
  /\ client' = "made"
  /\ UNCHANGED <<conn, gclient, entries, services>>

\* Every service is closed, those after one that fails as well.  The map
\* stays: a second Close only reports the errors.
CloseClient ==
  /\ client \in {"made", "closed"}
  /\ client' = "closed"
  /\ conn' = Closed({services[s] : s \in Service})
  /\ UNCHANGED <<gclient, entries, services>>

Next ==
  \/ \E c \in Conn : \/ \E t \in Target : NewConn(c, t) \/ Hand(c, t)
                     \/ RegisterGRPCConnections(c) \/ CloseDirectly(c)
                     \/ NewService(c)
  \/ \E t \in Target : CloseTarget(t)
  \/ CloseGRPCConnections
  \/ EntryFails \/ NewClientReturns \/ CloseClient

Spec == Init /\ [][Next]_vars

--------------------------------------------------------------------------
(* Properties                                                              *)

\* The connections of the services of the bridge client.
Bridged == {services[s] : s \in Service} \ {None}

(* No open connection is forgotten: one that the table took is still in    *)
(* it, whatever failed and in whatever order targets are registered and    *)
(* closed, so that CloseGRPCConnections closes it; and once the bridge     *)
(* client is closed none of its services is open.  Forgotten are only the  *)
(* connections gclient refused (lines 33 to 37), those that a service of   *)
(* the same name replaced, and those of a NewClient that failed.           *)
OpenConnectionsAreKnown ==
  /\ \A c \in tracked : conn[c] = "open" => \E t \in Target : table[t] = c
  /\ client = "closed" => \A c \in Bridged : conn[c] = "closed"

--------------------------------------------------------------------------
(* The inductive invariant behind it.                                       *)

\* What is handed over or tracked was opened, so that what was closed stays
\* closed.
OpenedInv ==
  \A c \in Conn : handed[c] # None \/ c \in tracked => conn[c] # "new"

IInv == TypeOK /\ OpenedInv /\ OpenConnectionsAreKnown
===========================================================================
