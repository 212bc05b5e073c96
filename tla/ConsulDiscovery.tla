------------------------- MODULE ConsulDiscovery -------------------------
(***************************************************************************)
(* hestia/consul/discovery.go: GetServices, its cache, and the goroutines  *)
(* that refresh the cache by polling.                                      *)
(*                                                                         *)
(* Callers run concurrently on one consulDiscovery.  A call that misses    *)
(* the cache asks Consul, fills the cache and, when watching is enabled,   *)
(* starts a goroutine that asks again at every tick and overwrites the     *)
(* cache, for ever.  Consul is external: the set of passing instances,     *)
(* which changes at any time.  A poll that fails changes nothing.          *)
(***************************************************************************)
EXTENDS Naturals, FiniteSets

CONSTANTS
  Instance,    \* instances that may be registered and pass their check
  NameOf,      \* NameOf[i]: the service name of i
  VersionOf,   \* VersionOf[i]: the version in its tags
  Prefixed,    \* the instances whose tags have the prefix of the discovery
  Name,        \* the names callers ask for
  Version,     \* the versions instances have
  AnyVersion,  \* the empty version: no tag to match
  Asked,       \* the versions callers ask for
  Caller,      \* goroutines that call GetServices
  MaxPollers,  \* bound on the polling goroutines that ever start
  MaxChanges,  \* bound on the changes of the listing
  None         \* nothing cached

ASSUME DiscoveryAssumption ==
         /\ NameOf \in [Instance -> Name]
         /\ VersionOf \in [Instance -> Version]
         /\ Prefixed \subseteq Instance
         /\ Asked \subseteq Version \cup {AnyVersion}
         /\ MaxChanges \in Nat /\ MaxPollers \in Nat

VARIABLES
  enabled,   \* whether the discovery was built WithEnableWatched
  listed,    \* Consul: the instances that pass their check
  changes,   \* how many times the listing changed
  cache,     \* serviceList: the cached list of a name, or None
  call,      \* the GetServices calls, with what they returned
  poller     \* the goroutines of watch

store == <<listed, changes>>
vars == <<enabled, listed, changes, cache, call, poller>>

Poller == 1..MaxPollers    \* the goroutines, in the order they start

Returned == {"idle", "ok", "notfound", "error"}
List == SUBSET Instance
CallRecord == [pc : Returned \cup {"fetch", "fill"}, name : Name \cup {None},
               version : Asked \cup {None}, got : List]
PollRecord == [state : {"free", "waiting", "storing"}, name : Name \cup {None},
               version : Asked \cup {None}, got : List]

TypeOK ==
  /\ enabled \in BOOLEAN
  /\ listed \in List
  /\ changes \in 0..MaxChanges
  /\ cache \in [Name -> {None} \cup List]
  /\ call \in [Caller -> CallRecord]
  /\ poller \in [Poller -> PollRecord]

Init ==
  /\ enabled \in BOOLEAN
  /\ listed \in List
  /\ changes = 0
  /\ cache = [n \in Name |-> None]
  /\ call = [c \in Caller |->
       [pc |-> "idle", name |-> None, version |-> None, got |-> {}]]
  /\ poller = [p \in Poller |->
       [state |-> "free", name |-> None, version |-> None, got |-> {}]]

\* What getServicesByName returns when Consul holds the instances of S.
Select(S, n, v) ==
  {i \in S \cap Prefixed : NameOf[i] = n /\ v \in {AnyVersion, VersionOf[i]}}

\* go d.watch(...), under a context nobody cancels.
StartPoller(n, v) ==
  \E p \in Poller :
    /\ poller[p].state = "free"
    /\ \A q \in Poller : q < p => poller[q].state # "free"
    /\ poller' = [poller EXCEPT ![p].state = "waiting", ![p].name = n,
                    ![p].version = v]

--------------------------------------------------------------------------
(* GetServices                                                             *)

\* Only a discovery that watches looks into the map, and it looks by name.
Lookup(c, n, v) ==
  /\ call[c].pc \in Returned
  /\ LET hit == enabled /\ cache[n] # None
     IN  call' = [call EXCEPT ![c] =
           [pc |-> IF hit THEN "ok" ELSE "fetch", name |-> n, version |-> v,
            got |-> IF hit THEN cache[n] ELSE {}]]
  /\ UNCHANGED <<enabled, store, cache, poller>>

Fetch(c) ==
  /\ call[c].pc = "fetch"
  /\ LET got == Select(listed, call[c].name, call[c].version)
     IN  call' = [call EXCEPT ![c].pc = IF got = {} THEN "notfound" ELSE "fill",
                              ![c].got = got]
  /\ UNCHANGED <<enabled, store, cache, poller>>

\* Defect: the error is not looked at, and an entry that is nil is kept.
FetchFailsUnseen(c) ==
  /\ call[c].pc = "fetch"
  /\ call' = [call EXCEPT ![c].pc = "fill", ![c].got = {None}]
  /\ UNCHANGED <<enabled, store, cache, poller>>

FetchFails(c) ==
  /\ call[c].pc = "fetch"
  /\ call' = [call EXCEPT ![c].pc = "error"]
  /\ UNCHANGED <<enabled, store, cache, poller>>

\* The list read before is stored, whatever happened since; every call that
\* missed starts a goroutine.
Fill(c) ==
  LET n == call[c].name
  IN  /\ call[c].pc = "fill"
      /\ cache' = [cache EXCEPT ![n] = call[c].got]
      /\ call' = [call EXCEPT ![c].pc = "ok"]
      /\ IF enabled
         THEN StartPoller(n, call[c].version)
         ELSE UNCHANGED poller
      /\ UNCHANGED <<enabled, store>>

--------------------------------------------------------------------------
(* watchWithCallback, with the callback of watch                           *)

\* The first poll, or that of a tick.
Poll(p) ==
  /\ poller[p].state = "waiting"
  /\ poller' = [poller EXCEPT ![p].state = "storing",
                  ![p].got = Select(listed, poller[p].name, poller[p].version)]
  /\ UNCHANGED <<enabled, store, cache, call>>

\* Defect: an empty list is dropped instead of replacing the cached one.
StoreUnlessEmpty(p) ==
  LET n == poller[p].name
  IN  /\ poller[p].state = "storing"
      /\ cache' = [cache EXCEPT ![n] =
                     IF poller[p].got = {} THEN @ ELSE poller[p].got]
      /\ poller' = [poller EXCEPT ![p].state = "waiting", ![p].got = {}]
      /\ UNCHANGED <<enabled, store, call>>

Store(p) ==
  /\ poller[p].state = "storing"
  /\ cache' = [cache EXCEPT ![poller[p].name] = poller[p].got]
  /\ poller' = [poller EXCEPT ![p].state = "waiting", ![p].got = {}]
  /\ UNCHANGED <<enabled, store, call>>

--------------------------------------------------------------------------
(* Consul                                                                  *)

\* An instance passes its check, or is critical or gone.
Change(i) ==
  /\ changes < MaxChanges
  /\ changes' = changes + 1
  /\ listed' = IF i \in listed THEN listed \ {i} ELSE listed \cup {i}
  /\ UNCHANGED <<enabled, cache, call, poller>>

\* The call of c goes on.
CallStep(c) == Fetch(c) \/ FetchFails(c) \/ Fill(c)

PollStep(p) == Poll(p) \/ Store(p)

Next == \/ \E c \in Caller : \/ \E n \in Name, v \in Asked : Lookup(c, n, v)
                             \/ CallStep(c)
        \/ \E p \in Poller : PollStep(p)
        \/ \E i \in Instance : Change(i)

Spec == Init /\ [][Next]_vars

--------------------------------------------------------------------------
(* Properties                                                              *)

Polling(n) == {p \in Poller : poller[p].name = n}

(* Once Consul stops changing, the map holds for ever what Consul holds,   *)
(* for the version of one of the goroutines of the name: neither a fill    *)
(* from an older read nor several goroutines leave an older list behind    *)
(* (watchWithCallback polls, so that no missed change can).                *)
CacheSettles ==
  \A n \in Name :
    <>[](enabled /\ cache[n] # None =>
           \E p \in Polling(n) : cache[n] = Select(listed, n, poller[p].version))
--------------------------------------------------------------------------
(* The inductive invariant                                                 *)

\* A call that was made, and a goroutine that was started, know what they ask.
CallInv ==
  \A c \in Caller :
    call[c].pc # "idle" => call[c].name \in Name /\ call[c].version \in Asked

PollInv ==
  \A p \in Poller :
    poller[p].state # "free" =>
      poller[p].name \in Name /\ poller[p].version \in Asked

\* All that an answer may hold: the instances of the service that was asked
\* for, of its version too unless the answer may come from the cache, which
\* is kept by the name alone.
Answer(n, v) == Select(Instance, n, IF enabled THEN AnyVersion ELSE v)

ListInv ==
  /\ \A n \in Name : cache[n] # None => cache[n] \subseteq Select(Instance, n, AnyVersion)
  /\ \A c \in Caller :
       call[c].pc \in {"ok", "fill"} =>
         call[c].got \subseteq Answer(call[c].name, call[c].version)
  /\ \A p \in Poller :
       poller[p].state = "storing" =>
         poller[p].got \subseteq Select(Instance, poller[p].name, AnyVersion)

IInv == TypeOK /\ CallInv /\ PollInv /\ ListInv
==========================================================================
