--------------------------- MODULE RustDiscovery ---------------------------
(***************************************************************************)
(* rs-hestia/src/etcd/discovery.rs and rs-hestia/src/consul/discovery.rs:  *)
(* get_services, its cache and the tasks that watch.                       *)
(*                                                                         *)
(* get_services is the same text for both backends.  They differ in        *)
(* watch_with_callback.  With etcd a task reloads the list for each event  *)
(* and then stores it in the cache itself, whoever owns the watch, before  *)
(* it calls back; the callback of the discovery's own watch does nothing.  *)
(* With Consul a task polls for ever and only calls back; the callback of  *)
(* the discovery's own watch spawns a task for each list, which stores it. *)
(* Spawned tasks run in any order.                                         *)
(***************************************************************************)
EXTENDS Naturals, FiniteSets, Sequences

CONSTANTS
  Instance,    \* instances that may be listed
  NameOf,      \* NameOf[i]: the service name of i
  VersionOf,   \* VersionOf[i]: its version
  Selectable,  \* those whose entry decodes, says healthy, has the prefix tag
  Name,        \* the names callers ask for
  Version,     \* the versions instances have
  AnyVersion,  \* the empty version: no distinction of versions
  Asked,       \* the versions callers ask for
  Caller,      \* tasks that call get_services; each may own a watch
  MaxWatchers, \* bound on the watch tasks that ever start
  MaxJobs,     \* bound on the spawned tasks of a watch that have not run
  MaxChanges,  \* bound on the changes of the listing
  None         \* no list cached, nothing asked; the discovery as owner

ASSUME InstanceAssumption ==
         /\ NameOf \in [Instance -> Name]
         /\ VersionOf \in [Instance -> Version]
         /\ Selectable \subseteq Instance
         /\ Asked \subseteq Version \cup {AnyVersion}
         /\ MaxChanges \in Nat /\ MaxWatchers \in Nat /\ MaxJobs \in Nat \ {0}
         /\ None \notin Name /\ None \notin Caller
         /\ \A S \in SUBSET Instance : S # None

VARIABLES
  backend,   \* "etcd" or "consul"
  enabled,   \* not disable_watch
  listed,    \* the backend: the instances that are registered
  changes,   \* how many times the listing changed
  cache,     \* service_list: the cached list of a name, or None
  call,      \* the get_services calls, with what they returned
  watch,     \* the watch tasks, with their events and spawned tasks
  doubt      \* history: why the cached list of a name may be old

vars == <<backend, enabled, listed, changes, cache, call, watch, doubt>>

Watcher == 1..MaxWatchers    \* the watch tasks, in the order they start

Returned == {"idle", "ok", "notfound", "error"}
List == SUBSET Instance
CallRecord == [pc : Returned \cup {"fetch", "fill"}, name : Name \cup {None},
               version : Asked \cup {None}, got : List]

\* A spawned task: its list, and whether a later event was handled before it.
Job == [list : List, late : BOOLEAN]
Jobs == UNION {[1..n -> Job] : n \in 0..MaxJobs}
WatchRecord == [state : {"free", "starting", "open", "applying", "ended"},
                owner : Caller \cup {None}, name : Name \cup {None},
                version : Asked \cup {None}, events : 0..MaxChanges,
                got : List, jobs : Jobs]

TypeOK ==
  /\ backend \in {"etcd", "consul"}
  /\ enabled \in BOOLEAN
  /\ listed \in List
  /\ changes \in 0..MaxChanges
  /\ cache \in [Name -> {None} \cup List]
  /\ call \in [Caller -> CallRecord]
  /\ watch \in [Watcher -> WatchRecord]
  /\ doubt \in [Name -> {"none", "filled", "failed", "ended"}]

Init ==
  /\ backend \in {"etcd", "consul"}
  /\ enabled \in BOOLEAN
  /\ listed \in List
  /\ changes = 0
  /\ cache = [n \in Name |-> None]
  /\ call = [c \in Caller |->
       [pc |-> "idle", name |-> None, version |-> None, got |-> {}]]
  /\ watch = [w \in Watcher |->
       [state |-> "free", owner |-> None, name |-> None, version |-> None,
        events |-> 0, got |-> {}, jobs |-> <<>>]]
  /\ doubt = [n \in Name |-> "none"]

\* The key of i is under discovery_key(n, v), or i has n and the tag of v.
Matches(i, n, v) == NameOf[i] = n /\ v \in {AnyVersion, VersionOf[i]}

\* What get_services_by_name returns when the instances of S are registered.
Select(S, n, v) == {i \in S \cap Selectable : Matches(i, n, v)}

\* tokio::spawn of watch_with_callback: the next task starts.
StartWatch(owner, n, v) ==
  \E w \in Watcher :
    /\ watch[w].state = "free"
    /\ \A u \in Watcher : u < w => watch[u].state # "free"
    /\ watch' = [watch EXCEPT ![w].owner = owner, ![w].name = n, ![w].version = v,
                   ![w].state = IF backend = "etcd" THEN "starting" ELSE "open"]

--------------------------------------------------------------------------
(* get_services                                                            *)

\* Only a discovery that watches looks into the cache, and it looks by name.
Lookup(c, n, v) ==
  /\ call[c].pc \in Returned
  /\ LET hit == enabled /\ cache[n] # None
     IN  call' = [call EXCEPT ![c] =
           [pc |-> IF hit THEN "ok" ELSE "fetch", name |-> n, version |-> v,
            got |-> IF hit THEN cache[n] ELSE {}]]
  /\ UNCHANGED <<backend, enabled, listed, changes, cache, watch, doubt>>

Fetch(c) ==
  /\ call[c].pc = "fetch"
  /\ LET got == Select(listed, call[c].name, call[c].version)
     IN  call' = [call EXCEPT ![c].got = got,
           ![c].pc = IF got = {} THEN "notfound"
                     ELSE IF enabled THEN "fill" ELSE "ok"]
  /\ UNCHANGED <<backend, enabled, listed, changes, cache, watch, doubt>>

FetchFails(c) ==
  /\ call[c].pc = "fetch"
  /\ call' = [call EXCEPT ![c].pc = "error"]
  /\ UNCHANGED <<backend, enabled, listed, changes, cache, watch, doubt>>

\* Under the write lock the list is cached and a watch task is spawned.
Fill(c) ==
  LET n == call[c].name
  IN  /\ call[c].pc = "fill"
      /\ cache' = [cache EXCEPT ![n] = call[c].got]
      /\ doubt' = [doubt EXCEPT ![n] = "filled"]
      /\ call' = [call EXCEPT ![c].pc = "ok"]
      /\ StartWatch(None, n, call[c].version)
      /\ UNCHANGED <<backend, enabled, listed, changes>>

--------------------------------------------------------------------------
(* watch_with_callback with etcd                                           *)

\* The watch takes effect: events are sent from here on, none earlier.
OpenWatch(w) ==
  /\ watch[w].state = "starting"
  /\ watch' = [watch EXCEPT ![w].state = "open"]
  /\ UNCHANGED <<backend, enabled, listed, changes, cache, call, doubt>>

\* Defect: a reload counts an event off whether or not there is one.
ReloadAtAnyTime(w) ==
  /\ watch[w].state = "open"
  /\ watch' = [watch EXCEPT ![w].state = "applying", ![w].events = @ - 1,
                 ![w].got = Select(listed, watch[w].name, watch[w].version)]
  /\ UNCHANGED <<backend, enabled, listed, changes, cache, call, doubt>>

Reload(w) ==
  /\ watch[w].state = "open"
  /\ watch[w].events > 0
  /\ watch' = [watch EXCEPT ![w].state = "applying", ![w].events = @ - 1,
                 ![w].got = Select(listed, watch[w].name, watch[w].version)]
  /\ UNCHANGED <<backend, enabled, listed, changes, cache, call, doubt>>

\* The error is logged, and the event is not handled again: not by the
\* spawned tasks of earlier events either.
ReloadFails(w) ==
  /\ watch[w].state = "open"
  /\ watch[w].events > 0
  /\ watch' = [watch EXCEPT ![w].events = @ - 1,
                 ![w].jobs = [j \in DOMAIN @ |-> [@[j] EXCEPT !.late = TRUE]]]
  /\ doubt' = [doubt EXCEPT ![watch[w].name] = "failed"]
  /\ UNCHANGED <<backend, enabled, listed, changes, cache, call>>

\* Under the write lock the list is cached, and the callback is called: that
\* of a resolver's watch spawns a task.
Apply(w) ==
  /\ watch[w].state = "applying"
  /\ Len(watch[w].jobs) < MaxJobs
  /\ cache' = [cache EXCEPT ![watch[w].name] = watch[w].got]
  /\ doubt' = [doubt EXCEPT ![watch[w].name] = "none"]
  /\ watch' = [watch EXCEPT ![w].state = "open", ![w].got = {},
                 ![w].jobs = IF watch[w].owner = None THEN @
                             ELSE Append(@, [list |-> watch[w].got,
                                             late |-> FALSE])]
  /\ UNCHANGED <<backend, enabled, listed, changes, call>>

\* The watch is refused, or its stream ends: the task ends, not replaced.
WatchEnds(w) ==
  /\ backend = "etcd"
  /\ watch[w].state \in {"starting", "open"}
  /\ watch' = [watch EXCEPT ![w].state = "ended", ![w].events = 0]
  /\ doubt' = [doubt EXCEPT ![watch[w].name] = "ended"]
  /\ UNCHANGED <<backend, enabled, listed, changes, cache, call>>

--------------------------------------------------------------------------
(* watch_with_callback with Consul, and the tasks callbacks spawn          *)

\* A poll that fails changes nothing.  The callback only spawns a task.
Poll(w) ==
  /\ backend = "consul"
  /\ watch[w].state = "open"
  /\ Len(watch[w].jobs) < MaxJobs
  /\ watch' = [watch EXCEPT ![w].jobs = Append(@,
       [list |-> Select(listed, watch[w].name, watch[w].version),
        late |-> FALSE])]
  /\ UNCHANGED <<backend, enabled, listed, changes, cache, call, doubt>>

\* The spawned tasks of w after the k-th ran: the older ones are late.
AfterJob(w, k) ==
  [watch EXCEPT ![w].jobs =
     [j \in 1..(Len(@) - 1) |-> IF j < k THEN [@[j] EXCEPT !.late = TRUE]
                                ELSE @[j + 1]]]

\* Defect: an empty list is not stored.
StoreUnlessEmpty(w, k) ==
  LET list == watch[w].jobs[k].list
      n == watch[w].name
  IN  /\ watch[w].owner = None
      /\ cache' = [cache EXCEPT ![n] = IF list = {} THEN @ ELSE list]
      /\ watch' = AfterJob(w, k)
      /\ UNCHANGED <<backend, enabled, listed, changes, call, doubt>>

\* The task of the discovery's own Consul watch stores its list.
Store(w, k) ==
  /\ watch[w].owner = None
  /\ cache' = [cache EXCEPT ![watch[w].name] = watch[w].jobs[k].list]
  /\ watch' = AfterJob(w, k)
  /\ UNCHANGED <<backend, enabled, listed, changes, call, doubt>>

--------------------------------------------------------------------------
(* etcd or Consul, and all together                                        *)

\* Defect: the event of a change during a reload is lost.
NotifiedWhenIdle(i) ==
  [w \in Watcher |->
     IF /\ backend = "etcd"
        /\ watch[w].state = "open"
        /\ Matches(i, watch[w].name, watch[w].version)
     THEN [watch[w] EXCEPT !.events = @ + 1] ELSE watch[w]]

\* etcd sends each watch that is open the event of the key of i.
Notified(i) ==
  [w \in Watcher |->
     IF /\ backend = "etcd"
        /\ watch[w].state \in {"open", "applying"}
        /\ Matches(i, watch[w].name, watch[w].version)
     THEN [watch[w] EXCEPT !.events = @ + 1] ELSE watch[w]]

\* A registry registers i (again), or i is deregistered or expires.
Change(i) ==
  /\ changes < MaxChanges
  /\ changes' = changes + 1
  /\ \/ listed' = listed \cup {i}
     \/ i \in listed /\ listed' = listed \ {i}
  /\ watch' = Notified(i)
  /\ UNCHANGED <<backend, enabled, cache, call, doubt>>

CallStep(c) == Fetch(c) \/ FetchFails(c) \/ Fill(c)

WatchStep(w) ==
  \/ OpenWatch(w) \/ Reload(w) \/ ReloadFails(w) \/ Apply(w) \/ WatchEnds(w)
  \/ Poll(w)
  \/ \E k \in DOMAIN watch[w].jobs : Store(w, k)

--------------------------------------------------------------------------
(* Properties                                                              *)

Watching(n) == {w \in Watcher : watch[w].name = n}

Quiet(w) == watch[w].events = 0 /\ watch[w].state # "applying"

(* With etcd a cached list is what etcd holds for the version of one of    *)
(* the open watches, the discovery's own or that of a resolver, whenever   *)
(* they have nothing left to do and the cache was refreshed since its      *)
(* latest fill, failed reload or ended watch: storing under the lock, in   *)
(* the watch task and not in its callback, keeps older lists behind.       *)
QuietCacheIsFresh ==
  \A n \in Name :
    (/\ backend = "etcd" /\ cache[n] # None /\ doubt[n] = "none"
     /\ \A w \in Watching(n) : Quiet(w))
      => \E w \in Watching(n) : /\ watch[w].state = "open"
                                /\ cache[n] = Select(listed, n, watch[w].version)

(* With Consul a cached list settles on what Consul holds for the version  *)
(* of some watch of the name, although each list is stored by a task of    *)
(* its own and an older one may be stored last: the polls put it right.    *)
CacheSettles ==
  backend = "consul" =>
    \A n \in Name :
      <>[](cache[n] # None =>
             \E w \in Watching(n) : cache[n] = Select(listed, n, watch[w].version))

--------------------------------------------------------------------------
(* The inductive invariant behind QuietCacheIsFresh.                       *)

\* A call that began has a name and a version.
CallInv ==
  \A c \in Caller : call[c].pc # "idle" =>
    call[c].name \in Name /\ call[c].version \in Asked

\* A watch has them too, from its start; no event comes before it is open,
\* and the callback of the discovery's own etcd watch spawns nothing.
WatchInv ==
  \A w \in Watcher :
    /\ IF watch[w].state = "free"
       THEN watch[w].owner = None /\ watch[w].name = None
       ELSE watch[w].name \in Name /\ watch[w].version \in Asked
    /\ watch[w].state \in {"free", "starting"} =>
         watch[w].events = 0 /\ watch[w].jobs = <<>>
    /\ watch[w].events <= changes
    /\ backend = "etcd" /\ watch[w].owner = None => watch[w].jobs = <<>>

\* The list of a reload is what etcd holds unless an event came after it.
ReloadInv ==
  \A w \in Watcher :
    (/\ backend = "etcd"
     /\ watch[w].state = "applying" /\ watch[w].events = 0)
      => watch[w].got = Select(listed, watch[w].name, watch[w].version)

\* A list in the cache was stored by a watch that has more to do, or is what
\* etcd holds for its version.
RefreshInv ==
  \A n \in Name :
    (backend = "etcd" /\ cache[n] # None /\ doubt[n] = "none")
      => \E w \in Watching(n) :
           /\ watch[w].state \in {"open", "applying"}
           /\ Quiet(w) => cache[n] = Select(listed, n, watch[w].version)

DiscoveryInv == TypeOK /\ CallInv /\ WatchInv /\ ReloadInv /\ RefreshInv
==========================================================================
