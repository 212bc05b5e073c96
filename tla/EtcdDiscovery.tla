-------------------------- MODULE EtcdDiscovery --------------------------
(***************************************************************************)
(* hestia/etcd/discovery.go: GetServices, its cache and the goroutines     *)
(* that watch etcd and refresh the cache.                                  *)
(*                                                                         *)
(* One etcdDiscovery object, called from several goroutines.  A call that  *)
(* misses the cache reads etcd, fills the cache and starts a watcher, each *)
(* in a step of its own; a watcher reads the whole prefix again for every  *)
(* event it is sent and then overwrites the cache.  etcd is external: a    *)
(* set of listed instances that changes at any time.                       *)
(***************************************************************************)
EXTENDS Naturals, FiniteSets

CONSTANTS
  Instance,    \* instances that may be listed in etcd
  NameOf,      \* NameOf[i]: the service name of i
  VersionOf,   \* VersionOf[i]: its version
  Selectable,  \* the instances whose entry decodes and says Healthy
  Name,        \* the names callers ask for
  Version,     \* the versions instances have
  AnyVersion,  \* the empty version: no distinction of versions
  Asked,       \* the versions callers ask for, AnyVersion among them or not
  Caller,      \* goroutines that call GetServices
  MaxWatchers, \* bound on the watch goroutines that ever start
  MaxChanges,  \* bound on the changes of the listing
  None         \* no list cached, no list read

ASSUME InstanceAssumption ==
         /\ NameOf \in [Instance -> Name]
         /\ VersionOf \in [Instance -> Version]
         /\ Selectable \subseteq Instance
         /\ Asked \subseteq Version \cup {AnyVersion}
         /\ MaxChanges \in Nat /\ MaxWatchers \in Nat
         /\ IsFiniteSet(Caller)
         /\ None \notin Name /\ \A S \in SUBSET Instance : S # None

VARIABLES
  enabled,   \* whether the discovery was built WithEnableWatched
  listed,    \* etcd: the instances that have a key
  changes,   \* how many times the listing changed
  cache,     \* serviceList: the cached list of a name, or None
  call,      \* the GetServices calls, with what they returned
  watch,     \* the watch goroutines, with the events they were sent
  doubt      \* history: what happened to the cache of a name since a watcher
             \* refreshed it last: a fill, a failed reload, a closed watch

vars == <<enabled, listed, changes, cache, call, watch, doubt>>

Watcher == 1..MaxWatchers    \* the watch goroutines, in the order they start

Returned == {"idle", "ok", "notfound", "error"}
List == SUBSET Instance
CallRecord == [pc : Returned \cup {"fetch", "fill"}, name : Name \cup {None},
               version : Asked \cup {None}, got : List]
WatchRecord == [state : {"free", "starting", "open", "applying", "closed"},
                name : Name \cup {None}, version : Asked \cup {None},
                events : 0..MaxChanges, got : List]

TypeOK ==
  /\ enabled \in BOOLEAN
  /\ listed \in List
  /\ changes \in 0..MaxChanges
  /\ cache \in [Name -> {None} \cup List]
  /\ call \in [Caller -> CallRecord]
  /\ watch \in [Watcher -> WatchRecord]
  /\ doubt \in [Name -> {"none", "filled", "failed", "closed"}]

Init ==
  /\ enabled \in BOOLEAN
  /\ listed \in List
  /\ changes = 0
  /\ cache = [n \in Name |-> None]
  /\ call = [c \in Caller |->
       [pc |-> "idle", name |-> None, version |-> None, got |-> {}]]
  /\ watch = [w \in Watcher |-> [state |-> "free", name |-> None,
       version |-> None, events |-> 0, got |-> {}]]
  /\ doubt = [n \in Name |-> "none"]

\* The key of i is under discoveryKey(n, v).
InPrefix(i, n, v) == NameOf[i] = n /\ v \in {AnyVersion, VersionOf[i]}

\* What getServicesByName returns when etcd holds the keys of S.
Select(S, n, v) == {i \in S \cap Selectable : InPrefix(i, n, v)}

\* go e.watch(...): the next goroutine starts.
StartWatch(n, v) ==
  \E w \in Watcher :
    /\ watch[w].state = "free"
    /\ \A u \in Watcher : u < w => watch[u].state # "free"
    /\ watch' = [watch EXCEPT ![w].state = "starting", ![w].name = n,
                   ![w].version = v]

--------------------------------------------------------------------------
(* GetServices                                                             *)

\* Only a discovery that watches looks into the cache, and it looks by name.
Lookup(c, n, v) ==
  /\ call[c].pc \in Returned
  /\ LET hit == enabled /\ cache[n] # None
     IN  call' = [call EXCEPT ![c] =
           [pc |-> IF hit THEN "ok" ELSE "fetch", name |-> n, version |-> v,
            got |-> IF hit THEN cache[n] ELSE {}]]
  /\ UNCHANGED <<enabled, listed, changes, cache, watch, doubt>>

Fetch(c) ==
  /\ call[c].pc = "fetch"
  /\ LET got == Select(listed, call[c].name, call[c].version)
     IN  call' = [call EXCEPT ![c].pc = IF got = {} THEN "notfound" ELSE "fill",
                              ![c].got = got]
  /\ UNCHANGED <<enabled, listed, changes, cache, watch, doubt>>

FetchFails(c) ==
  /\ call[c].pc = "fetch"
  /\ call' = [call EXCEPT ![c].pc = "error"]
  /\ UNCHANGED <<enabled, listed, changes, cache, watch, doubt>>

\* Defect: a watcher is started only for a list of more than one instance.
FillWatchingManyOnly(c) ==
  LET n == call[c].name
  IN  /\ call[c].pc = "fill"
      /\ cache' = [cache EXCEPT ![n] = call[c].got]
      /\ doubt' = [doubt EXCEPT ![n] = "filled"]
      /\ call' = [call EXCEPT ![c].pc = "ok"]
      /\ IF enabled /\ Cardinality(call[c].got) > 1
         THEN StartWatch(n, call[c].version)
         ELSE UNCHANGED watch
      /\ UNCHANGED <<enabled, listed, changes>>

\* The list read before is cached, whatever happened since, and a watcher
\* goroutine is created, whether or not the name has one already.
Fill(c) ==
  LET n == call[c].name
  IN  /\ call[c].pc = "fill"
      /\ cache' = [cache EXCEPT ![n] = call[c].got]
      /\ doubt' = [doubt EXCEPT ![n] = "filled"]
      /\ call' = [call EXCEPT ![c].pc = "ok"]
      /\ IF enabled
         THEN StartWatch(n, call[c].version)
         ELSE UNCHANGED watch
      /\ UNCHANGED <<enabled, listed, changes>>

--------------------------------------------------------------------------
(* watchWithCallback, with the callback of watch                           *)

\* Watch takes effect at etcd: events are sent from here on, none earlier.
OpenWatch(w) ==
  /\ watch[w].state = "starting"
  /\ watch' = [watch EXCEPT ![w].state = "open"]
  /\ UNCHANGED <<enabled, listed, changes, cache, call, doubt>>

\* Defect: a reload counts an event off whether or not there is one.
ReloadAtAnyTime(w) ==
  /\ watch[w].state = "open"
  /\ watch' = [watch EXCEPT ![w].state = "applying", ![w].events = @ - 1,
                 ![w].got = Select(listed, watch[w].name, watch[w].version)]
  /\ UNCHANGED <<enabled, listed, changes, cache, call, doubt>>

Reload(w) ==
  /\ watch[w].state = "open"
  /\ watch[w].events > 0
  /\ watch' = [watch EXCEPT ![w].state = "applying", ![w].events = @ - 1,
                 ![w].got = Select(listed, watch[w].name, watch[w].version)]
  /\ UNCHANGED <<enabled, listed, changes, cache, call, doubt>>

\* The error is logged, and the event is not handled again.
ReloadFails(w) ==
  /\ watch[w].state = "open"
  /\ watch[w].events > 0
  /\ watch' = [watch EXCEPT ![w].events = @ - 1]
  /\ doubt' = [doubt EXCEPT ![watch[w].name] = "failed"]
  /\ UNCHANGED <<enabled, listed, changes, cache, call>>

\* Defect: an empty list is dropped instead of replacing the cached one.
ApplyUnlessEmpty(w) ==
  LET n == watch[w].name
      got == watch[w].got
  IN  /\ watch[w].state = "applying"
      /\ cache' = [cache EXCEPT ![n] = IF got = {} THEN @ ELSE got]
      /\ doubt' = [doubt EXCEPT ![n] = "none"]
      /\ watch' = [watch EXCEPT ![w].state = "open", ![w].got = {}]
      /\ UNCHANGED <<enabled, listed, changes, call>>

Apply(w) ==
  /\ watch[w].state = "applying"
  /\ cache' = [cache EXCEPT ![watch[w].name] = watch[w].got]
  /\ doubt' = [doubt EXCEPT ![watch[w].name] = "none"]
  /\ watch' = [watch EXCEPT ![w].state = "open", ![w].got = {}]
  /\ UNCHANGED <<enabled, listed, changes, call>>

\* The watch channel is closed: the goroutine ends and is not replaced.
WatchCloses(w) ==
  /\ watch[w].state \in {"starting", "open"}
  /\ watch' = [watch EXCEPT ![w].state = "closed", ![w].events = 0]
  /\ doubt' = [doubt EXCEPT ![watch[w].name] = "closed"]
  /\ UNCHANGED <<enabled, listed, changes, cache, call>>

--------------------------------------------------------------------------
(* etcd                                                                    *)

\* Defect: the event of a change during a reload is lost.
NotifiedWhenIdle(i) ==
  [w \in Watcher |->
     IF /\ watch[w].state = "open"
        /\ InPrefix(i, watch[w].name, watch[w].version)
     THEN [watch[w] EXCEPT !.events = @ + 1] ELSE watch[w]]

\* The watchers after etcd sent them the event of the key of i.
Notified(i) ==
  [w \in Watcher |->
     IF /\ watch[w].state \in {"open", "applying"}
        /\ InPrefix(i, watch[w].name, watch[w].version)
     THEN [watch[w] EXCEPT !.events = @ + 1] ELSE watch[w]]

\* A registry puts the key of i (again), or the key is deleted or expires.
Change(i) ==
  /\ changes < MaxChanges
  /\ changes' = changes + 1
  /\ \/ listed' = listed \cup {i}
     \/ i \in listed /\ listed' = listed \ {i}
  /\ watch' = Notified(i)
  /\ UNCHANGED <<enabled, cache, call, doubt>>

GetServicesStep(c) ==
  \/ \E n \in Name, v \in Asked : Lookup(c, n, v)
  \/ Fetch(c) \/ FetchFails(c) \/ Fill(c)

WatchStep(w) ==
  OpenWatch(w) \/ Reload(w) \/ ReloadFails(w) \/ Apply(w) \/ WatchCloses(w)

Next == \/ \E c \in Caller : GetServicesStep(c)
        \/ \E w \in Watcher : WatchStep(w)
        \/ \E i \in Instance : Change(i)

Spec == Init /\ [][Next]_vars

\* A watch goroutine goes on while it has something to do.  Nobody has to
\* call, etcd need not change, reads may fail and watches may close.
FairSpec == Spec /\ \A w \in Watcher :
                      WF_vars(OpenWatch(w) \/ Reload(w) \/ Apply(w))

--------------------------------------------------------------------------
(* Properties                                                              *)

\* The goroutines that were started for n, and those whose loop has not ended.
Started(n) == {w \in Watcher : watch[w].name = n}
Watching(n) == {w \in Started(n) : watch[w].state # "closed"}

\* No watcher of n has an event left to handle.
Quiet(n) == \A w \in Watching(n) :
              watch[w].events = 0 /\ watch[w].state # "applying"

(* A cached list is what etcd holds, for the version of one of the open    *)
(* watchers, whenever the watchers of the name have nothing left to do,    *)
(* and the cache was refreshed since its latest fill, failed reload or     *)
(* closed watch: several watchers of a name, each reading and overwriting  *)
(* in two steps (watchWithCallback, lines 140 to 148), leave no older list *)
(* behind.                                                                 *)
QuietCacheIsFresh ==
  \A n \in Name :
    (cache[n] # None /\ doubt[n] = "none" /\ Quiet(n))
      => \E w \in Watching(n) : /\ watch[w].state = "open"
                                /\ cache[n] = Select(listed, n, watch[w].version)

(* A cached list is used for ever, so a goroutine watches for its changes: *)
(* one whose loop has not ended, unless a watch channel of the name closed *)
(* after the latest fill, reload or failed reload.  That goroutine ends    *)
(* and nothing starts another (lines 80 and 140), so that the list may be  *)
(* left with none.  Concurrent misses start several for a name, but over   *)
(* all time never more than there are callers.                             *)
CachedIsWatched ==
  \A n \in Name :
    /\ (enabled /\ cache[n] # None /\ doubt[n] # "closed") => Watching(n) # {}
    /\ Cardinality(Started(n)) <= Cardinality(Caller)

(* A change that a watcher was told of reaches the cache, unless its       *)
(* reload fails or the watch is closed: it is not lost between the reload  *)
(* of one event and the next, nor among several watchers and late fills.   *)
EventsReachCache ==
  \A w \in Watcher, n \in Name :
    (watch[w].name = n /\ watch[w].events > 0)
      ~> \/ cache[n] = Select(listed, n, watch[w].version)
         \/ doubt[n] \in {"failed", "closed"}

(* hestia/readme.md:31: services are registered and discovered by version, *)
(* so a caller is given no instance of a version it did not ask for.       *)
VersionIsolation ==
  \A c \in Caller : call[c].pc = "ok" =>
    \A i \in call[c].got : InPrefix(i, call[c].name, call[c].version)

(* hestia/readme.md:266: with watching enabled the cached list is          *)
(* refreshed in real time, so that once the listing no longer changes it   *)
(* does not stay wrong for ever, unless a reload failed or a watch closed. *)
CacheCatchesUp ==
  \A n \in Name :
    (enabled /\ cache[n] # None)
      ~> \/ \E w \in Watching(n) : cache[n] = Select(listed, n, watch[w].version)
         \/ doubt[n] \in {"failed", "closed"}

--------------------------------------------------------------------------
(* The inductive invariant behind the safety properties.                   *)

\* What a call is about, and how many events a watcher can have been sent.
CallInv ==
  /\ \A c \in Caller : call[c].pc \in {"fetch", "fill"} => call[c].name \in Name
  /\ \A w \in Watcher : watch[w].events <= changes

\* A list that is about to be cached is older than etcd only when there is an
\* event for the difference.
ReloadInv ==
  \A w \in Watcher :
    (watch[w].state = "applying" /\ watch[w].events = 0)
      => watch[w].got = Select(listed, watch[w].name, watch[w].version)

\* The watcher that refreshed the cache last still has its watch, and an event
\* for whatever the cache does not show.
RefreshInv ==
  \A n \in Name :
    (cache[n] # None /\ doubt[n] = "none")
      => \E w \in Watching(n) :
           /\ watch[w].state \in {"open", "applying"}
           /\ (watch[w].state = "open" /\ watch[w].events = 0)
                => cache[n] = Select(listed, n, watch[w].version)

\* The callers on the way to a fill of n.
Filling(n) == {c \in Caller : call[c].pc \in {"fetch", "fill"} /\ call[c].name = n}

\* From the first fill of n on no caller joins those on the way, and each of
\* them starts at most one watcher.
WatcherInv ==
  /\ \A w \in Watcher : watch[w].state = "free" <=> watch[w].name = None
  /\ \A n \in Name :
       IF enabled /\ cache[n] # None
       THEN /\ Started(n) # {}
            /\ Cardinality(Started(n)) + Cardinality(Filling(n)) <= Cardinality(Caller)
       ELSE Started(n) = {}

\* The goroutine of the latest fill, reload or failed reload is still there.
LiveInv ==
  \A n \in Name :
    (enabled /\ cache[n] # None /\ doubt[n] # "closed") => Watching(n) # {}

IInv == TypeOK /\ CallInv /\ ReloadInv /\ RefreshInv /\ WatcherInv /\ LiveInv
==========================================================================
