------------------------ MODULE EtcdResolverProofs ------------------------
(***************************************************************************)
(* Proofs about EtcdDiscovery, for any instances, names, versions and      *)
(* callers, and any bound on the watchers and on the changes; and about    *)
(* EtcdResolver, for any resolvers: together they are callers of the       *)
(* discovery like any other, and a connection is not left behind.          *)
(***************************************************************************)
EXTENDS EtcdResolver, FiniteSetTheorems, TLAPS

--------------------------------------------------------------------------
(* Types.                                                                  *)

\* The updates of a watcher's record that actions make.
LEMMA WatchRecordUpdates ==
  ASSUME NEW R \in WatchRecord, NEW e \in 0..MaxChanges, NEW g \in List,
         NEW n \in Name \cup {None}, NEW v \in Asked \cup {None},
         NEW p \in {"starting", "open", "applying", "closed"}
  PROVE  /\ [R EXCEPT !.state = p] \in WatchRecord
         /\ [R EXCEPT !.events = e] \in WatchRecord
         /\ [R EXCEPT !.state = p, !.name = n, !.version = v] \in WatchRecord
         /\ [R EXCEPT !.state = p, !.events = e] \in WatchRecord
         /\ [R EXCEPT !.state = p, !.got = g] \in WatchRecord
         /\ [R EXCEPT !.state = p, !.events = e, !.got = g] \in WatchRecord
BY DEF WatchRecord

LEMMA CallRecordUpdates ==
  ASSUME NEW R \in CallRecord, NEW g \in List, NEW p \in Returned \cup {"fetch", "fill"}
  PROVE  /\ [R EXCEPT !.pc = p] \in CallRecord
         /\ [R EXCEPT !.pc = p, !.got = g] \in CallRecord
BY DEF CallRecord

LEMMA SelectType == ASSUME NEW S, NEW n, NEW v PROVE Select(S, n, v) \in List
BY InstanceAssumption DEF Select, List

LEMMA InitTypes == Init => TypeOK /\ CallInv
BY InstanceAssumption
   DEF Init, TypeOK, CallInv, CallRecord, WatchRecord, Returned, List

\* A step keeps the types, and a watcher is sent no more events than there
\* were changes.
LEMMA TypeStep ==
  ASSUME TypeOK, CallInv, [Next]_vars
  PROVE  TypeOK' /\ CallInv'
<1> USE InstanceAssumption DEF TypeOK, CallInv
<1>1. ASSUME NEW c \in Caller, NEW n \in Name, NEW v \in Asked, Lookup(c, n, v)
      PROVE TypeOK' /\ CallInv'
  <2>1. enabled /\ cache[n] # None => cache[n] \in List
    OBVIOUS
  <2> QED
    BY <1>1, <2>1 DEF Lookup, CallRecord, Returned, List
<1>2. ASSUME NEW c \in Caller, Fetch(c) PROVE TypeOK' /\ CallInv'
  <2>1. call' \in [Caller -> CallRecord]
    BY <1>2, SelectType, CallRecordUpdates DEF Fetch, Returned
  <2>2. \A d \in Caller : call'[d].name = call[d].name /\
                          (call'[d].pc = "fill" => call[d].pc \in {"fetch", "fill"})
    BY <1>2 DEF Fetch, CallRecord
  <2> QED
    BY <1>2, <2>1, <2>2 DEF Fetch, CallRecord
<1>3. ASSUME NEW c \in Caller, FetchFails(c) PROVE TypeOK' /\ CallInv'
  <2>1. call' \in [Caller -> CallRecord]
    BY <1>3, CallRecordUpdates DEF FetchFails, Returned
  <2> QED
    BY <1>3, <2>1 DEF FetchFails, CallRecord
<1>4. ASSUME NEW c \in Caller, Fill(c) PROVE TypeOK' /\ CallInv'
  <2>1. call' \in [Caller -> CallRecord]
    BY <1>4, CallRecordUpdates DEF Fill, Returned
  <2>2. call[c].name \in Name /\ call[c].version \in Asked \cup {None} /\
        call[c].got \in List
    BY <1>4 DEF Fill, CallRecord
  <2>3. watch' \in [Watcher -> WatchRecord] /\
        \A w \in Watcher : watch'[w].events = watch[w].events
    <3>1. CASE ~enabled
      BY <1>4, <3>1 DEF Fill
    <3>2. CASE enabled
      <4>1. PICK w \in Watcher :
              watch' = [watch EXCEPT ![w].state = "starting",
                          ![w].name = call[c].name, ![w].version = call[c].version]
        BY <1>4, <3>2 DEF Fill, StartWatch
      <4>2. watch' \in [Watcher -> WatchRecord]
        BY <2>2, <4>1, WatchRecordUpdates
      <4> QED
        BY <4>1, <4>2 DEF WatchRecord
    <3> QED
      BY <3>1, <3>2
  <2> QED
    BY <1>4, <2>1, <2>2, <2>3 DEF Fill, CallRecord
<1>5. ASSUME NEW w \in Watcher, OpenWatch(w) PROVE TypeOK' /\ CallInv'
  <2>1. watch' \in [Watcher -> WatchRecord]
    BY <1>5, WatchRecordUpdates DEF OpenWatch
  <2> QED
    BY <1>5, <2>1 DEF OpenWatch, WatchRecord
<1>6. ASSUME NEW w \in Watcher, Reload(w) PROVE TypeOK' /\ CallInv'
  <2>1. watch[w].events - 1 \in 0..MaxChanges
    BY <1>6 DEF Reload, WatchRecord
  <2>2. watch' \in [Watcher -> WatchRecord]
    BY <1>6, <2>1, SelectType, WatchRecordUpdates DEF Reload
  <2> QED
    BY <1>6, <2>2 DEF Reload, WatchRecord
<1>7. ASSUME NEW w \in Watcher, ReloadFails(w) PROVE TypeOK' /\ CallInv'
  <2>1. watch[w].events - 1 \in 0..MaxChanges
    BY <1>7 DEF ReloadFails, WatchRecord
  <2>2. watch' \in [Watcher -> WatchRecord]
    BY <1>7, <2>1, WatchRecordUpdates DEF ReloadFails
  <2>3. \A u \in Watcher : watch'[u].events \in {watch[u].events, watch[u].events - 1}
    BY <1>7 DEF ReloadFails, WatchRecord
  <2>4. doubt' \in [Name -> {"none", "filled", "failed", "closed"}]
    BY <1>7 DEF ReloadFails
  <2> QED
    BY <1>7, <2>2, <2>3, <2>4 DEF ReloadFails, WatchRecord
<1>8. ASSUME NEW w \in Watcher, Apply(w) PROVE TypeOK' /\ CallInv'
  <2>1. watch' \in [Watcher -> WatchRecord]
    BY <1>8, WatchRecordUpdates DEF Apply, List
  <2>2. watch[w].got \in List
    BY DEF WatchRecord
  <2>3. cache' \in [Name -> {None} \cup List]
    BY <1>8, <2>2 DEF Apply
  <2>4. doubt' \in [Name -> {"none", "filled", "failed", "closed"}]
    BY <1>8 DEF Apply
  <2>5. \A u \in Watcher : watch'[u].events = watch[u].events
    BY <1>8 DEF Apply, WatchRecord
  <2> QED
    BY <1>8, <2>1, <2>3, <2>4, <2>5 DEF Apply
<1>9. ASSUME NEW w \in Watcher, WatchCloses(w) PROVE TypeOK' /\ CallInv'
  <2>1. watch' \in [Watcher -> WatchRecord]
    <3>1. 0 \in 0..MaxChanges
      OBVIOUS
    <3> QED
      BY <1>9, <3>1, WatchRecordUpdates DEF WatchCloses
  <2>2. \A u \in Watcher : watch'[u].events \in {watch[u].events, 0}
    BY <1>9 DEF WatchCloses, WatchRecord
  <2>3. doubt' \in [Name -> {"none", "filled", "failed", "closed"}]
    BY <1>9 DEF WatchCloses
  <2> QED
    BY <1>9, <2>1, <2>2, <2>3 DEF WatchCloses, WatchRecord
<1>10. ASSUME NEW i \in Instance, Change(i) PROVE TypeOK' /\ CallInv'
  <2>1. \A w \in Watcher : watch[w].events + 1 \in 0..MaxChanges
    BY <1>10 DEF Change, WatchRecord
  <2>2. watch' \in [Watcher -> WatchRecord]
    BY <1>10, <2>1, WatchRecordUpdates DEF Change, Notified
  <2>3. \A w \in Watcher : watch'[w].events \in {watch[w].events, watch[w].events + 1}
    BY <1>10 DEF Change, Notified, WatchRecord
  <2> QED
    BY <1>10, <2>2, <2>3 DEF Change, WatchRecord, List
<1>11. CASE UNCHANGED vars
  BY <1>11 DEF vars
<1> QED
  BY <1>1, <1>2, <1>3, <1>4, <1>5, <1>6, <1>7, <1>8, <1>9, <1>10, <1>11
     DEF Next, GetServicesStep, WatchStep

(* Every variable keeps its type, whatever is called, fails, or changes in *)
(* etcd.                                                                   *)
LEMMA TypeCorrect == Spec => [](TypeOK /\ CallInv)
BY InitTypes, TypeStep, PTL DEF Spec

--------------------------------------------------------------------------
(* Freshness: a list that is behind etcd has an event that says so.        *)

FreshInv == ReloadInv /\ RefreshInv

\* The reload reads what etcd holds, and its event is counted off first.
LEMMA ReloadIsFresh ==
  ASSUME IInv, NEW w \in Watcher, Reload(w)
  PROVE  FreshInv'
<1> USE DEF IInv, TypeOK
<1>1. /\ watch'[w].state = "applying"
      /\ watch'[w].name = watch[w].name /\ watch'[w].version = watch[w].version
      /\ watch'[w].got = Select(listed, watch[w].name, watch[w].version)
      /\ \A u \in Watcher \ {w} : watch'[u] = watch[u]
  BY DEF Reload, WatchRecord
<1>2. ReloadInv'
  BY <1>1 DEF Reload, ReloadInv, Select
<1>3. RefreshInv'
  BY <1>1 DEF Reload, RefreshInv, Watching, Started, Select
<1> QED
  BY <1>2, <1>3 DEF FreshInv

\* The watcher that stores its list is the one that vouches for it.
LEMMA ApplyIsFresh ==
  ASSUME IInv, NEW w \in Watcher, Apply(w)
  PROVE  FreshInv'
<1> USE DEF IInv, TypeOK
<1>1. /\ watch'[w].state = "open" /\ watch'[w].events = watch[w].events
      /\ watch'[w].name = watch[w].name /\ watch'[w].version = watch[w].version
      /\ \A u \in Watcher \ {w} : watch'[u] = watch[u]
  BY DEF Apply, WatchRecord
<1>2. ReloadInv'
  BY <1>1 DEF Apply, ReloadInv, Select
<1>3. ASSUME NEW n \in Name, cache'[n] # None, doubt'[n] = "none"
      PROVE  \E u \in Watching(n)' :
               /\ watch'[u].state \in {"open", "applying"}
               /\ (watch'[u].state = "open" /\ watch'[u].events = 0)
                    => cache'[n] = Select(listed', n, watch'[u].version)
  <2>1. CASE watch[w].name = n
    <3>1. watch[w].events = 0 => cache'[n] = Select(listed, n, watch[w].version)
      BY <2>1 DEF Apply, ReloadInv
    <3> QED
      BY <1>1, <2>1, <3>1 DEF Apply, Watching, Started, Select
  <2>2. CASE watch[w].name # n
    <3>1. cache'[n] = cache[n] /\ doubt[n] = "none"
      BY <1>3, <2>2 DEF Apply
    <3> QED
      BY <1>1, <1>3, <2>2, <3>1 DEF Apply, RefreshInv, Watching, Started, Select
  <2> QED
    BY <2>1, <2>2
<1> QED
  BY <1>2, <1>3 DEF FreshInv, RefreshInv

\* What it leaves undone is in doubt.
LEMMA ReloadFailsIsFresh ==
  ASSUME IInv, NEW w \in Watcher, ReloadFails(w)
  PROVE  FreshInv'
<1> USE DEF IInv, TypeOK
<1>1. /\ watch'[w].state = "open" /\ watch'[w].name = watch[w].name
      /\ \A u \in Watcher \ {w} : watch'[u] = watch[u]
  BY DEF ReloadFails, WatchRecord
<1>2. ReloadInv'
  BY <1>1 DEF ReloadFails, ReloadInv, Select
<1>3. ASSUME NEW n \in Name, doubt'[n] = "none"
      PROVE  doubt[n] = "none" /\ watch[w].name # n
  BY <1>3 DEF ReloadFails
<1>4. RefreshInv'
  BY <1>1, <1>3 DEF ReloadFails, RefreshInv, Watching, Started, Select
<1> QED
  BY <1>2, <1>4 DEF FreshInv

LEMMA WatchClosesIsFresh ==
  ASSUME IInv, NEW w \in Watcher, WatchCloses(w)
  PROVE  FreshInv'
<1> USE DEF IInv, TypeOK
<1>1. /\ watch'[w].state = "closed" /\ watch'[w].name = watch[w].name
      /\ \A u \in Watcher \ {w} : watch'[u] = watch[u]
  BY DEF WatchCloses, WatchRecord
<1>2. ReloadInv'
  BY <1>1 DEF WatchCloses, ReloadInv, Select
<1>3. ASSUME NEW n \in Name, doubt'[n] = "none"
      PROVE  doubt[n] = "none" /\ watch[w].name # n
  BY <1>3 DEF WatchCloses
<1>4. RefreshInv'
  BY <1>1, <1>3 DEF WatchCloses, RefreshInv, Watching, Started, Select
<1> QED
  BY <1>2, <1>4 DEF FreshInv

LEMMA OpenWatchIsFresh ==
  ASSUME IInv, NEW w \in Watcher, OpenWatch(w)
  PROVE  FreshInv'
<1> USE DEF IInv, TypeOK
<1>1. /\ watch'[w].state = "open" /\ watch'[w].name = watch[w].name
      /\ \A u \in Watcher \ {w} : watch'[u] = watch[u]
  BY DEF OpenWatch, WatchRecord
<1>2. ReloadInv'
  BY <1>1 DEF OpenWatch, ReloadInv, Select
<1>3. RefreshInv'
  BY <1>1 DEF OpenWatch, RefreshInv, Watching, Started, Select
<1> QED
  BY <1>2, <1>3 DEF FreshInv

\* The watchers whose prefix has the key are told of the change.
LEMMA ChangeIsFresh ==
  ASSUME IInv, NEW i \in Instance, Change(i)
  PROVE  FreshInv'
<1> USE DEF IInv, TypeOK
<1>1. ASSUME NEW w \in Watcher
      PROVE  /\ watch'[w].state = watch[w].state /\ watch'[w].name = watch[w].name
             /\ watch'[w].version = watch[w].version /\ watch'[w].got = watch[w].got
             /\ (/\ watch[w].state \in {"open", "applying"}
                 /\ InPrefix(i, watch[w].name, watch[w].version))
                  => watch'[w].events = watch[w].events + 1
             /\ ~(/\ watch[w].state \in {"open", "applying"}
                  /\ InPrefix(i, watch[w].name, watch[w].version))
                  => watch'[w].events = watch[w].events
  BY DEF Change, Notified, WatchRecord
<1>2. ASSUME NEW n, NEW v, ~InPrefix(i, n, v)
      PROVE  Select(listed', n, v) = Select(listed, n, v)
  BY <1>2 DEF Change, Select
<1>3. \A w \in Watcher : watch[w].events \in Nat
  BY InstanceAssumption DEF WatchRecord
<1>4. ASSUME NEW w \in Watcher, watch'[w].state \in {"open", "applying"},
             watch'[w].events = 0
      PROVE  /\ watch[w].events = 0
             /\ Select(listed', watch[w].name, watch[w].version)
                  = Select(listed, watch[w].name, watch[w].version)
  BY <1>1, <1>2, <1>3, <1>4
<1>5. ReloadInv'
  BY <1>1, <1>4 DEF ReloadInv
<1>6. RefreshInv'
  <2> SUFFICES ASSUME NEW n \in Name, cache'[n] # None, doubt'[n] = "none"
               PROVE  \E w \in Watching(n)' :
                        /\ watch'[w].state \in {"open", "applying"}
                        /\ (watch'[w].state = "open" /\ watch'[w].events = 0)
                             => cache'[n] = Select(listed', n, watch'[w].version)
    BY DEF RefreshInv
  <2>1. cache'[n] = cache[n] /\ doubt[n] = "none"
    BY DEF Change
  <2>2. PICK w \in Watching(n) :
          /\ watch[w].state \in {"open", "applying"}
          /\ (watch[w].state = "open" /\ watch[w].events = 0)
               => cache[n] = Select(listed, n, watch[w].version)
    BY <2>1 DEF RefreshInv
  <2>3. w \in Watcher /\ watch[w].name = n /\ w \in Watching(n)'
    BY <1>1, <2>2 DEF Watching, Started
  <2> QED
    BY <1>1, <1>4, <2>1, <2>2, <2>3
<1> QED
  BY <1>5, <1>6 DEF FreshInv

\* Calls leave the watchers and their lists alone; a fill is in doubt.
LEMMA CallIsFresh ==
  ASSUME IInv, NEW c \in Caller, GetServicesStep(c)
  PROVE  FreshInv'
<1> USE DEF IInv, TypeOK
<1>1. CASE Fill(c)
  <2>1. \A w \in Watcher : watch[w].state # "free" => watch'[w] = watch[w]
    BY <1>1 DEF Fill, StartWatch
  <2>2. \A w \in Watcher : watch[w].state = "free" =>
                             watch'[w].state \in {"free", "starting"}
    <3>1. CASE ~enabled
      BY <1>1, <3>1 DEF Fill
    <3>2. CASE enabled
      <4>1. PICK w \in Watcher :
              watch' = [watch EXCEPT ![w].state = "starting",
                          ![w].name = call[c].name, ![w].version = call[c].version]
        BY <1>1, <3>2 DEF Fill, StartWatch
      <4> QED
        BY <4>1 DEF WatchRecord
    <3> QED
      BY <3>1, <3>2
  <2>3. ReloadInv'
    BY <1>1, <2>1, <2>2 DEF Fill, ReloadInv, Select
  <2>4. ASSUME NEW n \in Name, doubt'[n] = "none"
        PROVE  doubt[n] = "none" /\ cache'[n] = cache[n]
    BY <1>1, <2>4 DEF Fill
  <2>5. RefreshInv'
    BY <1>1, <2>1, <2>4 DEF Fill, RefreshInv, Watching, Started, Select
  <2> QED
    BY <2>3, <2>5 DEF FreshInv
<1>2. CASE UNCHANGED <<listed, cache, watch, doubt>>
  BY <1>2 DEF FreshInv, ReloadInv, RefreshInv, Watching, Started, Select
<1> QED
  BY <1>1, <1>2 DEF GetServicesStep, Lookup, Fetch, FetchFails

--------------------------------------------------------------------------
(* Watchers: every caller that finds no cached list starts at most one.    *)

LEMMA Finite ==
  /\ Cardinality(Caller) \in Nat
  /\ \A n : IsFiniteSet(Started(n)) /\ Cardinality(Started(n)) \in Nat
  /\ \A n : /\ IsFiniteSet(Filling(n)) /\ Cardinality(Filling(n)) \in Nat
            /\ Cardinality(Filling(n)) <= Cardinality(Caller)
<1>1. IsFiniteSet(Caller) /\ Cardinality(Caller) \in Nat
  BY InstanceAssumption, FS_CardinalityType
<1>2. IsFiniteSet(Watcher)
  BY InstanceAssumption, FS_Interval DEF Watcher
<1>3. ASSUME NEW n PROVE IsFiniteSet(Started(n)) /\ Cardinality(Started(n)) \in Nat
  BY <1>2, FS_Subset, FS_CardinalityType DEF Started
<1>4. ASSUME NEW n PROVE /\ IsFiniteSet(Filling(n)) /\ Cardinality(Filling(n)) \in Nat
                         /\ Cardinality(Filling(n)) <= Cardinality(Caller)
  BY <1>1, FS_Subset, FS_CardinalityType DEF Filling
<1> QED
  BY <1>1, <1>3, <1>4

\* A step that starts no watcher.
LEMMA NoNewWatcher ==
  ASSUME WatcherInv, UNCHANGED enabled,
         \A w \in Watcher : /\ watch'[w].name = watch[w].name
                            /\ watch'[w].state = "free" <=> watch[w].state = "free",
         \A n \in Name : (enabled /\ cache'[n] # None) <=> (enabled /\ cache[n] # None),
         \A n \in Name : (enabled /\ cache[n] # None) => Filling(n)' \subseteq Filling(n)
  PROVE  WatcherInv'
<1>1. ASSUME NEW n \in Name PROVE Started(n)' = Started(n)
  BY DEF Started
<1>2. ASSUME NEW n \in Name, enabled, cache[n] # None
      PROVE  /\ Cardinality(Filling(n)') \in Nat
             /\ Cardinality(Filling(n)') <= Cardinality(Filling(n))
  BY <1>2, Finite, FS_Subset, FS_CardinalityType
<1>3. ASSUME NEW n \in Name, enabled, cache[n] # None
      PROVE  Cardinality(Started(n)') + Cardinality(Filling(n)') <= Cardinality(Caller)
  BY <1>1, <1>2, <1>3, Finite DEF WatcherInv
<1> QED
  BY <1>1, <1>3 DEF WatcherInv

LEMMA LookupStartsNoWatcher ==
  ASSUME IInv, NEW c \in Caller, NEW n \in Name, NEW v \in Asked, Lookup(c, n, v)
  PROVE  WatcherInv'
<1> USE DEF IInv, TypeOK
<1>1. ASSUME NEW m \in Name, enabled, cache[m] # None
      PROVE  Filling(m)' \subseteq Filling(m)
  BY <1>1 DEF Lookup, Filling, CallRecord
<1> QED
  BY <1>1, NoNewWatcher DEF Lookup

LEMMA FetchStartsNoWatcher ==
  ASSUME IInv, NEW c \in Caller, Fetch(c) \/ FetchFails(c)
  PROVE  WatcherInv'
<1> USE DEF IInv, TypeOK
<1>1. \A d \in Caller : call'[d].name = call[d].name /\
        (call'[d].pc \in {"fetch", "fill"} => call[d].pc \in {"fetch", "fill"})
  BY DEF Fetch, FetchFails, CallRecord
<1>2. ASSUME NEW m \in Name PROVE Filling(m)' \subseteq Filling(m)
  BY <1>1 DEF Filling
<1> QED
  BY <1>2, NoNewWatcher DEF Fetch, FetchFails

\* One caller fewer is on the way, and one watcher more is there.
LEMMA FillStartsOneWatcher ==
  ASSUME IInv, NEW c \in Caller, Fill(c)
  PROVE  WatcherInv'
<1> USE DEF IInv, TypeOK
<1>1. PICK n \in Name : n = call[c].name
  BY DEF Fill, CallInv
<1>2. CASE ~enabled
  BY <1>2 DEF Fill, WatcherInv, Started
<1>3. CASE enabled
  <2>1. PICK w \in Watcher :
          /\ watch[w].state = "free"
          /\ watch' = [watch EXCEPT ![w].state = "starting", ![w].name = n,
                         ![w].version = call[c].version]
    BY <1>1, <1>3 DEF Fill, StartWatch
  <2>2. /\ watch'[w].state = "starting" /\ watch'[w].name = n
        /\ \A u \in Watcher \ {w} : watch'[u] = watch[u]
    BY <2>1 DEF WatchRecord
  <2>3. watch[w].name = None
    BY <2>1 DEF WatcherInv
  <2>4. /\ call'[c].pc = "ok"
        /\ \A d \in Caller \ {c} : call'[d] = call[d]
    BY DEF Fill, CallRecord
  <2>5. \A u \in Watcher : watch'[u].state = "free" <=> watch'[u].name = None
    BY <1>1, <2>2, InstanceAssumption DEF WatcherInv
  <2>6. ASSUME NEW m \in Name, m # n
        PROVE  /\ Started(m)' = Started(m) /\ Filling(m)' = Filling(m)
               /\ cache'[m] = cache[m]
    BY <1>1, <2>2, <2>3, <2>4, <2>6, InstanceAssumption DEF Fill, Started, Filling
  <2>7. cache'[n] # None /\ UNCHANGED enabled
    BY <1>1, InstanceAssumption DEF Fill, CallRecord, List
  <2>8. Started(n)' = Started(n) \cup {w} /\ w \notin Started(n)
    BY <1>1, <2>2, <2>3, InstanceAssumption DEF Started
  <2>9. Filling(n)' = Filling(n) \ {c} /\ c \in Filling(n)
    BY <1>1, <2>4 DEF Fill, Filling
  <2>10. Cardinality(Started(n)) + Cardinality(Filling(n)) <= Cardinality(Caller)
    <3>1. CASE cache[n] # None
      BY <1>1, <1>3, <3>1 DEF WatcherInv
    <3>2. CASE cache[n] = None
      <4>1. Cardinality(Started(n)) = 0
        BY <1>1, <3>2, FS_EmptySet DEF WatcherInv
      <4> QED
        BY <4>1, Finite
    <3> QED
      BY <3>1, <3>2
  <2>11. /\ Cardinality(Started(n)') = Cardinality(Started(n)) + 1
         /\ Cardinality(Filling(n)') = Cardinality(Filling(n)) - 1
    <3>1. IsFiniteSet(Started(n)) /\ IsFiniteSet(Filling(n))
      BY Finite
    <3>2. Cardinality(Started(n) \cup {w}) = Cardinality(Started(n)) + 1
      BY <2>8, <3>1, FS_AddElement
    <3>3. Cardinality(Filling(n) \ {c}) = Cardinality(Filling(n)) - 1
      BY <2>9, <3>1, FS_RemoveElement
    <3> QED
      BY <2>8, <2>9, <3>2, <3>3
  <2>12. Cardinality(Started(n)') + Cardinality(Filling(n)') <= Cardinality(Caller)
    BY <2>10, <2>11, Finite
  <2>13. ASSUME NEW m \in Name
         PROVE  (IF enabled /\ cache[m] # None
                 THEN /\ Started(m) # {}
                      /\ Cardinality(Started(m)) + Cardinality(Filling(m))
                           <= Cardinality(Caller)
                 ELSE Started(m) = {})'
    <3>1. CASE m = n
      BY <1>3, <2>7, <2>8, <2>12, <3>1
    <3>2. CASE m # n
      BY <2>6, <2>7, <3>2 DEF WatcherInv
    <3> QED
      BY <3>1, <3>2
  <2> QED
    BY <2>5, <2>13 DEF WatcherInv
<1> QED
  BY <1>2, <1>3

LEMMA WatchStartsNoWatcher ==
  ASSUME IInv, NEW w \in Watcher, WatchStep(w)
  PROVE  WatcherInv'
<1> USE DEF IInv, TypeOK
<1>1. watch[w].state # "free"
  BY DEF WatchStep, OpenWatch, Reload, ReloadFails, Apply, WatchCloses
<1>2. \A u \in Watcher : /\ watch'[u].name = watch[u].name
                         /\ watch'[u].state = "free" <=> watch[u].state = "free"
  BY DEF WatchStep, OpenWatch, Reload, ReloadFails, Apply, WatchCloses, WatchRecord
<1>3. ASSUME NEW n \in Name
      PROVE  (enabled /\ cache'[n] # None) <=> (enabled /\ cache[n] # None)
  <2>1. CASE Apply(w) /\ watch[w].name = n
    <3>1. watch[w].got # None /\ cache'[n] = watch[w].got
      BY <2>1, InstanceAssumption DEF Apply, WatchRecord, List
    <3>2. w \in Started(n)
      BY <2>1 DEF Started
    <3> QED
      BY <3>1, <3>2 DEF WatcherInv
  <2>2. CASE cache'[n] = cache[n]
    BY <2>2
  <2> QED
    BY <2>1, <2>2 DEF WatchStep, OpenWatch, Reload, ReloadFails, Apply, WatchCloses
<1>4. UNCHANGED <<enabled, call>>
  BY DEF WatchStep, OpenWatch, Reload, ReloadFails, Apply, WatchCloses
<1>5. ASSUME NEW n \in Name PROVE Filling(n)' \subseteq Filling(n)
  BY <1>4 DEF Filling
<1> QED
  BY <1>2, <1>3, <1>4, <1>5, NoNewWatcher

LEMMA ChangeStartsNoWatcher ==
  ASSUME IInv, NEW i \in Instance, Change(i)
  PROVE  WatcherInv'
<1> USE DEF IInv, TypeOK
<1>1. \A u \in Watcher : /\ watch'[u].name = watch[u].name
                         /\ watch'[u].state = "free" <=> watch[u].state = "free"
  BY DEF Change, Notified, WatchRecord
<1>2. ASSUME NEW n \in Name PROVE Filling(n)' \subseteq Filling(n)
  BY DEF Change, Filling
<1> QED
  BY <1>1, <1>2, NoNewWatcher DEF Change

--------------------------------------------------------------------------
(* The goroutine that refreshes a list is there until its channel closes.  *)

LEMMA CallKeepsLive ==
  ASSUME IInv, NEW c \in Caller, GetServicesStep(c)
  PROVE  LiveInv'
<1> USE DEF IInv, TypeOK
<1>1. CASE UNCHANGED <<enabled, cache, watch, doubt>>
  BY <1>1 DEF LiveInv, Watching, Started
<1>2. CASE Fill(c)
  <2>1. PICK n \in Name : n = call[c].name
    BY <1>2 DEF Fill, CallInv
  <2>2. /\ UNCHANGED enabled
        /\ \A m \in Name \ {n} : cache'[m] = cache[m] /\ doubt'[m] = doubt[m]
    BY <1>2, <2>1 DEF Fill
  <2>3. CASE ~enabled
    BY <2>2, <2>3 DEF LiveInv
  <2>4. CASE enabled
    <3>1. PICK w \in Watcher :
            /\ watch[w].state = "free"
            /\ watch' = [watch EXCEPT ![w].state = "starting", ![w].name = n,
                           ![w].version = call[c].version]
      BY <1>2, <2>1, <2>4 DEF Fill, StartWatch
    <3>2. /\ watch'[w].state = "starting" /\ watch'[w].name = n
          /\ \A u \in Watcher \ {w} : watch'[u] = watch[u]
      BY <3>1 DEF WatchRecord
    <3>3. Watching(n)' # {}
      BY <3>2 DEF Watching, Started
    <3>4. ASSUME NEW m \in Name, m # n PROVE Watching(m) \subseteq Watching(m)'
      <4>1. w \notin Watching(m)
        BY <3>1, InstanceAssumption DEF WatcherInv, Watching, Started
      <4> QED
        BY <3>2, <4>1 DEF Watching, Started
    <3> QED
      BY <2>2, <3>3, <3>4 DEF LiveInv
  <2> QED
    BY <2>3, <2>4
<1> QED
  BY <1>1, <1>2 DEF GetServicesStep, Lookup, Fetch, FetchFails

LEMMA WatchKeepsLive ==
  ASSUME IInv, NEW w \in Watcher, WatchStep(w)
  PROVE  LiveInv'
<1> USE DEF IInv, TypeOK
<1>1. /\ UNCHANGED enabled
      /\ \A u \in Watcher : watch'[u].name = watch[u].name
      /\ \A u \in Watcher \ {w} : watch'[u] = watch[u]
  BY DEF WatchStep, OpenWatch, Reload, ReloadFails, Apply, WatchCloses, WatchRecord
<1>2. CASE WatchCloses(w)
  <2>1. ASSUME NEW n \in Name, n # watch[w].name
        PROVE  /\ cache'[n] = cache[n] /\ doubt'[n] = doubt[n]
               /\ Watching(n)' = Watching(n)
    BY <1>1, <1>2, <2>1 DEF WatchCloses, Watching, Started
  <2>2. ASSUME NEW n \in Name, n = watch[w].name PROVE doubt'[n] = "closed"
    BY <1>2, <2>2 DEF WatchCloses
  <2> QED
    BY <1>1, <2>1, <2>2 DEF LiveInv
<1>3. CASE OpenWatch(w) \/ Reload(w)
  <2>1. UNCHANGED <<cache, doubt>> /\ watch'[w].state # "closed"
    BY <1>3 DEF OpenWatch, Reload, WatchRecord
  <2> QED
    BY <1>1, <2>1 DEF LiveInv, Watching, Started
<1>4. CASE ReloadFails(w) \/ Apply(w)
  <2>1. /\ watch[w].state # "closed" /\ watch'[w].state # "closed"
        /\ \A n \in Name : n # watch[w].name =>
                             cache'[n] = cache[n] /\ doubt'[n] = doubt[n]
    BY <1>4 DEF ReloadFails, Apply, WatchRecord
  <2>2. ASSUME NEW n \in Name, n = watch[w].name PROVE w \in Watching(n)'
    BY <1>1, <2>1, <2>2 DEF Watching, Started
  <2>3. ASSUME NEW n \in Name, n # watch[w].name PROVE Watching(n)' = Watching(n)
    BY <1>1, <2>3 DEF Watching, Started
  <2> QED
    BY <1>1, <2>1, <2>2, <2>3 DEF LiveInv
<1> QED
  BY <1>2, <1>3, <1>4 DEF WatchStep

LEMMA ChangeKeepsLive ==
  ASSUME IInv, NEW i \in Instance, Change(i)
  PROVE  LiveInv'
<1>1. /\ UNCHANGED <<enabled, cache, doubt>>
      /\ \A u \in Watcher : /\ watch'[u].name = watch[u].name
                             /\ watch'[u].state = watch[u].state
  BY DEF IInv, TypeOK, Change, Notified, WatchRecord
<1> QED
  BY <1>1 DEF IInv, LiveInv, Watching, Started

--------------------------------------------------------------------------
(* The theorems.                                                           *)

(* What the watchers were told and what they are about to store, together  *)
(* with how many calls are under way, is enough to step through every      *)
(* action.                                                                 *)
LEMMA Inductive == Spec => []IInv
<1>1. Init => IInv
  <2> SUFFICES ASSUME Init PROVE IInv
    OBVIOUS
  <2>1. TypeOK /\ CallInv
    BY InitTypes
  <2>2. ReloadInv /\ RefreshInv
    BY DEF Init, ReloadInv, RefreshInv
  <2>3. WatcherInv /\ LiveInv
    BY InstanceAssumption DEF Init, WatcherInv, LiveInv, Started
  <2> QED
    BY <2>1, <2>2, <2>3 DEF IInv
<1>2. IInv /\ [Next]_vars /\ (TypeOK /\ CallInv)' => IInv'
  <2> SUFFICES ASSUME IInv, [Next]_vars PROVE (FreshInv /\ WatcherInv /\ LiveInv)'
    BY DEF IInv, FreshInv
  <2>1. CASE UNCHANGED vars
    BY <2>1 DEF vars, IInv, FreshInv, ReloadInv, RefreshInv, WatcherInv, LiveInv,
                Started, Watching, Filling, Select
  <2>2. ASSUME NEW c \in Caller, GetServicesStep(c) PROVE (FreshInv /\ WatcherInv /\ LiveInv)'
    BY <2>2, CallIsFresh, LookupStartsNoWatcher, FetchStartsNoWatcher,
       FillStartsOneWatcher, CallKeepsLive DEF GetServicesStep
  <2>3. ASSUME NEW w \in Watcher, WatchStep(w) PROVE (FreshInv /\ WatcherInv /\ LiveInv)'
    BY <2>3, OpenWatchIsFresh, ReloadIsFresh, ReloadFailsIsFresh, ApplyIsFresh,
       WatchClosesIsFresh, WatchStartsNoWatcher, WatchKeepsLive DEF WatchStep
  <2>4. ASSUME NEW i \in Instance, Change(i) PROVE (FreshInv /\ WatcherInv /\ LiveInv)'
    BY <2>4, ChangeIsFresh, ChangeStartsNoWatcher, ChangeKeepsLive
  <2> QED
    BY <2>1, <2>2, <2>3, <2>4 DEF Next
<1> QED
  BY <1>1, <1>2, TypeCorrect, PTL DEF Spec

(* The cache, the calls and the watchers keep their types.                 *)
THEOREM DiscoveryTypes == Spec => []TypeOK
BY TypeCorrect, PTL

(* A cached list is what etcd holds for the version of an open watcher as  *)
(* soon as no watcher of the name has anything left to do, for any number  *)
(* of them, unless a fill, a failed reload or a closed watch came after    *)
(* the latest refresh.                                                     *)
THEOREM QuietCache == Spec => []QuietCacheIsFresh
<1>1. IInv => QuietCacheIsFresh
  <2> SUFFICES ASSUME IInv, NEW n \in Name, cache[n] # None, doubt[n] = "none", Quiet(n)
               PROVE  \E w \in Watching(n) :
                        /\ watch[w].state = "open"
                        /\ cache[n] = Select(listed, n, watch[w].version)
    BY DEF QuietCacheIsFresh
  <2> QED
    BY DEF IInv, RefreshInv, Quiet
<1> QED
  BY <1>1, Inductive, PTL

(* A cached list has a goroutine whose loop has not ended, unless a watch  *)
(* channel of its name closed after the latest fill, reload or failed      *)
(* reload; and no more goroutines are ever started for a name than there   *)
(* are callers, for any number of callers.                                 *)
THEOREM CacheWatched == Spec => []CachedIsWatched
<1>1. IInv => CachedIsWatched
  <2> SUFFICES ASSUME IInv, NEW n \in Name
               PROVE  /\ (enabled /\ cache[n] # None /\ doubt[n] # "closed") => Watching(n) # {}
                      /\ Cardinality(Started(n)) <= Cardinality(Caller)
    BY DEF CachedIsWatched
  <2>1. (enabled /\ cache[n] # None /\ doubt[n] # "closed") => Watching(n) # {}
    BY DEF IInv, LiveInv
  <2>2. CASE enabled /\ cache[n] # None
    BY <2>1, <2>2, Finite DEF IInv, WatcherInv
  <2>3. CASE ~(enabled /\ cache[n] # None)
    BY <2>1, <2>3, Finite, FS_EmptySet DEF IInv, WatcherInv
  <2> QED
    BY <2>2, <2>3
<1> QED
  BY <1>1, Inductive, PTL

--------------------------------------------------------------------------
(* The records of the resolvers.                                           *)

\* The updates of a feed's record that actions make.
LEMMA FeedRecordUpdates ==
  ASSUME NEW R \in FeedRecord
  PROVE  /\ \A e \in 0..MaxChanges : [R EXCEPT !.events = e] \in FeedRecord
         /\ \A p \in {"none", "waiting", "calling", "starting", "open", "telling",
                      "ended"} :
              /\ [R EXCEPT !.state = p] \in FeedRecord
              /\ \A g \in List : [R EXCEPT !.state = p, !.got = g] \in FeedRecord
              /\ \A e \in 0..MaxChanges :
                   /\ [R EXCEPT !.state = p, !.events = e] \in FeedRecord
                   /\ \A g \in List :
                        [R EXCEPT !.state = p, !.events = e, !.got = g] \in FeedRecord
BY DEF FeedRecord

--------------------------------------------------------------------------
(* The resolvers use the discovery as any callers do.                      *)

\* Whatever a resolver does is a step of the discovery, or none.
LEMMA DiscoveryMoves ==
  ASSUME FeedInv, [ResolverNext]_allVars
  PROVE  [Next]_vars
<1> USE ResolverAssumption DEF Next, GetServicesStep
<1>1. CASE DiscoveryStep
  BY <1>1 DEF DiscoveryStep, AnsweredStep
<1>2. ASSUME NEW i \in Instance, Change(i) PROVE [Next]_vars
  BY <1>2
<1>3. ASSUME NEW r \in Resolver, ResolverStep(r) PROVE [Next]_vars
  <2>1. ASSUME NEW n \in Name, NEW v \in Asked, BeginBuild(r, n, v) PROVE [Next]_vars
    BY <2>1 DEF BeginBuild
  <2>2. CASE AskDiscovery(r)
    <3>1. call[r].name \in Name /\ call[r].version \in Asked
      BY <2>2 DEF AskDiscovery, FeedInv
    <3> QED
      BY <2>2, <3>1 DEF AskDiscovery
  <2>3. CASE UNCHANGED vars
    BY <2>3
  <2> QED
    BY <1>3, <2>1, <2>2, <2>3
       DEF ResolverStep, FeedStep, EndBuild, Close, OpenFeed, ReloadFeed,
           ReloadFeedFails, Tell, FeedEnds, TellAnswer, PollEnds
<1>4. CASE UNCHANGED allVars
  BY <1>4 DEF allVars
<1> QED
  BY <1>1, <1>2, <1>3, <1>4 DEF ResolverNext

\* A resolver that is built asks for the same name and version for ever.
LEMMA AsksTheSame ==
  ASSUME TypeOK, FeedInv, [ResolverNext]_allVars, NEW r \in Resolver, phase[r] # "new"
  PROVE  call'[r].name = call[r].name /\ call'[r].version = call[r].version
<1> USE ResolverAssumption DEF TypeOK
<1>1. ASSUME NEW c \in Caller, Fetch(c) \/ FetchFails(c) \/ Fill(c)
      PROVE  call'[r].name = call[r].name /\ call'[r].version = call[r].version
  BY <1>1 DEF Fetch, FetchFails, Fill, CallRecord
<1>2. ASSUME NEW c \in Caller, NEW n, NEW v, Lookup(c, n, v),
             c = r => n = call[r].name /\ v = call[r].version
      PROVE  call'[r].name = call[r].name /\ call'[r].version = call[r].version
  BY <1>2 DEF Lookup, CallRecord
<1>3. CASE UNCHANGED call
  BY <1>3
<1>4. CASE DiscoveryStep
  <2>1. ASSUME NEW w \in Watcher, WatchStep(w) PROVE UNCHANGED call
    BY <2>1 DEF WatchStep, OpenWatch, Reload, ReloadFails, Apply, WatchCloses
  <2> QED
    BY <1>1, <1>2, <1>3, <1>4, <2>1 DEF DiscoveryStep, AnsweredStep, Plain
<1>5. ASSUME NEW i \in Instance, Change(i) PROVE UNCHANGED call
  BY <1>5 DEF Change
<1>6. ASSUME NEW q \in Resolver, ResolverStep(q)
      PROVE  call'[r].name = call[r].name /\ call'[r].version = call[r].version
  <2>1. ASSUME NEW n \in Name, NEW v \in Asked, BeginBuild(q, n, v)
        PROVE  call'[r].name = call[r].name /\ call'[r].version = call[r].version
    BY <1>2, <2>1 DEF BeginBuild
  <2>2. CASE AskDiscovery(q)
    BY <1>2, <2>2 DEF AskDiscovery
  <2>3. CASE UNCHANGED vars
    BY <1>3, <2>3 DEF vars
  <2> QED
    BY <1>6, <2>1, <2>2, <2>3
       DEF ResolverStep, FeedStep, EndBuild, Close, OpenFeed, ReloadFeed,
           ReloadFeedFails, Tell, FeedEnds, TellAnswer, PollEnds
<1>7. CASE UNCHANGED allVars
  BY <1>3, <1>7 DEF allVars, vars
<1> QED
  BY <1>3, <1>4, <1>5, <1>6, <1>7 DEF ResolverNext

--------------------------------------------------------------------------
(* Types, and what a resolver's goroutine does in which phase.             *)

FeedTypeOK ==
  /\ wrapped \in BOOLEAN
  /\ phase \in [Resolver -> {"new", "build", "failed", "open", "closed"}]
  /\ feed \in [Resolver -> FeedRecord]
  /\ told \in [Resolver -> {None} \cup List]
  /\ lag \in [Resolver -> {"none", "unwatched", "failed", "closed"}]

\* The part of FeedInv that is not about the events and the call.
PhaseInv ==
  \A r \in Resolver :
    /\ feed[r].state = "none" <=> phase[r] \in {"new", "build", "failed"}
    /\ feed[r].state \in {"none", "starting"} => lag[r] = "unwatched"

LEMMA BuildTypes ==
  ASSUME ResolverTypeOK, FeedInv, NEW r \in Resolver, EndBuild(r) \/ Close(r)
  PROVE  FeedTypeOK' /\ PhaseInv'
<1> USE ResolverAssumption DEF ResolverTypeOK
<1>1. CASE EndBuild(r) /\ phase'[r] = "failed"
  BY <1>1 DEF EndBuild, FeedInv, FeedTypeOK, PhaseInv
<1>2. CASE EndBuild(r) /\ phase'[r] = "open"
  <2>1. /\ feed' = [feed EXCEPT ![r].state = IF wrapped THEN "waiting" ELSE "starting"]
        /\ phase' = [phase EXCEPT ![r] = "open"]
        /\ told' = [told EXCEPT ![r] = call[r].got \cap Grpc]
        /\ phase[r] = "build"
        /\ UNCHANGED <<wrapped, lag>>
    BY <1>2 DEF EndBuild
  <2>2. feed' \in [Resolver -> FeedRecord]
    BY <2>1, FeedRecordUpdates
  <2>3. /\ \A q \in Resolver \ {r} : feed'[q] = feed[q]
        /\ feed'[r].state \in {"waiting", "starting"}
    BY <2>1 DEF FeedRecord
  <2>4. told' \in [Resolver -> {None} \cup List]
    BY <2>1 DEF TypeOK, CallRecord, List
  <2>5. lag[r] = "unwatched"
    BY <2>1 DEF FeedInv
  <2> QED
    BY <2>1, <2>2, <2>3, <2>4, <2>5 DEF FeedInv, FeedTypeOK, PhaseInv
<1>3. CASE Close(r)
  BY <1>3 DEF Close, FeedInv, FeedTypeOK, PhaseInv
<1>4. EndBuild(r) => phase'[r] \in {"failed", "open"}
  BY DEF EndBuild
<1> QED
  BY <1>1, <1>2, <1>3, <1>4

\* A feed changes its own record only, and is neither made nor made anew.
LEMMA FeedMoves ==
  ASSUME ResolverTypeOK, FeedInv, NEW r \in Resolver, FeedStep(r)
  PROVE  /\ feed' \in [Resolver -> FeedRecord]
         /\ \A q \in Resolver \ {r} : feed'[q] = feed[q]
         /\ feed[r].state # "none" /\ feed'[r].state \notin {"none", "starting"}
         /\ feed'[r].events \in {0, feed[r].events, feed[r].events - 1}
<1> USE ResolverAssumption, InstanceAssumption DEF ResolverTypeOK
<1>1. CASE OpenFeed(r)
  <2>1. feed' \in [Resolver -> FeedRecord]
    BY <1>1, FeedRecordUpdates DEF OpenFeed
  <2> QED
    BY <1>1, <2>1 DEF OpenFeed, FeedRecord
<1>2. CASE ReloadFeed(r)
  <2>1. feed[r].events - 1 \in 0..MaxChanges
    BY <1>2 DEF ReloadFeed, FeedRecord
  <2>2. feed' \in [Resolver -> FeedRecord]
    BY <1>2, <2>1, SelectType, FeedRecordUpdates DEF ReloadFeed
  <2> QED
    BY <1>2, <2>2 DEF ReloadFeed, FeedRecord
<1>3. CASE ReloadFeedFails(r)
  <2>1. feed[r].events - 1 \in 0..MaxChanges
    BY <1>3 DEF ReloadFeedFails, FeedRecord
  <2>2. feed' \in [Resolver -> FeedRecord]
    BY <1>3, <2>1, FeedRecordUpdates DEF ReloadFeedFails
  <2> QED
    BY <1>3, <2>2 DEF ReloadFeedFails, FeedRecord
<1>4. CASE Tell(r)
  <2>1. {} \in List
    BY DEF List
  <2>2. feed' \in [Resolver -> FeedRecord]
    BY <1>4, <2>1, FeedRecordUpdates DEF Tell
  <2> QED
    BY <1>4, <2>2 DEF Tell, FeedRecord
<1>5. CASE FeedEnds(r)
  <2>1. 0 \in 0..MaxChanges
    OBVIOUS
  <2>2. feed' \in [Resolver -> FeedRecord]
    BY <1>5, <2>1, FeedRecordUpdates DEF FeedEnds
  <2> QED
    BY <1>5, <2>2 DEF FeedEnds, FeedRecord
<1>6. CASE AskDiscovery(r)
  <2>1. feed' \in [Resolver -> FeedRecord]
    BY <1>6, FeedRecordUpdates DEF AskDiscovery
  <2> QED
    BY <1>6, <2>1 DEF AskDiscovery, FeedRecord
<1>7. CASE TellAnswer(r)
  <2>1. feed' \in [Resolver -> FeedRecord]
    BY <1>7, FeedRecordUpdates DEF TellAnswer
  <2> QED
    BY <1>7, <2>1 DEF TellAnswer, FeedRecord
<1>8. CASE PollEnds(r)
  <2>1. feed' \in [Resolver -> FeedRecord]
    BY <1>8, FeedRecordUpdates DEF PollEnds
  <2> QED
    BY <1>8, <2>1 DEF PollEnds, FeedRecord
<1> QED
  BY <1>1, <1>2, <1>3, <1>4, <1>5, <1>6, <1>7, <1>8 DEF FeedStep

LEMMA FeedTypes ==
  ASSUME ResolverTypeOK, FeedInv, NEW r \in Resolver, FeedStep(r)
  PROVE  FeedTypeOK' /\ PhaseInv'
<1> USE ResolverAssumption DEF ResolverTypeOK
<1>1. /\ phase' = phase /\ wrapped' = wrapped
      /\ \A q \in Resolver \ {r} : lag'[q] = lag[q]
      /\ lag' \in [Resolver -> {"none", "unwatched", "failed", "closed"}]
  BY DEF FeedStep, OpenFeed, ReloadFeed, ReloadFeedFails, Tell, FeedEnds,
         AskDiscovery, TellAnswer, PollEnds
<1>2. told' \in [Resolver -> {None} \cup List]
  <2>1. CASE Tell(r)
    BY <2>1 DEF Tell, FeedRecord, List
  <2>2. CASE TellAnswer(r)
    <3>1. call[r].got \cap Grpc \in List
      BY DEF TypeOK, CallRecord, List
    <3> QED
      BY <2>2, <3>1 DEF TellAnswer
  <2>3. CASE UNCHANGED told
    BY <2>3
  <2> QED
    BY <2>1, <2>2, <2>3
       DEF FeedStep, OpenFeed, ReloadFeed, ReloadFeedFails, FeedEnds, AskDiscovery,
           PollEnds
<1> QED
  BY <1>1, <1>2, FeedMoves DEF FeedInv, FeedTypeOK, PhaseInv

\* A feed that is sent an event keeps everything else.
LEMMA NotifiedFeeds ==
  ASSUME ResolverTypeOK, FeedInv, TypeOK', NEW i \in Instance, Change(i),
         feed' = FeedsNotified(i)
  PROVE  /\ feed' \in [Resolver -> FeedRecord]
         /\ \A r \in Resolver :
              /\ feed'[r].state = feed[r].state /\ feed'[r].got = feed[r].got
              /\ feed'[r].events
                   = IF /\ feed[r].state \in {"open", "telling"}
                        /\ InPrefix(i, call[r].name, call[r].version)
                     THEN feed[r].events + 1 ELSE feed[r].events
<1> USE InstanceAssumption DEF ResolverTypeOK
<1>1. \A r \in Resolver : feed[r].events + 1 \in 0..MaxChanges
  BY DEF Change, FeedInv, FeedRecord, TypeOK
<1>2. feed' \in [Resolver -> FeedRecord]
  BY <1>1, FeedRecordUpdates DEF FeedsNotified
<1> QED
  BY <1>2 DEF FeedsNotified, FeedRecord

LEMMA ResolverTypeStep ==
  ASSUME ResolverTypeOK, FeedInv, CallInv, [ResolverNext]_allVars
  PROVE  ResolverTypeOK' /\ FeedInv' /\ CallInv'
<1> USE ResolverAssumption, InstanceAssumption
<1>1. TypeOK' /\ CallInv'
  BY DiscoveryMoves, TypeStep DEF ResolverTypeOK
<1>2. FeedTypeOK' /\ PhaseInv'
  <2>1. CASE UNCHANGED resolvers
    BY <2>1 DEF resolvers, ResolverTypeOK, FeedInv, FeedTypeOK, PhaseInv
  <2>2. ASSUME NEW i \in Instance, Change(i), feed' = FeedsNotified(i),
               UNCHANGED <<wrapped, phase, told, lag>>
        PROVE  FeedTypeOK' /\ PhaseInv'
    BY <1>1, <2>2, NotifiedFeeds DEF ResolverTypeOK, FeedInv, FeedTypeOK, PhaseInv
  <2>3. ASSUME NEW r \in Resolver, NEW n \in Name, NEW v \in Asked, BeginBuild(r, n, v)
        PROVE  FeedTypeOK' /\ PhaseInv'
    BY <2>3 DEF BeginBuild, ResolverTypeOK, FeedInv, FeedTypeOK, PhaseInv
  <2> QED
    BY <2>1, <2>2, <2>3, BuildTypes, FeedTypes
       DEF ResolverNext, ResolverStep, allVars, resolvers
<1>3. ASSUME NEW r \in Resolver, phase'[r] # "new"
      PROVE  call'[r].name \in Name /\ call'[r].version \in Asked
  <2>1. CASE phase[r] # "new"
    BY <2>1, AsksTheSame DEF ResolverTypeOK, FeedInv
  <2>2. CASE phase[r] = "new"
    <3>1. ASSUME NEW q \in Resolver, ResolverStep(q)
          PROVE  \E n \in Name, v \in Asked : BeginBuild(r, n, v)
      <4>1. phase'[r] # phase[r]
        BY <1>3, <2>2
      <4>2. FeedStep(q) => UNCHANGED phase
        BY DEF FeedStep, OpenFeed, ReloadFeed, ReloadFeedFails, Tell, FeedEnds,
               AskDiscovery, TellAnswer, PollEnds
      <4>3. EndBuild(q) \/ Close(q) => phase[q] # "new" /\ \A p \in Resolver \ {q} :
                                                              phase'[p] = phase[p]
        BY DEF EndBuild, Close, ResolverTypeOK
      <4>4. ASSUME NEW n \in Name, NEW v \in Asked, BeginBuild(q, n, v) PROVE q = r
        BY <4>1, <4>4 DEF BeginBuild, ResolverTypeOK
      <4> QED
        BY <2>2, <3>1, <4>1, <4>2, <4>3, <4>4 DEF ResolverStep
    <3>2. PICK n \in Name, v \in Asked : BeginBuild(r, n, v)
      BY <1>3, <2>2, <3>1 DEF ResolverNext, resolvers, allVars
    <3> QED
      BY <3>2 DEF BeginBuild, Lookup, ResolverTypeOK, TypeOK
  <2> QED
    BY <2>1, <2>2
<1>4. ASSUME NEW r \in Resolver PROVE feed'[r].events <= changes'
  <2>1. changes \in Nat /\ changes' \in Nat /\ changes <= changes'
    <3>1. changes \in 0..MaxChanges
      BY DEF ResolverTypeOK, TypeOK
    <3>2. CASE UNCHANGED changes
      BY <3>1, <3>2
    <3>3. ASSUME NEW i \in Instance, Change(i) PROVE changes' = changes + 1
      BY <3>3 DEF Change
    <3>4. (\E i \in Instance : Change(i)) \/ UNCHANGED changes
      BY DiscoveryMoves
         DEF Next, vars, GetServicesStep, WatchStep, Lookup, Fetch, FetchFails, Fill,
             OpenWatch, Reload, ReloadFails, Apply, WatchCloses
    <3> QED
      BY <3>1, <3>2, <3>3, <3>4
  <2>2. feed[r].events \in Nat /\ feed[r].events <= changes
    BY DEF ResolverTypeOK, FeedInv, FeedRecord
  <2>3. ASSUME NEW i \in Instance, Change(i), feed' = FeedsNotified(i)
        PROVE  feed'[r].events <= changes'
    BY <1>1, <2>1, <2>2, <2>3, NotifiedFeeds DEF Change
  <2>4. CASE feed'[r].events \in {0, feed[r].events, feed[r].events - 1}
    BY <2>1, <2>2, <2>4
  <2>5. ASSUME NEW q \in Resolver, ResolverStep(q)
        PROVE  feed'[r].events \in {0, feed[r].events, feed[r].events - 1}
    <3>1. CASE FeedStep(q)
      BY <3>1, FeedMoves
    <3>2. CASE EndBuild(q)
      BY <3>2 DEF EndBuild, ResolverTypeOK, FeedRecord
    <3>3. CASE UNCHANGED feed
      BY <3>3
    <3> QED
      BY <2>5, <3>1, <3>2, <3>3 DEF ResolverStep, BeginBuild, Close
  <2> QED
    BY <2>3, <2>4, <2>5 DEF ResolverNext, resolvers, allVars
<1> QED
  BY <1>1, <1>2, <1>3, <1>4 DEF ResolverTypeOK, FeedTypeOK, FeedInv, PhaseInv

LEMMA ResolverInitTypes == ResolverInit => ResolverTypeOK /\ FeedInv /\ CallInv
<1> SUFFICES ASSUME ResolverInit PROVE ResolverTypeOK /\ FeedInv /\ CallInv
  OBVIOUS
<1>1. TypeOK /\ CallInv
  BY InitTypes DEF ResolverInit
<1>2. 0 \in 0..MaxChanges /\ {} \in List
  BY InstanceAssumption DEF List
<1>3. changes = 0
  BY DEF ResolverInit, Init
<1> QED
  BY <1>1, <1>2, <1>3 DEF ResolverInit, ResolverTypeOK, FeedInv, FeedRecord

LEMMA ResolverTypeCorrect == ResolverSpec => [](ResolverTypeOK /\ FeedInv /\ CallInv)
BY ResolverInitTypes, ResolverTypeStep, PTL DEF ResolverSpec

--------------------------------------------------------------------------
(* A connection is behind etcd only while its feed has an event that says  *)
(* so.                                                                     *)

FreshFeedInv == TellingInv /\ QuietConnectionIsFresh

\* A step that leaves the listing, the feed of r and what it is about alone.
Rests(r) ==
  /\ UNCHANGED <<listed, feed[r], told[r], lag[r]>>
  /\ call'[r].name = call[r].name /\ call'[r].version = call[r].version

LEMMA RestingIsFresh ==
  ASSUME FreshFeedInv, \A r \in Resolver : feed'[r].state = "none" \/ Rests(r)
  PROVE  FreshFeedInv'
BY DEF FreshFeedInv, TellingInv, QuietConnectionIsFresh, Rests, Select

\* A resolver's step, in which the others rest.
LEMMA OneResolverMoves ==
  ASSUME FreshFeedInv, ResolverTypeOK, FeedInv, NEW r \in Resolver, UNCHANGED listed,
         \A q \in Resolver \ {r} : feed'[q].state = "none" \/ Rests(q),
         (feed'[r].state = "telling" /\ feed'[r].events = 0)
           => feed'[r].got = Select(listed, call'[r].name, call'[r].version),
         (feed'[r].state = "open" /\ feed'[r].events = 0 /\ lag'[r] = "none")
           => told'[r] = Select(listed, call'[r].name, call'[r].version) \cap Grpc
  PROVE  FreshFeedInv'
BY DEF FreshFeedInv, TellingInv, QuietConnectionIsFresh, Rests, Select

LEMMA FeedIsFresh ==
  ASSUME ResolverInv, [ResolverNext]_allVars, NEW r \in Resolver, FeedStep(r)
  PROVE  FreshFeedInv'
<1> USE DEF ResolverInv, ResolverTypeOK
<1>1. FreshFeedInv
  BY DEF FreshFeedInv
<1>2. UNCHANGED listed
  BY DEF FeedStep, OpenFeed, ReloadFeed, ReloadFeedFails, Tell, FeedEnds,
         AskDiscovery, TellAnswer, PollEnds, Lookup, vars
<1>3. \A q \in Resolver : phase[q] # "new" =>
        call'[q].name = call[q].name /\ call'[q].version = call[q].version
  BY AsksTheSame
<1>4. \A q \in Resolver : feed[q].state # "none" => phase[q] # "new"
  BY DEF FeedInv
<1>5. ASSUME NEW q \in Resolver, q # r PROVE feed'[q].state = "none" \/ Rests(q)
  <2>1. feed'[q] = feed[q] /\ told'[q] = told[q] /\ lag'[q] = lag[q]
    BY <1>5 DEF FeedStep, OpenFeed, ReloadFeed, ReloadFeedFails, Tell, FeedEnds,
                AskDiscovery, TellAnswer, PollEnds
  <2> QED
    BY <1>2, <1>3, <1>4, <2>1 DEF Rests
<1>6. phase[r] # "new" /\ call'[r].name = call[r].name /\ call'[r].version = call[r].version
  BY <1>3, <1>4, FeedMoves
<1>7. CASE OpenFeed(r)
  <2>1. feed'[r].state = "open" /\ lag'[r] = "unwatched"
    BY <1>7 DEF OpenFeed, FeedRecord, FeedInv
  <2> QED
    BY <1>1, <1>2, <1>5, <2>1, OneResolverMoves
<1>8. CASE ReloadFeed(r)
  <2>1. /\ feed'[r].state = "telling"
        /\ feed'[r].got = Select(listed, call[r].name, call[r].version)
    BY <1>8 DEF ReloadFeed, FeedRecord
  <2> QED
    BY <1>1, <1>2, <1>5, <1>6, <2>1, OneResolverMoves
<1>9. CASE ReloadFeedFails(r)
  <2>1. feed'[r].state = "open" /\ lag'[r] = "failed"
    BY <1>9 DEF ReloadFeedFails, FeedRecord
  <2> QED
    BY <1>1, <1>2, <1>5, <2>1, OneResolverMoves
<1>10. CASE Tell(r)
  <2>1. /\ feed[r].state = "telling" /\ feed'[r].state = "open"
        /\ feed'[r].events = feed[r].events
        /\ told'[r] = feed[r].got \cap Grpc
    BY <1>10 DEF Tell, FeedRecord
  <2>2. feed[r].events = 0 => feed[r].got = Select(listed, call[r].name, call[r].version)
    BY <2>1 DEF TellingInv
  <2> QED
    BY <1>1, <1>2, <1>5, <1>6, <2>1, <2>2, OneResolverMoves
<1>11. CASE FeedEnds(r) \/ AskDiscovery(r) \/ TellAnswer(r) \/ PollEnds(r)
  <2>1. feed'[r].state \in {"ended", "calling", "waiting"}
    BY <1>11 DEF FeedEnds, AskDiscovery, TellAnswer, PollEnds, FeedRecord
  <2> QED
    BY <1>1, <1>2, <1>5, <2>1, OneResolverMoves
<1> QED
  BY <1>7, <1>8, <1>9, <1>10, <1>11 DEF FeedStep

\* Build and Close: a feed has not told anything when it is made.
LEMMA BuildIsFresh ==
  ASSUME ResolverInv, [ResolverNext]_allVars, NEW r \in Resolver,
         EndBuild(r) \/ Close(r) \/ \E n \in Name, v \in Asked : BeginBuild(r, n, v)
  PROVE  FreshFeedInv'
<1> USE DEF ResolverInv, ResolverTypeOK
<1>1. FreshFeedInv
  BY DEF FreshFeedInv
<1>2. UNCHANGED listed
  BY DEF EndBuild, Close, BeginBuild, Lookup, vars
<1>3. \A q \in Resolver : phase[q] # "new" =>
        call'[q].name = call[q].name /\ call'[q].version = call[q].version
  BY AsksTheSame
<1>4. \A q \in Resolver : feed[q].state # "none" => phase[q] # "new"
  BY DEF FeedInv
<1>5. ASSUME NEW q \in Resolver, q # r PROVE feed'[q].state = "none" \/ Rests(q)
  <2>1. feed'[q] = feed[q] /\ told'[q] = told[q] /\ lag'[q] = lag[q]
    BY <1>5 DEF EndBuild, Close, BeginBuild
  <2> QED
    BY <1>2, <1>3, <1>4, <2>1 DEF Rests
<1>6. CASE EndBuild(r)
  <2>1. \/ feed'[r].state \in {"waiting", "starting"}
        \/ UNCHANGED <<feed, told, lag>>
    BY <1>6 DEF EndBuild, FeedRecord
  <2>2. UNCHANGED <<feed, told, lag>> => feed'[r].state = "none" \/ Rests(r)
    BY <1>2, <1>3, <1>4 DEF Rests
  <2> QED
    BY <1>1, <1>2, <1>5, <2>1, <2>2, OneResolverMoves, RestingIsFresh
<1>7. CASE UNCHANGED <<feed, told, lag>>
  <2>1. feed'[r].state = "none" \/ Rests(r)
    BY <1>2, <1>3, <1>4, <1>7 DEF Rests
  <2> QED
    BY <1>1, <1>5, <2>1, RestingIsFresh
<1> QED
  BY <1>6, <1>7 DEF Close, BeginBuild

\* The resolvers whose prefix has the key are told of the change.
LEMMA FeedsNotifiedIsFresh ==
  ASSUME ResolverInv, ResolverTypeOK', NEW i \in Instance, Change(i),
         feed' = FeedsNotified(i), UNCHANGED <<wrapped, phase, told, lag>>
  PROVE  FreshFeedInv'
<1> USE DEF ResolverInv
<1>1. \A r \in Resolver : feed[r].events \in Nat
  BY InstanceAssumption DEF ResolverTypeOK, FeedRecord
<1>2. \A n, v : InPrefix(i, n, v) \/ Select(listed', n, v) = Select(listed, n, v)
  BY DEF Change, Select
<1>3. UNCHANGED call
  BY DEF Change
<1>4. ASSUME NEW r \in Resolver, feed'[r].state \in {"open", "telling"},
             feed'[r].events = 0
      PROVE  /\ feed[r].state = feed'[r].state /\ feed[r].events = 0
             /\ feed'[r].got = feed[r].got
             /\ Select(listed', call[r].name, call[r].version)
                  = Select(listed, call[r].name, call[r].version)
  <2>1. /\ feed'[r].state = feed[r].state /\ feed'[r].got = feed[r].got
        /\ feed'[r].events = IF /\ feed[r].state \in {"open", "telling"}
                                /\ InPrefix(i, call[r].name, call[r].version)
                             THEN feed[r].events + 1 ELSE feed[r].events
    BY NotifiedFeeds DEF ResolverTypeOK
  <2> QED
    BY <1>1, <1>2, <1>4, <2>1
<1> QED
  BY <1>3, <1>4 DEF FreshFeedInv, TellingInv, QuietConnectionIsFresh

LEMMA ResolverInductive == ResolverSpec => []ResolverInv
<1>1. ResolverInit => ResolverInv
  <2> SUFFICES ASSUME ResolverInit, ResolverTypeOK /\ FeedInv PROVE ResolverInv
    BY ResolverInitTypes
  <2> QED
    BY DEF ResolverInit, ResolverInv, TellingInv, QuietConnectionIsFresh
<1>2. ResolverInv /\ CallInv /\ [ResolverNext]_allVars => ResolverInv'
  <2> SUFFICES ASSUME ResolverInv, CallInv, [ResolverNext]_allVars PROVE ResolverInv'
    OBVIOUS
  <2>1. ResolverTypeOK' /\ FeedInv'
    BY ResolverTypeStep DEF ResolverInv
  <2>2. FreshFeedInv'
    <3>1. CASE (DiscoveryStep /\ UNCHANGED resolvers) \/ UNCHANGED allVars
      <4>1. UNCHANGED <<listed, resolvers>>
        BY <3>1 DEF DiscoveryStep, AnsweredStep, Lookup, Fetch, FetchFails, Fill,
                    WatchStep, OpenWatch, Reload, ReloadFails, Apply, WatchCloses,
                    allVars, vars
      <4>2. \A r \in Resolver : feed'[r].state = "none" \/ Rests(r)
        BY <4>1, AsksTheSame DEF resolvers, Rests, ResolverInv, ResolverTypeOK, FeedInv
      <4> QED
        BY <4>2, RestingIsFresh DEF ResolverInv, FreshFeedInv
    <3> QED
      BY <2>1, <3>1, FeedIsFresh, BuildIsFresh, FeedsNotifiedIsFresh
         DEF ResolverNext, ResolverStep
  <2> QED
    BY <2>1, <2>2 DEF ResolverInv, FreshFeedInv
<1> QED
  BY <1>1, <1>2, ResolverTypeCorrect, PTL DEF ResolverSpec

--------------------------------------------------------------------------
(* The theorems.                                                           *)

(* The resolvers, the discovery and etcd keep their types.                 *)
THEOREM ResolverTypes == ResolverSpec => []ResolverTypeOK
BY ResolverTypeCorrect, PTL

(* Resolvers on a discovery are callers of it, and change it in no other   *)
(* way: whatever holds of a discovery holds of one with resolvers.         *)
THEOREM ResolversAreCallers == ResolverSpec => Spec
<1>1. ResolverInit => Init
  BY DEF ResolverInit
<1>2. FeedInv /\ [ResolverNext]_allVars => [Next]_vars
  BY DiscoveryMoves
<1> QED
  BY <1>1, <1>2, ResolverTypeCorrect, PTL DEF ResolverSpec, Spec

(* So what QuietCache and CacheWatched say, with the same exceptions,      *)
(* holds of a cache that is shared with resolvers.                         *)
THEOREM SharedCache == ResolverSpec => [](QuietCacheIsFresh /\ CachedIsWatched)
BY ResolversAreCallers, QuietCache, CacheWatched, PTL

(* A connection was told exactly the gRPC instances etcd holds for its     *)
(* version, whenever its watch is open with no event left, for any number  *)
(* of resolvers, plain callers and changes.  Excepted are a watch that has *)
(* told the connection nothing since it opened, when a change between the  *)
(* list of Build and the opening (resolver.go:59) may still be missing,    *)
(* and one whose latest reload failed.                                     *)
THEOREM QuietConnection == ResolverSpec => []QuietConnectionIsFresh
<1>1. ResolverInv => QuietConnectionIsFresh
  BY DEF ResolverInv
<1> QED
  BY <1>1, ResolverInductive, PTL
==========================================================================
