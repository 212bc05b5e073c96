------------------------- MODULE RustResolverProofs -------------------------
(***************************************************************************)
(* Proofs about RustDiscovery and RustResolver, for any instances, names,  *)
(* versions and callers, any of which build channels, and any bound on the *)
(* watches, on their spawned tasks and on the changes.                     *)
(***************************************************************************)
EXTENDS RustResolver, SequenceTheorems, TLAPS

--------------------------------------------------------------------------
(* The spawned tasks of a watch.                                           *)

LEMMA JobsAreSequences == \A s : s \in Jobs <=> s \in Seq(Job) /\ Len(s) <= MaxJobs
<1> USE InstanceAssumption
<1>1. ASSUME NEW s \in Jobs PROVE s \in Seq(Job) /\ Len(s) <= MaxJobs
  <2>1. PICK n \in 0..MaxJobs : s \in [1..n -> Job]
    BY DEF Jobs
  <2> QED
    BY <2>1
<1>2. ASSUME NEW s \in Seq(Job), Len(s) <= MaxJobs PROVE s \in Jobs
  <2>1. Len(s) \in 0..MaxJobs /\ s \in [1..Len(s) -> Job]
    BY <1>2, LenProperties
  <2> QED
    BY <2>1 DEF Jobs
<1> QED
  BY <1>1, <1>2

LEMMA JobsProperties ==
  ASSUME NEW s \in Jobs
  PROVE  /\ Len(s) \in 0..MaxJobs
         /\ DOMAIN s = 1..Len(s)
         /\ \A k \in DOMAIN s : s[k] \in Job
         /\ s = <<>> <=> Len(s) = 0
         /\ <<>> \in Jobs
<1>1. s \in Seq(Job) /\ Len(s) <= MaxJobs
  BY JobsAreSequences
<1>2. Len(s) \in Nat /\ DOMAIN s = 1..Len(s) /\ \A k \in 1..Len(s) : s[k] \in Job
  BY <1>1, LenProperties, ElementOfSeq
<1>3. s = <<>> <=> Len(s) = 0
  BY <1>1, EmptySeq
<1>4. <<>> \in Jobs
  <2>1. <<>> \in Seq(Job) /\ Len(<<>>) <= MaxJobs
    BY EmptySeq, InstanceAssumption
  <2> QED
    BY <2>1, JobsAreSequences
<1>5. Len(s) \in 0..MaxJobs
  BY <1>1, <1>2, InstanceAssumption
<1>6. \A k \in DOMAIN s : s[k] \in Job
  BY <1>2
<1> QED
  BY <1>2, <1>3, <1>4, <1>5, <1>6

\* Tasks that are all late.
LEMMA JobsOutdated ==
  ASSUME NEW s \in Jobs, NEW t, t = [j \in DOMAIN s |-> [s[j] EXCEPT !.late = TRUE]]
  PROVE  t \in Jobs /\ DOMAIN t = DOMAIN s /\ (\A k \in DOMAIN t : t[k].late) /\
         (s = <<>> => t = <<>>)
<1>1. DOMAIN s = 1..Len(s) /\ Len(s) \in 0..MaxJobs /\ \A k \in DOMAIN s : s[k] \in Job
  BY JobsProperties
<1>2. t \in [1..Len(s) -> Job]
  BY <1>1 DEF Job
<1>3. t \in Jobs
  BY <1>1, <1>2 DEF Jobs
<1>4. s = <<>> => t = <<>>
  BY <1>1, <1>2, <1>3, JobsProperties
<1> QED
  BY <1>1, <1>3, <1>4 DEF Job

\* The k-th task runs: the older ones are late, the newer ones move up.
LEMMA JobsAfterOne ==
  ASSUME NEW s \in Jobs, NEW k \in DOMAIN s, NEW t,
         t = [j \in 1..(Len(s) - 1) |-> IF j < k THEN [s[j] EXCEPT !.late = TRUE]
                                                 ELSE s[j + 1]]
  PROVE  /\ t \in Jobs
         /\ Len(t) = Len(s) - 1
         /\ DOMAIN t = 1..(Len(s) - 1)
         /\ \A j \in DOMAIN t : j < k => t[j].late
         /\ \A j \in DOMAIN t : ~(j < k) => j + 1 \in DOMAIN s /\ t[j] = s[j + 1]
<1>1. DOMAIN s = 1..Len(s) /\ Len(s) \in 0..MaxJobs /\ \A j \in DOMAIN s : s[j] \in Job
  BY JobsProperties
<1>2. t \in [1..(Len(s) - 1) -> Job] /\ Len(s) - 1 \in 0..MaxJobs
  <2>1. ASSUME NEW j \in 1..(Len(s) - 1)
        PROVE [s[j] EXCEPT !.late = TRUE] \in Job /\ s[j + 1] \in Job
    <3>1. j \in DOMAIN s /\ j + 1 \in DOMAIN s
      BY <1>1, <2>1
    <3>2. s[j] \in Job /\ s[j + 1] \in Job
      BY <1>1, <3>1
    <3> QED
      BY <3>2 DEF Job
  <2>2. Len(s) - 1 \in 0..MaxJobs
    BY <1>1, InstanceAssumption
  <2> QED
    BY <2>1, <2>2
<1>3. t \in Jobs
  BY <1>2 DEF Jobs
<1>4. Len(t) = Len(s) - 1 /\ DOMAIN t = 1..(Len(s) - 1)
  BY <1>2
<1>5. ASSUME NEW j \in DOMAIN t, j < k PROVE t[j].late
  <2>1. t[j] = [s[j] EXCEPT !.late = TRUE] /\ j \in DOMAIN s
    BY <1>1, <1>4, <1>5
  <2> QED
    BY <1>1, <2>1 DEF Job
<1>6. ASSUME NEW j \in DOMAIN t, ~(j < k) PROVE j + 1 \in DOMAIN s /\ t[j] = s[j + 1]
  BY <1>1, <1>4, <1>6
<1> QED
  BY <1>3, <1>4, <1>5, <1>6

LEMMA JobsAppended ==
  ASSUME NEW s \in Jobs, Len(s) < MaxJobs, NEW e \in Job
  PROVE  /\ Append(s, e) \in Jobs
         /\ Len(Append(s, e)) = Len(s) + 1
         /\ DOMAIN Append(s, e) = 1..(Len(s) + 1)
         /\ Append(s, e)[Len(s) + 1] = e
         /\ \A k \in DOMAIN s : Append(s, e)[k] = s[k]
<1>1. s \in Seq(Job) /\ Len(s) \in Nat /\ DOMAIN s = 1..Len(s)
  BY JobsAreSequences, JobsProperties
<1>2. Append(s, e) \in Seq(Job) /\ Len(Append(s, e)) = Len(s) + 1
  BY <1>1
<1>3. Append(s, e) \in Jobs
  <2>1. Len(Append(s, e)) <= MaxJobs
    BY <1>1, <1>2, InstanceAssumption
  <2> QED
    BY <1>2, <2>1, JobsAreSequences
<1>4. \A k \in DOMAIN s : Append(s, e)[k] = s[k]
  BY <1>1
<1>5. Append(s, e)[Len(s) + 1] = e
  BY <1>1
<1>6. DOMAIN Append(s, e) = 1..(Len(s) + 1)
  BY <1>1, <1>2, LenProperties
<1> QED
  BY <1>2, <1>3, <1>4, <1>5, <1>6

--------------------------------------------------------------------------
(* The updates of records that actions make.                               *)

LEMMA WatchRecordUpdates ==
  ASSUME NEW R \in WatchRecord
  PROVE  /\ \A p \in {"open", "ended"} : [R EXCEPT !.state = p] \in WatchRecord
         /\ \A o \in Caller \cup {None}, n \in Name, v \in Asked, p \in {"starting", "open"} :
              [R EXCEPT !.owner = o, !.name = n, !.version = v, !.state = p]
                \in WatchRecord
         /\ \A e \in 0..MaxChanges, g \in List :
              [R EXCEPT !.state = "applying", !.events = e, !.got = g] \in WatchRecord
         /\ \A e \in 0..MaxChanges, j \in Jobs :
              [R EXCEPT !.events = e, !.jobs = j] \in WatchRecord
         /\ \A g \in List, j \in Jobs :
              [R EXCEPT !.state = "open", !.got = g, !.jobs = j] \in WatchRecord
         /\ \A e \in 0..MaxChanges :
              /\ [R EXCEPT !.state = "ended", !.events = e] \in WatchRecord
              /\ [R EXCEPT !.events = e] \in WatchRecord
         /\ \A j \in Jobs : [R EXCEPT !.jobs = j] \in WatchRecord
BY DEF WatchRecord

LEMMA CallRecordUpdates ==
  ASSUME NEW R \in CallRecord
  PROVE  \A p \in Returned \cup {"fetch", "fill"} :
           /\ [R EXCEPT !.pc = p] \in CallRecord
           /\ \A g \in List : [R EXCEPT !.got = g, !.pc = p] \in CallRecord
BY DEF CallRecord

LEMMA SelectType == ASSUME NEW S, NEW n, NEW v PROVE Select(S, n, v) \in List
BY InstanceAssumption DEF Select, List

\* An instance that does not match is in no selection.
LEMMA SelectUnchanged ==
  ASSUME NEW S, NEW T, NEW i, NEW n, NEW v, ~Matches(i, n, v),
         \A j : j # i => (j \in S <=> j \in T)
  PROVE  Select(S, n, v) = Select(T, n, v)
BY DEF Select

--------------------------------------------------------------------------
(* The discovery: what each action makes of the watches, and that it keeps *)
(* the invariant.                                                          *)

\* A call moves, and nothing else.
LEMMA CallKeeps ==
  ASSUME DiscoveryInv,
         UNCHANGED <<backend, enabled, listed, changes, cache, watch, doubt>>,
         call' \in [Caller -> CallRecord],
         \A c \in Caller : call'[c].pc # "idle" =>
           call'[c].name \in Name /\ call'[c].version \in Asked
  PROVE  DiscoveryInv'
BY DEF DiscoveryInv, TypeOK, CallInv, WatchInv, ReloadInv, RefreshInv, Watching, Quiet

LEMMA LookupKeeps ==
  ASSUME DiscoveryInv, NEW c \in Caller, NEW n \in Name, NEW v \in Asked, Lookup(c, n, v)
  PROVE  DiscoveryInv'
<1>1. cache[n] # None => cache[n] \in List
  BY DEF DiscoveryInv, TypeOK
<1>2. call \in [Caller -> CallRecord] /\ CallInv
  BY DEF DiscoveryInv, TypeOK
<1>3. call' \in [Caller -> CallRecord]
  BY <1>1, <1>2 DEF Lookup, CallRecord, Returned, List
<1>4. \A d \in Caller : call'[d].pc # "idle" =>
        call'[d].name \in Name /\ call'[d].version \in Asked
  BY <1>2 DEF Lookup, CallInv
<1> QED
  BY <1>3, <1>4, CallKeeps DEF Lookup

LEMMA FetchKeeps ==
  ASSUME DiscoveryInv, NEW c \in Caller, Fetch(c) \/ FetchFails(c)
  PROVE  DiscoveryInv'
<1>1. call \in [Caller -> CallRecord] /\ CallInv
  BY DEF DiscoveryInv, TypeOK
<1>2. call' \in [Caller -> CallRecord]
  <2>1. PICK g \in List, p \in Returned \cup {"fetch", "fill"} :
          call' = [call EXCEPT ![c] = [call[c] EXCEPT !.got = g, !.pc = p]]
    <3>1. CASE Fetch(c)
      BY <3>1, SelectType DEF Fetch, Returned
    <3>2. CASE FetchFails(c)
      <4>1. call' = [call EXCEPT ![c] = [call[c] EXCEPT !.got = call[c].got,
                                                        !.pc = "error"]]
        BY <1>1, <3>2 DEF FetchFails, CallRecord
      <4> QED
        BY <1>1, <4>1 DEF CallRecord, Returned
    <3> QED
      BY <3>1, <3>2
  <2> QED
    BY <1>1, <2>1, CallRecordUpdates
<1>3. \A d \in Caller :
        /\ call'[d].name = call[d].name
        /\ call'[d].version = call[d].version
        /\ call'[d].pc # "idle" => call[d].pc # "idle"
  BY <1>1 DEF Fetch, FetchFails, CallRecord
<1>4. \A d \in Caller : call'[d].pc # "idle" =>
        call'[d].name \in Name /\ call'[d].version \in Asked
  <2> SUFFICES ASSUME NEW d \in Caller, call'[d].pc # "idle"
               PROVE  call'[d].name \in Name /\ call'[d].version \in Asked
    OBVIOUS
  <2>1. call[d].name \in Name /\ call[d].version \in Asked
    BY <1>1, <1>3 DEF CallInv
  <2> QED
    BY <1>3, <2>1
<1> QED
  BY <1>2, <1>4, CallKeeps DEF Fetch, FetchFails

\* A free watch starts, and the others stay as they are.
LEMMA StartsOneWatch ==
  ASSUME watch \in [Watcher -> WatchRecord], NEW o \in Caller \cup {None},
         NEW n \in Name, NEW v \in Asked, StartWatch(o, n, v)
  PROVE  /\ watch' \in [Watcher -> WatchRecord]
         /\ \E w \in Watcher :
              /\ watch[w].state = "free"
              /\ watch'[w].owner = o /\ watch'[w].name = n /\ watch'[w].version = v
              /\ watch'[w].state = IF backend = "etcd" THEN "starting" ELSE "open"
              /\ watch'[w].events = watch[w].events
              /\ watch'[w].jobs = watch[w].jobs /\ watch'[w].got = watch[w].got
              /\ \A u \in Watcher : u # w => watch'[u] = watch[u]
<1> DEFINE p == IF backend = "etcd" THEN "starting" ELSE "open"
<1>1. PICK w \in Watcher :
        /\ watch[w].state = "free"
        /\ watch' = [watch EXCEPT ![w] = [watch[w] EXCEPT !.owner = o, !.name = n,
                                            !.version = v, !.state = p]]
  BY DEF StartWatch
<1>2. [watch[w] EXCEPT !.owner = o, !.name = n, !.version = v, !.state = p]
        \in WatchRecord
  BY WatchRecordUpdates
<1>3. watch' \in [Watcher -> WatchRecord]
  BY <1>1, <1>2
<1> QED
  BY <1>1, <1>3 DEF WatchRecord

\* A start of a watch keeps what holds of the watches.
LEMMA StartKeeps ==
  ASSUME DiscoveryInv, NEW o \in Caller \cup {None}, NEW n \in Name, NEW v \in Asked,
         StartWatch(o, n, v), UNCHANGED <<backend, listed, changes>>
  PROVE  /\ watch' \in [Watcher -> WatchRecord]
         /\ WatchInv' /\ ReloadInv'
         /\ UNCHANGED <<cache, doubt>> => RefreshInv'
<1>0. watch \in [Watcher -> WatchRecord] /\ WatchInv /\ ReloadInv /\ RefreshInv
  BY DEF DiscoveryInv, TypeOK
<1>1. PICK w \in Watcher :
        /\ watch[w].state = "free"
        /\ watch'[w].owner = o /\ watch'[w].name = n /\ watch'[w].version = v
        /\ watch'[w].state = IF backend = "etcd" THEN "starting" ELSE "open"
        /\ watch'[w].events = watch[w].events
        /\ watch'[w].jobs = watch[w].jobs /\ watch'[w].got = watch[w].got
        /\ \A u \in Watcher : u # w => watch'[u] = watch[u]
  BY <1>0, StartsOneWatch
<1>2. watch' \in [Watcher -> WatchRecord]
  BY <1>0, StartsOneWatch
<1>3. WatchInv'
  BY <1>0, <1>1 DEF WatchInv
<1>4. ReloadInv'
  BY <1>0, <1>1 DEF ReloadInv
<1>5. UNCHANGED <<cache, doubt>> => RefreshInv'
  <2> SUFFICES ASSUME UNCHANGED <<cache, doubt>>, NEW m \in Name, backend = "etcd",
                      cache[m] # None, doubt[m] = "none"
               PROVE  \E u \in Watching(m)' :
                        /\ watch'[u].state \in {"open", "applying"}
                        /\ Quiet(u)' => cache[m] = Select(listed, m, watch'[u].version)
    BY DEF RefreshInv
  <2>1. PICK u \in Watching(m) :
          /\ watch[u].state \in {"open", "applying"}
          /\ Quiet(u) => cache[m] = Select(listed, m, watch[u].version)
    BY <1>0 DEF RefreshInv
  <2>2. u # w /\ watch'[u] = watch[u]
    BY <1>1, <2>1 DEF Watching
  <2> QED
    BY <2>1, <2>2 DEF Watching, Quiet
<1> QED
  BY <1>2, <1>3, <1>4, <1>5

\* A step of watch w, for the same owner, name and version.
OneWatch(w) ==
  /\ watch' \in [Watcher -> WatchRecord]
  /\ \A u \in Watcher : u # w => watch'[u] = watch[u]
  /\ watch'[w].owner = watch[w].owner
  /\ watch'[w].name = watch[w].name
  /\ watch'[w].version = watch[w].version

LEMMA OpenWatchMakes ==
  ASSUME watch \in [Watcher -> WatchRecord], NEW w \in Watcher, OpenWatch(w)
  PROVE  /\ OneWatch(w)
         /\ watch'[w].state = "open"
         /\ watch'[w].events = watch[w].events
         /\ watch'[w].jobs = watch[w].jobs
<1>1. [watch[w] EXCEPT !.state = "open"] \in WatchRecord
  BY WatchRecordUpdates
<1>2. watch' = [watch EXCEPT ![w] = [watch[w] EXCEPT !.state = "open"]]
  BY DEF OpenWatch
<1> QED
  BY <1>1, <1>2 DEF OneWatch, WatchRecord

LEMMA ReloadMakes ==
  ASSUME watch \in [Watcher -> WatchRecord], NEW w \in Watcher, Reload(w)
  PROVE  /\ OneWatch(w)
         /\ watch'[w].state = "applying"
         /\ watch'[w].events = watch[w].events - 1
         /\ watch'[w].jobs = watch[w].jobs
         /\ watch'[w].got = Select(listed, watch[w].name, watch[w].version)
<1> DEFINE got == Select(listed, watch[w].name, watch[w].version)
<1>1. watch[w].events - 1 \in 0..MaxChanges /\ watch[w] \in WatchRecord
  BY InstanceAssumption DEF Reload, WatchRecord
<1>2. got \in List
  BY SelectType
<1> HIDE DEF got
<1>3. [watch[w] EXCEPT !.state = "applying", !.events = watch[w].events - 1, !.got = got]
        \in WatchRecord
  BY <1>1, <1>2, WatchRecordUpdates
<1>4. watch' = [watch EXCEPT ![w] = [watch[w] EXCEPT !.state = "applying",
                                        !.events = watch[w].events - 1, !.got = got]]
  BY DEF Reload, got
<1>5. watch'[w].got = got
  BY <1>3, <1>4 DEF WatchRecord
<1> QED
  BY <1>3, <1>4, <1>5 DEF OneWatch, WatchRecord, got

LEMMA ReloadFailsMakes ==
  ASSUME watch \in [Watcher -> WatchRecord], NEW w \in Watcher, ReloadFails(w)
  PROVE  /\ OneWatch(w)
         /\ watch'[w].state = "open"
         /\ watch'[w].events = watch[w].events - 1
         /\ \A k \in DOMAIN watch'[w].jobs : watch'[w].jobs[k].late
         /\ watch[w].jobs = <<>> => watch'[w].jobs = <<>>
<1>1. PICK t : t = [j \in DOMAIN watch[w].jobs |-> [watch[w].jobs[j] EXCEPT !.late = TRUE]]
  OBVIOUS
<1>2. watch[w].events - 1 \in 0..MaxChanges /\ watch[w].jobs \in Jobs /\ watch[w] \in WatchRecord
  BY InstanceAssumption DEF ReloadFails, WatchRecord
<1>3. t \in Jobs /\ (\A k \in DOMAIN t : t[k].late) /\ (watch[w].jobs = <<>> => t = <<>>)
  BY <1>1, <1>2, JobsOutdated
<1>4. [watch[w] EXCEPT !.events = watch[w].events - 1, !.jobs = t] \in WatchRecord
  BY <1>2, <1>3, WatchRecordUpdates
<1>5. watch' = [watch EXCEPT ![w] = [watch[w] EXCEPT !.events = watch[w].events - 1,
                                                     !.jobs = t]]
  BY <1>1 DEF ReloadFails
<1>6. watch'[w].jobs = t
  BY <1>4, <1>5 DEF WatchRecord
<1>7. OneWatch(w) /\ watch'[w].state = "open" /\
      watch'[w].events = watch[w].events - 1
  <2>1. watch[w].state = "open"
    BY DEF ReloadFails
  <2> QED
    BY <1>4, <1>5, <2>1 DEF OneWatch, WatchRecord
<1> QED
  BY <1>3, <1>6, <1>7

LEMMA ApplyMakes ==
  ASSUME watch \in [Watcher -> WatchRecord], NEW w \in Watcher, Apply(w)
  PROVE  /\ OneWatch(w)
         /\ watch'[w].state = "open"
         /\ watch'[w].events = watch[w].events
         /\ watch'[w].jobs = IF watch[w].owner = None THEN watch[w].jobs
                             ELSE Append(watch[w].jobs,
                                         [list |-> watch[w].got, late |-> FALSE])
<1>1. PICK t : t = IF watch[w].owner = None THEN watch[w].jobs
                   ELSE Append(watch[w].jobs, [list |-> watch[w].got, late |-> FALSE])
  OBVIOUS
<1>2. watch[w].jobs \in Jobs /\ [list |-> watch[w].got, late |-> FALSE] \in Job
  BY DEF WatchRecord, Job
<1>3. t \in Jobs
  BY <1>1, <1>2, JobsAppended DEF Apply
<1>4. [watch[w] EXCEPT !.state = "open", !.got = {}, !.jobs = t] \in WatchRecord
  BY <1>3, WatchRecordUpdates DEF List
<1>5. watch' = [watch EXCEPT ![w] = [watch[w] EXCEPT !.state = "open", !.got = {},
                                                     !.jobs = t]]
  BY <1>1 DEF Apply
<1>6. watch'[w].jobs = t
  BY <1>4, <1>5 DEF WatchRecord
<1> QED
  BY <1>1, <1>4, <1>5, <1>6 DEF OneWatch, WatchRecord

LEMMA WatchEndsMakes ==
  ASSUME watch \in [Watcher -> WatchRecord], NEW w \in Watcher, WatchEnds(w)
  PROVE  /\ OneWatch(w)
         /\ watch'[w].state = "ended"
         /\ watch'[w].events = 0
         /\ watch'[w].jobs = watch[w].jobs
<1>1. [watch[w] EXCEPT !.state = "ended", !.events = 0] \in WatchRecord
  <2>1. 0 \in 0..MaxChanges
    BY InstanceAssumption
  <2> QED
    BY <2>1, WatchRecordUpdates
<1>2. watch' = [watch EXCEPT ![w] = [watch[w] EXCEPT !.state = "ended", !.events = 0]]
  BY DEF WatchEnds
<1> QED
  BY <1>1, <1>2 DEF OneWatch, WatchRecord

LEMMA PollMakes ==
  ASSUME watch \in [Watcher -> WatchRecord], NEW w \in Watcher, Poll(w)
  PROVE  /\ OneWatch(w)
         /\ watch'[w].state = watch[w].state
         /\ watch'[w].events = watch[w].events
         /\ watch'[w].jobs =
              Append(watch[w].jobs,
                     [list |-> Select(listed, watch[w].name, watch[w].version),
                      late |-> FALSE])
<1>1. PICK t : t = Append(watch[w].jobs,
                          [list |-> Select(listed, watch[w].name, watch[w].version),
                           late |-> FALSE])
  OBVIOUS
<1>2. watch[w].jobs \in Jobs /\
      [list |-> Select(listed, watch[w].name, watch[w].version), late |-> FALSE] \in Job
  BY SelectType DEF WatchRecord, Job
<1>3. t \in Jobs
  BY <1>1, <1>2, JobsAppended DEF Poll
<1>4. [watch[w] EXCEPT !.jobs = t] \in WatchRecord
  BY <1>3, WatchRecordUpdates
<1>5. watch' = [watch EXCEPT ![w] = [watch[w] EXCEPT !.jobs = t]]
  BY <1>1 DEF Poll
<1>6. watch'[w].jobs = t
  BY <1>4, <1>5 DEF WatchRecord
<1> QED
  BY <1>1, <1>4, <1>5, <1>6 DEF OneWatch, WatchRecord

\* The k-th task of w runs.
LEMMA AfterJobMakes ==
  ASSUME watch \in [Watcher -> WatchRecord], NEW w \in Watcher,
         NEW k \in DOMAIN watch[w].jobs, watch' = AfterJob(w, k)
  PROVE  /\ OneWatch(w)
         /\ watch'[w].state = watch[w].state
         /\ watch'[w].events = watch[w].events
         /\ watch'[w].got = watch[w].got
         /\ Len(watch'[w].jobs) = Len(watch[w].jobs) - 1
         /\ DOMAIN watch'[w].jobs = 1..(Len(watch[w].jobs) - 1)
         /\ \A j \in DOMAIN watch'[w].jobs : j < k => watch'[w].jobs[j].late
         /\ \A j \in DOMAIN watch'[w].jobs : ~(j < k) =>
              j + 1 \in DOMAIN watch[w].jobs /\ watch'[w].jobs[j] = watch[w].jobs[j + 1]
<1>1. PICK t : t = [j \in 1..(Len(watch[w].jobs) - 1) |->
                      IF j < k THEN [watch[w].jobs[j] EXCEPT !.late = TRUE]
                               ELSE watch[w].jobs[j + 1]]
  OBVIOUS
<1>2. watch[w].jobs \in Jobs
  BY DEF WatchRecord
<1>3. /\ t \in Jobs
      /\ Len(t) = Len(watch[w].jobs) - 1
      /\ DOMAIN t = 1..(Len(watch[w].jobs) - 1)
      /\ \A j \in DOMAIN t : j < k => t[j].late
      /\ \A j \in DOMAIN t : ~(j < k) =>
           j + 1 \in DOMAIN watch[w].jobs /\ t[j] = watch[w].jobs[j + 1]
  BY <1>1, <1>2, JobsAfterOne
<1>4. [watch[w] EXCEPT !.jobs = t] \in WatchRecord
  BY <1>3, WatchRecordUpdates
<1>5. watch' = [watch EXCEPT ![w] = [watch[w] EXCEPT !.jobs = t]]
  BY <1>1 DEF AfterJob
<1>6. watch'[w].jobs = t
  BY <1>4, <1>5 DEF WatchRecord
<1>7. OneWatch(w) /\ watch'[w].state = watch[w].state /\
      watch'[w].events = watch[w].events /\ watch'[w].got = watch[w].got
  BY <1>4, <1>5 DEF OneWatch, WatchRecord
<1> QED
  BY <1>3, <1>6, <1>7

\* A filled cache waits for its watch: the doubt tells.
LEMMA FillKeeps ==
  ASSUME DiscoveryInv, NEW c \in Caller, Fill(c)
  PROVE  DiscoveryInv'
<1>1. call \in [Caller -> CallRecord] /\ CallInv /\ RefreshInv
  BY DEF DiscoveryInv, TypeOK
<1>2. call[c].name \in Name /\ call[c].version \in Asked /\ call[c].got \in List
  BY <1>1 DEF Fill, CallInv, CallRecord
<1>3. call' \in [Caller -> CallRecord]
  BY <1>1, CallRecordUpdates DEF Fill, Returned
<1>4. watch' \in [Watcher -> WatchRecord] /\ WatchInv' /\ ReloadInv'
  BY <1>2, StartKeeps DEF Fill
<1>5. TypeOK'
  BY <1>2, <1>3, <1>4 DEF Fill, DiscoveryInv, TypeOK
<1>6. CallInv'
  BY <1>1 DEF Fill, CallInv, CallRecord
<1>7. RefreshInv'
  <2> SUFFICES ASSUME NEW m \in Name, backend = "etcd", cache'[m] # None, doubt'[m] = "none"
               PROVE  \E u \in Watching(m)' :
                        /\ watch'[u].state \in {"open", "applying"}
                        /\ Quiet(u)' => cache'[m] = Select(listed, m, watch'[u].version)
    BY DEF RefreshInv, Fill
  <2>1. m # call[c].name /\ cache'[m] = cache[m] /\ doubt[m] = "none"
    BY <1>2 DEF Fill, DiscoveryInv, TypeOK
  <2>2. PICK u \in Watching(m) :
          /\ watch[u].state \in {"open", "applying"}
          /\ Quiet(u) => cache[m] = Select(listed, m, watch[u].version)
    BY <1>1, <2>1 DEF RefreshInv
  <2>3. watch'[u] = watch[u]
    <3>1. watch \in [Watcher -> WatchRecord]
      BY DEF DiscoveryInv, TypeOK
    <3>2. PICK w \in Watcher : watch[w].state = "free" /\
            \A x \in Watcher : x # w => watch'[x] = watch[x]
      BY <1>2, <3>1, StartsOneWatch DEF Fill
    <3> QED
      BY <2>2, <3>2 DEF Watching
  <2> QED
    BY <2>1, <2>2, <2>3 DEF Watching, Quiet
<1> QED
  BY <1>4, <1>5, <1>6, <1>7 DEF DiscoveryInv

LEMMA OpenWatchKeeps ==
  ASSUME DiscoveryInv, NEW w \in Watcher, OpenWatch(w)
  PROVE  DiscoveryInv'
<1>1. watch \in [Watcher -> WatchRecord] /\ WatchInv /\ ReloadInv /\ RefreshInv
  BY DEF DiscoveryInv, TypeOK
<1>2. /\ OneWatch(w) /\ watch'[w].state = "open"
      /\ watch'[w].events = watch[w].events /\ watch'[w].jobs = watch[w].jobs
  BY <1>1, OpenWatchMakes
<1>3. TypeOK' /\ CallInv'
  BY <1>2 DEF OpenWatch, OneWatch, DiscoveryInv, TypeOK, CallInv
<1>4. WatchInv' /\ ReloadInv'
  BY <1>1, <1>2 DEF OpenWatch, OneWatch, WatchInv, ReloadInv
<1>5. RefreshInv'
  <2> SUFFICES ASSUME NEW m \in Name, backend = "etcd", cache[m] # None, doubt[m] = "none"
               PROVE  \E u \in Watching(m)' :
                        /\ watch'[u].state \in {"open", "applying"}
                        /\ Quiet(u)' => cache[m] = Select(listed, m, watch'[u].version)
    BY DEF RefreshInv, OpenWatch
  <2>1. PICK u \in Watching(m) :
          /\ watch[u].state \in {"open", "applying"}
          /\ Quiet(u) => cache[m] = Select(listed, m, watch[u].version)
    BY <1>1 DEF RefreshInv
  <2>2. u # w /\ watch'[u] = watch[u]
    BY <1>2, <2>1 DEF OpenWatch, OneWatch, Watching
  <2> QED
    BY <2>1, <2>2 DEF Watching, Quiet
<1> QED
  BY <1>3, <1>4, <1>5 DEF DiscoveryInv

LEMMA ReloadKeeps ==
  ASSUME DiscoveryInv, NEW w \in Watcher, Reload(w)
  PROVE  DiscoveryInv'
<1>1. watch \in [Watcher -> WatchRecord] /\ WatchInv /\ ReloadInv /\ RefreshInv
  BY DEF DiscoveryInv, TypeOK
<1>2. /\ OneWatch(w) /\ watch'[w].state = "applying"
      /\ watch'[w].events = watch[w].events - 1 /\ watch'[w].jobs = watch[w].jobs
      /\ watch'[w].got = Select(listed, watch[w].name, watch[w].version)
  BY <1>1, ReloadMakes
<1>3. TypeOK' /\ CallInv'
  BY <1>2 DEF Reload, OneWatch, DiscoveryInv, TypeOK, CallInv
<1>4. WatchInv'
  <2>1. watch[w].events \in Nat /\ changes \in Nat
    BY InstanceAssumption DEF DiscoveryInv, TypeOK, WatchRecord
  <2> QED
    BY <1>1, <1>2, <2>1 DEF Reload, OneWatch, WatchInv
<1>5. ReloadInv'
  BY <1>1, <1>2 DEF Reload, OneWatch, ReloadInv
<1>6. RefreshInv'
  <2> SUFFICES ASSUME NEW m \in Name, backend = "etcd", cache[m] # None, doubt[m] = "none"
               PROVE  \E u \in Watching(m)' :
                        /\ watch'[u].state \in {"open", "applying"}
                        /\ Quiet(u)' => cache[m] = Select(listed, m, watch'[u].version)
    BY DEF RefreshInv, Reload
  <2>1. PICK u \in Watching(m) :
          /\ watch[u].state \in {"open", "applying"}
          /\ Quiet(u) => cache[m] = Select(listed, m, watch[u].version)
    BY <1>1 DEF RefreshInv
  <2>2. watch'[u].name = watch[u].name /\ watch'[u].version = watch[u].version /\
        watch'[u].state \in {"open", "applying"}
    BY <1>2, <2>1 DEF OneWatch, Watching
  <2>3. Quiet(u)' => Quiet(u)
    BY <1>2, <2>1 DEF OneWatch, Watching, Quiet
  <2> QED
    BY <2>1, <2>2, <2>3 DEF Watching
<1> QED
  BY <1>3, <1>4, <1>5, <1>6 DEF DiscoveryInv

LEMMA ReloadFailsKeeps ==
  ASSUME DiscoveryInv, NEW w \in Watcher, ReloadFails(w)
  PROVE  DiscoveryInv'
<1>1. watch \in [Watcher -> WatchRecord] /\ WatchInv /\ ReloadInv /\ RefreshInv
  BY DEF DiscoveryInv, TypeOK
<1>2. /\ OneWatch(w) /\ watch'[w].state = "open"
      /\ watch'[w].events = watch[w].events - 1
      /\ watch[w].jobs = <<>> => watch'[w].jobs = <<>>
  BY <1>1, ReloadFailsMakes
<1>3. TypeOK' /\ CallInv'
  BY <1>2 DEF ReloadFails, OneWatch, DiscoveryInv, TypeOK, CallInv
<1>4. WatchInv'
  <2>1. watch[w].events \in Nat /\ changes \in Nat
    BY InstanceAssumption DEF DiscoveryInv, TypeOK, WatchRecord
  <2> QED
    BY <1>1, <1>2, <2>1 DEF ReloadFails, OneWatch, WatchInv
<1>5. ReloadInv'
  BY <1>1, <1>2 DEF ReloadFails, OneWatch, ReloadInv
<1>6. RefreshInv'
  <2> SUFFICES ASSUME NEW m \in Name, backend = "etcd", cache[m] # None, doubt'[m] = "none"
               PROVE  \E u \in Watching(m)' :
                        /\ watch'[u].state \in {"open", "applying"}
                        /\ Quiet(u)' => cache[m] = Select(listed, m, watch'[u].version)
    BY DEF RefreshInv, ReloadFails
  <2>1. m # watch[w].name /\ doubt[m] = "none"
    BY DEF ReloadFails, DiscoveryInv, TypeOK
  <2>2. PICK u \in Watching(m) :
          /\ watch[u].state \in {"open", "applying"}
          /\ Quiet(u) => cache[m] = Select(listed, m, watch[u].version)
    BY <1>1, <2>1 DEF RefreshInv
  <2>3. watch'[u] = watch[u]
    BY <1>2, <2>1, <2>2 DEF OneWatch, Watching
  <2> QED
    BY <2>2, <2>3 DEF Watching, Quiet
<1> QED
  BY <1>3, <1>4, <1>5, <1>6 DEF DiscoveryInv

LEMMA ApplyKeeps ==
  ASSUME DiscoveryInv, NEW w \in Watcher, Apply(w)
  PROVE  DiscoveryInv'
<1>1. watch \in [Watcher -> WatchRecord] /\ WatchInv /\ ReloadInv /\ RefreshInv
  BY DEF DiscoveryInv, TypeOK
<1>2. /\ OneWatch(w) /\ watch'[w].state = "open" /\ watch'[w].events = watch[w].events
      /\ watch[w].owner = None => watch'[w].jobs = watch[w].jobs
  BY <1>1, ApplyMakes
<1>3. watch[w].got \in List /\ watch[w].name \in Name
  BY <1>1 DEF WatchRecord, WatchInv, Apply
<1>4. TypeOK' /\ CallInv'
  BY <1>2, <1>3 DEF Apply, OneWatch, DiscoveryInv, TypeOK, CallInv
<1>5. WatchInv' /\ ReloadInv'
  BY <1>1, <1>2 DEF Apply, OneWatch, WatchInv, ReloadInv
<1>6. RefreshInv'
  <2> SUFFICES ASSUME NEW m \in Name, backend = "etcd", cache'[m] # None, doubt'[m] = "none"
               PROVE  \E u \in Watching(m)' :
                        /\ watch'[u].state \in {"open", "applying"}
                        /\ Quiet(u)' => cache'[m] = Select(listed, m, watch'[u].version)
    BY DEF RefreshInv, Apply
  <2>1. CASE m = watch[w].name
    <3>1. cache'[m] = watch[w].got
      BY <1>3, <2>1 DEF Apply, DiscoveryInv, TypeOK
    <3>2. watch[w].events = 0 => watch[w].got = Select(listed, m, watch[w].version)
      BY <1>1, <2>1 DEF ReloadInv, Apply
    <3>3. w \in Watching(m)' /\ (Quiet(w)' => watch[w].events = 0) /\
          watch'[w].version = watch[w].version
      BY <1>2, <2>1 DEF Watching, Quiet, OneWatch
    <3> QED
      BY <1>2, <3>1, <3>2, <3>3
  <2>2. CASE m # watch[w].name
    <3>1. cache'[m] = cache[m] /\ doubt[m] = "none"
      BY <2>2 DEF Apply, DiscoveryInv, TypeOK
    <3>2. PICK u \in Watching(m) :
            /\ watch[u].state \in {"open", "applying"}
            /\ Quiet(u) => cache[m] = Select(listed, m, watch[u].version)
      BY <1>1, <3>1 DEF RefreshInv
    <3>3. watch'[u] = watch[u]
      BY <1>2, <2>2, <3>2 DEF OneWatch, Watching
    <3> QED
      BY <3>1, <3>2, <3>3 DEF Watching, Quiet
  <2> QED
    BY <2>1, <2>2
<1> QED
  BY <1>4, <1>5, <1>6 DEF DiscoveryInv

LEMMA WatchEndsKeeps ==
  ASSUME DiscoveryInv, NEW w \in Watcher, WatchEnds(w)
  PROVE  DiscoveryInv'
<1>1. watch \in [Watcher -> WatchRecord] /\ WatchInv /\ ReloadInv /\ RefreshInv
  BY DEF DiscoveryInv, TypeOK
<1>2. /\ OneWatch(w) /\ watch'[w].state = "ended"
      /\ watch'[w].events = 0 /\ watch'[w].jobs = watch[w].jobs
  BY <1>1, WatchEndsMakes
<1>3. TypeOK' /\ CallInv'
  BY <1>2 DEF WatchEnds, OneWatch, DiscoveryInv, TypeOK, CallInv
<1>4. WatchInv'
  <2>1. changes >= 0
    BY InstanceAssumption DEF DiscoveryInv, TypeOK
  <2> QED
    BY <1>1, <1>2, <2>1 DEF WatchEnds, OneWatch, WatchInv
<1>5. ReloadInv'
  BY <1>1, <1>2 DEF WatchEnds, OneWatch, ReloadInv
<1>6. RefreshInv'
  <2> SUFFICES ASSUME NEW m \in Name, backend = "etcd", cache[m] # None, doubt'[m] = "none"
               PROVE  \E u \in Watching(m)' :
                        /\ watch'[u].state \in {"open", "applying"}
                        /\ Quiet(u)' => cache[m] = Select(listed, m, watch'[u].version)
    BY DEF RefreshInv, WatchEnds
  <2>1. m # watch[w].name /\ doubt[m] = "none"
    BY DEF WatchEnds, DiscoveryInv, TypeOK
  <2>2. PICK u \in Watching(m) :
          /\ watch[u].state \in {"open", "applying"}
          /\ Quiet(u) => cache[m] = Select(listed, m, watch[u].version)
    BY <1>1, <2>1 DEF RefreshInv
  <2>3. watch'[u] = watch[u]
    BY <1>2, <2>1, <2>2 DEF OneWatch, Watching
  <2> QED
    BY <2>2, <2>3 DEF Watching, Quiet
<1> QED
  BY <1>3, <1>4, <1>5, <1>6 DEF DiscoveryInv

LEMMA PollKeeps ==
  ASSUME DiscoveryInv, NEW w \in Watcher, Poll(w)
  PROVE  DiscoveryInv'
<1>1. watch \in [Watcher -> WatchRecord] /\ WatchInv
  BY DEF DiscoveryInv, TypeOK
<1>2. /\ OneWatch(w) /\ watch'[w].state = watch[w].state
      /\ watch'[w].events = watch[w].events
  BY <1>1, PollMakes
<1>3. TypeOK' /\ CallInv'
  BY <1>2 DEF Poll, OneWatch, DiscoveryInv, TypeOK, CallInv
<1>4. WatchInv'
  BY <1>1, <1>2 DEF Poll, OneWatch, WatchInv
<1>5. ReloadInv' /\ RefreshInv'
  BY DEF Poll, ReloadInv, RefreshInv
<1> QED
  BY <1>3, <1>4, <1>5 DEF DiscoveryInv

\* A task of a resolver's watch runs, and stores nothing in the cache.
LEMMA AfterJobKeeps ==
  ASSUME DiscoveryInv, NEW w \in Watcher, NEW k \in DOMAIN watch[w].jobs,
         watch' = AfterJob(w, k), watch[w].owner # None,
         UNCHANGED <<backend, enabled, listed, changes, cache, call, doubt>>
  PROVE  DiscoveryInv'
<1>1. watch \in [Watcher -> WatchRecord] /\ WatchInv /\ ReloadInv /\ RefreshInv
  BY DEF DiscoveryInv, TypeOK
<1>2. /\ OneWatch(w) /\ watch'[w].state = watch[w].state
      /\ watch'[w].events = watch[w].events /\ watch'[w].got = watch[w].got
  BY <1>1, AfterJobMakes
<1>3. TypeOK' /\ CallInv'
  BY <1>2 DEF OneWatch, DiscoveryInv, TypeOK, CallInv
<1>4. WatchInv'
  <2>1. watch[w].jobs # <<>>
    OBVIOUS
  <2> QED
    BY <1>1, <1>2, <2>1 DEF OneWatch, WatchInv
<1>5. ReloadInv'
  BY <1>1, <1>2 DEF OneWatch, ReloadInv
<1>6. RefreshInv'
  <2> SUFFICES ASSUME NEW m \in Name, backend = "etcd", cache[m] # None, doubt[m] = "none"
               PROVE  \E u \in Watching(m)' :
                        /\ watch'[u].state \in {"open", "applying"}
                        /\ Quiet(u)' => cache[m] = Select(listed, m, watch'[u].version)
    BY DEF RefreshInv
  <2>1. PICK u \in Watching(m) :
          /\ watch[u].state \in {"open", "applying"}
          /\ Quiet(u) => cache[m] = Select(listed, m, watch[u].version)
    BY <1>1 DEF RefreshInv
  <2>2. /\ watch'[u].name = watch[u].name /\ watch'[u].version = watch[u].version
        /\ watch'[u].state = watch[u].state /\ watch'[u].events = watch[u].events
    BY <1>2, <2>1 DEF OneWatch, Watching
  <2> QED
    BY <2>1, <2>2 DEF Watching, Quiet
<1> QED
  BY <1>3, <1>4, <1>5, <1>6 DEF DiscoveryInv

\* Only a Consul watch of the discovery's own has tasks that store.
LEMMA StoreKeeps ==
  ASSUME DiscoveryInv, NEW w \in Watcher, NEW k \in DOMAIN watch[w].jobs, Store(w, k)
  PROVE  DiscoveryInv' /\ backend # "etcd"
<1>1. watch \in [Watcher -> WatchRecord] /\ WatchInv
  BY DEF DiscoveryInv, TypeOK
<1>2. /\ OneWatch(w) /\ watch'[w].state = watch[w].state
      /\ watch'[w].events = watch[w].events
  BY <1>1, AfterJobMakes DEF Store
<1>3. watch[w].jobs # <<>>
  OBVIOUS
<1>4. backend # "etcd"
  BY <1>1, <1>3 DEF WatchInv, Store
<1>5. watch[w].jobs[k].list \in List /\ watch[w].name \in Name
  <2>1. watch[w].jobs \in Jobs
    BY <1>1 DEF WatchRecord
  <2>2. watch[w].jobs[k] \in Job
    BY <2>1, JobsProperties
  <2> QED
    BY <1>1, <1>3, <2>2 DEF WatchInv, Job
<1>6. TypeOK' /\ CallInv'
  BY <1>2, <1>5 DEF Store, OneWatch, DiscoveryInv, TypeOK, CallInv
<1>7. WatchInv'
  BY <1>1, <1>2, <1>3, <1>4 DEF Store, OneWatch, WatchInv
<1>8. ReloadInv' /\ RefreshInv'
  BY <1>4 DEF Store, ReloadInv, RefreshInv
<1> QED
  BY <1>4, <1>6, <1>7, <1>8 DEF DiscoveryInv

\* A change is an event at each etcd watch whose selection it changes.
LEMMA ChangeMakes ==
  ASSUME DiscoveryInv, NEW i \in Instance, Change(i)
  PROVE  /\ watch' \in [Watcher -> WatchRecord]
         /\ \A w \in Watcher :
              /\ watch'[w].owner = watch[w].owner /\ watch'[w].name = watch[w].name
              /\ watch'[w].version = watch[w].version
              /\ watch'[w].state = watch[w].state
              /\ watch'[w].jobs = watch[w].jobs /\ watch'[w].got = watch[w].got
              /\ watch'[w].events \in {watch[w].events, watch[w].events + 1}
              /\ watch[w].state \in {"free", "starting", "ended"} =>
                   watch'[w].events = watch[w].events
              /\ (backend = "etcd" /\ watch[w].state \in {"open", "applying"}
                    /\ watch'[w].events = 0)
                   => /\ watch[w].events = 0
                      /\ Select(listed', watch[w].name, watch[w].version)
                           = Select(listed, watch[w].name, watch[w].version)
<1>1. watch \in [Watcher -> WatchRecord] /\ WatchInv /\ changes \in 0..MaxChanges
  BY DEF DiscoveryInv, TypeOK
<1>2. \A w \in Watcher : watch[w].events \in Nat /\ watch[w].events + 1 \in 0..MaxChanges
  BY <1>1, InstanceAssumption DEF Change, WatchInv, WatchRecord
<1>3. watch' \in [Watcher -> WatchRecord]
  BY <1>1, <1>2, WatchRecordUpdates DEF Change, Notified
<1>4. \A j : j # i => (j \in listed' <=> j \in listed)
  BY DEF Change
<1>5. ASSUME NEW w \in Watcher, backend = "etcd", watch[w].state \in {"open", "applying"},
             watch'[w].events = 0
      PROVE  /\ watch[w].events = 0
             /\ Select(listed', watch[w].name, watch[w].version)
                  = Select(listed, watch[w].name, watch[w].version)
  <2>1. ~Matches(i, watch[w].name, watch[w].version)
    <3>1. SUFFICES ASSUME Matches(i, watch[w].name, watch[w].version) PROVE FALSE
      OBVIOUS
    <3>2. watch'[w].events = watch[w].events + 1
      BY <1>1, <1>5, <3>1 DEF Change, Notified, WatchRecord
    <3> QED
      BY <1>2, <1>5, <3>2
  <2>2. watch'[w] = watch[w]
    BY <1>5, <2>1 DEF Change, Notified
  <2>3. Select(listed', watch[w].name, watch[w].version)
          = Select(listed, watch[w].name, watch[w].version)
    BY <1>4, <2>1, SelectUnchanged
  <2> QED
    BY <1>5, <2>2, <2>3
<1>6. ASSUME NEW w \in Watcher
      PROVE  /\ watch'[w].owner = watch[w].owner /\ watch'[w].name = watch[w].name
             /\ watch'[w].version = watch[w].version
             /\ watch'[w].state = watch[w].state
             /\ watch'[w].jobs = watch[w].jobs /\ watch'[w].got = watch[w].got
             /\ watch'[w].events \in {watch[w].events, watch[w].events + 1}
             /\ watch[w].state \in {"free", "starting", "ended"} =>
                  watch'[w].events = watch[w].events
  BY <1>1, <1>6 DEF Change, Notified, WatchRecord
<1> QED
  BY <1>3, <1>5, <1>6

LEMMA ChangeKeeps ==
  ASSUME DiscoveryInv, NEW i \in Instance, Change(i)
  PROVE  DiscoveryInv'
<1>1. watch \in [Watcher -> WatchRecord] /\ WatchInv /\ ReloadInv /\ RefreshInv
  BY DEF DiscoveryInv, TypeOK
<1>2. watch' \in [Watcher -> WatchRecord]
  BY ChangeMakes
<1>3. TypeOK' /\ CallInv'
  BY <1>2, InstanceAssumption DEF Change, DiscoveryInv, TypeOK, CallInv, List
<1>4. WatchInv'
  <2>1. \A w \in Watcher : watch[w].events \in Nat /\ changes \in Nat
    BY InstanceAssumption DEF DiscoveryInv, TypeOK, WatchRecord
  <2>2. changes' = changes + 1 /\ backend' = backend
    BY DEF Change
  <2> QED
    BY <1>1, <2>1, <2>2, ChangeMakes DEF WatchInv
<1>5. ReloadInv'
  <2>1. backend' = backend
    BY DEF Change
  <2> QED
    BY <1>1, <2>1, ChangeMakes DEF ReloadInv
<1>6. RefreshInv'
  <2> SUFFICES ASSUME NEW m \in Name, backend = "etcd", cache[m] # None, doubt[m] = "none"
               PROVE  \E u \in Watching(m)' :
                        /\ watch'[u].state \in {"open", "applying"}
                        /\ Quiet(u)' => cache[m] = Select(listed', m, watch'[u].version)
    BY DEF RefreshInv, Change
  <2>1. PICK u \in Watching(m) :
          /\ watch[u].state \in {"open", "applying"}
          /\ Quiet(u) => cache[m] = Select(listed, m, watch[u].version)
    BY <1>1 DEF RefreshInv
  <2>2. u \in Watcher /\ watch[u].name = m
    BY <2>1 DEF Watching
  <2>3. /\ watch'[u].name = m /\ watch'[u].version = watch[u].version
        /\ watch'[u].state = watch[u].state
        /\ watch'[u].events = 0 =>
             /\ watch[u].events = 0
             /\ Select(listed', m, watch[u].version) = Select(listed, m, watch[u].version)
    BY <2>1, <2>2, ChangeMakes
  <2> QED
    BY <2>1, <2>2, <2>3 DEF Watching, Quiet
<1> QED
  BY <1>3, <1>4, <1>5, <1>6 DEF DiscoveryInv

--------------------------------------------------------------------------
(* The resolvers: channels and updates.                                    *)

Lags == {"none", "unwatched", "failed", "ended", "overtaken", "cut"}

ChannelTypes ==
  /\ current \in [Resolver -> List] /\ endpoints \in [Resolver -> List]
  /\ cut \in [Resolver -> BOOLEAN] /\ lag \in [Resolver -> Lags]

\* An update is of one channel, and cut short or complete.
LEMMA AppliedServices ==
  ASSUME ChannelTypes, KnownEndpoints, NEW r \in Resolver, NEW list \in List,
         NEW why \in Lags, ApplyServices(r, list, why)
  PROVE  /\ ChannelTypes' /\ KnownEndpoints'
         /\ \A q \in Resolver : q # r => current'[q] = current[q] /\ lag'[q] = lag[q]
         /\ lag'[r] = "cut" \/ (lag'[r] = why /\ current'[r] = list \cap Grpc)
<1> DEFINE keys == list \cap Grpc
           new == keys \ current[r]
<1>0. keys \in List /\ new \in List /\ current[r] \in List /\ endpoints[r] \in List
  BY DEF ChannelTypes, List
<1>1. CASE CutShort(r, list)
  <2>1. PICK sent \in SUBSET (new \ NoUri) :
          endpoints' = [endpoints EXCEPT ![r] = endpoints[r] \cup sent]
    BY <1>1 DEF ApplyServices
  <2>2. cut' = [cut EXCEPT ![r] = TRUE] /\ lag' = [lag EXCEPT ![r] = "cut"] /\
        current' = current
    BY <1>1 DEF ApplyServices
  <2>3. endpoints[r] \cup sent \in List
    BY <1>0, <2>1 DEF List
  <2>4. ChannelTypes'
    BY <2>1, <2>2, <2>3 DEF ChannelTypes, Lags
  <2>5. KnownEndpoints'
    BY <2>1, <2>2 DEF ChannelTypes, KnownEndpoints
  <2>6. lag'[r] = "cut" /\
        \A q \in Resolver : q # r => current'[q] = current[q] /\ lag'[q] = lag[q]
    BY <2>2 DEF ChannelTypes
  <2> QED
    BY <2>4, <2>5, <2>6
<1>2. CASE ~CutShort(r, list)
  <2>1. /\ endpoints' = [endpoints EXCEPT ![r] = (endpoints[r] \cup new) \ (current[r] \ keys)]
        /\ current' = [current EXCEPT ![r] = keys]
        /\ lag' = [lag EXCEPT ![r] = why]
        /\ cut' = cut
    BY <1>2 DEF ApplyServices
  <2>2. (endpoints[r] \cup new) \ (current[r] \ keys) \in List
    BY <1>0 DEF List
  <2>3. ChannelTypes'
    BY <1>0, <2>1, <2>2 DEF ChannelTypes
  <2>4. KnownEndpoints'
    <3>1. current[r] \subseteq endpoints[r] /\ (endpoints[r] = current[r] \/ cut[r])
      BY DEF KnownEndpoints
    <3>2. keys \subseteq (endpoints[r] \cup new) \ (current[r] \ keys)
      BY <3>1
    <3>3. endpoints[r] = current[r] => (endpoints[r] \cup new) \ (current[r] \ keys) = keys
      OBVIOUS
    <3>4. current'[r] = keys /\ endpoints'[r] = (endpoints[r] \cup new) \ (current[r] \ keys)
          /\ cut'[r] = cut[r]
      BY <2>1 DEF ChannelTypes
    <3>5. \A q \in Resolver : q # r => /\ current'[q] = current[q]
                                      /\ endpoints'[q] = endpoints[q] /\ cut'[q] = cut[q]
      BY <2>1 DEF ChannelTypes
    <3> HIDE DEF keys, new
    <3>6. current'[r] \subseteq endpoints'[r] /\ (endpoints'[r] = current'[r] \/ cut'[r])
      BY <3>1, <3>2, <3>3, <3>4
    <3> QED
      BY <3>5, <3>6 DEF KnownEndpoints
  <2> QED
    BY <2>1, <2>3, <2>4 DEF ChannelTypes
<1> QED
  BY <1>1, <1>2

--------------------------------------------------------------------------
(* What the watches hand to the channels.                                  *)

\* A step of one watch, of nobody else's channel.
LEMMA OneHanded ==
  ASSUME HandedInv, NEW w \in Watcher, OneWatch(w), UNCHANGED <<backend, listed>>,
         \A u \in Watcher : u # w /\ watch[u].owner \in Resolver =>
           /\ current'[watch[u].owner] = current[watch[u].owner]
           /\ lag'[watch[u].owner] = lag[watch[u].owner],
         InOrder(w)', Handed(w)'
  PROVE  HandedInv'
<1> SUFFICES ASSUME NEW u \in Watcher, u # w PROVE InOrder(u)' /\ Handed(u)'
  BY DEF HandedInv
<1>1. watch'[u] = watch[u]
  BY DEF OneWatch
<1>2. InOrder(u) /\ Handed(u)
  BY DEF HandedInv
<1>3. InOrder(u)'
  BY <1>1, <1>2 DEF InOrder
<1>4. Handed(u)'
  BY <1>1, <1>2 DEF Handed
<1> QED
  BY <1>3, <1>4

\* Nobody's watch moves, and no channel that has one.
LEMMA NoneHanded ==
  ASSUME HandedInv, UNCHANGED <<backend, listed, watch>>,
         \A u \in Watcher : watch[u].owner \in Resolver =>
           /\ current'[watch[u].owner] = current[watch[u].owner]
           /\ lag'[watch[u].owner] = lag[watch[u].owner]
  PROVE  HandedInv'
<1> SUFFICES ASSUME NEW u \in Watcher PROVE InOrder(u)' /\ Handed(u)'
  BY DEF HandedInv
<1>1. InOrder(u) /\ Handed(u)
  BY DEF HandedInv
<1>2. InOrder(u)'
  BY <1>1 DEF InOrder
<1>3. Handed(u)'
  BY <1>1 DEF Handed
<1> QED
  BY <1>2, <1>3

\* Who owns which watch does not change.
LEMMA OwnersStay ==
  ASSUME OwnerInv, UNCHANGED <<wrapped, phase>>,
         \A w \in Watcher : watch'[w].owner = watch[w].owner,
         \A r \in Resolver : call'[r].pc = "idle" => call[r].pc = "idle"
  PROVE  OwnerInv'
BY DEF OwnerInv

LEMMA OneOwner ==
  ASSUME OwnerInv, NEW w \in Watcher, OneWatch(w), UNCHANGED <<wrapped, phase, call>>
  PROVE  OwnerInv'
<1>1. \A u \in Watcher : watch'[u].owner = watch[u].owner
  BY DEF OneWatch
<1> QED
  BY <1>1, OwnersStay

LEMMA NoneIsNoResolver == None \notin Resolver
BY InstanceAssumption, ResolverAssumption

LEMMA OpenWatchHands ==
  ASSUME ResolverInv, NEW w \in Watcher, OpenWatch(w), UNCHANGED resolvers
  PROVE  OwnerInv' /\ HandedInv'
<1> USE DEF ResolverInv, resolvers
<1>1. watch \in [Watcher -> WatchRecord] /\ WatchInv /\ HandedInv
  BY DEF DiscoveryInv, TypeOK
<1>2. /\ OneWatch(w) /\ watch'[w].state = "open"
      /\ watch'[w].events = watch[w].events /\ watch'[w].jobs = watch[w].jobs
  BY <1>1, OpenWatchMakes
<1>3. OwnerInv'
  BY <1>2, OneOwner DEF OpenWatch
<1>4. DOMAIN watch[w].jobs = {}
  <2>1. watch[w].jobs = <<>> /\ watch[w].jobs \in Jobs
    BY <1>1 DEF WatchInv, OpenWatch, WatchRecord
  <2> QED
    BY <2>1, JobsProperties
<1>5. InOrder(w)'
  BY <1>2, <1>4 DEF InOrder
<1>6. Handed(w)'
  <2>1. Handed(w)
    BY <1>1 DEF HandedInv
  <2> QED
    BY <1>2, <1>4, <2>1 DEF Handed, OneWatch, OpenWatch
<1> QED
  BY <1>1, <1>2, <1>3, <1>5, <1>6, OneHanded DEF OpenWatch

LEMMA ReloadHands ==
  ASSUME ResolverInv, NEW w \in Watcher, Reload(w), UNCHANGED resolvers
  PROVE  OwnerInv' /\ HandedInv'
<1> USE DEF ResolverInv, resolvers
<1>1. watch \in [Watcher -> WatchRecord] /\ HandedInv
  BY DEF DiscoveryInv, TypeOK
<1>2. OneWatch(w) /\ watch'[w].state = "applying" /\ watch'[w].jobs = watch[w].jobs
  BY <1>1, ReloadMakes
<1>3. OwnerInv'
  BY <1>2, OneOwner DEF Reload
<1>4. InOrder(w)' /\ Handed(w)'
  BY <1>1, <1>2 DEF HandedInv, InOrder, Handed
<1> QED
  BY <1>1, <1>2, <1>3, <1>4, OneHanded DEF Reload

\* A list that is handed on is not late, and none before it was.
LEMMA AppendedInOrder ==
  ASSUME watch \in [Watcher -> WatchRecord], NEW w \in Watcher, InOrder(w),
         Len(watch[w].jobs) < MaxJobs, NEW e \in Job, ~e.late,
         watch'[w].jobs = Append(watch[w].jobs, e)
  PROVE  InOrder(w)'
<1>1. watch[w].jobs \in Jobs
  BY DEF WatchRecord
<1>2. /\ Len(watch[w].jobs) \in Nat /\ DOMAIN watch[w].jobs = 1..Len(watch[w].jobs)
      /\ DOMAIN watch'[w].jobs = 1..(Len(watch[w].jobs) + 1)
      /\ watch'[w].jobs[Len(watch[w].jobs) + 1] = e
      /\ \A k \in DOMAIN watch[w].jobs : watch'[w].jobs[k] = watch[w].jobs[k]
  BY <1>1, JobsProperties, JobsAppended
<1> SUFFICES ASSUME NEW k \in DOMAIN watch'[w].jobs, watch'[w].jobs[k].late,
                    NEW j \in 1..k
             PROVE  watch'[w].jobs[j].late
  BY DEF InOrder
<1>3. k \in DOMAIN watch[w].jobs /\ j \in DOMAIN watch[w].jobs
  BY <1>2
<1> QED
  BY <1>2, <1>3 DEF InOrder

LEMMA ApplyHands ==
  ASSUME ResolverInv, NEW w \in Watcher, Apply(w), UNCHANGED resolvers
  PROVE  OwnerInv' /\ HandedInv'
<1> USE DEF ResolverInv, resolvers
<1>1. watch \in [Watcher -> WatchRecord] /\ ReloadInv /\ HandedInv
  BY DEF DiscoveryInv, TypeOK
<1>2. /\ OneWatch(w) /\ watch'[w].state = "open" /\ watch'[w].events = watch[w].events
      /\ watch'[w].jobs = IF watch[w].owner = None THEN watch[w].jobs
                          ELSE Append(watch[w].jobs,
                                      [list |-> watch[w].got, late |-> FALSE])
  BY <1>1, ApplyMakes
<1>3. OwnerInv'
  BY <1>2, OneOwner DEF Apply
<1>4. PICK e \in Job : e = [list |-> watch[w].got, late |-> FALSE]
  BY <1>1 DEF WatchRecord, Job
<1>5. ~e.late /\ e.list = watch[w].got
  BY <1>4
<1>6. InOrder(w)'
  <2>1. CASE watch[w].owner = None
    BY <1>1, <1>2, <2>1 DEF HandedInv, InOrder
  <2>2. CASE watch[w].owner # None
    <3>1. watch'[w].jobs = Append(watch[w].jobs, e) /\ Len(watch[w].jobs) < MaxJobs
      BY <1>2, <1>4, <2>2 DEF Apply
    <3>2. InOrder(w)
      BY <1>1 DEF HandedInv
    <3> QED
      BY <1>1, <1>5, <3>1, <3>2, AppendedInOrder
  <2> QED
    BY <2>1, <2>2
<1>7. Handed(w)'
  <2> SUFFICES ASSUME backend = "etcd", watch[w].owner \in Resolver, watch[w].events = 0
               PROVE  Handed(w)'
    BY <1>2 DEF Handed, OneWatch, Apply
  <2>1. watch[w].got = Select(listed, watch[w].name, watch[w].version)
    BY <1>1 DEF ReloadInv, Apply
  <2>2. watch'[w].jobs = Append(watch[w].jobs, e) /\ Len(watch[w].jobs) < MaxJobs
    BY <1>2, <1>4, NoneIsNoResolver DEF Apply
  <2>3. watch[w].jobs \in Jobs
    BY <1>1 DEF WatchRecord
  <2>4. /\ Len(watch[w].jobs) \in Nat /\ Len(watch'[w].jobs) = Len(watch[w].jobs) + 1
        /\ DOMAIN watch'[w].jobs = 1..(Len(watch[w].jobs) + 1)
        /\ watch'[w].jobs[Len(watch[w].jobs) + 1] = e
    BY <2>2, <2>3, JobsAppended, JobsProperties
  <2>5. Len(watch'[w].jobs) \in DOMAIN watch'[w].jobs /\
        watch'[w].jobs[Len(watch'[w].jobs)] = e
    BY <2>4
  <2>6. ~(\A k \in DOMAIN watch'[w].jobs : watch'[w].jobs[k].late)
    BY <1>5, <2>5
  <2>7. listed' = listed
    BY DEF Apply
  <2> QED
    BY <1>2, <1>5, <2>1, <2>5, <2>6, <2>7 DEF Handed, OneWatch
<1> QED
  BY <1>1, <1>2, <1>3, <1>6, <1>7, OneHanded DEF Apply

\* After a failed reload every task is late, and the channel owes a change.
LEMMA ReloadFailsHands ==
  ASSUME ResolverInv, NEW w \in Watcher, ReloadFails(w), LagOf(w, "failed"),
         UNCHANGED <<wrapped, phase, current, endpoints, cut>>
  PROVE  OwnerInv' /\ HandedInv'
<1> USE DEF ResolverInv
<1>1. watch \in [Watcher -> WatchRecord] /\ HandedInv /\ OwnerInv
  BY DEF DiscoveryInv, TypeOK
<1>2. /\ OneWatch(w) /\ watch'[w].state = "open"
      /\ \A k \in DOMAIN watch'[w].jobs : watch'[w].jobs[k].late
  BY <1>1, ReloadFailsMakes
<1>3. OwnerInv'
  BY <1>1, <1>2, OneOwner DEF ReloadFails
<1>4. InOrder(w)'
  <2> SUFFICES ASSUME NEW k \in DOMAIN watch'[w].jobs, NEW j \in 1..k
               PROVE  watch'[w].jobs[j].late
    BY DEF InOrder
  <2>1. watch'[w].jobs \in Jobs
    BY <1>2 DEF OneWatch, WatchRecord
  <2>2. j \in DOMAIN watch'[w].jobs
    BY <2>1, JobsProperties
  <2> QED
    BY <1>2, <2>2
<1>5. Handed(w)'
  <2>1. watch[w].owner \in Resolver => lag'[watch[w].owner] = "failed"
    BY DEF LagOf
  <2> QED
    BY <1>2, <2>1 DEF Handed, OneWatch
<1>6. \A u \in Watcher : u # w /\ watch[u].owner \in Resolver =>
        lag'[watch[u].owner] = lag[watch[u].owner]
  BY <1>1 DEF LagOf, OwnerInv
<1> QED
  BY <1>1, <1>2, <1>3, <1>4, <1>5, <1>6, OneHanded DEF ReloadFails

LEMMA WatchEndsHands ==
  ASSUME ResolverInv, NEW w \in Watcher, WatchEnds(w), LagOf(w, "ended"),
         UNCHANGED <<wrapped, phase, current, endpoints, cut>>
  PROVE  OwnerInv' /\ HandedInv'
<1> USE DEF ResolverInv
<1>1. watch \in [Watcher -> WatchRecord] /\ HandedInv /\ OwnerInv
  BY DEF DiscoveryInv, TypeOK
<1>2. OneWatch(w) /\ watch'[w].state = "ended" /\ watch'[w].jobs = watch[w].jobs
  BY <1>1, WatchEndsMakes
<1>3. OwnerInv'
  BY <1>1, <1>2, OneOwner DEF WatchEnds
<1>4. InOrder(w)' /\ Handed(w)'
  BY <1>1, <1>2 DEF HandedInv, InOrder, Handed
<1>5. \A u \in Watcher : u # w /\ watch[u].owner \in Resolver =>
        lag'[watch[u].owner] = lag[watch[u].owner]
  BY <1>1 DEF LagOf, OwnerInv
<1> QED
  BY <1>1, <1>2, <1>3, <1>4, <1>5, OneHanded DEF WatchEnds

LEMMA PollHands ==
  ASSUME ResolverInv, NEW w \in Watcher, Poll(w), UNCHANGED resolvers
  PROVE  OwnerInv' /\ HandedInv'
<1> USE DEF ResolverInv, resolvers
<1>1. watch \in [Watcher -> WatchRecord] /\ HandedInv
  BY DEF DiscoveryInv, TypeOK
<1>2. PICK e \in Job :
        e = [list |-> Select(listed, watch[w].name, watch[w].version), late |-> FALSE]
  BY SelectType DEF Job
<1>3. ~e.late
  BY <1>2
<1>4. OneWatch(w) /\ watch'[w].jobs = Append(watch[w].jobs, e)
  BY <1>1, <1>2, PollMakes
<1>5. OwnerInv'
  BY <1>4, OneOwner DEF Poll
<1>6. InOrder(w)'
  <2>1. InOrder(w)
    BY <1>1 DEF HandedInv
  <2> QED
    BY <1>1, <1>3, <1>4, <2>1, AppendedInOrder DEF Poll
<1>7. Handed(w)'
  BY DEF Handed, Poll
<1> QED
  BY <1>1, <1>4, <1>5, <1>6, <1>7, OneHanded DEF Poll

\* The newer tasks that wait are late only if the one that ran was.
LEMMA RestInOrder ==
  ASSUME watch \in [Watcher -> WatchRecord], NEW w \in Watcher, InOrder(w),
         NEW k \in DOMAIN watch[w].jobs, watch' = AfterJob(w, k)
  PROVE  InOrder(w)'
<1>1. /\ Len(watch[w].jobs) \in Nat /\ DOMAIN watch[w].jobs = 1..Len(watch[w].jobs)
  BY JobsProperties DEF WatchRecord
<1>2. /\ DOMAIN watch'[w].jobs = 1..(Len(watch[w].jobs) - 1)
      /\ \A j \in DOMAIN watch'[w].jobs : j < k => watch'[w].jobs[j].late
      /\ \A j \in DOMAIN watch'[w].jobs : ~(j < k) =>
           j + 1 \in DOMAIN watch[w].jobs /\ watch'[w].jobs[j] = watch[w].jobs[j + 1]
  BY AfterJobMakes
<1> SUFFICES ASSUME NEW m \in DOMAIN watch'[w].jobs, watch'[w].jobs[m].late,
                    NEW j \in 1..m, ~(j < k)
             PROVE  watch'[w].jobs[j].late
  BY <1>1, <1>2 DEF InOrder
<1>3. j \in DOMAIN watch'[w].jobs /\ ~(m < k) /\ j + 1 \in 1..(m + 1)
  BY <1>1, <1>2
<1>4. watch[w].jobs[m + 1].late /\ m + 1 \in DOMAIN watch[w].jobs
  BY <1>2, <1>3
<1>5. watch[w].jobs[j + 1].late
  BY <1>3, <1>4 DEF InOrder
<1> QED
  BY <1>2, <1>3, <1>5

LEMMA StoreHands ==
  ASSUME ResolverInv, NEW w \in Watcher, NEW k \in DOMAIN watch[w].jobs, Store(w, k),
         UNCHANGED resolvers
  PROVE  OwnerInv' /\ HandedInv'
<1> USE DEF ResolverInv, resolvers
<1>1. watch \in [Watcher -> WatchRecord] /\ HandedInv
  BY DEF DiscoveryInv, TypeOK
<1>2. OneWatch(w)
  BY <1>1, AfterJobMakes DEF Store
<1>3. OwnerInv'
  BY <1>2, OneOwner DEF Store
<1>4. InOrder(w)'
  BY <1>1, RestInOrder DEF HandedInv, Store
<1>5. Handed(w)'
  BY <1>2, NoneIsNoResolver DEF Handed, OneWatch, Store
<1> QED
  BY <1>1, <1>2, <1>3, <1>4, <1>5, OneHanded DEF Store

LEMMA ChangeHands ==
  ASSUME ResolverInv, NEW i \in Instance, Change(i), UNCHANGED resolvers
  PROVE  OwnerInv' /\ HandedInv'
<1> USE DEF ResolverInv, resolvers
<1>1. HandedInv /\ OwnerInv /\ backend' = backend /\ call' = call
  BY DEF Change
<1>2. \A w \in Watcher : watch'[w].owner = watch[w].owner
  BY ChangeMakes
<1>3. OwnerInv'
  BY <1>1, <1>2, OwnersStay
<1>4. ASSUME NEW w \in Watcher PROVE InOrder(w)' /\ Handed(w)'
  <2>1. InOrder(w) /\ Handed(w)
    BY <1>1 DEF HandedInv
  <2>2. /\ watch'[w].owner = watch[w].owner /\ watch'[w].name = watch[w].name
        /\ watch'[w].version = watch[w].version
        /\ watch'[w].state = watch[w].state /\ watch'[w].jobs = watch[w].jobs
        /\ (backend = "etcd" /\ watch[w].state = "open" /\ watch'[w].events = 0)
             => /\ watch[w].events = 0
                /\ Select(listed', watch[w].name, watch[w].version)
                     = Select(listed, watch[w].name, watch[w].version)
    BY ChangeMakes
  <2>3. InOrder(w)'
    BY <2>1, <2>2 DEF InOrder
  <2>4. Handed(w)'
    BY <1>1, <2>1, <2>2 DEF Handed
  <2> QED
    BY <2>3, <2>4
<1> QED
  BY <1>3, <1>4 DEF HandedInv

LEMMA CallHands ==
  ASSUME ResolverInv, NEW c \in Caller, NEW n \in Name, NEW v \in Asked,
         Lookup(c, n, v) \/ Fetch(c) \/ FetchFails(c), UNCHANGED resolvers
  PROVE  OwnerInv' /\ HandedInv'
<1> USE DEF ResolverInv, resolvers
<1>1. call \in [Caller -> CallRecord] /\ HandedInv /\ OwnerInv
  BY DEF DiscoveryInv, TypeOK
<1>2. UNCHANGED <<backend, listed, watch>>
  BY DEF Lookup, Fetch, FetchFails
<1>3. \A d \in Caller : call'[d].pc = "idle" => call[d].pc = "idle"
  BY <1>1 DEF Lookup, Fetch, FetchFails, CallRecord
<1>4. OwnerInv'
  BY <1>1, <1>2, <1>3, OwnersStay, ResolverAssumption
<1> QED
  BY <1>1, <1>2, <1>4, NoneHanded

\* The watch of a filled cache is nobody's, so that no channel hears of it.
LEMMA FillHands ==
  ASSUME ResolverInv, NEW c \in Caller, Fill(c), UNCHANGED resolvers
  PROVE  OwnerInv' /\ HandedInv'
<1> USE DEF ResolverInv, resolvers
<1>1. /\ watch \in [Watcher -> WatchRecord] /\ call \in [Caller -> CallRecord]
      /\ CallInv /\ WatchInv /\ HandedInv /\ OwnerInv
  BY DEF DiscoveryInv, TypeOK
<1>2. call[c].name \in Name /\ call[c].version \in Asked
  BY <1>1 DEF CallInv, Fill
<1>3. PICK w \in Watcher : /\ watch[w].state = "free" /\ watch'[w].owner = None
                           /\ watch'[w].jobs = watch[w].jobs
                           /\ \A u \in Watcher : u # w => watch'[u] = watch[u]
  <2>1. StartWatch(None, call[c].name, call[c].version)
    BY DEF Fill
  <2>2. PICK o \in Caller \cup {None} : o = None
    OBVIOUS
  <2>3. \E w \in Watcher :
          /\ watch[w].state = "free"
          /\ watch'[w].owner = None /\ watch'[w].jobs = watch[w].jobs
          /\ \A u \in Watcher : u # w => watch'[u] = watch[u]
    <3>1. StartWatch(o, call[c].name, call[c].version)
      BY <2>1, <2>2
    <3>2. watch \in [Watcher -> WatchRecord]
      BY <1>1
    <3>3. \E w \in Watcher :
            /\ watch[w].state = "free"
            /\ watch'[w].owner = o /\ watch'[w].jobs = watch[w].jobs
            /\ \A u \in Watcher : u # w => watch'[u] = watch[u]
      BY <1>2, <3>1, <3>2, StartsOneWatch
    <3> QED
      BY <2>2, <3>3
  <2> QED
    BY <2>3
<1>4. \A u \in Watcher : watch'[u].owner = watch[u].owner
  BY <1>1, <1>3 DEF WatchInv
<1>5. \A d \in Caller : call'[d].pc = "idle" => call[d].pc = "idle"
  BY <1>1 DEF Fill, CallRecord
<1>6. OwnerInv'
  BY <1>1, <1>4, <1>5, OwnersStay, ResolverAssumption
<1>7. ASSUME NEW u \in Watcher PROVE InOrder(u)' /\ Handed(u)'
  <2>1. InOrder(u) /\ Handed(u) /\ backend' = backend /\ listed' = listed
    BY <1>1 DEF HandedInv, Fill
  <2>2. CASE u = w
    BY <1>3, <2>1, <2>2, NoneIsNoResolver DEF InOrder, Handed
  <2>3. CASE u # w
    BY <1>3, <2>1, <2>3 DEF InOrder, Handed
  <2> QED
    BY <2>2, <2>3
<1> QED
  BY <1>6, <1>7 DEF HandedInv

--------------------------------------------------------------------------
(* The steps of the resolvers.                                             *)

LEMMA BeginBuildKeeps ==
  ASSUME ResolverInv, NEW r \in Resolver, NEW n \in Name, NEW v \in Asked,
         BeginBuild(r, n, v)
  PROVE  ResolverInv'
<1> USE DEF ResolverInv
<1>1. /\ call \in [Caller -> CallRecord] /\ OwnerInv /\ HandedInv /\ r \in Caller
      /\ phase \in [Resolver -> {"new", "build", "open", "polling"}]
  BY ResolverAssumption DEF DiscoveryInv, TypeOK, ResolverTypeOK
<1>2. DiscoveryInv'
  BY <1>1, LookupKeeps DEF BeginBuild
<1>3. ResolverTypeOK' /\ KnownEndpoints'
  BY <1>2 DEF BeginBuild, DiscoveryInv, ResolverTypeOK, KnownEndpoints
<1>4. OwnerInv'
  <2>1. \A d \in Caller :
          /\ call'[d].pc = "idle" => call[d].pc = "idle"
          /\ d = r => call'[d].pc # "idle"
    BY <1>1 DEF BeginBuild, Lookup, CallRecord
  <2>2. watch' = watch /\ wrapped' = wrapped
    BY DEF BeginBuild, Lookup
  <2>3. phase[r] = "new" /\ phase' = [phase EXCEPT ![r] = "build"]
    BY DEF BeginBuild
  <2>4. ASSUME NEW w \in Watcher, watch[w].owner \in Resolver
        PROVE  phase'[watch[w].owner] = phase[watch[w].owner]
    BY <1>1, <2>3, <2>4 DEF OwnerInv
  <2>5. ASSUME NEW q \in Resolver
        PROVE  /\ phase'[q] # "new" => call'[q].pc # "idle"
               /\ phase'[q] = "polling" => wrapped
    BY <1>1, <2>1, <2>3, ResolverAssumption DEF OwnerInv
  <2> QED
    BY <1>1, <2>2, <2>4, <2>5 DEF OwnerInv
<1>5. HandedInv'
  BY <1>1, NoneHanded DEF BeginBuild, Lookup
<1> QED
  BY <1>2, <1>3, <1>4, <1>5

LEMMA BuildFailsKeeps ==
  ASSUME ResolverInv, NEW r \in Resolver, BuildFails(r)
  PROVE  ResolverInv'
<1> USE DEF ResolverInv
<1>1. /\ OwnerInv /\ HandedInv
      /\ phase \in [Resolver -> {"new", "build", "open", "polling"}]
  BY DEF ResolverTypeOK
<1>2. UNCHANGED vars
  BY DEF BuildFails
<1>3. DiscoveryInv'
  BY <1>2 DEF vars, DiscoveryInv, TypeOK, CallInv, WatchInv, ReloadInv, RefreshInv,
              Watching, Quiet
<1>4. ResolverTypeOK' /\ KnownEndpoints'
  BY <1>3 DEF BuildFails, DiscoveryInv, ResolverTypeOK, KnownEndpoints
<1>5. OwnerInv'
  BY <1>1, <1>2 DEF BuildFails, OwnerInv, vars
<1>6. HandedInv'
  BY <1>1, <1>2, NoneHanded DEF BuildFails, vars
<1> QED
  BY <1>3, <1>4, <1>5, <1>6

\* An open channel that owns no watch yet gets its own, unless it will poll.
LEMMA EndBuildKeeps ==
  ASSUME ResolverInv, NEW r \in Resolver, EndBuild(r)
  PROVE  ResolverInv'
<1> USE DEF ResolverInv
<1>1. /\ watch \in [Watcher -> WatchRecord] /\ call \in [Caller -> CallRecord]
      /\ CallInv /\ WatchInv /\ OwnerInv /\ HandedInv /\ r \in Caller
      /\ phase \in [Resolver -> {"new", "build", "open", "polling"}]
      /\ ChannelTypes /\ wrapped \in BOOLEAN
  BY ResolverAssumption DEF DiscoveryInv, TypeOK, ResolverTypeOK, ChannelTypes, Lags
<1>2. UNCHANGED <<backend, enabled, listed, changes, cache, call, doubt, wrapped>>
  BY DEF EndBuild
<1>3. call[r].name \in Name /\ call[r].version \in Asked
  BY <1>1 DEF EndBuild, CallInv
<1>4. PICK list \in List : ~CutShort(r, list) /\ ApplyServices(r, list, "unwatched")
  <2>1. call[r].got \in List /\ {} \in List
    BY <1>1 DEF CallRecord, List
  <2> QED
    BY <2>1 DEF EndBuild
<1>5. /\ ChannelTypes' /\ KnownEndpoints'
      /\ \A q \in Resolver : q # r => current'[q] = current[q] /\ lag'[q] = lag[q]
  BY <1>1, <1>4, AppliedServices DEF Lags
<1>6. lag'[r] = "unwatched"
  BY <1>1, <1>4 DEF ApplyServices, ChannelTypes
<1>7. phase' = [phase EXCEPT ![r] = "open"] /\ phase[r] = "build"
  BY DEF EndBuild
<1>8. \A u \in Watcher : watch[u].owner # r
  BY <1>1, <1>7 DEF OwnerInv
<1>9. CASE wrapped
  <2>1. UNCHANGED vars
    BY <1>2, <1>9 DEF EndBuild, vars
  <2>2. DiscoveryInv'
    BY <2>1 DEF vars, DiscoveryInv, TypeOK, CallInv, WatchInv, ReloadInv, RefreshInv,
                Watching, Quiet
  <2>3. ResolverTypeOK'
    BY <1>1, <1>2, <1>5, <1>7, <2>2
       DEF DiscoveryInv, ResolverTypeOK, ChannelTypes, Lags
  <2>4. OwnerInv'
    BY <1>1, <1>2, <1>7, <1>8, <1>9, <2>1 DEF OwnerInv, vars
  <2>5. HandedInv'
    BY <1>1, <1>5, <1>8, <2>1, NoneHanded DEF vars
  <2> QED
    BY <1>5, <2>2, <2>3, <2>4, <2>5
<1>10. CASE ~wrapped
  <2>1. StartWatch(r, call[r].name, call[r].version)
    BY <1>10 DEF EndBuild
  <2>2. watch' \in [Watcher -> WatchRecord] /\ WatchInv' /\ ReloadInv' /\ RefreshInv'
    BY <1>1, <1>2, <1>3, <2>1, StartKeeps
  <2>3. DiscoveryInv'
    BY <1>2, <2>2 DEF DiscoveryInv, TypeOK, CallInv
  <2>4. ResolverTypeOK'
    BY <1>1, <1>2, <1>5, <1>7, <2>3
       DEF DiscoveryInv, ResolverTypeOK, ChannelTypes, Lags
  <2>5. PICK w \in Watcher :
          /\ watch[w].state = "free" /\ watch'[w].owner = r
          /\ watch'[w].state = IF backend = "etcd" THEN "starting" ELSE "open"
          /\ watch'[w].jobs = watch[w].jobs
          /\ \A u \in Watcher : u # w => watch'[u] = watch[u]
    BY <1>1, <1>3, <2>1, StartsOneWatch
  <2>6. OwnerInv'
    <3>1. ASSUME NEW u \in Watcher
          PROVE  /\ watch'[u].owner \in Resolver \cup {None}
                 /\ watch'[u].owner \in Resolver =>
                      /\ ~wrapped' /\ phase'[watch'[u].owner] = "open"
                      /\ \A x \in Watcher : watch'[x].owner = watch'[u].owner => x = u
      <4>1. CASE u = w
        BY <1>1, <1>2, <1>7, <1>8, <1>10, <2>5, <4>1
      <4>2. CASE u # w
        <5>1. watch'[u] = watch[u] /\ watch[u].owner # r
          BY <1>8, <2>5, <4>2
        <5>2. \A x \in Watcher : watch'[x].owner = watch[u].owner => x # w /\ watch'[x] = watch[x]
          BY <2>5, <5>1
        <5> QED
          BY <1>1, <1>2, <1>7, <5>1, <5>2 DEF OwnerInv
      <4> QED
        BY <4>1, <4>2
    <3>2. ASSUME NEW q \in Resolver
          PROVE  /\ phase'[q] # "new" => call'[q].pc # "idle"
                 /\ phase'[q] = "polling" => wrapped'
      BY <1>1, <1>2, <1>7 DEF OwnerInv
    <3> QED
      BY <3>1, <3>2 DEF OwnerInv
  <2>7. ASSUME NEW u \in Watcher PROVE InOrder(u)' /\ Handed(u)'
    <3>1. InOrder(u) /\ Handed(u) /\ backend' = backend /\ listed' = listed
      BY <1>1, <1>2 DEF HandedInv
    <3>2. CASE u = w
      <4>1. InOrder(u)'
        BY <2>5, <3>1, <3>2 DEF InOrder
      <4>2. Handed(u)'
        BY <1>6, <2>5, <3>1, <3>2 DEF Handed
      <4> QED
        BY <4>1, <4>2
    <3>3. CASE u # w
      <4>1. watch'[u] = watch[u] /\ watch[u].owner # r
        BY <1>8, <2>5, <3>3
      <4>2. watch[u].owner \in Resolver =>
              /\ current'[watch[u].owner] = current[watch[u].owner]
              /\ lag'[watch[u].owner] = lag[watch[u].owner]
        BY <1>5, <4>1
      <4>3. InOrder(u)'
        BY <3>1, <4>1 DEF InOrder
      <4>4. Handed(u)'
        BY <3>1, <4>1, <4>2 DEF Handed
      <4> QED
        BY <4>3, <4>4
    <3> QED
      BY <3>2, <3>3
  <2> QED
    BY <1>5, <2>3, <2>4, <2>6, <2>7 DEF HandedInv
<1> QED
  BY <1>9, <1>10

\* The newest task of a watch is not late until it ran, or a reload failed.
LEMMA UpdateKeeps ==
  ASSUME ResolverInv, NEW w \in Watcher, NEW k \in DOMAIN watch[w].jobs, Update(w, k)
  PROVE  ResolverInv'
<1> USE DEF ResolverInv
<1>1. /\ watch \in [Watcher -> WatchRecord] /\ WatchInv /\ OwnerInv /\ HandedInv
      /\ ChannelTypes /\ InOrder(w) /\ Handed(w)
  BY DEF DiscoveryInv, TypeOK, ResolverTypeOK, ChannelTypes, Lags, HandedInv
<1>2. /\ watch' = AfterJob(w, k) /\ watch[w].owner # None
      /\ UNCHANGED <<backend, enabled, listed, changes, cache, call, doubt, wrapped, phase>>
  BY DEF Update
<1>3. PICK r \in Resolver : r = watch[w].owner
  BY <1>1, <1>2 DEF OwnerInv
<1>4. /\ OneWatch(w) /\ watch'[w].state = watch[w].state
      /\ watch'[w].events = watch[w].events
      /\ Len(watch'[w].jobs) = Len(watch[w].jobs) - 1
      /\ DOMAIN watch'[w].jobs = 1..(Len(watch[w].jobs) - 1)
      /\ \A j \in DOMAIN watch'[w].jobs : ~(j < k) =>
           j + 1 \in DOMAIN watch[w].jobs /\ watch'[w].jobs[j] = watch[w].jobs[j + 1]
  BY <1>1, <1>2, AfterJobMakes
<1>5. /\ watch[w].jobs # <<>> /\ watch[w].jobs[k] \in Job
      /\ Len(watch[w].jobs) \in Nat /\ DOMAIN watch[w].jobs = 1..Len(watch[w].jobs)
  BY <1>1, JobsProperties DEF WatchRecord
<1>6. PICK why \in Lags : why = IF watch[w].jobs[k].late THEN "overtaken" ELSE "none"
  BY DEF Lags
<1>7. ApplyServices(r, watch[w].jobs[k].list, why) /\ watch[w].jobs[k].list \in List
  BY <1>3, <1>5, <1>6 DEF Update, Job
<1>8. /\ ChannelTypes' /\ KnownEndpoints'
      /\ \A q \in Resolver : q # r => current'[q] = current[q] /\ lag'[q] = lag[q]
      /\ lag'[r] = "cut" \/ (lag'[r] = why /\ current'[r] = watch[w].jobs[k].list \cap Grpc)
  BY <1>1, <1>7, AppliedServices
<1>9. DiscoveryInv'
  BY <1>2, AfterJobKeeps
<1>10. ResolverTypeOK'
  BY <1>2, <1>8, <1>9 DEF DiscoveryInv, ResolverTypeOK, ChannelTypes, Lags
<1>11. OwnerInv'
  BY <1>1, <1>2, <1>4, OneOwner
<1>12. InOrder(w)'
  BY <1>1, <1>2, RestInOrder
<1>13. Handed(w)'
  <2> SUFFICES ASSUME backend = "etcd", watch[w].state = "open", watch[w].events = 0
               PROVE  Handed(w)'
    BY <1>1, <1>2, <1>4, <1>5 DEF Handed, OneWatch, WatchInv
  <2> DEFINE now == Select(listed, watch[w].name, watch[w].version)
             n == Len(watch[w].jobs)
  <2>1. \A j \in DOMAIN watch[w].jobs :
          j = n /\ ~watch[w].jobs[j].late => watch[w].jobs[j].list = now
    BY <1>1, <1>3 DEF Handed
  <2>2. ASSUME NEW j \in DOMAIN watch'[w].jobs, j = n - 1, ~watch'[w].jobs[j].late
        PROVE  watch'[w].jobs[j].list = now
    <3>1. ~(j < k)
      BY <1>1, <1>2, <2>2, AfterJobMakes
    <3>2. j + 1 \in DOMAIN watch[w].jobs /\ watch'[w].jobs[j] = watch[w].jobs[j + 1]
      BY <1>4, <3>1
    <3>3. j + 1 = n
      BY <1>5, <2>2
    <3> QED
      BY <2>1, <2>2, <3>2, <3>3
  <2>3. ASSUME lag'[r] = "none", \A j \in DOMAIN watch'[w].jobs : watch'[w].jobs[j].late
        PROVE  current'[r] = now \cap Grpc
    <3>1. ~watch[w].jobs[k].late /\ current'[r] = watch[w].jobs[k].list \cap Grpc
      BY <1>6, <1>8, <2>3
    <3>2. k = n
      <4>1. SUFFICES ASSUME k # n PROVE FALSE
        OBVIOUS
      <4>2. k \in DOMAIN watch'[w].jobs /\ ~(k < k)
        BY <1>4, <1>5, <4>1
      <4>3. watch[w].jobs[k + 1].late /\ k + 1 \in DOMAIN watch[w].jobs /\ k \in 1..(k + 1)
        BY <1>4, <1>5, <2>3, <4>2
      <4> QED
        BY <1>1, <3>1, <4>3 DEF InOrder
    <3> QED
      BY <2>1, <3>1, <3>2
  <2> QED
    BY <1>2, <1>3, <1>4, <2>2, <2>3 DEF Handed, OneWatch
<1>14. \A u \in Watcher : u # w /\ watch[u].owner \in Resolver => watch[u].owner # r
  BY <1>1, <1>3 DEF OwnerInv
<1>15. HandedInv'
  BY <1>1, <1>2, <1>4, <1>8, <1>12, <1>13, <1>14, OneHanded
<1> QED
  BY <1>8, <1>9, <1>10, <1>11, <1>15

LEMMA TickKeeps ==
  ASSUME ResolverInv, NEW r \in Resolver, Tick(r)
  PROVE  ResolverInv'
<1> USE DEF ResolverInv
<1>1. /\ call \in [Caller -> CallRecord] /\ CallInv /\ OwnerInv /\ HandedInv
      /\ r \in Caller /\ phase \in [Resolver -> {"new", "build", "open", "polling"}]
  BY ResolverAssumption DEF DiscoveryInv, TypeOK, ResolverTypeOK
<1>2. call[r].name \in Name /\ call[r].version \in Asked
  BY <1>1 DEF Tick, OwnerInv, CallInv
<1>3. DiscoveryInv'
  BY <1>1, <1>2, LookupKeeps DEF Tick
<1>4. ResolverTypeOK' /\ KnownEndpoints'
  BY <1>3 DEF Tick, DiscoveryInv, ResolverTypeOK, KnownEndpoints
<1>5. \A u \in Watcher : watch[u].owner \notin Resolver
  BY <1>1 DEF Tick, OwnerInv
<1>6. OwnerInv'
  <2>1. \A d \in Caller : call'[d].pc = "idle" => call[d].pc = "idle"
    BY <1>1 DEF Tick, Lookup, CallRecord
  <2>2. watch' = watch /\ wrapped' = wrapped /\ wrapped
    BY DEF Tick, Lookup
  <2>3. \A q \in Resolver : phase'[q] # "new" => phase[q] # "new"
    BY <1>1 DEF Tick
  <2> QED
    BY <1>1, <1>5, <2>1, <2>2, <2>3, ResolverAssumption DEF OwnerInv
<1>7. HandedInv'
  BY <1>1, NoneHanded DEF Tick, Lookup
<1> QED
  BY <1>3, <1>4, <1>6, <1>7

LEMMA AnswerKeeps ==
  ASSUME ResolverInv, NEW r \in Resolver, Answer(r)
  PROVE  ResolverInv'
<1> USE DEF ResolverInv
<1>1. /\ call \in [Caller -> CallRecord] /\ OwnerInv /\ HandedInv /\ r \in Caller
      /\ phase \in [Resolver -> {"new", "build", "open", "polling"}] /\ ChannelTypes
  BY ResolverAssumption
     DEF DiscoveryInv, TypeOK, ResolverTypeOK, ChannelTypes, Lags
<1>2. UNCHANGED vars /\ wrapped' = wrapped
  BY DEF Answer
<1>3. DiscoveryInv'
  BY <1>2 DEF vars, DiscoveryInv, TypeOK, CallInv, WatchInv, ReloadInv, RefreshInv,
              Watching, Quiet
<1>4. ChannelTypes' /\ KnownEndpoints'
  <2>1. CASE call[r].pc = "ok"
    <3>1. ApplyServices(r, call[r].got, "none") /\ call[r].got \in List
      BY <1>1, <2>1 DEF Answer, CallRecord
    <3> QED
      BY <1>1, <3>1, AppliedServices DEF Lags
  <2>2. CASE call[r].pc = "notfound"
    <3>1. /\ endpoints' = [endpoints EXCEPT ![r] = endpoints[r] \ current[r]]
          /\ current' = [current EXCEPT ![r] = {}] /\ UNCHANGED <<cut, lag>>
      BY <2>2 DEF Answer
    <3>2. endpoints[r] \ current[r] \in List /\ {} \in List
      BY <1>1 DEF ChannelTypes, List
    <3>3. ChannelTypes'
      BY <1>1, <3>1, <3>2 DEF ChannelTypes
    <3>4. \A q \in Resolver :
            IF q = r THEN endpoints'[q] = endpoints[q] \ current[q] /\ current'[q] = {}
            ELSE endpoints'[q] = endpoints[q] /\ current'[q] = current[q]
      BY <1>1, <3>1 DEF ChannelTypes
    <3>5. KnownEndpoints'
      BY <3>1, <3>4 DEF KnownEndpoints
    <3> QED
      BY <3>3, <3>5
  <2>3. CASE call[r].pc = "error"
    BY <1>1, <2>3 DEF Answer, ChannelTypes, KnownEndpoints
  <2> QED
    BY <2>1, <2>2, <2>3 DEF Answer
<1>5. ResolverTypeOK'
  BY <1>1, <1>2, <1>3, <1>4
     DEF Answer, DiscoveryInv, ResolverTypeOK, ChannelTypes, Lags
<1>6. wrapped /\ \A u \in Watcher : watch[u].owner \notin Resolver
  BY <1>1 DEF Answer, OwnerInv
<1>7. OwnerInv'
  <2>1. phase' = [phase EXCEPT ![r] = "open"] /\ phase[r] = "polling"
    BY DEF Answer
  <2>2. \A q \in Resolver : phase'[q] # "new" => phase[q] # "new"
    BY <1>1, <2>1
  <2> QED
    BY <1>1, <1>2, <1>6, <2>2 DEF OwnerInv, vars
<1>8. HandedInv'
  BY <1>1, <1>2, <1>6, NoneHanded DEF vars
<1> QED
  BY <1>3, <1>4, <1>5, <1>7, <1>8

--------------------------------------------------------------------------
(* The theorems.                                                           *)

LEMMA InitInv == ResolverInit => ResolverInv
<1> SUFFICES ASSUME ResolverInit PROVE ResolverInv
  OBVIOUS
<1> USE InstanceAssumption DEF ResolverInit, Init
<1>1. <<>> \in Jobs /\ DOMAIN <<>> = {}
  <2>1. <<>> \in Seq(Job) /\ Len(<<>>) <= MaxJobs
    BY EmptySeq
  <2>2. <<>> \in Jobs
    BY <2>1, JobsAreSequences
  <2> QED
    BY <2>2, JobsProperties
<1>2. TypeOK
  BY <1>1 DEF TypeOK, CallRecord, WatchRecord, Returned, List
<1>3. DiscoveryInv
  BY <1>2 DEF DiscoveryInv, CallInv, WatchInv, ReloadInv, RefreshInv
<1>4. ResolverTypeOK /\ KnownEndpoints
  BY <1>2 DEF ResolverTypeOK, KnownEndpoints, List
<1>5. OwnerInv
  BY NoneIsNoResolver DEF OwnerInv
<1>6. HandedInv
  BY <1>1, NoneIsNoResolver DEF HandedInv, InOrder, Handed
<1> QED
  BY <1>3, <1>4, <1>5, <1>6 DEF ResolverInv

\* A step of the discovery that leaves the resolvers alone.
LEMMA DiscoveryStepKeeps ==
  ASSUME ResolverInv, DiscoveryStep, UNCHANGED resolvers
  PROVE  ResolverInv'
<1>1. DiscoveryInv
  BY DEF ResolverInv
<1>2. DiscoveryInv' /\ OwnerInv' /\ HandedInv'
  <2>1. ASSUME NEW c \in Caller, NEW n \in Name, NEW v \in Asked, Lookup(c, n, v)
        PROVE  DiscoveryInv' /\ OwnerInv' /\ HandedInv'
    BY <1>1, <2>1, LookupKeeps, CallHands
  <2>2. ASSUME NEW c \in Caller, Fetch(c) \/ FetchFails(c)
        PROVE  DiscoveryInv' /\ OwnerInv' /\ HandedInv'
    <3>1. PICK n \in Name, v \in Asked : TRUE
      BY <1>1, <2>2 DEF DiscoveryInv, CallInv, Fetch, FetchFails
    <3> QED
      BY <1>1, <2>2, <3>1, FetchKeeps, CallHands
  <2>3. ASSUME NEW c \in Caller, Fill(c)
        PROVE  DiscoveryInv' /\ OwnerInv' /\ HandedInv'
    BY <1>1, <2>3, FillKeeps, FillHands
  <2>4. ASSUME NEW w \in Watcher, OpenWatch(w)
        PROVE  DiscoveryInv' /\ OwnerInv' /\ HandedInv'
    BY <1>1, <2>4, OpenWatchKeeps, OpenWatchHands
  <2>5. ASSUME NEW w \in Watcher, Reload(w)
        PROVE  DiscoveryInv' /\ OwnerInv' /\ HandedInv'
    BY <1>1, <2>5, ReloadKeeps, ReloadHands
  <2>6. ASSUME NEW w \in Watcher, Apply(w)
        PROVE  DiscoveryInv' /\ OwnerInv' /\ HandedInv'
    BY <1>1, <2>6, ApplyKeeps, ApplyHands
  <2>7. ASSUME NEW w \in Watcher, Poll(w)
        PROVE  DiscoveryInv' /\ OwnerInv' /\ HandedInv'
    BY <1>1, <2>7, PollKeeps, PollHands
  <2>8. ASSUME NEW w \in Watcher, NEW k \in DOMAIN watch[w].jobs, Store(w, k)
        PROVE  DiscoveryInv' /\ OwnerInv' /\ HandedInv'
    BY <1>1, <2>8, StoreKeeps, StoreHands
  <2>9. ASSUME NEW i \in Instance, Change(i)
        PROVE  DiscoveryInv' /\ OwnerInv' /\ HandedInv'
    BY <1>1, <2>9, ChangeKeeps, ChangeHands
  <2> QED
    BY <2>1, <2>2, <2>3, <2>4, <2>5, <2>6, <2>7, <2>8, <2>9 DEF DiscoveryStep, CallStep
<1>3. ResolverTypeOK' /\ KnownEndpoints'
  BY <1>2 DEF ResolverInv, DiscoveryInv, ResolverTypeOK, KnownEndpoints, resolvers
<1> QED
  BY <1>2, <1>3 DEF ResolverInv

LEMMA OwnerStepKeeps ==
  ASSUME ResolverInv, NEW w \in Watcher, OwnerStep(w)
  PROVE  ResolverInv'
<1>1. DiscoveryInv' /\ OwnerInv' /\ HandedInv'
  BY ReloadFailsKeeps, ReloadFailsHands, WatchEndsKeeps, WatchEndsHands
     DEF OwnerStep, ResolverInv
<1>2. lag' \in [Resolver -> Lags]
  BY DEF OwnerStep, LagOf, Lags, ResolverInv, ResolverTypeOK
<1>3. ResolverTypeOK' /\ KnownEndpoints'
  BY <1>1, <1>2
     DEF OwnerStep, Lags, ResolverInv, DiscoveryInv, ResolverTypeOK, KnownEndpoints
<1> QED
  BY <1>1, <1>3 DEF ResolverInv

LEMMA StutterKeeps == ASSUME ResolverInv, UNCHANGED allVars PROVE ResolverInv'
BY DEF allVars, vars, resolvers, ResolverInv, DiscoveryInv, TypeOK, CallInv, WatchInv,
       ReloadInv, RefreshInv, Watching, Quiet, ResolverTypeOK, KnownEndpoints,
       OwnerInv, HandedInv, InOrder, Handed

(* What the cache, the watches, their tasks and the channels say of each   *)
(* other goes together through every step.                                 *)
LEMMA Inductive == ResolverSpec => []ResolverInv
<1>1. ResolverInv /\ [ResolverNext]_allVars => ResolverInv'
  BY DiscoveryStepKeeps, OwnerStepKeeps, UpdateKeeps, BeginBuildKeeps, BuildFailsKeeps,
     EndBuildKeeps, TickKeeps, AnswerKeeps, StutterKeeps DEF ResolverNext
<1> QED
  BY <1>1, InitInv, PTL DEF ResolverSpec

(* Every variable of the discovery and of the resolvers keeps its type.    *)
THEOREM RustTypes == ResolverSpec => []ResolverTypeOK
<1>1. ResolverInv => ResolverTypeOK
  BY DEF ResolverInv
<1> QED
  BY <1>1, Inductive, PTL

(* With etcd a cached list is what etcd holds for the version of an open   *)
(* watch as soon as no watch of the name, a resolver's included, has       *)
(* anything left to do, unless a fill, a failed reload or an ended watch   *)
(* came after the latest refresh.                                          *)
THEOREM RustQuietCache == ResolverSpec => []QuietCacheIsFresh
<1>1. ResolverInv => QuietCacheIsFresh
  BY DEF ResolverInv, DiscoveryInv, RefreshInv, QuietCacheIsFresh, Quiet
<1> QED
  BY <1>1, Inductive, PTL

(* A channel has exactly the endpoints its resolver knows, unless an       *)
(* update was cut short.                                                   *)
THEOREM RustKnownEndpoints == ResolverSpec => []KnownEndpoints
<1>1. ResolverInv => KnownEndpoints
  BY DEF ResolverInv
<1> QED
  BY <1>1, Inductive, PTL

(* With etcd a channel has the gRPC instances etcd holds for its version,  *)
(* whenever its watch is open with no event and no task left.  Excepted    *)
(* are a watch that gave the channel no list since it opened, a list that  *)
(* was applied after a newer one had been (resolver.rs:68 spawns a task    *)
(* for each), one that an address that is no URI cut short, and a failed   *)
(* reload, each until the task of a newer list is done in its turn.        *)
THEOREM RustQuietChannel == ResolverSpec => []QuietChannelIsFresh
<1>1. ResolverInv => QuietChannelIsFresh
  <2> SUFFICES ASSUME ResolverInv, NEW w \in Watcher, backend = "etcd",
                      watch[w].owner \in Resolver, watch[w].state = "open", Quiet(w),
                      watch[w].jobs = <<>>, lag[watch[w].owner] = "none"
               PROVE  current[watch[w].owner]
                        = Select(listed, watch[w].name, watch[w].version) \cap Grpc
    BY DEF QuietChannelIsFresh
  <2>1. watch[w].jobs \in Jobs /\ Handed(w)
    BY DEF ResolverInv, DiscoveryInv, TypeOK, WatchRecord, HandedInv
  <2>2. DOMAIN watch[w].jobs = {}
    BY <2>1, JobsProperties
  <2> QED
    BY <2>1, <2>2 DEF Handed, Quiet
<1> QED
  BY <1>1, Inductive, PTL
==========================================================================
