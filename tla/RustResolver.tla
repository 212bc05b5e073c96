---------------------------- MODULE RustResolver ----------------------------
(***************************************************************************)
(* rs-hestia/src/etcd/resolver.rs and rs-hestia/src/consul/resolver.rs,    *)
(* which are the same but for names: load-balanced channels on top of the  *)
(* Rust discovery.                                                         *)
(*                                                                         *)
(* build calls get_services, applies what it returned to a new channel,    *)
(* and starts a task: one that runs the discovery's watch_with_callback,   *)
(* where each list is applied by a task of its own, or one that calls      *)
(* get_services again and again when the discovery is of another type (a   *)
(* wrapper).  `current` holds the keys the resolver knows, and updates     *)
(* tell the channel only the differences to it.  Nothing ever stops.       *)
(***************************************************************************)
EXTENDS RustDiscovery

CONSTANTS Resolver,   \* the channels that are built, each by a caller
          Grpc,       \* the instances of protocol grpc, or of none
          NoUri       \* those whose address makes no URI

ASSUME ResolverAssumption ==
         Resolver \subseteq Caller /\ Grpc \subseteq Instance /\ NoUri \subseteq Instance

VARIABLES
  wrapped,    \* whether the discovery is of another type
  phase,      \* where build is
  current,    \* the keys the resolver knows
  endpoints,  \* the endpoints the channel has been told to have
  cut,        \* history: whether an update was ever cut short
  lag         \* history: why the channel may owe a change

resolvers == <<wrapped, phase, current, endpoints, cut, lag>>
allVars == <<vars, resolvers>>

ResolverTypeOK ==
  /\ TypeOK
  /\ wrapped \in BOOLEAN
  /\ phase \in [Resolver -> {"new", "build", "open", "polling"}]
  /\ current \in [Resolver -> List]
  /\ endpoints \in [Resolver -> List]
  /\ cut \in [Resolver -> BOOLEAN]
  /\ lag \in [Resolver -> {"none", "unwatched", "failed", "ended", "overtaken",
                           "cut"}]

ResolverInit ==
  /\ Init
  /\ wrapped \in BOOLEAN
  /\ phase = [r \in Resolver |-> "new"]
  /\ current = [r \in Resolver |-> {}]
  /\ endpoints = [r \in Resolver |-> {}]
  /\ cut = [r \in Resolver |-> FALSE]
  /\ lag = [r \in Resolver |-> "unwatched"]

--------------------------------------------------------------------------
(* apply_services, under the lock of current                               *)

\* An update that meets an address that is no URI.
CutShort(r, list) == ((list \cap Grpc) \ current[r]) \cap NoUri # {}

\* Defect: the endpoints that left the list are removed before new ones are
\* inserted, and stay known when that is cut short.
RemoveFirst(r, list, why) ==
  LET keys == list \cap Grpc
      new == keys \ current[r]
  IN  IF CutShort(r, list)
      THEN /\ \E sent \in SUBSET (new \ NoUri) :
                endpoints' = [endpoints EXCEPT ![r] =
                                (@ \ (current[r] \ keys)) \cup sent]
           /\ cut' = [cut EXCEPT ![r] = TRUE]
           /\ lag' = [lag EXCEPT ![r] = "cut"]
           /\ UNCHANGED current
      ELSE /\ endpoints' = [endpoints EXCEPT ![r] = (@ \cup new) \ (current[r] \ keys)]
           /\ current' = [current EXCEPT ![r] = keys]
           /\ lag' = [lag EXCEPT ![r] = why]
           /\ UNCHANGED cut

\* Defect: what left the list is not removed.
NeverRemoves(r, list, why) ==
  LET keys == list \cap Grpc
  IN  /\ ~CutShort(r, list)
      /\ endpoints' = [endpoints EXCEPT ![r] = @ \cup keys]
      /\ current' = [current EXCEPT ![r] = @ \cup keys]
      /\ lag' = [lag EXCEPT ![r] = why]
      /\ UNCHANGED cut

\* Insert the new endpoints, in the order of the list, remove those that
\* left it, and know the list's keys.  An address that is no URI ends this
\* after some of the inserts, with the known keys as they were.
ApplyServices(r, list, why) ==
  LET keys == list \cap Grpc
      new == keys \ current[r]
  IN  IF CutShort(r, list)
      THEN /\ \E sent \in SUBSET (new \ NoUri) :
                endpoints' = [endpoints EXCEPT ![r] = @ \cup sent]
           /\ cut' = [cut EXCEPT ![r] = TRUE]
           /\ lag' = [lag EXCEPT ![r] = "cut"]
           /\ UNCHANGED current
      ELSE /\ endpoints' = [endpoints EXCEPT ![r] = (@ \cup new) \ (current[r] \ keys)]
           /\ current' = [current EXCEPT ![r] = keys]
           /\ lag' = [lag EXCEPT ![r] = why]
           /\ UNCHANGED cut

--------------------------------------------------------------------------
(* build                                                                   *)

BeginBuild(r, n, v) ==
  /\ phase[r] = "new"
  /\ Lookup(r, n, v)
  /\ phase' = [phase EXCEPT ![r] = "build"]
  /\ UNCHANGED <<wrapped, current, endpoints, cut, lag>>

\* A missing service is an empty list; an error fails build, of get_services
\* or of the first update: the channel is dropped, and may be built again.
BuildFails(r) ==
  /\ phase[r] = "build"
  /\ \/ call[r].pc = "error"
     \/ call[r].pc = "ok" /\ CutShort(r, call[r].got)
  /\ phase' = [phase EXCEPT ![r] = "new"]
  /\ UNCHANGED <<vars, wrapped, current, endpoints, cut, lag>>

EndBuild(r) ==
  LET list == IF call[r].pc = "ok" THEN call[r].got ELSE {}
  IN  /\ phase[r] = "build"
      /\ call[r].pc \in {"ok", "notfound"}
      /\ ~CutShort(r, list)
      /\ ApplyServices(r, list, "unwatched")
      /\ phase' = [phase EXCEPT ![r] = "open"]
      /\ IF wrapped THEN UNCHANGED watch
                    ELSE StartWatch(r, call[r].name, call[r].version)
      /\ UNCHANGED <<backend, enabled, listed, changes, cache, call, doubt, wrapped>>

--------------------------------------------------------------------------
(* The tasks that apply the lists of a watch, and the task that polls      *)

\* The tasks of a watch queue for the lock in any order.
Update(w, k) ==
  LET r == watch[w].owner
      job == watch[w].jobs[k]
  IN  /\ r # None
      /\ ApplyServices(r, job.list, IF job.late THEN "overtaken" ELSE "none")
      /\ watch' = AfterJob(w, k)
      /\ UNCHANGED <<backend, enabled, listed, changes, cache, call, doubt,
                     wrapped, phase>>

\* get_services is called at every tick, by a wrapped discovery's resolver.
Tick(r) ==
  /\ wrapped
  /\ phase[r] = "open"
  /\ Lookup(r, call[r].name, call[r].version)
  /\ phase' = [phase EXCEPT ![r] = "polling"]
  /\ UNCHANGED <<wrapped, current, endpoints, cut, lag>>

\* Defect: a missing service leaves the channel as it is, as in Go.
AnswerKeepsMissing(r) ==
  /\ phase[r] = "polling"
  /\ phase' = [phase EXCEPT ![r] = "open"]
  /\ \/ /\ call[r].pc = "ok"
        /\ ApplyServices(r, call[r].got, "none")
     \/ /\ call[r].pc \in {"notfound", "error"}
        /\ UNCHANGED <<current, endpoints, cut, lag>>
  /\ UNCHANGED <<vars, wrapped>>

\* A missing service removes every endpoint the resolver knows, another
\* error is logged.
Answer(r) ==
  /\ phase[r] = "polling"
  /\ phase' = [phase EXCEPT ![r] = "open"]
  /\ \/ /\ call[r].pc = "ok"
        /\ ApplyServices(r, call[r].got, "none")
     \/ /\ call[r].pc = "notfound"
        /\ endpoints' = [endpoints EXCEPT ![r] = @ \ current[r]]
        /\ current' = [current EXCEPT ![r] = {}]
        /\ UNCHANGED <<cut, lag>>
     \/ /\ call[r].pc = "error"
        /\ UNCHANGED <<current, endpoints, cut, lag>>
  /\ UNCHANGED <<vars, wrapped>>

--------------------------------------------------------------------------
(* The resolvers and the discovery together                                *)

\* A failed reload and the end of a watch concern the owner too.
LagOf(w, why) ==
  lag' = [r \in Resolver |-> IF r = watch[w].owner THEN why ELSE lag[r]]

OwnerStep(w) ==
  \/ /\ ReloadFails(w) /\ LagOf(w, "failed")
     /\ UNCHANGED <<wrapped, phase, current, endpoints, cut>>
  \/ /\ WatchEnds(w) /\ LagOf(w, "ended")
     /\ UNCHANGED <<wrapped, phase, current, endpoints, cut>>

\* A task may call get_services itself before it builds a channel.
Plain(c) == c \in Resolver => phase[c] = "new"

DiscoveryStep ==
  \/ \E c \in Caller, n \in Name, v \in Asked : Plain(c) /\ Lookup(c, n, v)
  \/ \E c \in Caller : CallStep(c)
  \/ \E w \in Watcher : \/ OpenWatch(w) \/ Reload(w) \/ Apply(w) \/ Poll(w)
                        \/ \E k \in DOMAIN watch[w].jobs : Store(w, k)
  \/ \E i \in Instance : Change(i)

ResolverNext ==
  \/ DiscoveryStep /\ UNCHANGED resolvers
  \/ \E w \in Watcher : \/ OwnerStep(w)
                        \/ \E k \in DOMAIN watch[w].jobs : Update(w, k)
  \/ \E r \in Resolver :
       \/ \E n \in Name, v \in Asked : BeginBuild(r, n, v)
       \/ BuildFails(r) \/ EndBuild(r) \/ Tick(r) \/ Answer(r)

ResolverSpec == ResolverInit /\ [][ResolverNext]_allVars

\* Every spawned task runs some day, so that the oldest one does.
RunsOldest(w) ==
  /\ watch[w].jobs # <<>>
  /\ \/ Store(w, 1) /\ UNCHANGED resolvers
     \/ Update(w, 1)

\* Watches and polls go on, and of the polls made for ever some succeed.
ResolverFairSpec ==
  /\ ResolverSpec
  /\ \A w \in Watcher :
       /\ WF_allVars((OpenWatch(w) \/ Reload(w) \/ Apply(w)) /\ UNCHANGED resolvers)
       /\ WF_allVars(Poll(w) /\ UNCHANGED resolvers)
       /\ WF_allVars(RunsOldest(w))
  /\ \A r \in Resolver :
       /\ WF_allVars(Tick(r) \/ Answer(r))
       /\ WF_allVars(CallStep(r) /\ UNCHANGED resolvers)
       /\ SF_allVars(Fetch(r) /\ UNCHANGED resolvers)

--------------------------------------------------------------------------
(* Properties                                                              *)

(* Every key the resolver knows is an endpoint of the channel, and the     *)
(* channel has no endpoint it does not know, and could never remove,       *)
(* unless an update was cut short by an address that is no URI.            *)
KnownEndpoints ==
  \A r \in Resolver : /\ current[r] \subseteq endpoints[r]
                      /\ endpoints[r] = current[r] \/ cut[r]

(* With etcd a channel has the gRPC instances etcd holds for its version   *)
(* whenever its watch is open with no event and no task left: neither an   *)
(* event that comes during a reload nor a task that waits is forgotten.    *)
(* Four cases are excepted: no update since the watch opened, an update    *)
(* that ran after that of a newer list and put the older list back, one    *)
(* that was cut short, and a failed reload after the latest update.        *)
QuietChannelIsFresh ==
  \A w \in Watcher :
    LET r == watch[w].owner
    IN  (/\ backend = "etcd" /\ r \in Resolver /\ watch[w].state = "open"
         /\ Quiet(w) /\ watch[w].jobs = <<>> /\ lag[r] = "none")
          => current[r] = Select(listed, watch[w].name, watch[w].version) \cap Grpc

(* A channel that is polled for, by a Consul watch or by a resolver of a   *)
(* wrapped discovery that does not cache, settles on the gRPC instances    *)
(* that are listed for its version, in whatever order the tasks run, after *)
(* updates that were cut short (as long as no such address is listed), and *)
(* when none is listed.                                                    *)
ChannelSettles ==
  (IF wrapped THEN ~enabled ELSE backend = "consul") =>
    \A r \in Resolver :
      <>[](phase[r] \in {"open", "polling"} =>
             LET now == Select(listed, call[r].name, call[r].version) \cap Grpc
             IN  now \cap NoUri = {} => current[r] = now)

--------------------------------------------------------------------------
(* The inductive invariant behind QuietChannelIsFresh.                     *)

\* A resolver owns one watch, and none unless its channel is open and its
\* discovery is not wrapped; polling is for wrapped ones.
OwnerInv ==
  /\ \A w \in Watcher :
       /\ watch[w].owner \in Resolver \cup {None}
       /\ watch[w].owner \in Resolver =>
            /\ ~wrapped
            /\ phase[watch[w].owner] = "open"
            /\ \A u \in Watcher : watch[u].owner = watch[w].owner => u = w
  /\ \A r \in Resolver :
       /\ phase[r] # "new" => call[r].pc # "idle"
       /\ phase[r] = "polling" => wrapped

\* What ran before a spawned task that is late came after the older ones too.
InOrder(w) ==
  \A k \in DOMAIN watch[w].jobs :
    watch[w].jobs[k].late => \A j \in 1..k : watch[w].jobs[j].late

\* When the watch of a resolver has handled every event, the newest of its
\* tasks holds what etcd holds, and when that one ran the channel has it; but
\* not after a failed reload, after which every task is late.
Handed(w) ==
  LET r == watch[w].owner
      tasks == watch[w].jobs
      now == Select(listed, watch[w].name, watch[w].version)
  IN  backend = "etcd" /\ r \in Resolver =>
        /\ watch[w].state = "starting" => lag[r] # "none"
        /\ watch[w].state = "open" /\ watch[w].events = 0 =>
             /\ \A k \in DOMAIN tasks :
                  k = Len(tasks) /\ ~tasks[k].late => tasks[k].list = now
             /\ lag[r] = "none" /\ (\A k \in DOMAIN tasks : tasks[k].late) =>
                  current[r] = now \cap Grpc

HandedInv == \A w \in Watcher : InOrder(w) /\ Handed(w)

ResolverInv ==
  /\ DiscoveryInv /\ ResolverTypeOK /\ KnownEndpoints
  /\ OwnerInv /\ HandedInv
==========================================================================
