---------------------------- MODULE EtcdResolver ----------------------------
(***************************************************************************)
(* hestia/etcd/resolver.go: gRPC resolvers on top of an etcdDiscovery.     *)
(*                                                                         *)
(* Build calls GetServices, tells the connection what it returned, and     *)
(* starts a goroutine: watch has a watch of its own at etcd and the code   *)
(* of the discovery's watchers, poll calls GetServices again when the      *)
(* discovery is of another type (a wrapper around an etcdDiscovery).       *)
(* Resolvers share the discovery with each other and with plain callers.   *)
(***************************************************************************)
EXTENDS EtcdDiscovery

CONSTANTS Resolver,   \* the resolvers: callers that call for a connection
          Grpc        \* the instances with protocol grpc, or with none

ASSUME ResolverAssumption == Resolver \subseteq Caller /\ Grpc \subseteq Instance

VARIABLES
  wrapped,   \* whether the discovery is another type than etcdDiscovery
  phase,     \* where the resolver is: Build, in use, closed
  feed,      \* its goroutine, with its events and the list it is to tell
  told,      \* the list last given to the connection, or None
  lag        \* history: why the goroutine may owe the connection a change

resolvers == <<wrapped, phase, feed, told, lag>>
allVars == <<vars, resolvers>>

FeedRecord == [state : {"none", "waiting", "calling", "starting", "open",
                        "telling", "ended"},
               events : 0..MaxChanges, got : List]

ResolverTypeOK ==
  /\ TypeOK
  /\ wrapped \in BOOLEAN
  /\ phase \in [Resolver -> {"new", "build", "failed", "open", "closed"}]
  /\ feed \in [Resolver -> FeedRecord]
  /\ told \in [Resolver -> {None} \cup List]
  /\ lag \in [Resolver -> {"none", "unwatched", "failed", "closed"}]

ResolverInit ==
  /\ Init
  /\ wrapped \in BOOLEAN
  /\ phase = [r \in Resolver |-> "new"]
  /\ feed = [r \in Resolver |-> [state |-> "none", events |-> 0, got |-> {}]]
  /\ told = [r \in Resolver |-> None]
  /\ lag = [r \in Resolver |-> "unwatched"]

--------------------------------------------------------------------------
(* Build and Close                                                         *)

\* Build calls GetServices for the name and version of the target.
BeginBuild(r, n, v) ==
  /\ phase[r] = "new"
  /\ Lookup(r, n, v)
  /\ phase' = [phase EXCEPT ![r] = "build"]
  /\ UNCHANGED <<wrapped, feed, told, lag>>

\* Any error fails Build, that of a missing service among them.
EndBuild(r) ==
  /\ phase[r] = "build"
  /\ \/ /\ call[r].pc \in {"error", "notfound"}
        /\ phase' = [phase EXCEPT ![r] = "failed"]
        /\ UNCHANGED <<feed, told>>
     \/ /\ call[r].pc = "ok"
        /\ phase' = [phase EXCEPT ![r] = "open"]
        /\ told' = [told EXCEPT ![r] = call[r].got \cap Grpc]
        /\ feed' = [feed EXCEPT ![r].state =
                      IF wrapped THEN "waiting" ELSE "starting"]
  /\ UNCHANGED <<vars, wrapped, lag>>

Close(r) ==
  /\ phase[r] = "open"
  /\ phase' = [phase EXCEPT ![r] = "closed"]
  /\ UNCHANGED <<vars, wrapped, feed, told, lag>>

--------------------------------------------------------------------------
(* watch: the resolver's own watch at etcd                                 *)

OpenFeed(r) ==
  /\ feed[r].state = "starting"
  /\ phase[r] = "open"
  /\ feed' = [feed EXCEPT ![r].state = "open"]
  /\ UNCHANGED <<vars, wrapped, phase, told, lag>>

\* A request under the context of a closed resolver fails.
ReloadFeed(r) ==
  /\ feed[r].state = "open"
  /\ feed[r].events > 0
  /\ phase[r] = "open"
  /\ feed' = [feed EXCEPT ![r].state = "telling", ![r].events = @ - 1,
                ![r].got = Select(listed, call[r].name, call[r].version)]
  /\ UNCHANGED <<vars, wrapped, phase, told, lag>>

\* The connection is told of the error and keeps its list.
ReloadFeedFails(r) ==
  /\ feed[r].state = "open"
  /\ feed[r].events > 0
  /\ feed' = [feed EXCEPT ![r].events = @ - 1]
  /\ lag' = [lag EXCEPT ![r] = "failed"]
  /\ UNCHANGED <<vars, wrapped, phase, told>>

\* Defect: a list without a gRPC instance is not passed on.
TellUnlessEmpty(r) ==
  LET list == feed[r].got \cap Grpc
  IN  /\ feed[r].state = "telling"
      /\ told' = [told EXCEPT ![r] = IF list = {} THEN @ ELSE list]
      /\ lag' = [lag EXCEPT ![r] = "none"]
      /\ feed' = [feed EXCEPT ![r].state = "open", ![r].got = {}]
      /\ UNCHANGED <<vars, wrapped, phase>>

\* updateState drops the instances of other protocols.
Tell(r) ==
  /\ feed[r].state = "telling"
  /\ told' = [told EXCEPT ![r] = feed[r].got \cap Grpc]
  /\ lag' = [lag EXCEPT ![r] = "none"]
  /\ feed' = [feed EXCEPT ![r].state = "open", ![r].got = {}]
  /\ UNCHANGED <<vars, wrapped, phase>>

\* Defect: a goroutine that has not opened its watch yet is not ended.
FeedEndsWhenOpen(r) ==
  /\ feed[r].state = "open"
  /\ feed' = [feed EXCEPT ![r].state = "ended", ![r].events = 0]
  /\ lag' = [lag EXCEPT ![r] = "closed"]
  /\ UNCHANGED <<vars, wrapped, phase, told>>

\* The watch channel is closed, by etcd or because the resolver was closed.
FeedEnds(r) ==
  /\ feed[r].state \in {"starting", "open"}
  /\ feed' = [feed EXCEPT ![r].state = "ended", ![r].events = 0]
  /\ lag' = [lag EXCEPT ![r] = "closed"]
  /\ UNCHANGED <<vars, wrapped, phase, told>>

--------------------------------------------------------------------------
(* poll: GetServices at every tick                                         *)

\* select may pick the tick even when the context is done.
AskDiscovery(r) ==
  /\ feed[r].state = "waiting"
  /\ Lookup(r, call[r].name, call[r].version)
  /\ feed' = [feed EXCEPT ![r].state = "calling"]
  /\ UNCHANGED <<wrapped, phase, told, lag>>

\* An error, ErrServicesNotFound among them, leaves the list as it was.
TellAnswer(r) ==
  /\ feed[r].state = "calling"
  /\ call[r].pc \in Returned
  /\ told' = [told EXCEPT ![r] =
                IF call[r].pc = "ok" THEN call[r].got \cap Grpc ELSE @]
  /\ feed' = [feed EXCEPT ![r].state = "waiting"]
  /\ UNCHANGED <<vars, wrapped, phase, lag>>

PollEnds(r) ==
  /\ feed[r].state = "waiting"
  /\ phase[r] = "closed"
  /\ feed' = [feed EXCEPT ![r].state = "ended"]
  /\ UNCHANGED <<vars, wrapped, phase, told, lag>>

--------------------------------------------------------------------------
(* The resolvers, the discovery and etcd together                          *)

\* Defect: an event for a resolver that is handling another one is lost.
FeedsNotifiedWhenIdle(i) ==
  [r \in Resolver |->
     IF feed[r].state = "open" /\ InPrefix(i, call[r].name, call[r].version)
     THEN [feed[r] EXCEPT !.events = @ + 1] ELSE feed[r]]

\* The resolvers' goroutines after etcd sent them the event of the key of i.
FeedsNotified(i) ==
  [r \in Resolver |->
     IF /\ feed[r].state \in {"open", "telling"}
        /\ InPrefix(i, call[r].name, call[r].version)
     THEN [feed[r] EXCEPT !.events = @ + 1] ELSE feed[r]]

\* A call under the context of a closed resolver gets no answer from etcd.
Cancelled(c) == c \in Resolver /\ phase[c] = "closed"

AnsweredStep(c) ==
  \/ ~Cancelled(c) /\ Fetch(c)
  \/ FetchFails(c) \/ Fill(c)

\* A goroutine may call GetServices itself before it builds a resolver.
Plain(c) == c \in Resolver => phase[c] = "new"

DiscoveryStep ==
  \/ \E c \in Caller, n \in Name, v \in Asked : Plain(c) /\ Lookup(c, n, v)
  \/ \E c \in Caller : AnsweredStep(c)
  \/ \E w \in Watcher : WatchStep(w)

FeedStep(r) ==
  \/ OpenFeed(r) \/ ReloadFeed(r) \/ ReloadFeedFails(r) \/ Tell(r)
  \/ FeedEnds(r) \/ AskDiscovery(r) \/ TellAnswer(r) \/ PollEnds(r)

ResolverStep(r) ==
  \/ \E n \in Name, v \in Asked : BeginBuild(r, n, v)
  \/ EndBuild(r) \/ Close(r) \/ FeedStep(r)

ResolverNext ==
  \/ DiscoveryStep /\ UNCHANGED resolvers
  \/ \E i \in Instance : /\ Change(i)
                         /\ feed' = FeedsNotified(i)
                         /\ UNCHANGED <<wrapped, phase, told, lag>>
  \/ \E r \in Resolver : ResolverStep(r)

ResolverSpec == ResolverInit /\ [][ResolverNext]_allVars

\* As in EtcdDiscovery: goroutines go on while they have something to do, and
\* end after Close.  Of the polls of a wrapped discovery some succeed, and a
\* closed resolver's select picks ctx.Done at some tick.
ResolverFairness ==
  /\ \A w \in Watcher :
       WF_allVars((OpenWatch(w) \/ Reload(w) \/ Apply(w)) /\ UNCHANGED resolvers)
  /\ \A r \in Resolver :
       /\ WF_allVars(OpenFeed(r) \/ ReloadFeed(r) \/ Tell(r))
       /\ WF_allVars(phase[r] = "closed" /\ FeedEnds(r))
       /\ WF_allVars(AskDiscovery(r) \/ TellAnswer(r))
       /\ SF_allVars(PollEnds(r))
       /\ WF_allVars(AnsweredStep(r) /\ UNCHANGED resolvers)
       /\ SF_allVars(~Cancelled(r) /\ Fetch(r) /\ UNCHANGED resolvers)

ResolverFairSpec == ResolverSpec /\ ResolverFairness

--------------------------------------------------------------------------
(* Properties                                                              *)

(* A connection was told exactly the gRPC instances etcd holds for its     *)
(* version, whenever the watch of its resolver is open with no event left: *)
(* of changes that come while one event is handled (watchWithCallback,     *)
(* lines 140 to 148) none is lost.  Two cases are excepted: as long as the *)
(* watch has told nothing since it opened (lag unwatched), a change that   *)
(* came after the list of Build and before the watch is missing; and a     *)
(* failed reload leaves the connection behind until the next event.        *)
QuietConnectionIsFresh ==
  \A r \in Resolver :
    (feed[r].state = "open" /\ feed[r].events = 0 /\ lag[r] = "none")
      => told[r] = Select(listed, call[r].name, call[r].version) \cap Grpc

(* Once etcd stops changing, a connection in use has for ever the gRPC     *)
(* instances of its version, also when Build was given the cached list of  *)
(* another version.  Not so: with its own watch, when nothing changed      *)
(* since the watch opened, or a reload failed, or the watch closed; with a *)
(* wrapped discovery, when that answers from its cache, or the list is     *)
(* empty.                                                                  *)
BalancerSettles ==
  \A r \in Resolver :
    <>[](phase[r] = "open" =>
           LET now == Select(listed, call[r].name, call[r].version)
           IN  \/ told[r] = now \cap Grpc
               \/ IF wrapped THEN enabled \/ now = {} ELSE lag[r] # "none")

(* The goroutine of a closed resolver ends, wherever Close found it:       *)
(* before its watch opened, in a reload, in an update or in a poll.        *)
ClosedFeedEnds ==
  \A r \in Resolver : phase[r] = "closed" ~> feed[r].state = "ended"

--------------------------------------------------------------------------
(* The inductive invariant behind QuietConnectionIsFresh.                  *)

\* Where the goroutine of a resolver is while the resolver is where it is,
\* and that what it asks for was asked for by Build.
FeedInv ==
  \A r \in Resolver :
    /\ feed[r].state = "none" <=> phase[r] \in {"new", "build", "failed"}
    /\ feed[r].state \in {"none", "starting"} => lag[r] = "unwatched"
    /\ phase[r] # "new" => call[r].name \in Name /\ call[r].version \in Asked
    /\ feed[r].events <= changes

\* As ReloadInv of the discovery's watchers.
TellingInv ==
  \A r \in Resolver :
    (feed[r].state = "telling" /\ feed[r].events = 0)
      => feed[r].got = Select(listed, call[r].name, call[r].version)

ResolverInv == ResolverTypeOK /\ FeedInv /\ TellingInv /\ QuietConnectionIsFresh
==========================================================================
