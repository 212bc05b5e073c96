-------------------------- MODULE ConsulResolver --------------------------
(***************************************************************************)
(* hestia/consul/resolver.go: gRPC resolvers on top of a consulDiscovery.  *)
(*                                                                         *)
(* Build calls GetServices, tells the connection what it returned, and     *)
(* starts a goroutine: watch polls Consul with the discovery's code, poll  *)
(* calls GetServices again when the discovery is of another type (a        *)
(* wrapper around a consulDiscovery).  Resolvers share the discovery with  *)
(* each other and with plain callers.                                      *)
(***************************************************************************)
EXTENDS ConsulDiscovery

CONSTANTS Resolver,   \* the resolvers: callers that call for a connection
          Grpc        \* the instances with protocol grpc, or with none

ASSUME ResolverAssumption == Resolver \subseteq Caller /\ Grpc \subseteq Instance

VARIABLES
  wrapped,   \* whether the discovery is another type than consulDiscovery
  phase,     \* where the resolver is: Build, in use, closed
  loop,      \* its goroutine, with the list it is about to tell
  told       \* the list last given to the connection, or None

resolvers == <<wrapped, phase, loop, told>>
allVars == <<vars, resolvers>>

LoopRecord ==
  [state : {"none", "waiting", "calling", "telling", "ended"}, got : List]

ResolverTypeOK ==
  /\ TypeOK
  /\ wrapped \in BOOLEAN
  /\ phase \in [Resolver -> {"new", "build", "failed", "open", "closed"}]
  /\ loop \in [Resolver -> LoopRecord]
  /\ told \in [Resolver -> {None} \cup List]

ResolverInit ==
  /\ Init
  /\ wrapped \in BOOLEAN
  /\ phase = [r \in Resolver |-> "new"]
  /\ loop = [r \in Resolver |-> [state |-> "none", got |-> {}]]
  /\ told = [r \in Resolver |-> None]

--------------------------------------------------------------------------
(* Build and Close                                                         *)

\* Build calls GetServices for the name and version of the target.
BeginBuild(r, n, v) ==
  /\ phase[r] = "new"
  /\ Lookup(r, n, v)
  /\ phase' = [phase EXCEPT ![r] = "build"]
  /\ UNCHANGED <<wrapped, loop, told>>

\* Defect: without a service the goroutine is not started.
EndBuildWithoutLoop(r) ==
  LET result == call[r].pc
  IN  /\ phase[r] = "build"
      /\ result \in Returned
      /\ phase' = [phase EXCEPT ![r] =
                     IF result = "error" THEN "failed" ELSE "open"]
      /\ loop' = [loop EXCEPT ![r].state =
                    IF result = "ok" THEN "waiting" ELSE "none"]
      /\ told' = [told EXCEPT ![r] =
                    IF result = "ok" THEN call[r].got \cap Grpc ELSE @]
      /\ UNCHANGED <<vars, wrapped>>

\* A missing service is no error: the connection is told nothing yet.
EndBuild(r) ==
  LET result == call[r].pc
  IN  /\ phase[r] = "build"
      /\ result \in Returned
      /\ phase' = [phase EXCEPT ![r] =
                     IF result = "error" THEN "failed" ELSE "open"]
      /\ loop' = [loop EXCEPT ![r].state =
                    IF result = "error" THEN "none" ELSE "waiting"]
      /\ told' = [told EXCEPT ![r] =
                    IF result = "ok" THEN call[r].got \cap Grpc ELSE @]
      /\ UNCHANGED <<vars, wrapped>>

Close(r) ==
  /\ phase[r] = "open"
  /\ phase' = [phase EXCEPT ![r] = "closed"]
  /\ UNCHANGED <<vars, wrapped, loop, told>>

--------------------------------------------------------------------------
(* The goroutine                                                           *)

\* watch: the resolver asks Consul for its own version.  A request under the
\* context of a closed resolver fails.
Ask(r) ==
  /\ ~wrapped
  /\ phase[r] = "open"
  /\ loop[r].state = "waiting"
  /\ loop' = [loop EXCEPT ![r].state = "telling",
                ![r].got = Select(listed, call[r].name, call[r].version)]
  /\ UNCHANGED <<vars, wrapped, phase, told>>

\* updateState drops the instances of other protocols.
Tell(r) ==
  /\ loop[r].state = "telling"
  /\ told' = [told EXCEPT ![r] = loop[r].got \cap Grpc]
  /\ loop' = [loop EXCEPT ![r].state = "waiting", ![r].got = {}]
  /\ UNCHANGED <<vars, wrapped, phase>>

\* poll: GetServices is called at a tick, which select may pick even when
\* the context is done.
AskDiscovery(r) ==
  /\ wrapped
  /\ loop[r].state = "waiting"
  /\ Lookup(r, call[r].name, call[r].version)
  /\ loop' = [loop EXCEPT ![r].state = "calling"]
  /\ UNCHANGED <<wrapped, phase, told>>

\* An error, ErrServicesNotFound among them, leaves the list as it was.
TellAnswer(r) ==
  /\ loop[r].state = "calling"
  /\ call[r].pc \in Returned
  /\ told' = [told EXCEPT ![r] =
                IF call[r].pc = "ok" THEN call[r].got \cap Grpc ELSE @]
  /\ loop' = [loop EXCEPT ![r].state = "waiting"]
  /\ UNCHANGED <<vars, wrapped, phase>>

\* Defect: the context is looked at only after a list was told.
EndLoopWhenTelling(r) ==
  /\ phase[r] = "closed"
  /\ loop[r].state = "telling"
  /\ loop' = [loop EXCEPT ![r].state = "ended"]
  /\ UNCHANGED <<vars, wrapped, phase, told>>

EndLoop(r) ==
  /\ phase[r] = "closed"
  /\ loop[r].state = "waiting"
  /\ loop' = [loop EXCEPT ![r].state = "ended"]
  /\ UNCHANGED <<vars, wrapped, phase, told>>

LoopStep(r) == Ask(r) \/ Tell(r) \/ AskDiscovery(r) \/ TellAnswer(r)

ResolverStep(r) ==
  \/ \E n \in Name, v \in Asked : BeginBuild(r, n, v)
  \/ EndBuild(r) \/ Close(r) \/ LoopStep(r) \/ EndLoop(r)

\* A call under the context of a closed resolver gets no answer from Consul.
Cancelled(c) == c \in Resolver /\ phase[c] = "closed"

AnsweredStep(c) ==
  \/ ~Cancelled(c) /\ Fetch(c)
  \/ FetchFails(c) \/ Fill(c)

DiscoveryStep ==
  \/ \E c \in Caller \ Resolver, n \in Name, v \in Asked : Lookup(c, n, v)
  \/ \E c \in Caller : AnsweredStep(c)
  \/ \E p \in Poller : PollStep(p)
  \/ \E i \in Instance : Change(i)

ResolverNext == \/ DiscoveryStep /\ UNCHANGED resolvers
                \/ \E r \in Resolver : ResolverStep(r)

ResolverSpec == ResolverInit /\ [][ResolverNext]_allVars

\* Goroutines go on, calls in progress come to an end, and of the requests
\* that are made again and again some succeed.  Nobody has to call, to build
\* a resolver or to close it.  A closed resolver's select picks ctx.Done at
\* some tick.
ResolverFairSpec ==
  /\ ResolverSpec
  /\ \A p \in Poller : WF_allVars(PollStep(p) /\ UNCHANGED resolvers)
  /\ \A c \in Resolver :
       /\ WF_allVars(AnsweredStep(c) /\ UNCHANGED resolvers)
       /\ SF_allVars(~Cancelled(c) /\ Fetch(c) /\ UNCHANGED resolvers)
  /\ \A r \in Resolver : WF_allVars(LoopStep(r)) /\ SF_allVars(EndLoop(r))

--------------------------------------------------------------------------
(* Properties                                                              *)

(* Once Consul stops changing, a connection in use is told for ever        *)
(* exactly the gRPC instances of its own version that Consul holds, also   *)
(* when Build found no service or was given the cached list of another     *)
(* version.  A wrapped discovery does not do as much: with watching on its *)
(* answers are those of the cache, and an empty list is never passed on.   *)
BalancerSettles ==
  \A r \in Resolver :
    <>[](phase[r] = "open" =>
           LET now == Select(listed, call[r].name, call[r].version)
           IN  told[r] = now \cap Grpc \/ (wrapped /\ (enabled \/ now = {})))

(* The goroutine of a closed resolver ends, wherever Close found it.       *)
ClosedLoopEnds ==
  \A r \in Resolver : phase[r] = "closed" ~> loop[r].state = "ended"
(* A connection is told only gRPC instances of the service its resolver    *)
(* was built for, of its version too when the discovery does not watch;    *)
(* whoever else filled the map, and whatever was listed meanwhile.         *)
ToldItsService ==
  \A r \in Resolver :
    told[r] # None =>
      told[r] \subseteq Answer(call[r].name, call[r].version) \cap Grpc

--------------------------------------------------------------------------
(* The inductive invariant                                                 *)

\* A resolver in use has called GetServices, and has told nothing before.
PhaseInv ==
  \A r \in Resolver :
    /\ phase[r] = "new" => told[r] = None
    /\ phase[r] # "new" => call[r].pc # "idle"
    /\ loop[r].state # "none" => phase[r] \in {"open", "closed"}

\* What the goroutine is about to tell is of the service and the version.
LoopInv ==
  \A r \in Resolver :
    loop[r].state = "telling" =>
      loop[r].got \subseteq Select(Instance, call[r].name, call[r].version)

ResolverInv ==
  ResolverTypeOK /\ CallInv /\ PollInv /\ ListInv /\ PhaseInv /\ LoopInv /\ ToldItsService
==========================================================================
