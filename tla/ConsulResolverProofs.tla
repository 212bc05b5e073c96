----------------------- MODULE ConsulResolverProofs -----------------------
(***************************************************************************)
(* Proofs about ConsulDiscovery and ConsulResolver, for any instances,     *)
(* names, versions, callers and resolvers, and any bound on the goroutines *)
(* and on the changes: a call, and a connection, are never given the       *)
(* instances of another service.                                           *)
(***************************************************************************)
EXTENDS ConsulResolver, TLAPS

--------------------------------------------------------------------------
(* The discovery                                                           *)

\* The updates of a goroutine's and of a call's record that actions make.
LEMMA PollRecordUpdates ==
  ASSUME NEW R \in PollRecord, NEW s \in {"free", "waiting", "storing"},
         NEW n \in Name, NEW v \in Asked, NEW g \in List
  PROVE  /\ [R EXCEPT !.state = s, !.got = g] \in PollRecord
         /\ [R EXCEPT !.state = s, !.name = n, !.version = v] \in PollRecord
BY DEF PollRecord

LEMMA CallRecordUpdates ==
  ASSUME NEW R \in CallRecord, NEW p \in Returned \cup {"fetch", "fill"}, NEW g \in List
  PROVE  /\ [R EXCEPT !.pc = p] \in CallRecord
         /\ [R EXCEPT !.pc = p, !.got = g] \in CallRecord
BY DEF CallRecord

\* What is selected from any listing is an answer to the question.
LEMMA Selected ==
  ASSUME NEW S \in List, NEW n, NEW v
  PROVE  /\ Select(S, n, v) \in List
         /\ Select(S, n, v) \subseteq Select(Instance, n, v)
         /\ Select(S, n, v) \subseteq Select(Instance, n, AnyVersion)
         /\ Select(S, n, v) \subseteq Answer(n, v)
BY DiscoveryAssumption DEF Select, List, Answer

LEMMA AnswersAreOfTheName ==
  ASSUME NEW n, NEW v
  PROVE  Answer(n, v) \subseteq Select(Instance, n, AnyVersion)
BY DEF Select, Answer

LEMMA InitInv == Init => IInv
BY DiscoveryAssumption
   DEF Init, IInv, TypeOK, CallInv, PollInv, ListInv, CallRecord, PollRecord, Returned,
       List

\* A hit answers with the cached list of the name.
LEMMA LookupKeeps ==
  ASSUME IInv, NEW c \in Caller, NEW n \in Name, NEW v \in Asked, Lookup(c, n, v)
  PROVE  IInv'
<1> USE DEF IInv, TypeOK
<1>1. /\ call'[c].name = n /\ call'[c].version = v
      /\ \/ /\ call'[c].pc = "ok" /\ call'[c].got = cache[n]
            /\ enabled /\ cache[n] # None
         \/ call'[c].pc = "fetch" /\ call'[c].got = {}
      /\ \A d \in Caller \ {c} : call'[d] = call[d]
      /\ UNCHANGED <<enabled, listed, changes, cache, poller>>
  BY DEF Lookup, store
<1>2. TypeOK'
  <2>1. call' \in [Caller -> CallRecord]
    BY DEF Lookup, CallRecord, Returned, List
  <2> QED
    BY <1>1, <2>1
<1>3. CallInv' /\ PollInv'
  BY <1>1 DEF CallInv, PollInv
<1>4. ListInv'
  BY <1>1 DEF ListInv, Answer, Select
<1> QED
  BY <1>2, <1>3, <1>4

\* A request that is answered, or is not.
LEMMA FetchKeeps ==
  ASSUME IInv, NEW c \in Caller, Fetch(c) \/ FetchFails(c)
  PROVE  IInv'
<1> USE DEF IInv, TypeOK
<1>1. PICK p \in {"notfound", "fill", "error"}, g \in List :
        /\ call' = [call EXCEPT ![c].pc = p, ![c].got = g]
        /\ p = "fill" => g \subseteq Answer(call[c].name, call[c].version)
  <2>1. CASE Fetch(c)
    BY <2>1, Selected DEF Fetch
  <2>2. CASE FetchFails(c)
    <3>1. call[c].got \in List
      BY DEF CallRecord
    <3>2. call' = [call EXCEPT ![c].pc = "error", ![c].got = call[c].got]
      BY <2>2 DEF FetchFails, CallRecord
    <3> QED
      BY <3>1, <3>2
  <2> QED
    BY <2>1, <2>2
<1>2. /\ call'[c].pc = p /\ call'[c].got = g
      /\ call'[c].name = call[c].name /\ call'[c].version = call[c].version
      /\ \A d \in Caller \ {c} : call'[d] = call[d]
  BY <1>1 DEF CallRecord
<1>3. /\ call[c].pc = "fetch"
      /\ UNCHANGED <<enabled, listed, changes, cache, poller>>
  BY DEF Fetch, FetchFails, store
<1>4. TypeOK'
  BY <1>1, <1>3, CallRecordUpdates DEF Returned
<1>5. CallInv' /\ PollInv'
  BY <1>2, <1>3 DEF CallInv, PollInv
<1>6. ListInv'
  BY <1>1, <1>2, <1>3 DEF ListInv, Answer
<1> QED
  BY <1>4, <1>5, <1>6

\* What is stored under the name is an answer for the name.
LEMMA FillKeeps ==
  ASSUME IInv, NEW c \in Caller, Fill(c)
  PROVE  IInv'
<1> USE DEF IInv, TypeOK
<1>1. /\ call[c].pc = "fill"
      /\ cache' = [cache EXCEPT ![call[c].name] = call[c].got]
      /\ call' = [call EXCEPT ![c].pc = "ok"]
      /\ UNCHANGED <<enabled, listed, changes>>
  BY DEF Fill, store
<1>2. /\ call[c].name \in Name /\ call[c].version \in Asked
      /\ call[c].got \in List
      /\ call[c].got \subseteq Answer(call[c].name, call[c].version)
  BY <1>1 DEF CallInv, CallRecord, ListInv
<1>3. /\ call'[c].pc = "ok" /\ call'[c].got = call[c].got
      /\ call'[c].name = call[c].name /\ call'[c].version = call[c].version
      /\ \A d \in Caller \ {c} : call'[d] = call[d]
  BY <1>1 DEF CallRecord
<1>4. /\ poller' \in [Poller -> PollRecord]
      /\ \A q \in Poller :
           \/ poller'[q] = poller[q]
           \/ /\ poller'[q].state = "waiting"
              /\ poller'[q].name \in Name /\ poller'[q].version \in Asked
  <2>1. CASE enabled
    <3>1. PICK q \in Poller :
            poller' = [poller EXCEPT ![q].state = "waiting",
                         ![q].name = call[c].name, ![q].version = call[c].version]
      BY <2>1 DEF Fill, StartPoller
    <3>2. poller' \in [Poller -> PollRecord]
      BY <1>2, <3>1, PollRecordUpdates
    <3> QED
      BY <1>2, <3>1, <3>2 DEF PollRecord
  <2>2. CASE ~enabled
    BY <2>2 DEF Fill
  <2> QED
    BY <2>1, <2>2
<1>5. TypeOK'
  BY <1>1, <1>2, <1>4, CallRecordUpdates DEF Returned
<1>6. CallInv' /\ PollInv'
  BY <1>1, <1>3, <1>4 DEF CallInv, PollInv
<1>7. ListInv'
  <2>1. \A n \in Name :
          cache'[n] # None => cache'[n] \subseteq Select(Instance, n, AnyVersion)
    BY <1>1, <1>2, AnswersAreOfTheName DEF ListInv
  <2>2. \A d \in Caller :
          call'[d].pc \in {"ok", "fill"} =>
            call'[d].got \subseteq Answer(call'[d].name, call'[d].version)
    BY <1>2, <1>3 DEF ListInv
  <2>3. \A q \in Poller :
          poller'[q].state = "storing" =>
            poller'[q].got \subseteq Select(Instance, poller'[q].name, AnyVersion)
    BY <1>4 DEF ListInv
  <2> QED
    BY <1>1, <2>1, <2>2, <2>3 DEF ListInv, Answer
<1> QED
  BY <1>5, <1>6, <1>7

LEMMA PollKeeps ==
  ASSUME IInv, NEW p \in Poller, Poll(p) \/ Store(p)
  PROVE  IInv'
<1> USE DEF IInv, TypeOK
<1>1. poller[p] \in PollRecord /\ poller[p].state # "free"
  BY DEF Poll, Store
<1>2. poller[p].name \in Name /\ poller[p].version \in Asked
  BY <1>1 DEF PollInv
<1>3. UNCHANGED <<enabled, listed, changes, call>>
  BY DEF Poll, Store, store
<1>4. CASE Poll(p)
  <2>1. PICK g \in List :
          /\ g = Select(listed, poller[p].name, poller[p].version)
          /\ poller' = [poller EXCEPT ![p].state = "storing", ![p].got = g]
    BY <1>4, Selected DEF Poll
  <2>2. /\ poller'[p].name = poller[p].name /\ poller'[p].version = poller[p].version
        /\ poller'[p].got = g
        /\ \A q \in Poller \ {p} : poller'[q] = poller[q]
        /\ cache' = cache
    BY <1>4, <2>1 DEF Poll, PollRecord
  <2>3. TypeOK'
    BY <1>1, <1>2, <1>3, <2>1, <2>2, PollRecordUpdates
  <2>4. g \subseteq Select(Instance, poller[p].name, AnyVersion)
    BY <2>1, Selected
  <2> QED
    BY <1>1, <1>2, <1>3, <2>2, <2>3, <2>4 DEF CallInv, PollInv, ListInv, Answer
<1>5. CASE Store(p)
  <2>1. /\ poller' = [poller EXCEPT ![p].state = "waiting", ![p].got = {}]
        /\ cache' = [cache EXCEPT ![poller[p].name] = poller[p].got]
        /\ poller[p].state = "storing"
    BY <1>5 DEF Store
  <2>2. /\ poller'[p].name = poller[p].name /\ poller'[p].version = poller[p].version
        /\ poller'[p].state = "waiting"
        /\ \A q \in Poller \ {p} : poller'[q] = poller[q]
    BY <1>1, <2>1 DEF PollRecord
  <2>3. poller[p].got \in List /\ {} \in List
    BY <1>1 DEF PollRecord, List
  <2>4. poller' \in [Poller -> PollRecord]
    BY <1>2, <2>1, <2>3, PollRecordUpdates
  <2>5. TypeOK'
    BY <1>3, <2>1, <2>3, <2>4
  <2>6. poller[p].got \subseteq Select(Instance, poller[p].name, AnyVersion)
    BY <2>1 DEF ListInv
  <2> QED
    BY <1>1, <1>2, <1>3, <2>1, <2>2, <2>5, <2>6 DEF CallInv, PollInv, ListInv, Answer
<1> QED
  BY <1>4, <1>5

LEMMA ChangeKeeps ==
  ASSUME IInv, NEW i \in Instance, Change(i)
  PROVE  IInv'
BY DiscoveryAssumption
   DEF IInv, TypeOK, Change, List, CallInv, PollInv, ListInv, Answer

LEMMA Step == ASSUME IInv, [Next]_vars PROVE IInv'
<1>1. CASE UNCHANGED vars
  BY <1>1 DEF vars, IInv, TypeOK, CallInv, PollInv, ListInv, Answer
<1> QED
  BY <1>1, LookupKeeps, FetchKeeps, FillKeeps, PollKeeps, ChangeKeeps
     DEF Next, CallStep, PollStep

(* Every variable of the discovery keeps its type, and neither the map nor *)
(* an answer mixes services, for any callers and however many goroutines.  *)
THEOREM DiscoverySafety == Spec => []IInv
BY InitInv, Step, PTL DEF Spec

--------------------------------------------------------------------------
(* The resolvers use the discovery as any callers do                       *)

LEMMA DiscoveryMoves ==
  ASSUME CallInv, PhaseInv, [ResolverNext]_allVars
  PROVE  [Next]_vars
<1> USE ResolverAssumption DEF Next, CallStep
<1>1. CASE DiscoveryStep
  BY <1>1 DEF DiscoveryStep, AnsweredStep
<1>2. ASSUME NEW r \in Resolver, ResolverStep(r) PROVE [Next]_vars
  <2>1. ASSUME NEW n \in Name, NEW v \in Asked, BeginBuild(r, n, v) PROVE [Next]_vars
    BY <2>1 DEF BeginBuild
  <2>2. CASE AskDiscovery(r)
    <3>1. call[r].name \in Name /\ call[r].version \in Asked
      BY <2>2 DEF AskDiscovery, PhaseInv, CallInv
    <3> QED
      BY <2>2, <3>1 DEF AskDiscovery
  <2>3. CASE UNCHANGED vars
    BY <2>3
  <2> QED
    BY <1>2, <2>1, <2>2, <2>3
       DEF ResolverStep, LoopStep, EndBuild, Close, Ask, Tell, TellAnswer, EndLoop
<1>3. CASE UNCHANGED allVars
  BY <1>3 DEF allVars
<1> QED
  BY <1>1, <1>2, <1>3 DEF ResolverNext

--------------------------------------------------------------------------
(* The resolvers                                                           *)

ConnectionInv == PhaseInv /\ LoopInv /\ ToldItsService

LEMMA ResolverInitInv == ResolverInit => ResolverInv
<1> SUFFICES ASSUME ResolverInit PROVE ResolverInv
  OBVIOUS
<1>1. IInv
  BY InitInv DEF ResolverInit
<1>2. {} \in List
  BY DEF List
<1> QED
  BY <1>1, <1>2
     DEF ResolverInit, ResolverInv, IInv, ResolverTypeOK, LoopRecord, PhaseInv,
         LoopInv, ToldItsService

\* The updates of a goroutine's record that actions make.
LEMMA LoopRecordUpdates ==
  ASSUME NEW R \in LoopRecord, NEW g \in List,
         NEW s \in {"none", "waiting", "calling", "telling", "ended"}
  PROVE  /\ [R EXCEPT !.state = s] \in LoopRecord
         /\ [R EXCEPT !.state = s, !.got = g] \in LoopRecord
BY DEF LoopRecord

\* The types of the resolvers' variables.
ResolverTypes ==
  /\ wrapped \in BOOLEAN
  /\ phase \in [Resolver -> {"new", "build", "failed", "open", "closed"}]
  /\ loop \in [Resolver -> LoopRecord]
  /\ told \in [Resolver -> {None} \cup List]

\* A call goes on with the question it asked, and does not become idle.
Asks(c) == /\ call'[c].name = call[c].name /\ call'[c].version = call[c].version
           /\ call[c].pc # "idle" => call'[c].pc # "idle"

LEMMA CallsAskTheSame ==
  ASSUME TypeOK, NEW c \in Caller, CallStep(c), NEW d \in Caller
  PROVE  Asks(d)
BY DEF TypeOK, CallRecord, Returned, CallStep, Fetch, FetchFails, Fill, Asks

\* Steps of the discovery, when no resolver moves.
LEMMA DiscoveryKeeps ==
  ASSUME ResolverInv, DiscoveryStep, UNCHANGED resolvers
  PROVE  ResolverTypes' /\ ConnectionInv'
<1> USE ResolverAssumption DEF ResolverInv, ResolverTypeOK
<1>1. \A r \in Resolver : Asks(r)
  <2>1. ASSUME NEW c \in Caller, AnsweredStep(c) PROVE \A r \in Resolver : Asks(r)
    BY <2>1, CallsAskTheSame DEF AnsweredStep, CallStep
  <2>2. ASSUME NEW c \in Caller \ Resolver, NEW n \in Name, NEW v \in Asked,
               Lookup(c, n, v)
        PROVE  \A r \in Resolver : Asks(r)
    BY <2>2 DEF Lookup, Asks, TypeOK
  <2>3. CASE UNCHANGED call
    BY <2>3 DEF Asks
  <2> QED
    BY <2>1, <2>2, <2>3 DEF DiscoveryStep, PollStep, Poll, Store, Change
<1>2. UNCHANGED enabled
  BY DEF DiscoveryStep, AnsweredStep, PollStep, Poll, Store, Change, Lookup, Fetch,
         FetchFails, Fill
<1> QED
  BY <1>1, <1>2
     DEF resolvers, ResolverTypes, ConnectionInv, PhaseInv, LoopInv, ToldItsService,
         Asks, Answer, Select

\* Build and Close.
LEMMA BeginBuildKeeps ==
  ASSUME ResolverInv, NEW r \in Resolver, NEW n \in Name, NEW v \in Asked,
         BeginBuild(r, n, v)
  PROVE  ResolverTypes' /\ ConnectionInv'
<1> USE ResolverAssumption DEF ResolverInv, ResolverTypeOK, TypeOK
<1>1. /\ phase' = [phase EXCEPT ![r] = "build"]
      /\ UNCHANGED <<enabled, wrapped, loop, told>>
      /\ phase[r] = "new"
  BY DEF BeginBuild, Lookup
<1>2. /\ call'[r].pc # "idle"
      /\ \A q \in Caller \ {r} : call'[q] = call[q]
  BY DEF BeginBuild, Lookup
<1>3. told[r] = None /\ loop[r].state = "none"
  BY <1>1 DEF PhaseInv
<1> QED
  BY <1>1, <1>2, <1>3
     DEF ResolverTypes, ConnectionInv, PhaseInv, LoopInv, ToldItsService, Answer

LEMMA EndBuildKeeps ==
  ASSUME ResolverInv, NEW r \in Resolver, EndBuild(r) \/ Close(r)
  PROVE  ResolverTypes' /\ ConnectionInv'
<1> USE ResolverAssumption DEF ResolverInv, ResolverTypeOK, TypeOK
<1>1. UNCHANGED <<enabled, call, wrapped>>
  BY DEF EndBuild, Close, vars
<1>2. CASE Close(r)
  BY <1>1, <1>2
     DEF Close, ResolverTypes, ConnectionInv, PhaseInv, LoopInv, ToldItsService, Answer
<1>3. CASE EndBuild(r)
  <2>1. /\ phase[r] = "build" /\ phase'[r] \in {"failed", "open"}
        /\ phase' \in [Resolver -> {"new", "build", "failed", "open", "closed"}]
        /\ \A q \in Resolver \ {r} : phase'[q] = phase[q]
    BY <1>3 DEF EndBuild
  <2>2. /\ loop' \in [Resolver -> LoopRecord]
        /\ loop'[r].state \in {"none", "waiting"}
        /\ loop'[r].state = "waiting" => phase'[r] = "open"
        /\ \A q \in Resolver \ {r} : loop'[q] = loop[q]
    <3>1. PICK s \in {"none", "waiting"} :
            /\ loop' = [loop EXCEPT ![r].state = s]
            /\ s = "waiting" => phase'[r] = "open"
      BY <1>3 DEF EndBuild
    <3>2. loop' \in [Resolver -> LoopRecord]
      BY <3>1, LoopRecordUpdates
    <3> QED
      BY <3>1, <3>2 DEF LoopRecord
  <2>3. call[r].got \in List
    BY DEF CallRecord
  <2>4. \/ told'[r] = told[r]
        \/ call[r].pc = "ok" /\ told'[r] = call[r].got \cap Grpc
    BY <1>3 DEF EndBuild
  <2>5. /\ told' \in [Resolver -> {None} \cup List]
        /\ \A q \in Resolver \ {r} : told'[q] = told[q]
    BY <1>3, <2>3 DEF EndBuild, List
  <2>6. call[r].pc = "ok" => call[r].got \subseteq Answer(call[r].name, call[r].version)
    BY DEF ListInv
  <2>7. ToldItsService'
    BY <1>1, <2>4, <2>5, <2>6 DEF ToldItsService, Answer
  <2> QED
    BY <1>1, <2>1, <2>2, <2>5, <2>7 DEF ResolverTypes, ConnectionInv, PhaseInv, LoopInv
<1> QED
  BY <1>2, <1>3

\* watch: what is asked is the resolver's own question, and what is told is
\* what was asked.
LEMMA WatchKeeps ==
  ASSUME ResolverInv, NEW r \in Resolver, Ask(r) \/ Tell(r) \/ EndLoop(r)
  PROVE  ResolverTypes' /\ ConnectionInv'
<1> USE ResolverAssumption DEF ResolverInv, ResolverTypeOK, TypeOK
<1>1. /\ UNCHANGED <<enabled, call, wrapped, phase>>
      /\ loop[r].state \in {"waiting", "telling"}
      /\ phase[r] \in {"open", "closed"}
  BY DEF Ask, Tell, EndLoop, vars, PhaseInv
<1>2. CASE Ask(r)
  <2>1. PICK g \in List :
          /\ g = Select(listed, call[r].name, call[r].version)
          /\ loop' = [loop EXCEPT ![r].state = "telling", ![r].got = g]
    BY <1>2, Selected DEF Ask
  <2>2. /\ loop'[r].state = "telling" /\ loop'[r].got = g
        /\ \A q \in Resolver \ {r} : loop'[q] = loop[q]
        /\ told' = told
    BY <1>2, <2>1 DEF Ask, LoopRecord
  <2>4. loop' \in [Resolver -> LoopRecord]
    BY <2>1, LoopRecordUpdates
  <2>3. g \subseteq Select(Instance, call[r].name, call[r].version)
    BY <2>1, Selected
  <2> QED
    BY <1>1, <2>2, <2>3, <2>4
       DEF ResolverTypes, ConnectionInv, PhaseInv, LoopInv, ToldItsService, Answer,
           Select
<1>3. CASE Tell(r)
  <2>1. /\ told' = [told EXCEPT ![r] = loop[r].got \cap Grpc]
        /\ loop[r].got \subseteq Select(Instance, call[r].name, call[r].version)
    BY <1>3 DEF Tell, LoopInv
  <2>2. /\ loop'[r].state = "waiting"
        /\ \A q \in Resolver \ {r} : loop'[q] = loop[q] /\ told'[q] = told[q]
    BY <1>3 DEF Tell, LoopRecord
  <2>6. loop' \in [Resolver -> LoopRecord]
    <3>1. {} \in List
      BY DEF List
    <3> QED
      BY <1>3, <3>1, LoopRecordUpdates DEF Tell
  <2>3. told' \in [Resolver -> {None} \cup List]
    BY <2>1 DEF List
  <2>4. loop[r].got \subseteq Answer(call[r].name, call[r].version)
    BY <2>1 DEF Answer, Select
  <2>5. ToldItsService'
    BY <1>1, <2>1, <2>4 DEF ToldItsService, Answer
  <2> QED
    BY <1>1, <2>2, <2>3, <2>5, <2>6 DEF ResolverTypes, ConnectionInv, PhaseInv, LoopInv
<1>4. CASE EndLoop(r)
  <2>1. /\ loop' = [loop EXCEPT ![r].state = "ended"] /\ told' = told
        /\ phase[r] = "closed"
    BY <1>4 DEF EndLoop
  <2>2. loop' \in [Resolver -> LoopRecord]
    BY <2>1, LoopRecordUpdates
  <2>3. /\ loop'[r].state = "ended"
        /\ \A q \in Resolver \ {r} : loop'[q] = loop[q]
    BY <2>1 DEF LoopRecord
  <2> QED
    BY <1>1, <2>1, <2>2, <2>3
       DEF ResolverTypes, ConnectionInv, PhaseInv, LoopInv, ToldItsService, Answer
<1> QED
  BY <1>2, <1>3, <1>4

\* poll: the call is made again with the question of Build.
LEMMA PollingKeeps ==
  ASSUME ResolverInv, NEW r \in Resolver, AskDiscovery(r) \/ TellAnswer(r)
  PROVE  ResolverTypes' /\ ConnectionInv'
<1> USE ResolverAssumption DEF ResolverInv, ResolverTypeOK, TypeOK
<1>1. /\ UNCHANGED <<enabled, wrapped, phase>>
      /\ loop[r].state \in {"waiting", "calling"} /\ loop'[r].state \in {"waiting", "calling"}
      /\ phase[r] \in {"open", "closed"}
      /\ \A q \in Resolver \ {r} : loop'[q] = loop[q]
      /\ loop' \in [Resolver -> LoopRecord]
  <2>1. PICK s \in {"waiting", "calling"} : loop' = [loop EXCEPT ![r].state = s]
    BY DEF AskDiscovery, TellAnswer
  <2>2. /\ loop'[r].state = s
        /\ \A q \in Resolver \ {r} : loop'[q] = loop[q]
    BY <2>1 DEF LoopRecord
  <2>3. loop' \in [Resolver -> LoopRecord]
    BY <2>1, LoopRecordUpdates
  <2>4. /\ UNCHANGED <<enabled, wrapped, phase>>
        /\ loop[r].state \in {"waiting", "calling"}
    BY DEF AskDiscovery, TellAnswer, Lookup, vars
  <2> QED
    BY <2>2, <2>3, <2>4 DEF PhaseInv
<1>2. CASE AskDiscovery(r)
  <2>1. /\ told' = told
        /\ call'[r].name = call[r].name /\ call'[r].version = call[r].version
        /\ call'[r].pc # "idle"
        /\ \A q \in Caller \ {r} : call'[q] = call[q]
    BY <1>2 DEF AskDiscovery, Lookup
  <2> QED
    BY <1>1, <2>1
       DEF ResolverTypes, ConnectionInv, PhaseInv, LoopInv, ToldItsService, Answer
<1>3. CASE TellAnswer(r)
  <2>1. /\ call' = call
        /\ \/ told'[r] = told[r]
           \/ call[r].pc = "ok" /\ told'[r] = call[r].got \cap Grpc
        /\ \A q \in Resolver \ {r} : told'[q] = told[q]
    BY <1>3 DEF TellAnswer, vars
  <2>2. told' \in [Resolver -> {None} \cup List]
    <3>1. call[r].got \in List
      BY DEF CallRecord
    <3> QED
      BY <1>3, <3>1 DEF TellAnswer, List
  <2>3. call[r].pc = "ok" => call[r].got \subseteq Answer(call[r].name, call[r].version)
    BY DEF ListInv
  <2>4. ToldItsService'
    BY <1>1, <2>1, <2>3 DEF ToldItsService, Answer
  <2> QED
    BY <1>1, <2>1, <2>2, <2>4 DEF ResolverTypes, ConnectionInv, PhaseInv, LoopInv
<1> QED
  BY <1>2, <1>3

LEMMA ResolverStepKeeps == ASSUME ResolverInv, [ResolverNext]_allVars PROVE ResolverInv'
<1>1. IInv'
  <2>1. [Next]_vars
    BY DiscoveryMoves DEF ResolverInv
  <2> QED
    BY <2>1, Step DEF ResolverInv, ResolverTypeOK, IInv
<1>2. ResolverTypes' /\ ConnectionInv'
  <2>1. CASE UNCHANGED allVars
    BY <2>1
       DEF allVars, vars, resolvers, ResolverInv, ResolverTypeOK, ResolverTypes,
           ConnectionInv, PhaseInv, LoopInv, ToldItsService, Answer
  <2> QED
    BY <2>1, DiscoveryKeeps, BeginBuildKeeps, EndBuildKeeps, WatchKeeps, PollingKeeps
       DEF ResolverNext, ResolverStep, LoopStep
<1> QED
  BY <1>1, <1>2 DEF IInv, ResolverTypes, ConnectionInv, ResolverInv, ResolverTypeOK

LEMMA ResolverInductive == ResolverSpec => []ResolverInv
BY ResolverInitInv, ResolverStepKeeps, PTL DEF ResolverSpec

(* Every variable keeps its type, whatever is called, built, closed, or    *)
(* changes in Consul.                                                      *)
THEOREM ConsulResolverTypes == ResolverSpec => []ResolverTypeOK
<1>1. ResolverInv => ResolverTypeOK
  BY DEF ResolverInv
<1> QED
  BY <1>1, ResolverInductive, PTL

(* A resolver, whether it watches or polls, uses the discovery as a caller *)
(* of GetServices does, and only reads it otherwise.                       *)
THEOREM ConsulResolversAreCallers == ResolverSpec => Spec
<1>1. ResolverInv /\ [ResolverNext]_allVars => [Next]_vars
  BY DiscoveryMoves DEF ResolverInv
<1>2. ResolverInit => Init
  BY DEF ResolverInit
<1> QED
  BY <1>1, <1>2, ResolverInductive, PTL DEF ResolverSpec, Spec

(* A connection is told only gRPC instances of the service, and without    *)
(* watching of the version, that its resolver was built for.               *)
THEOREM ToldTheService == ResolverSpec => []ToldItsService
<1>1. ResolverInv => ToldItsService
  BY DEF ResolverInv
<1> QED
  BY <1>1, ResolverInductive, PTL
==========================================================================
