------------------------ MODULE MicroServiceProofs ------------------------
(***************************************************************************)
(* Proofs about MicroService, for any RPCs and gateway requests.           *)
(***************************************************************************)
EXTENDS MicroService, TLAPS

\* A server that starts has nothing in flight yet.
LEMMA GrpcServesKeeps == ASSUME IInv, GrpcServes PROVE IInv'
<1> USE RequestAssumption DEF IInv, servers, GrpcServes
<1>1. TypeOK'
  BY DEF TypeOK, Modes, Request
<1>2. OrderInv'
  BY DEF TypeOK, Modes, Request, OrderInv, Hijacked
<1>3. DrainInv'
  BY DEF TypeOK, Request, OrderInv, DrainInv, InFlight
<1>4. GatewayOutlived'
  BY DEF TypeOK, Request, OrderInv, GatewayOutlived
<1> QED
  BY <1>1, <1>2, <1>3, <1>4

\* A server that ends by itself is not the one that is stopped.
LEMMA GrpcFailsKeeps == ASSUME IInv, GrpcFails PROVE IInv'
<1> USE RequestAssumption DEF IInv, servers, GrpcFails
<1>1. TypeOK'
  BY DEF TypeOK, Modes, Request
<1>2. OrderInv'
  BY DEF TypeOK, Modes, Request, OrderInv, Hijacked
<1>3. DrainInv'
  BY DEF TypeOK, Request, OrderInv, DrainInv, InFlight
<1>4. GatewayOutlived'
  BY DEF TypeOK, Request, OrderInv, GatewayOutlived
<1> QED
  BY <1>1, <1>2, <1>3, <1>4

\* No HTTP server starts once it is shut down.
LEMMA HttpServesKeeps == ASSUME IInv, HttpServes PROVE IInv'
<1> USE RequestAssumption DEF IInv, servers, HttpServes
<1>1. TypeOK'
  BY DEF TypeOK, Modes, Request
<1>2. OrderInv'
  BY DEF TypeOK, Modes, Request, OrderInv, Hijacked
<1>3. DrainInv'
  BY DEF TypeOK, Request, OrderInv, DrainInv, InFlight
<1>4. GatewayOutlived'
  BY DEF TypeOK, Request, OrderInv, GatewayOutlived
<1> QED
  BY <1>1, <1>2, <1>3, <1>4

LEMMA HttpFailsKeeps == ASSUME IInv, HttpFails PROVE IInv'
<1> USE RequestAssumption DEF IInv, servers, HttpFails
<1>1. TypeOK'
  BY DEF TypeOK, Modes, Request
<1>2. OrderInv'
  BY DEF TypeOK, Modes, Request, OrderInv, Hijacked
<1>3. DrainInv'
  BY DEF TypeOK, Request, OrderInv, DrainInv, InFlight
<1>4. GatewayOutlived'
  BY DEF TypeOK, Request, OrderInv, GatewayOutlived
<1> QED
  BY <1>1, <1>2, <1>3, <1>4

LEMMA HttpPanicsKeeps == ASSUME IInv, HttpPanics PROVE IInv'
<1> USE RequestAssumption DEF IInv, servers, HttpPanics
<1>1. TypeOK'
  BY DEF TypeOK, Modes, Request
<1>2. OrderInv'
  BY DEF TypeOK, Modes, Request, OrderInv, Hijacked
<1>3. DrainInv'
  BY DEF TypeOK, Request, OrderInv, DrainInv, InFlight
<1>4. GatewayOutlived'
  BY DEF TypeOK, Request, OrderInv, GatewayOutlived
<1> QED
  BY <1>1, <1>2, <1>3, <1>4

\* The signal waits until Run takes it.
LEMMA InterruptKeeps == ASSUME IInv, Interrupt PROVE IInv'
<1> USE RequestAssumption DEF IInv, servers, Interrupt
<1>1. TypeOK'
  BY DEF TypeOK, Modes, Request
<1>2. OrderInv'
  BY DEF TypeOK, Modes, Request, OrderInv, Hijacked
<1>3. DrainInv'
  BY DEF TypeOK, Request, OrderInv, DrainInv, InFlight
<1>4. GatewayOutlived'
  BY DEF TypeOK, Request, OrderInv, GatewayOutlived
<1> QED
  BY <1>1, <1>2, <1>3, <1>4

\* Run returns before it stopped anything.
LEMMA ReturnErrorKeeps == ASSUME IInv, ReturnError PROVE IInv'
<1> USE RequestAssumption DEF IInv, servers, ReturnError
<1>1. TypeOK'
  BY DEF TypeOK, Modes, Request
<1>2. OrderInv'
  BY DEF TypeOK, Modes, Request, OrderInv, Hijacked
<1>3. DrainInv'
  BY DEF TypeOK, Request, OrderInv, DrainInv, InFlight
<1>4. GatewayOutlived'
  BY DEF TypeOK, Request, OrderInv, GatewayOutlived
<1> QED
  BY <1>1, <1>2, <1>3, <1>4

\* Without a gateway there is no gateway request to wait for.
LEMMA TakeSignalKeeps == ASSUME IInv, TakeSignal PROVE IInv'
<1> USE RequestAssumption DEF IInv, servers, TakeSignal, GracefulStop, Shutdown
<1>1. TypeOK'
  BY DEF TypeOK, Modes, Request
<1>2. OrderInv'
  BY DEF TypeOK, Modes, Request, OrderInv, Hijacked
<1>3. DrainInv'
  BY DEF TypeOK, Request, OrderInv, DrainInv, InFlight
<1>4. GatewayOutlived'
  BY DEF TypeOK, Request, OrderInv, GatewayOutlived
<1> QED
  BY <1>1, <1>2, <1>3, <1>4

\* Gateway requests are over, but for hijacked ones, or the timeout is; an RPC
\* in flight is the end of a process with one address.
LEMMA HttpStoppedKeeps == ASSUME IInv, HttpStopped PROVE IInv'
<1> USE RequestAssumption DEF IInv, servers, HttpStopped
<1>1. CASE mode = "one" /\ InFlight # {}
  <2>1. /\ run' = "panic" /\ grpc' = "ended" /\ http' = "ended"
        /\ \A q \in Request :
             req'[q] = IF req[q] \in {"running", "calling"} THEN "dropped" ELSE req[q]
    BY <1>1 DEF Die
  <2>2. TypeOK'
    BY <1>1 DEF Die, TypeOK, Modes, Request
  <2>3. OrderInv'
    BY <1>1, <2>1 DEF TypeOK, Modes, Request, OrderInv, Hijacked
  <2>4. DrainInv'
    BY <1>1, <2>1 DEF TypeOK, Request, OrderInv, DrainInv
  <2>5. GatewayOutlived'
    BY <1>1 DEF GatewayOutlived
  <2> QED
    BY <2>2, <2>3, <2>4, <2>5
<1>2. CASE ~(mode = "one" /\ InFlight # {})
  <2>1. run' = "grpc" /\ GracefulStop /\ UNCHANGED <<http, req>>
    BY <1>2
  <2> USE DEF GracefulStop
  <2>2. TypeOK'
    BY <2>1 DEF TypeOK, Modes, Request
  <2>3. OrderInv'
    BY <2>1 DEF TypeOK, Modes, Request, OrderInv, Hijacked
  <2>4. DrainInv'
    BY <2>1 DEF TypeOK, Request, OrderInv, DrainInv, InFlight
  <2>5. GatewayOutlived'
    BY <2>1 DEF TypeOK, Request, OrderInv, GatewayOutlived
  <2> QED
    BY <2>2, <2>3, <2>4, <2>5
<1> QED
  BY <1>1, <1>2

\* The only way to "stopped": with nothing in flight.
LEMMA GrpcStoppedKeeps == ASSUME IInv, GrpcStopped PROVE IInv'
<1> USE RequestAssumption DEF IInv, servers, GrpcStopped
<1>1. TypeOK'
  BY DEF TypeOK, Modes, Request
<1>2. OrderInv'
  BY DEF TypeOK, Modes, Request, OrderInv, Hijacked
<1>3. DrainInv'
  BY DEF TypeOK, Request, OrderInv, DrainInv, InFlight
<1>4. GatewayOutlived'
  BY DEF TypeOK, Request, OrderInv, GatewayOutlived
<1> QED
  BY <1>1, <1>2, <1>3, <1>4

\* The hook is called after the stop.
LEMMA CallHookKeeps == ASSUME IInv, CallHook PROVE IInv'
<1> USE RequestAssumption DEF IInv, servers, CallHook
<1>1. TypeOK'
  BY DEF TypeOK, Modes, Request
<1>2. OrderInv'
  BY DEF TypeOK, Modes, Request, OrderInv, Hijacked
<1>3. DrainInv'
  BY DEF TypeOK, Request, OrderInv, DrainInv, InFlight
<1>4. GatewayOutlived'
  BY DEF TypeOK, Request, OrderInv, GatewayOutlived
<1> QED
  BY <1>1, <1>2, <1>3, <1>4

\* Run waits for the goroutine, or for the timeout.
LEMMA ReturnStoppedKeeps == ASSUME IInv, ReturnStopped PROVE IInv'
<1> USE RequestAssumption DEF IInv, servers, ReturnStopped
<1>1. TypeOK'
  BY DEF TypeOK, Modes, Request
<1>2. OrderInv'
  BY DEF TypeOK, Modes, Request, OrderInv, Hijacked
<1>3. DrainInv'
  BY DEF TypeOK, Request, OrderInv, DrainInv, InFlight
<1>4. GatewayOutlived'
  BY DEF TypeOK, Request, OrderInv, GatewayOutlived
<1> QED
  BY <1>1, <1>2, <1>3, <1>4

\* A server that stops takes no RPC.
LEMMA AcceptRpcKeeps == ASSUME IInv, NEW q \in Rpc, AcceptRpc(q) PROVE IInv'
<1> USE RequestAssumption DEF IInv, servers, AcceptRpc
<1>1. TypeOK'
  BY DEF TypeOK, Modes, Request
<1>2. OrderInv'
  BY DEF TypeOK, Modes, Request, OrderInv, Hijacked
<1>3. DrainInv'
  BY DEF TypeOK, Request, OrderInv, DrainInv, InFlight
<1>4. GatewayOutlived'
  BY DEF TypeOK, Request, OrderInv, GatewayOutlived
<1> QED
  BY <1>1, <1>2, <1>3, <1>4

\* An HTTP server that is shut down accepts nothing.
LEMMA AcceptGatewayKeeps == ASSUME IInv, NEW q \in Gateway, AcceptGateway(q) PROVE IInv'
<1> USE RequestAssumption DEF IInv, servers, AcceptGateway
<1>1. TypeOK'
  BY DEF TypeOK, Modes, Request
<1>2. OrderInv'
  BY DEF TypeOK, Modes, Request, OrderInv, Hijacked
<1>3. DrainInv'
  BY DEF TypeOK, Request, OrderInv, DrainInv, InFlight
<1>4. GatewayOutlived'
  BY DEF TypeOK, Request, OrderInv, GatewayOutlived
<1> QED
  BY <1>1, <1>2, <1>3, <1>4

\* A gateway request is in flight at a server that serves only, and is
\* refused in time only by one that shares its address.
LEMMA CallBackendKeeps == ASSUME IInv, NEW q \in Gateway, CallBackend(q) PROVE IInv'
<1> USE RequestAssumption DEF IInv, servers, CallBackend, Backend
<1>1. TypeOK'
  BY DEF TypeOK, Modes, Request
<1>2. OrderInv'
  BY DEF TypeOK, Modes, Request, OrderInv, Hijacked
<1>3. DrainInv'
  <2>1. q \notin Rpc /\ \A p \in Rpc : req'[p] = req[p]
    BY DEF TypeOK, Request
  <2>2. grpc = "stopped" => InFlight' = InFlight
    <3>0. grpc = "stopped" => Backend = {"refused"}
      OBVIOUS
    <3>1. grpc = "stopped" => req'[q] = "refused" /\ req[q] = "running"
      BY <3>0 DEF TypeOK, Request
    <3>2. \A p \in Gateway \ {q} : req'[p] = req[p]
      BY DEF TypeOK, Request
    <3> QED
      BY <2>1, <3>1, <3>2 DEF InFlight
  <2> QED
    BY <2>1, <2>2 DEF DrainInv
<1>4. GatewayOutlived'
  BY DEF TypeOK, Request, OrderInv, GatewayOutlived, Hijacked
<1> QED
  BY <1>1, <1>2, <1>3, <1>4

\* Requests that end disturb nothing.
LEMMA AnswerKeeps == ASSUME IInv, NEW q \in Request, Answer(q) PROVE IInv'
<1> USE RequestAssumption DEF IInv, servers, Answer
<1>1. TypeOK'
  BY DEF TypeOK, Modes, Request
<1>2. OrderInv'
  BY DEF TypeOK, Modes, Request, OrderInv, Hijacked
<1>3. DrainInv'
  BY DEF TypeOK, Request, OrderInv, DrainInv, InFlight
<1>4. GatewayOutlived'
  BY DEF TypeOK, Request, OrderInv, GatewayOutlived
<1> QED
  BY <1>1, <1>2, <1>3, <1>4


--------------------------------------------------------------------------
(* The theorems.                                                           *)

(* What is stopped, what is still accepted and what is in flight go        *)
(* together through every step of the servers, the requests and Run.       *)
LEMMA Inductive == Spec => []IInv
<1>1. Init => IInv
  <2> SUFFICES ASSUME Init PROVE IInv
    OBVIOUS
  <2>1. mode \in Modes
    BY DEF Init, ModeOf, Modes
  <2>2. run = "select" \/ (run = "error" /\ mode = "two")
    BY DEF Init, Rejects
  <2>3. /\ stopper = "none" /\ failed = {} /\ req = [q \in Request |-> "new"]
        /\ signalled = FALSE /\ timedOut = FALSE /\ hook = FALSE
    BY DEF Init
  <2>4. /\ grpc \in {"starting", "serving", "ended"}
        /\ http \in {"starting", "closed", "ended"}
        /\ mode = "grpc" => http = "closed"
    BY <2>2 DEF Init
  <2>5. TypeOK
    BY <2>1, <2>2, <2>3, <2>4 DEF TypeOK
  <2>6. OrderInv
    BY <2>2, <2>3, <2>4 DEF OrderInv, Request
  <2>7. DrainInv /\ GatewayOutlived
    BY <2>2, <2>3, <2>4 DEF DrainInv, InFlight, GatewayOutlived, Request
  <2> QED
    BY <2>5, <2>6, <2>7 DEF IInv
<1>2. IInv /\ [Next]_vars => IInv'
  <2>1. IInv /\ UNCHANGED vars => IInv'
    BY DEF vars, IInv, TypeOK, OrderInv, DrainInv, InFlight, GatewayOutlived, Hijacked
  <2> QED
    BY <2>1, GrpcServesKeeps, GrpcFailsKeeps, HttpServesKeeps, HttpFailsKeeps,
       HttpPanicsKeeps, InterruptKeeps, ReturnErrorKeeps, TakeSignalKeeps,
       HttpStoppedKeeps, GrpcStoppedKeeps, CallHookKeeps, ReturnStoppedKeeps,
       AcceptRpcKeeps, AcceptGatewayKeeps, CallBackendKeeps, AnswerKeeps
       DEF Next, StopStep
<1> QED
  BY <1>1, <1>2, PTL DEF Spec

(* Every variable keeps its type, in whatever mode Run was started.        *)
THEOREM TypeCorrect == Spec => []TypeOK
<1>1. IInv => TypeOK
  BY DEF IInv
<1> QED
  BY <1>1, Inductive, PTL

(* The shutdown function never runs while an RPC is in flight, in every    *)
(* mode, after whatever timed out and with any number of requests.         *)
THEOREM HookRunsDrained == Spec => []HookAfterDrain
<1>1. IInv => HookAfterDrain
  BY DEF IInv, DrainInv, HookAfterDrain
<1> QED
  BY <1>1, Inductive, PTL

(* With two addresses the stop refuses no gateway request in time.         *)
THEOREM GatewayFirst == Spec => []GatewayOutlived
<1>1. IInv => GatewayOutlived
  BY DEF IInv
<1> QED
  BY <1>1, Inductive, PTL

(* When Run returns nil in time the shutdown function was called, and no   *)
(* request is in flight but those of hijacked connections, without a call. *)
THEOREM NilIsGraceful == Spec => []OkMeansGraceful
<1>1. IInv => OkMeansGraceful
  BY DEF IInv, OrderInv, DrainInv, OkMeansGraceful, Hijacked
<1> QED
  BY <1>1, Inductive, PTL
==========================================================================
