--------------------------- MODULE MicroService ---------------------------
(***************************************************************************)
(* micro/micro.go: Run, from the start of the servers to the graceful stop *)
(* and the shutdown function.                                              *)
(*                                                                         *)
(* Run starts a gRPC server, or that and an HTTP gateway on two addresses, *)
(* or both on one address, each in a goroutine, and waits for an error or  *)
(* an interrupt.  Requests come and go meanwhile: RPCs, and gateway        *)
(* requests, whose handlers call the gRPC server in turn.  The servers     *)
(* themselves are external: GracefulStop and Shutdown refuse what is new   *)
(* and wait for what is in flight, Shutdown no longer than its context.    *)
(* But on one address Shutdown knows nothing of the connections the        *)
(* handler hijacked for HTTP/2, and GracefulStop panics when it finds an   *)
(* RPC in flight: the transport of ServeHTTP cannot be drained.            *)
(***************************************************************************)
EXTENDS Naturals, FiniteSets, SequencesExt

CONSTANTS Rpc,      \* RPCs clients may make
          Gateway,  \* HTTP requests clients may make to the gateway
          Endless,  \* the RPCs that do not end by themselves (open streams)
          H2c,      \* the gateway requests made over HTTP/2 without TLS
          MaxOptions  \* the options NewService is given at most

ASSUME RequestAssumption ==
         Rpc \cap Gateway = {} /\ Endless \subseteq Rpc /\ H2c \subseteq Gateway
ASSUME OptionsAssumption == MaxOptions \in Nat

VARIABLES
  mode,      \* which servers the options ask for
  run,       \* where Run is; "ok" and "error" once it returned, "panic"
             \* when it panicked and the process died
  stopper,   \* the goroutine of stopGRPCServer
  grpc,      \* the gRPC server
  http,      \* the HTTP server
  failed,    \* the servers whose goroutine has its error in a channel
  signalled, \* an interrupt is waiting in sigChan
  timedOut,  \* the shutdown timeout passed before a server had stopped
  hook,      \* shutdownFunc was called
  req        \* the requests

servers == <<grpc, http, failed>>
vars == <<mode, run, stopper, grpc, http, failed, signalled, timedOut, hook,
          req>>

Request == Rpc \cup Gateway
Modes == {"grpc", "two", "one"}

TypeOK ==
  /\ mode \in Modes
  /\ run \in {"select", "await", "http", "grpc", "hook", "ok", "error", "panic"}
  /\ stopper \in {"none", "grpc", "hook", "done"}
  /\ grpc \in {"starting", "serving", "draining", "stopped", "ended"}
  /\ http \in {"starting", "serving", "closed", "ended"}
  /\ failed \in SUBSET {"grpc", "http"}
  /\ {signalled, timedOut, hook} \subseteq BOOLEAN
  /\ req \in [Request -> {"new", "running", "calling", "done", "refused",
                          "unavailable", "dropped"}]

\* Two addresses, and the empty one, which the options may leave or set.
Address == {"", "here", "there"}

\* The fields of a Service that decide which servers Run starts.
Service == [share : BOOLEAN, gateway : BOOLEAN, http : Address]

defaultService == [share |-> FALSE, gateway |-> FALSE, http |-> ""]

\* WithGRPCHTTPAddress, the options that set a flag of Service, and any of
\* those that set up the servers, their handlers and the functions Run calls.
Option == Address \cup {"WithEnableGRPCShareAddress", "WithEnableHTTPGateway",
                       "another"}

Apply(service, option) ==
  CASE option \in Address -> [service EXCEPT !.http = option]
    [] option = "WithEnableGRPCShareAddress" -> [service EXCEPT !.share = TRUE]
    [] option = "WithEnableHTTPGateway" -> [service EXCEPT !.gateway = TRUE]
    [] OTHER -> service

\* What NewService, called with the gRPC address, makes of the service its
\* options configured, and Run of that.  A gateway address overrides the
\* sharing that was asked for.
ModeOf(address, service) ==
  LET shared == IF service.http = "" THEN service.share
                ELSE service.http = address
  IN  CASE shared -> "one"
        [] ~shared /\ (service.gateway \/ service.http # "") -> "two"
        [] OTHER -> "grpc"

\* Run starts no two servers on addresses that are both empty.
Rejects(address, service) ==
  ModeOf(address, service) = "two" /\ service.http = address

\* With one address the HTTP server carries the RPCs, and the gRPC server
\* listens on nothing; without a gateway there is no HTTP server.
Init ==
  /\ \E address \in Address, options \in BoundedSeq(Option, MaxOptions) :
       LET service == FoldLeft(Apply, defaultService, options)
       IN  /\ mode = ModeOf(address, service)
           /\ run = IF Rejects(address, service) THEN "error" ELSE "select"
  /\ stopper = "none"
  /\ grpc = CASE run = "error" -> "ended"
               [] run # "error" /\ mode = "one" -> "serving"
               [] OTHER -> "starting"
  /\ http = CASE run = "error" -> "ended"
               [] run # "error" /\ mode = "grpc" -> "closed"
               [] OTHER -> "starting"
  /\ failed = {}
  /\ signalled = FALSE
  /\ timedOut = FALSE
  /\ hook = FALSE
  /\ req = [q \in Request |-> "new"]

--------------------------------------------------------------------------
(* The server goroutines.                                                  *)

GrpcServes ==
  /\ grpc = "starting"
  /\ grpc' = "serving"
  /\ UNCHANGED <<mode, run, stopper, http, failed, signalled, timedOut, hook,
                 req>>

\* Listen or Serve returns an error, which goes to the error channel.
GrpcFails ==
  /\ mode # "one"
  /\ grpc \in {"starting", "serving"}
  /\ grpc' = "ended"
  /\ failed' = failed \cup {"grpc"}
  /\ UNCHANGED <<mode, run, stopper, http, signalled, timedOut, hook, req>>

\* The endpoints and the routes are registered, and the server listens.
HttpServes ==
  /\ http = "starting"
  /\ http' = "serving"
  /\ UNCHANGED <<mode, run, stopper, grpc, failed, signalled, timedOut, hook,
                 req>>

\* The registration of an endpoint or a route, Listen or Serve fails, as does
\* the start of both servers on one empty address, which is kept as a mere
\* possibility here: addresses are not told apart from Init on.
HttpFails ==
  /\ http \in {"starting", "serving"}
  /\ http' = "ended"
  /\ failed' = failed \cup {"http"}
  /\ UNCHANGED <<mode, run, stopper, grpc, signalled, timedOut, hook, req>>

\* An endpoint or a handler constructor panics: a recovery function that
\* recovers ends the goroutine with nothing sent to the channel.
HttpPanics ==
  /\ http = "starting"
  /\ http' = "ended"
  /\ UNCHANGED <<mode, run, stopper, grpc, failed, signalled, timedOut, hook,
                 req>>

--------------------------------------------------------------------------
(* Requests.                                                               *)

\* RPCs the gRPC server is busy with: those of clients and of the gateway.
InFlight == {q \in Rpc : req[q] = "running"} \cup
            {q \in Gateway : req[q] = "calling"}

\* With one address the RPCs arrive over the HTTP server, whose handler hands
\* them to the gRPC server, and connections it has accepted stay open.
AcceptRpc(q) ==
  /\ req[q] = "new"
  /\ grpc = "serving"
  /\ mode = "one" => http \notin {"starting", "ended"}
  /\ req' = [req EXCEPT ![q] = "running"]
  /\ UNCHANGED <<mode, run, stopper, servers, signalled, timedOut, hook>>

\* The gateway requests whose connection the handler of one address hijacked.
Hijacked == IF mode = "one" THEN H2c ELSE {}

\* The HTTP server's handler passes what is no RPC to the gateway's mux.
AcceptGateway(q) ==
  /\ req[q] = "new"
  /\ http = "serving" \/ (http = "closed" /\ q \in Hijacked)
  /\ req' = [req EXCEPT ![q] = "running"]
  /\ UNCHANGED <<mode, run, stopper, servers, signalled, timedOut, hook>>

\* The call of a gateway handler is taken, refused by a server that stops
\* (with one address also because the listener is closed), or finds none.
Backend ==
  CASE grpc \in {"draining", "stopped"} -> {"refused"}
    [] grpc \in {"starting", "ended"} -> {"unavailable"}
    [] grpc = "serving" /\ mode = "one" /\ http # "serving"
         -> {"calling", "refused"}
    [] OTHER -> {"calling"}

CallBackend(q) ==
  /\ req[q] = "running"
  /\ \E state \in Backend : req' = [req EXCEPT ![q] = state]
  /\ UNCHANGED <<mode, run, stopper, servers, signalled, timedOut, hook>>

\* A request is answered, with an error by the interceptor if its handler
\* returned one or panicked; that of a custom route needs no RPC.
Answer(q) ==
  /\ req[q] \in {"running", "calling"}
  /\ q \notin Endless
  /\ req' = [req EXCEPT ![q] = "done"]
  /\ UNCHANGED <<mode, run, stopper, servers, signalled, timedOut, hook>>

--------------------------------------------------------------------------
(* Run and the stop.                                                       *)

Interrupt ==
  /\ ~signalled
  /\ signalled' = TRUE
  /\ UNCHANGED <<mode, run, stopper, servers, timedOut, hook, req>>

\* A server failed: Run returns, and stops nothing.
ReturnError ==
  /\ run = "select"
  /\ failed # {}
  /\ \E s \in failed : failed' = failed \ {s}
  /\ run' = "error"
  /\ UNCHANGED <<mode, stopper, grpc, http, signalled, timedOut, hook, req>>

\* GracefulStop is called: from here on the server takes no RPC.
GracefulStop == grpc' = IF grpc = "stopped" THEN grpc ELSE "draining"

\* Shutdown is called: connections of a server that served are left as long as
\* they have requests, and one that has not served yet never will.
Shutdown == http' = IF http = "serving" THEN "closed" ELSE "ended"

\* Defect: the HTTP server is drained as the gRPC server is.
TakeSignalAndDrain ==
  /\ run = "select"
  /\ signalled
  /\ signalled' = FALSE
  /\ IF mode = "grpc"
     THEN run' = "await" /\ stopper' = "grpc" /\ GracefulStop /\ UNCHANGED http
     ELSE run' = "http" /\ http' = "draining" /\ UNCHANGED <<stopper, grpc>>
  /\ UNCHANGED <<mode, failed, timedOut, hook, req>>

\* Defect: the gRPC server is stopped before the gateway that needs it.
StopGrpcFirst ==
  /\ run = "select"
  /\ signalled
  /\ signalled' = FALSE
  /\ GracefulStop
  /\ IF mode = "grpc"
     THEN run' = "await" /\ stopper' = "grpc" /\ UNCHANGED http
     ELSE run' = "http" /\ Shutdown /\ UNCHANGED stopper
  /\ UNCHANGED <<mode, failed, timedOut, hook, req>>

\* The gRPC server alone is stopped by a goroutine that Run waits for; with
\* a gateway the HTTP server is shut down first.
TakeSignal ==
  /\ run = "select"
  /\ signalled
  /\ signalled' = FALSE
  /\ IF mode = "grpc"
     THEN run' = "await" /\ stopper' = "grpc" /\ GracefulStop /\ UNCHANGED http
     ELSE run' = "http" /\ Shutdown /\ UNCHANGED <<stopper, grpc>>
  /\ UNCHANGED <<mode, failed, timedOut, hook, req>>

\* GracefulStop panics in Run, nobody recovers, and the process dies.
Die ==
  /\ run' = "panic"
  /\ grpc' = "ended"
  /\ http' = "ended"
  /\ req' = [q \in Request |->
              IF req[q] \in {"running", "calling"} THEN "dropped" ELSE req[q]]

\* httpServerShutdown returns when the server has stopped, or at the timeout,
\* and GracefulStop is called.
HttpStopped ==
  /\ run = "http"
  /\ \/ /\ \A q \in Gateway \ Hijacked : req[q] \notin {"running", "calling"}
        /\ UNCHANGED timedOut
     \/ timedOut' = TRUE
  /\ IF mode = "one" /\ InFlight # {}
     THEN Die
     ELSE run' = "grpc" /\ GracefulStop /\ UNCHANGED <<http, req>>
  /\ UNCHANGED <<mode, stopper, failed, signalled, hook>>

\* Defect: the server stops at once, as Stop does.
GrpcStoppedAtOnce ==
  /\ grpc = "draining"
  /\ grpc' = "stopped"
  /\ run' = IF run = "grpc" THEN "hook" ELSE run
  /\ stopper' = IF stopper = "grpc" THEN "hook" ELSE stopper
  /\ UNCHANGED <<mode, http, failed, signalled, timedOut, hook, req>>

\* GracefulStop returns, to Run or to the goroutine of stopGRPCServer.
GrpcStopped ==
  /\ grpc = "draining"
  /\ InFlight = {}
  /\ grpc' = "stopped"
  /\ run' = IF run = "grpc" THEN "hook" ELSE run
  /\ stopper' = IF stopper = "grpc" THEN "hook" ELSE stopper
  /\ UNCHANGED <<mode, http, failed, signalled, timedOut, hook, req>>

CallHook ==
  /\ \/ run = "hook" /\ run' = "ok" /\ UNCHANGED stopper
     \/ stopper = "hook" /\ stopper' = "done" /\ UNCHANGED run
  /\ hook' = TRUE
  /\ UNCHANGED <<mode, servers, signalled, timedOut, req>>

\* Defect: Run does not wait for the goroutine.
ReturnAtOnce ==
  /\ run = "await"
  /\ run' = "ok"
  /\ UNCHANGED <<mode, stopper, servers, signalled, timedOut, hook, req>>

\* Defect: Run waits for the goroutine, however long it takes.
ReturnWhenDone ==
  /\ run = "await"
  /\ stopper = "done"
  /\ run' = "ok"
  /\ UNCHANGED <<mode, stopper, servers, signalled, timedOut, hook, req>>

\* stopGRPCServer returns when the goroutine is done, or at the timeout.
ReturnStopped ==
  /\ run = "await"
  /\ \/ stopper = "done" /\ UNCHANGED timedOut
     \/ timedOut' = TRUE
  /\ run' = "ok"
  /\ UNCHANGED <<mode, stopper, servers, signalled, hook, req>>

StopStep == \/ TakeSignal \/ HttpStopped \/ GrpcStopped \/ CallHook
            \/ ReturnStopped \/ ReturnError

Next == \/ GrpcServes \/ GrpcFails \/ HttpServes \/ HttpFails \/ HttpPanics
        \/ Interrupt \/ StopStep
        \/ \E q \in Rpc : AcceptRpc(q)
        \/ \E q \in Gateway : AcceptGateway(q) \/ CallBackend(q)
        \/ \E q \in Request : Answer(q)

Spec == Init /\ [][Next]_vars

\* The process gets on with the stop, timeouts pass, and requests that can
\* end do.  Nobody has to send a signal or to end a stream.
FairSpec == /\ Spec
            /\ WF_vars(StopStep)
            /\ \A q \in Request : WF_vars(Answer(q))

--------------------------------------------------------------------------
(* Properties                                                              *)

(* shutdownFunc, which frees what handlers use, is called when no RPC is   *)
(* in flight, in every mode and whatever timed out before (lines 307 to    *)
(* 318, 365 to 377 and 470 to 481).                                        *)
HookAfterDrain == hook => InFlight = {}

(* With two addresses, a gateway request in flight is not refused by the   *)
(* gRPC server that is stopping, unless the HTTP shutdown timed out: the   *)
(* gateway is stopped first (lines 311 to 315).                            *)
GatewayOutlived ==
  mode = "two" => \A q \in Gateway : req[q] = "refused" => timedOut

(* When Run returns nil in time, shutdownFunc was called, and no request   *)
(* is in flight: the program may exit.  Excepted are, on one address, the  *)
(* gateway requests of hijacked connections, which Shutdown does not wait  *)
(* for; they too have no call in flight.                                   *)
OkMeansGraceful ==
  (run = "ok" /\ ~timedOut) =>
    /\ hook
    /\ InFlight = {}
    /\ \A q \in Gateway \ Hijacked : req[q] # "running"

(* An interrupt ends Run: without a gateway even with a stream open for    *)
(* ever, with two addresses if no such stream is open; and with one        *)
(* address, where an RPC in flight ends it with a panic.                   *)
InterruptEndsRun ==
  (signalled /\ run = "select")
    ~> \/ run \in {"ok", "error"}
       \/ mode = "one" /\ run = "panic"
       \/ mode = "two" /\ \E q \in Endless : req[q] = "running"

(* micro/option.go:44: the shutdown timeout is the time before the server  *)
(* shuts down abruptly, so that an interrupt ends Run in every mode, by a  *)
(* panic if need be.                                                       *)
TimeoutBoundsStop ==
  (signalled /\ run = "select") ~> run \in {"ok", "error", "panic"}

--------------------------------------------------------------------------
(* The inductive invariant behind the safety properties.                   *)

\* The gRPC server is told to stop when the gateway does not accept requests
\* any more, and in time has none left.
OrderInv ==
  /\ grpc \in {"draining", "stopped"} <=> run \in {"await", "grpc", "hook", "ok"}
  /\ run \notin {"select", "error"} => http \in {"closed", "ended"}
  /\ mode = "grpc" => http = "closed" /\ \A q \in Gateway : req[q] = "new"
  /\ (grpc \in {"draining", "stopped"} /\ ~timedOut)
       => \A q \in Gateway \ Hijacked : req[q] \notin {"running", "calling"}

\* Once the gRPC server has stopped nothing is in flight, and what follows
\* the stop comes after it.
DrainInv ==
  /\ \A q \in Rpc : req[q] \in {"new", "running", "done", "dropped"}
  /\ grpc = "stopped" => InFlight = {}
  /\ (run = "hook" \/ stopper \in {"hook", "done"} \/ hook) => grpc = "stopped"
  /\ (stopper = "done" \/ (run = "ok" /\ ~timedOut)) => hook

IInv == TypeOK /\ OrderInv /\ DrainInv /\ GatewayOutlived
==========================================================================
