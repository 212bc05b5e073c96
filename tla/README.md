# A TLA+ model of hephfx

hephfx is a microservice framework for gRPC, in Go with a Rust port of its
service registry.  This directory holds TLA+ modules that model its stateful
parts, TLC configurations that check them on small instances, and TLAPS proofs
for every size.  The definitions are translated from the code; `PROJECT.json`
maps each of them to the lines it stands for.  Paths below are relative to the
root of the sources.

## 1. Inventory

| component | state it keeps | operations | made correct by |
|---|---|---|---|
| etcd registry, `hestia/etcd/registry.go` | per object: the context and cancel function of *one* keepalive goroutine; per instance: `Healthy`, metadata. In etcd: a key per instance, attached to a lease | `Register` (grant, put, keepalive), `Deregister` (delete, cancel), the keepalive goroutine | at most one renewal, always cancellable; nothing renewed that nobody serves; what nobody serves leaves etcd |
| etcd discovery, `hestia/etcd/discovery.go` | the cache `serviceList` (a map keyed by name, under an `RWMutex`), one goroutine per watch | `GetServices`, `Get`, `watch`, `watchWithCallback` | a cached list is watched until a watch closes, and becomes what etcd holds; versions kept apart; goroutines bounded |
| etcd resolver, `hestia/etcd/resolver.go` | what the gRPC balancer was last told | `Build` (snapshot, then watch or poll), `Close` | the balancer is told of every change |
| Consul registry, `hestia/consul/registry.go` | as for etcd; in the agent: a service and a TTL check per instance | `Register`, `Deregister` (two requests), heartbeats, the agent's TTL and `deregisterAfter` timers | one heartbeat goroutine; no heartbeat for what was deregistered; orphans leave the agent |
| Consul discovery and resolver, `hestia/consul/` | a cache refreshed by polling | as for etcd | as for etcd, by polling |
| selection strategies, `hestia/service_entity.go` | one global round-robin counter | `RoundRobin`, `Random` | fair turns, an index in range at the wrap-around |
| micro service, `micro/` | servers, listeners, the error and signal channels, the options | `NewService`, `Run` in three modes, `stopGRPCServer`, `httpServerShutdown`, the stop of the other two modes, the interceptors | graceful stop: the gateway before its backend, the hook after the drain; an interrupt ends `Run` |
| gRPC client registry, `micro/gclient/` | a table of connections by target, under a mutex | `RegisterGRPCConnections`, `Close`, `CloseGRPCConnections`, `InitGRPCClient` | no open connection it took is forgotten |
| bridge, `micro/bridge/` | the services of an HTTP bridge, with their connections | `NewClient`, `Close`, `Invoke` with its metadata merge | `Close` leaves no service open |
| settings, `settings/` | the viper values and the structs bound to sections | `Load`, `ReadSection`, the reload callback | after a reload that went through the structs of the sections it has are those of the file |
| logger, `logger/` | zap cores, Sentry cores whose fields share arrays, a hub with a stack of scopes | `With`, `Write`, `Sync` | a logger keeps its fields, and its events carry them |
| Rust registries, `rs-hestia/src/*/registry.rs` | the handle of one keepalive task, behind a mutex | `register`, `deregister`, at once for several instances; futures may be dropped at an await | no task that the handle does not know; nothing stays listed that nobody serves |
| Rust discoveries and resolvers, `rs-hestia/src/*/discovery.rs`, `resolver.rs` | a cache behind an `RwLock`, watch tasks; per channel the set of known endpoints | `get_services`, watches, `build`, `apply_services` in spawned tasks | as in Go; no endpoint that could not be removed |
| monitor, gutils, ctxkeys, examples, generated code | none | | |

**How they interact.**  A program calls `Register` before it serves and
`Deregister` when it stops, usually from the shutdown function that
`micro.Run` calls last.  Clients call `GetServices`, or dial a
`etcd://` or `consul://` target, whose resolver calls the discovery.  Registry
and discovery share no memory: they meet in etcd or the Consul agent.  The
gateway of `micro` calls the gRPC server of the same process.  The logger,
settings and monitor are called by everyone and call nobody back, except that
settings reloads from a file-watch goroutine.

**What is hard.**  Every remote call may fail, or time out and be carried out
later; processes die between two calls; keepalive and watch goroutines run
beside the calls and are told to end without being waited for; caches are
filled from a read that is already old; several goroutines write one cache
entry; the stop of a program races with requests, with failing servers and
with timeouts.  `PROJECT.json` lists these hazards by line, each with the
properties that cover it, and with a note where a property names the outcome as its
exception; section 4 collects both these and the hazards no property covers.

## 2. Modules and runs

| module | role |
|---|---|
| `InstanceListing` | abstract: the life of a listed instance, as a reader of etcd sees it |
| `EtcdRegistry`, `MCEtcdRegistry` | the etcd registry, refines `InstanceListing` |
| `EtcdRegistryProofs` | TLAPS: safety and refinement |
| `EtcdDiscovery`, `MCEtcdDiscovery` | the etcd discovery, its cache and its watchers |
| `EtcdResolverProofs` | TLAPS: the etcd discovery and its resolver |
| `ConsulRegistry`, `MCConsulRegistry` | the Consul registry and the agent's timers |
| `ConsulRegistryProofs` | TLAPS: safety, and the action property |
| `ConsulDiscovery` | the Consul discovery, its cache and its polling goroutines |
| `ConsulResolver`, `MCConsulResolver` | the gRPC resolver, composed with `ConsulDiscovery` |
| `ConsulResolverProofs` | TLAPS: the Consul discovery and its resolver |
| `MicroService` | the options, `Run`: servers, requests, stop |
| `MicroServiceProofs` | TLAPS: the graceful stop |
| `EtcdResolver` | the gRPC resolver, composed with `EtcdDiscovery` |
| `RustDiscovery` | the Rust discoveries, etcd and Consul |
| `RustResolver`, `MCRustResolver` | the Rust resolvers, composed with `RustDiscovery` |
| `RustResolverProofs` | TLAPS: the Rust discoveries and resolvers |
| `RustEtcdRegistry` | the Rust etcd registry, refines `InstanceListing` |
| `RustConsulRegistry` | the Rust Consul registry and the agent's timers |
| `GrpcConnections` | the tables of gRPC connections of `gclient` and `bridge` |
| `Settings` | configuration sections and their reload |
| `SentryCore` | the Sentry core of the logger |
| `SideBySide`, `MCSideBySide` | the independent parts in one run |
| `RustRegistriesProofs` | TLAPS: the Rust registries, as parts of `SideBySide` |
| `SideBySideProofs` | TLAPS: the other parts, and their composition |

The `MC*` modules give values to the constants that are functions; every other
constant gets its value in the `.cfg`.  Operators whose comment begins with
"Defect:" are not part of any specification.  Each is a variant of the action
after it, with a mistake one could make there; checked in the place of that
action, it violates the property that `PROJECT.json` (`mutants`) names for it.

### 2.1 EtcdRegistry

State: `kv` and `lease` are etcd (a key per instance and the lease it is
attached to; the state of every lease); `pending` holds requests whose caller
gave up on them; `renewer[l]` is the registry whose goroutine renews `l`;
`cancel[r]` is `keepaliveCancel`, identified by the lease it stops;
`healthy[r]` the instances whose struct says `Healthy`; `pc`, `arg`, `held`
where a call is.

| code | actions |
|---|---|
| `Register`: sets `Healthy`, resolves the address | `BeginRegister` |
| `cli.Grant` | `GrantLease`, `GrantFails` |
| `cli.Put` with its timeout | `Put`, `PutFails` |
| cancel the previous keepalive, `KeepAlive`, start the goroutine | `StartKeepalive`, `KeepaliveFails` |
| `Deregister` | `BeginDeregister`, `Delete`, `DeleteFails` |
| the goroutine finds its channel closed | `KeepaliveLost` |
| environment | `Crash`, `Expire`, `ArrivesLate` |

Every remote call is a step of its own, so that crashes, expiry and the
other registry come in between.  An address that cannot be resolved or a
JSON error ends the call as `GrantFails` does.  A `Grant` whose answer is lost
leaves a lease nobody uses, which is left out.  `Expire` needs a lease that
nobody renews: a goroutine whose heartbeats fail is first `KeepaliveLost`.

Assumed: the calls of one registry are sequential.  The code writes
`keepaliveCtx`, `keepaliveCancel` and `meta` without a lock, so concurrent calls
are a data race (section 4).

Runs:

- `etcd_registry` (`EtcdRegistry.cfg`, 125 thousand states): two registries, two
  instances, two leases; `r1` handles both instances, `r2` only one.  This is
  the least that has a registry with two instances, two processes that
  share an instance, a retried registration, and a put that arrives after its
  delete.  Lease IDs are not granted twice (`Lease` bounds the grants), so two
  leases are two registrations in a behaviour.
  `RenewalIsCancellable`: registering again leaves no renewal that nothing can
  stop.  `RenewedIsHealthy`: a renewed key is that of an instance its registry
  takes for healthy.  `NothingRenewedForNothing`: after the last successful
  `Deregister` a registry renews nothing, although it cancels one renewal only.
  `UnhealthyLeavesStore` (liveness): what no registry takes for healthy leaves
  etcd.  `ImplementsListing`: the refinement of `InstanceListing`, under
  `listing[s]` = absent without a key, lapsing when nobody renews the lease of
  the key, otherwise the registry that does.
- `etcd_shared_registry` (violation): one keepalive per registry.
  `hestia/readme.md:741` says that a lease is renewed automatically once the
  registration succeeded; registering a second instance through the same
  registry ends the renewal of the first.

Fairness: `WF` of `Expire`, because etcd expires leases by itself.  Callers need
not call, requests may be lost, late requests need not arrive.

### 2.2 EtcdDiscovery

State: `enabled` is `WithEnableWatched`; `listed` is etcd; `cache` is
`serviceList`, keyed by name only, as in the code; `call[c]` is a `GetServices`
call and its result; `watch[w]` is a watch goroutine with the number of events
it was sent; `doubt[n]` is a history variable, which records why the cache of
`n` may differ from etcd (it was filled by a call, a reload failed, a watch
closed), and is read by properties only.

| code | actions |
|---|---|
| the cache lookup of `GetServices` | `Lookup` |
| `getServicesByName` | `Fetch`, `FetchFails` |
| `serviceList[name] = ...` under the lock, `go e.watch(...)` | `Fill` |
| `cli.Watch` takes effect | `OpenWatch` |
| an event: read the whole prefix, call back | `Reload`, `ReloadFails`, `Apply` |
| the watch channel closes | `WatchCloses` |
| etcd | `Change` |

An entry is an instance; those that decode and say `Healthy` are `Selectable`.
The events of a watch response are handled one by one, each with a reload, so
events are counted and responses are not.

Runs:

- `etcd_discovery` (147 thousand states): one name, two versions, two
  instances, callers that ask for a version or for none, two concurrent callers,
  at most `MaxWatchers = 3` goroutines and `MaxChanges = 2` changes.  Two
  callers that miss at once start two watchers.  A third watcher is room for the
  mistake of starting another later, which never comes (`CachedIsWatched`).
  Two changes are one during a reload and one after it.
  `QuietCacheIsFresh`: when the watchers of a name have nothing left to do, and
  the cache was refreshed since its last fill, the list is the one etcd holds,
  although several watchers read and overwrite in two steps.  `CachedIsWatched`:
  a cached name has a goroutine whose loop has not ended (`Watching`), unless a
  watch of the name closed since the latest fill or reload; and the goroutines ever started
  for it, the ended ones included (`Started`), are never more than there are callers.
  `EventsReachCache` (liveness): an event that a watcher was sent reaches the
  cache, also that of an empty list.
  A closed watch is an exception of all three, a failed reload of the first and the
  last: the loop ends and is not started again, the reload is not repeated, and the
  list is served unchanged.  No doc promises otherwise, so these have no run of their own.
- `etcd_discovery_version` (violation): `hestia/readme.md:31` promises that
  versions are kept apart; with watching enabled the cache is looked up by name
  and hands a caller of one version the list of another.
- `etcd_discovery_stale` (violation): `hestia/readme.md:266` says that the watch
  refreshes the cache in real time; a change between the read and the opening
  of the watch sends no event, and the cache stays wrong until a later change.

Fairness: `WF` of a watcher's next step.  A reload may fail and a watch may close at
any time, which the properties take into account by `doubt`.

### 2.3 ConsulRegistry

State: `listed` and `check` are the agent; `beat[g]` is a heartbeat goroutine,
running or told to end; `cancel`, `healthy`, `pc`, `arg` are as in 2.1.

| code | actions |
|---|---|
| `Register`, up to the request | `BeginRegister` |
| `ServiceRegister` | `RegisterService`, `RegisterServiceFails` |
| `stopKeepalive`, `go keepalive` | `StartKeepalive` |
| `Deregister`: `stopKeepalive` | `BeginDeregister` |
| `CheckDeregister`, its error only logged | `DeregisterCheck` |
| `ServiceDeregister` | `DeregisterService`, `DeregisterServiceFails` |
| a tick; `ctx.Done` and the final report | `Heartbeat`, `Shutdown` |
| environment | `Crash`, `CheckExpires`, `Reap` |

A request that fails may have been carried out: both outcomes are modelled in
the failing step.  Unlike in etcd, the agent is on the same host, and a request that arrives
after its caller gave up is not modelled.  A goroutine that was told to end
may still beat, because `select` takes either case, and its last report may
be refused.  Added services may keep the state their check had, as the agent
does for a service it has.

Runs:

- `consul_registry` (311 thousand states): two registries, two instances, two
  goroutines at once, which is a new goroutine beside one on its way out.
  `HeartbeatIsCancellable`, `HeartbeatServesHealthy`; `OrphanedByCrashOnly`, an
  action property: only the death of a process, no failing request, leaves an
  instance in the agent that no registry takes for healthy;
  `CheckedOrphanLeaves` (liveness): an orphan with a check leaves the agent.
- `consul_orphan` (violation): `hestia/readme.md:596` says that after an abnormal exit
  the instance is deregistered by way of its TTL.  `Deregister` takes the check
  away first: if the second request fails and the process ends, a service
  without a check stays.

Fairness: `WF` of the steps of a call in progress, of the agent's timers, and of
the end of a cancelled goroutine.  Heartbeats may be lost.

### 2.4 ConsulDiscovery and ConsulResolver

State of the discovery: `enabled`, `listed`, `cache` and `call` as in 2.2, with
`serviceList` a map under a lock; `poller[p]` is a goroutine of `watch`, which
never ends.  State of a resolver: `phase` (in `Build`, in use, closed), `loop` (its
goroutine and the list it is about to pass on), `told` (the list it last gave
`UpdateState`), and `wrapped`, whether the discovery it was built on is another
type than `consulDiscovery`, so that it polls by `GetServices`.

| code | actions |
|---|---|
| `GetServices` | `Lookup`, `Fetch`, `FetchFails`, `Fill` |
| `watchWithCallback` and the callback of `watch` | `Poll`, `Store` |
| Consul | `Change` |
| `Build` | `BeginBuild` (with `Lookup`), `EndBuild` |
| `Close` | `Close` |
| the goroutine, `watch` | `Ask`, `Tell` |
| the goroutine, `poll` | `AskDiscovery` (with `Lookup`), `TellAnswer` |
| `ctx.Done` | `EndLoop` |

`ConsulResolver` extends `ConsulDiscovery`: a resolver is one of its callers, and
the steps of the discovery leave the resolvers alone.  A poll that fails is logged, or
reported to the connection, and changes nothing: it is no step.

Run `consul_resolver` (100 thousand states): a resolver and a plain caller, two
versions, one instance per version of which one is not for gRPC, watching on or
off, wrapped or not, any listing to begin with.  `MaxChanges = 1`: every read
is of the listing as it is, so that one change at any point between two steps
is what matters; a later one only starts over from another listing.
`MaxPollers = 3` is one more than two callers can start.
`CacheSettles`: once
Consul stops changing, the cache holds for good what Consul holds for the version
of one of the goroutines.  This is what polling has over the etcd watch, where
a missed event is missed.  `BalancerSettles`: a connection in use is in the
end told the gRPC instances of its own version, also after `Build` found nothing
(`hestia/readme.md:735`) or was handed the cached list of another version; the
exceptions for a wrapped discovery are part of the property.
`ClosedLoopEnds`: the goroutine of a closed resolver ends.  `ToldItsService`, that
a connection is told of its own service only, although the cache is shared by
all, is proved (section 3) and in no run.

Fairness: `WF` of every goroutine's next step, `SF` of a request that is made again and
again (some succeed) and of `ctx.Done` in a `select` that is entered again and
again, because Go picks among ready cases at random.

### 2.5 MicroService

State: `mode` is which servers `NewService` makes of the options, applied in the
order they are given (`Apply`, `ModeOf`: gRPC alone, two addresses, one address);
with two empty addresses `Run` returns an error at once (`Rejects`).  `run` and `stopper` are where `Run` and the goroutine
of `stopGRPCServer` are; `grpc`, `http` the servers; `failed` the error
channels; `signalled` the signal channel; `req` the requests, RPCs and gateway
requests, whose handlers call the gRPC server.

| code | actions |
|---|---|
| the server goroutines | `GrpcServes`, `GrpcFails`, `HttpServes`, `HttpFails`, `HttpPanics` |
| clients | `AcceptRpc`, `AcceptGateway`, `CallBackend`, `Answer` |
| the `select` of `Run` | `TakeSignal`, `ReturnError`, with `Interrupt` |
| `httpServerShutdown` | `HttpStopped` |
| `GracefulStop` | `GrpcStopped` |
| `shutdownFunc` | `CallHook` |
| the `select` of `stopGRPCServer` | `ReturnStopped` |

grpc-go (1.81 in `go.mod`) and net/http are not in the repository.  `GracefulStop` is
taken to refuse new RPCs and wait for those in flight, and `Shutdown` to wait for its
connections until its context ends.  With one address both are different, because RPCs
reach the gRPC server through `ServeHTTP` over connections that the h2c handler
hijacked: `Shutdown` does not know of them, so that requests on them (`Hijacked`,
those of `H2c` among the gateway's) are neither refused nor waited for; and the transport of
`ServeHTTP` does not implement the draining that `GracefulStop` asks for, and panics.
Nothing in `Run` recovers, so that an RPC in flight then ends the process (`Die`): `run` is
"panic" and what was in progress is "dropped".  Timeouts are steps that may come at any
time.  A panic in a server goroutine is modelled for a recovery function that
recovers; the default one calls `recover` too deep to do so, and
the process then dies, which ends the model.

Runs:

- `micro_service` (10 thousand states): every sequence of `MaxOptions = 3`
  options, which is one of each kind that matters, or two addresses where the
  last one counts; so the three modes and the rejection.  An RPC that ends, a
  stream that does not, two gateway requests.  The two gateway requests are
  one that the shutdown waits for and one that comes late.
  `HookAfterDrain`: the shutdown function, which frees what handlers use, runs
  when no RPC is in flight, whatever timed out before.  `GatewayOutlived`: with
  two addresses no gateway request is refused by its own backend unless the
  HTTP shutdown timed out.  With one address it can be, and the property does
  not claim otherwise: the gateway's connection to its own, already closed
  listener may fail.  `OkMeansGraceful`: when `Run` returns nil in time, the
  hook was called and nothing is in flight, but for gateway requests of hijacked
  connections (`H2c` has one of the two).  `InterruptEndsRun` (liveness): an interrupt ends
  `Run`, except with two addresses while an endless stream is open; with one address
  perhaps by the panic, which the property names.
- `micro_timeout` (violation): `micro/option.go:44` calls the shutdown timeout
  the time before the server shuts down abruptly.  With two addresses `Run` itself
  waits in `GracefulStop`, without a timeout, and an open stream keeps it there.

That both servers can be stopped gracefully (`micro/readme.md:35`) is not so with one address
while an RPC is in flight.  The step that panics is grpc-go's, not code of this repository, so that
it is part of the model (`Die`) and of the properties' exceptions, and not a run.

`CHECK_DEADLOCK FALSE`: `Run` returns, requests are used up and nothing is left
to do.

Fairness: `WF` of the stop's steps, and of the answer to every request but endless
streams.  Nobody has to send a signal.

### 2.6 EtcdResolver

Extends `EtcdDiscovery`: a resolver is one of its callers and, unless the
discovery is wrapped in another type, has a watch of its own at etcd, which runs
the same code as the discovery's watchers but tells the connection instead of
the cache.  State: `phase`, `told` and `wrapped` as in 2.4; `feed` is the goroutine
with the events it was sent and the list it is about to tell; `lag` is a history
variable like `doubt`.

| code | actions |
|---|---|
| `Build` | `BeginBuild` (with `Lookup`), `EndBuild` |
| `Close` | `Close` |
| `watch` with `updateStateWithError` | `OpenFeed`, `ReloadFeed`, `ReloadFeedFails`, `Tell`, `FeedEnds` |
| `poll` | `AskDiscovery` (with `Lookup`), `TellAnswer`, `PollEnds` |
| a context that is done | `Cancelled`, in the guards of requests |

It is checked in `side_by_side` (2.12), with a resolver that may also be a plain
caller before it builds, two versions, and one instance that is not for gRPC:

- `QuietConnectionIsFresh`: no event is lost between the reload of one and the
  next, so that a quiet connection has what etcd holds.  Excepted are a connection
  that was told nothing since its watch opened (`lag` "unwatched": a change between the
  list of `Build` and the watch is missing until the next) and one whose latest
  reload failed.
- `BalancerSettles` (liveness): when etcd stops changing a connection in use
  ends up with the instances of its version, also after `Build` was given the
  cached list of another version.  Its exceptions are what the code leaves
  open: nothing changed since the watch opened, a failed reload, a closed watch;
  and, polling a wrapped discovery, its cache and the empty list.
  `hestia/readme.md:735` says that `Build` succeeds for a missing service, and the
  code fails; the model follows the code (`EndBuild`).
- `ClosedFeedEnds` (liveness): the goroutine of a closed resolver ends, wherever
  `Close` found it.

Fairness: that of 2.2 for the watchers; `WF` of the goroutine's next step
and of its end once the context is done; `SF` of a poll's success and of `ctx.Done`
in its `select`, as in 2.4.

### 2.7 RustDiscovery and RustResolver

The Rust discoveries have one `get_services`; `backend` says which of the two
kinds of watch there is.  With etcd a watch task stores every list in the cache
itself, under the write lock, even if the watch is that of a resolver; with Consul
the callback spawns a task that stores.  `watch[w].jobs` holds the spawned tasks
that have not run, which run in any order.  The history field `late` of a task says
that a later event was handled before it.  `current` is the set of keys a
resolver knows, `endpoints` what its channel was told; `cut` and `lag` are
history variables.

| code | actions |
|---|---|
| `get_services` | `Lookup`, `Fetch`, `FetchFails`, `Fill` |
| etcd `watch_with_callback` | `OpenWatch`, `Reload`, `ReloadFails`, `Apply`, `WatchEnds` |
| Consul `watch_with_callback`, and its tasks | `Poll`, `Store` |
| `build` | `BeginBuild`, `BuildFails`, `EndBuild` |
| a spawned `apply_services` | `Update` |
| the polling task of a wrapped discovery | `Tick`, `Answer` |
| etcd, Consul | `Change` |

`apply_services` is one step, as `current` is locked for all of it and nothing else
sends to the channel.  What was sent before a bad address depends on the order
of the list, so it is any subset.  The two resolvers are the same text, the
channel's bound of 64 changes is left out, and so is a channel that was dropped:
its updates fail, and nobody sees them.  An instance is identified with its address: that
`apply_services` does not send a known `instance_id` again when its address changed
is outside the model.

Run `rust_resolver` (79 thousand states): both backends, wrapped or not,
watching or not, any listing to begin with.  One caller, which calls `get_services` and
builds a channel, so that its own watch and the one of the discovery run together
(`MaxWatchers = 2`); two versions; `i2` has an address that is no URI; two tasks
of a watch at once (`MaxJobs`), the least that can run out of order; two changes.

- `QuietCacheIsFresh`: although watches of several versions overwrite one cache,
  a quiet cache is fresh for one of the open watches.
- `KnownEndpoints`: the channel has what the resolver knows, and nothing it could
  not remove, unless an update was cut short by a bad address.
- `QuietChannelIsFresh`: with etcd, when nothing is left to do, an update ran since the
  watch opened, the last to run was neither overtaken nor cut short, and no reload
  failed after it.  An overtaken one leaves an older list in place until the
  next event: that is what the code does (`rs-hestia/src/etcd/resolver.rs:68`), and the
  property names it as an exception, as it names the other three.
- `CacheSettles`, `ChannelSettles` (liveness): polling puts every such case right,
  also after updates that were cut short, and for a missing service, whose
  endpoints the Rust `poll` removes and the Go one keeps.

Fairness: `WF` of watches, polls and calls; every spawned task runs some day
(`RunsOldest`); `SF` of a request that is made for ever.
`CHECK_DEADLOCK FALSE`: with etcd, once nothing changes and all watches ended,
nothing is left to do.

### 2.8 RustEtcdRegistry

`register` and `deregister` borrow the service mutably: calls on one instance
are sequential, those on several run together.  `handle` is
`keepalive_handle`, `keepalive` the tasks that run.  No call awaits while it holds the lock, so what it does there is one
step.

| code | actions |
|---|---|
| `register` | `BeginRegister`, `GrantLease`, `RegisterService`, `StartKeepalive` |
| `deregister` | `BeginDeregister`, `Delete`, `StopKeepalive` |
| an error, a timeout, or a future dropped at an await | `GiveUp` |
| the task's stream ends | `KeepaliveEnds` |
| environment | `Crash`, `Expire`, `ArrivesLate` |

`TaskIsHandled`: no running task is unknown to the handle.  `RenewedIsHealthy`
and the refinement of `InstanceListing` as for Go, here with concurrent and
dropped calls.  A lease may expire although its task runs, since the task takes no notice
of an answer with a TTL of zero; the key then goes, and the task goes on for nothing.
Fairness: `WF` of `Expire` for a lease that no task renews.  There is one task for a
registry, as in Go, so that what `etcd_shared_registry` shows holds here as well:
`rs-hestia/readme.md:762` promises the renewal after a registration, and a second
instance's registration ends that of the first.

### 2.9 RustConsulRegistry

As 2.8, with the agent of 2.3.  A task is notified and aborted at once: the
request it was sending, or its failing report if it had been scheduled in
between, may arrive later (`MayArrive`, `pending`, bounded by `MaxPending`).  Requests
of calls that were given up may arrive later, too (`GiveUp`, `ArrivesLate`).

| code | actions |
|---|---|
| `register` | `BeginRegister`, `RegisterService`, `StartKeepalive` |
| `deregister` | `BeginDeregister`, `StopKeepalive`, `DeregisterCheck`, `DeregisterService` |
| `keepalive` | `Heartbeat` |
| an error, a timeout, or a future dropped at an await | `GiveUp` |
| environment | `Crash`, `ArrivesLate`, `CheckExpires`, `Reap` |

`TaskIsHandled` also says that a task beats for a healthy instance;
`CheckedOrphanLeaves` (liveness) that late requests do not keep alive what
nobody serves.  Fairness: `WF` of the agent's timers.

### 2.10 GrpcConnections

State: `conn` is every connection that is ever opened; `table` is
`gRPCConnections`; `services` the map of a bridge client and `entries` what
`NewClient` has yet to read of its configuration, from an arbitrary one of at most
`MaxEntries`; `tracked` records which connections the table took.  A connection
that was handed to `RegisterGRPCConnections` and is not in the table yet is in
`handed`: `InitGRPCClient` opens and registers in two steps.

| code | actions |
|---|---|
| `InitGRPCClient`, `RegisterGRPCConnections` | `NewConn`, `Hand`, `RegisterGRPCConnections` |
| `Close(target)`, `CloseGRPCConnections` | `CloseTarget`, `CloseGRPCConnections` |
| a caller closes a connection itself | `CloseDirectly` |
| bridge `NewClient` | `EntryFails`, `NewService`, `NewClientReturns` |
| bridge `Close` | `CloseClient` |

`OpenConnectionsAreKnown` lists what is forgotten: a second connection for a
target, services replaced by others of their name, and those of a `NewClient`
that failed.  All others are closed by `CloseGRPCConnections` and bridge `Close`.

### 2.11 Settings and SentryCore

`Settings`: `file` is the file, of which a write may be seen half done (`whole`),
without some sections (`gone`) or with some that do not decode (`bad`); `loaded` is
what viper last read; `reload` the sections its goroutine has yet to decode;
`sections` and `value` the registered structs and the version they were decoded
from; `read` the `ReadSection` calls.  What a decode leaves is `Decoded`: nothing changes
and nothing fails for a section the file does not have, so that one which was removed
keeps its old values; after an error some fields are new and some are old (`None`).  viper reads the file before it calls back, and notices writes from
`WatchConfig` on.

| code | actions |
|---|---|
| `Load`, `watch` | `Init`, `WatchConfig`, `OnConfigChange` |
| `ReadSection` | `BeginReadSection`, `Decode`, `Register` |
| `reload` | `ReloadSection`, `ReloadReturns` |
| viper's goroutine, the file | `HandleEvent`, `WriteFile` |
| the map of sections, used without a lock | `MapRace` |

`QuietSectionsAreFresh`: when viper has noticed every write and the latest reload went
through, a registered struct is what the file says, except for a section that is gone
from it and where a `ReadSection` under way meanwhile used older values or failed.  A
reload that went through puts right what an earlier one, cut short, unread or never called
back for, had left behind; until it comes the older values stay, and the
property does not claim otherwise.  `MapRace` is what the Go runtime does about concurrent use of a
map (it ends the process), and no doc says that `ReadSection` may not be called
while the file is watched.  A write during a reload makes another event.

`SentryCore`: `heap` holds the arrays, a core is a slice (`arr`, `len`, `cap`) of
one; `scopes` is the hub's stack.

| code | actions |
|---|---|
| `With` | `With`, `WithNothing` |
| `append(c.fields, fields...)` of `Write` | `AppendFields` |
| the map of fields, `PushScope` | `Collect` |
| `SetContext`, `CaptureEvent` | `SetContext`, `CaptureEvent` |
| the end of `WithScope` | `PopScope` |

`FieldsStayWithTheirLogger`: nothing changes what a logger inherited, although
arrays are shared; and the events of a `Write` that no other overlaps carry the
fields of its logger and entry, whatever was written before.  Overlapping
`Write`s do mix: one appends in the room the other just used, and the scope on
top of the stack may be the other's; the property names them as the exception.

### 2.12 SideBySide

`EtcdResolver`, the two Rust registries, `GrpcConnections`, `Settings` and
`SentryCore` share no variable and call none of each other.  Their product
would be large and show nothing more, so `SideBySide` chooses one of them at
the start (`part`), leaves the others in an initial state, and instantiates each
module with variables of its own.  A property of a part that rests holds in the
initial state only, and its fairness asks for nothing, since none of its actions
is a step.  An invariant that two parts have under one name is a conjunction here
(`TasksAreHandled`).

Run `side_by_side` (223 thousand states).  Bounds: one resolver, two instances
of two versions, a discovery with one watcher and the resolver's own, two
changes; two instances and two leases or two tasks, with
`MaxPending = 1` late request, for the registries; two connections, two targets,
bridge configurations of up to two entries; two sections and
two writes of the file, while sections are read, half read or registered at any
point of a reload: the first may be half done, lack sections or not decode (`Faulty`), and the
second puts it right; two cores, two writers, arrays of up to three fields, of which
the root core has room for one (`RootCap`; 20 in the code), so that appending with
and without room both happen.

`CHECK_DEADLOCK FALSE`: connections, cores and writes of the file are used up, a
crashed process stops, a resolver whose goroutine ended has nothing left to do.

## 3. Proofs

Each theorem is about the specification of its module, for every value of the
constants that meets the assumptions: any number of registries, instances, leases,
callers, watchers, requests, keys, writers.

| theorem | says |
|---|---|
| `EtcdRegistryProofs!TypeCorrect` | `Spec => [](TypeOK /\ CallInv)` |
| `EtcdRegistryProofs!Safety` | the four safety invariants of 2.1 |
| `EtcdRegistryProofs!Refinement` | `EtcdRegistry` implements `InstanceListing`, step by step |
| `EtcdResolverProofs!DiscoveryTypes` | `TypeOK` of the discovery |
| `EtcdResolverProofs!QuietCache` | `QuietCacheIsFresh`: what quiet watchers cached is what etcd holds |
| `EtcdResolverProofs!CacheWatched` | `CachedIsWatched`: a cached name has a goroutine that has not ended, unless a watch closed; and no more were started than there are callers |
| `EtcdResolverProofs!ResolversAreCallers` | `ResolverSpec => Spec`: to the discovery a resolver is a caller |
| `EtcdResolverProofs!QuietConnection` | `QuietConnectionIsFresh`, the same for what a connection was told since its watch opened |
| `ConsulRegistryProofs!TypeCorrect` | `Spec => []TypeOK` |
| `ConsulRegistryProofs!HeartbeatSafety` | `HeartbeatIsCancellable` and `HeartbeatServesHealthy` |
| `ConsulRegistryProofs!OrphansNeedCrash` | `OrphanedByCrashOnly` (an action property) |
| `ConsulResolverProofs!ConsulResolverTypes` | the types of the discovery and of its resolvers |
| `ConsulResolverProofs!ConsulResolversAreCallers` | `ResolverSpec => Spec` |
| `ConsulResolverProofs!ToldTheService` | `ToldItsService`: the list that all share never tells a connection of another service |
| `MicroServiceProofs!TypeCorrect` | `Spec => []TypeOK` |
| `MicroServiceProofs!HookRunsDrained` | `HookAfterDrain` |
| `MicroServiceProofs!GatewayFirst` | `GatewayOutlived` |
| `MicroServiceProofs!NilIsGraceful` | `OkMeansGraceful`, hijacked gateway requests excepted |
| `RustResolverProofs!RustTypes` | the types of the Rust discoveries and resolvers |
| `RustResolverProofs!RustQuietCache` | `QuietCacheIsFresh`, with several watches on one cache |
| `RustResolverProofs!RustKnownEndpoints` | `KnownEndpoints` |
| `RustResolverProofs!RustQuietChannel` | `QuietChannelIsFresh`, with spawned tasks in any order, and its four exceptions |
| `RustRegistriesProofs!RustEtcdImplementsListing` | the Rust etcd registry implements `InstanceListing` |
| `RustRegistriesProofs!RustTasksAreHandled` | `TasksAreHandled`, both Rust registries |
| `SideBySideProofs!PartsTypes` | the types of all the parts |
| `SideBySideProofs!PartsQuietConnection` | `QuietConnectionIsFresh` beside the other parts |
| `SideBySideProofs!PartsOpenConnections` | `OpenConnectionsAreKnown` |
| `SideBySideProofs!PartsQuietSections` | `QuietSectionsAreFresh` |
| `SideBySideProofs!PartsFieldsStay` | `FieldsStayWithTheirLogger`: what clones inherited, and what Writes that do not overlap send |

Every invariant that a passing run checks is the subject of a theorem, and so are the
refinements and the action properties.

**Assumptions**, which TLC evaluates in the runs.  `None`, and the words for a
status, are none of the model's other values, nor one of its sets; `Serves`, `NameOf`
and `VersionOf` are functions, and `Selectable`, `Grpc`, `NoUri`, `Prefixed` pick
instances; the requests of `MicroService` are of one kind each, endless ones are RPCs and those of `H2c`
gateway requests; a logger's own field
is none of a writer (`Core \cap Writer = {}`); bounds are natural numbers.  Only
`CachedIsWatched` needs a finite set, of callers: it counts them.

**Inductive invariants.**  Nearly no property is inductive alone.  Each module that is proved
about ends with its `IInv` (or `ResolverInv`) and the named parts of it.  TLC
checked each on the instance of its run before it was proved.  The proof
modules have a lemma per action, with a step per part the action can disturb.

*etcd registry.*  `RenewedIsHealthy` depends on
which instances may come to use a lease: a put that arrives late could attach a
key to a lease renewed for another one.  `IInv` therefore
adds `CallInv` (where a call is, which instance and lease it has), `HeldInv` (the
lease a call holds is renewed by nobody, held by no other call and attached to
no key but its own), `PendingInv` (a lease that a late put names is never renewed,
and is for one instance) and `FreeInv` (a lease never granted is used by nobody).
The refinement uses `IInv` to show that a renewal starts on a
listed or absent key, and that an expiry removes one instance at most.  The Rust
registry is proved along the same lines: it needs no assumption that calls come one after
another, since `HeldInv` speaks of all calls at once, and `TaskIsHandled`
takes the place of the cancel function.

*Consul registry.*  `IInv` adds `CallInv`: while `Register` is under way its instance is
healthy, and while `Deregister` is under way the registry has no goroutine that was not
told to end.  Without the latter, a heartbeat could outlive the
`healthy` flag that `DeregisterService` clears.  `OrphanedByCrashOnly` follows
from `CallInv`: an instance is added to the agent only by a `Register` that
marked it healthy, and loses the mark only in the step that removes it, or in a crash.

*Freshness* (`EtcdDiscovery`, `EtcdResolver`, `RustDiscovery`, `RustResolver`).  The argument
is one: whoever holds a list that differs from etcd has been sent an
event for the difference.  `ReloadInv` says so of a list between the read and the
store, `RefreshInv` of the cache.  The latter names a witness, the watcher that stored last:
with several watchers on one cache no fixed one keeps it fresh.  A change gives an
event to every open watcher of the name, so that it makes no quiet list
stale; a step of one watcher leaves the witness or becomes it.  `TellingInv` is
the same for the one goroutine of a resolver.  In Rust the callbacks hand the
list to spawned tasks, which run in any order: `InOrder` says that what is late
precedes what is not, and `Handed` that the newest task has the list of now.

*Counting watchers.*  `CachedIsWatched` counts by `WatcherInv`: the watchers of a
name and the callers on their way to its cache are together no more than the callers.
A fill turns one of the latter into one of the former, and once the
name is cached nobody joins them.  Before, any number may be under way, but nobody watches.
That one of them has not ended is `LiveInv`: whoever clears the mark that a watch closed, by a fill
or a reload, is, or starts, a goroutine that runs.

*Consul discovery and resolver.*  Polling makes no list fresh at any moment, which leaves
liveness to TLC.  What is safe is where lists come from: `ListInv` bounds every list by
the service it was asked for, from the cache through calls and goroutines to
`LoopInv` and what a connection was told.

*MicroService.*  `OrderInv` ties the state of the servers to where `Run` is:
the gRPC server is told to stop only by `Run`, after the HTTP server is closed.
`DrainInv` says that what follows the stop comes after it.  The hook runs
drained because `AcceptRpc` and `CallBackend` need a server that is not stopping; with one
address the server starts to stop only when nothing is in flight, or else `Die`s, whose
requests are "dropped" and in flight no more.

*The other parts.*  `GrpcConnections`: `OpenedInv`, that what is handed or tracked was opened,
so that nothing that was closed is tracked anew.  `Settings`: `HeardInv` and `DecodedInv`, that
while viper knows of every write it has loaded the file, and that a reload is done
with a section only when its struct is of the loaded version or the file has no such section.  `SentryCore`: `CoreInv`, that cores which share
an array have the same length of it, so that no append in place is before the
end of another's fields; `ScopeInv` counts the scopes by the writes that are
between push and pop, and `AloneInv` follows a write that met no other to its event.

*Composition.*  `SideBySide` lets one part step.  The others stay in a state
that `Init` allows, so a step of one part keeps the invariant of every other by
leaving its variables alone, and the theorems hold beside one another.

What the proofs changed in the models:

- In `MicroService` two guards of the `CASE` in `Backend` overlapped, and TLC took
  the first; TLA+ does not say which.  They are disjoint now.
- `SUBSET Key \cup {None}` is `SUBSET (Key \cup {None})` to one parser and
  the intended union to another.  It is in parentheses.
- A set of sections could be `None`, an instance could be called as a set, and a
  core and a writer could have the same field, unless the constants say otherwise.
  The assumptions do now.

**Only model-checked.**  The liveness properties (`UnhealthyLeavesStore`, `EventsReachCache`,
`CheckedOrphanLeaves`, `CacheSettles`, `BalancerSettles`, `ClosedLoopEnds`, `ClosedFeedEnds`,
`ChannelSettles`, `InterruptEndsRun`) rest on fairness and `ENABLED`, which are out of the
prover's reach.  So is induction over data: what
`FoldLeft` makes of a sequence of options is evaluated by TLC, and the proofs need of it only
that the mode is one of three.  No module uses `RECURSIVE` operators.

## 4. Bounds and what is left out

Named bounds: `Lease` (grants), `Goroutine` and `Task` (heartbeat goroutines and
tasks at once), `MaxWatchers`, `MaxPollers`, `MaxJobs`, `MaxChanges`, `MaxPending`,
`Conn`, `MaxEntries`, `MaxWrites`, `Faulty` (the writes that may be faulty), `MaxCap`, the sets of callers and requests.  A model
that has used up one of them can still take every other step.  Deadlock is checked in
the other runs: there no state is final.

Left out everywhere: real time (timeouts and expiry may come at any moment,
unless a guard says why not), the text of keys, tags and JSON, logging, and the
contents of metadata.

Not modelled, by component:

- selection strategies: pure but for one counter, whose index is taken modulo
  the length of the list; no doc promises fair turns to callers that share it.
- address resolution: reads the network interfaces; its failure is an early
  return of the registries.
- `micro`: the metadata an interceptor reads and sets, and the mux options; they
  handle one request without state.
- bridge `Invoke` and its metadata merge; settings `IsSet` and `Store`; the Rust `get`:
  they keep no state.
- logger: `zap_logger.go` and `default.go` configure zap.
- monitor, `gutils`, `ctxkeys`, the examples and generated code: no state.

Hazards that no property covers, because the code makes no promise there:
concurrent calls on one Go registry race on `keepaliveCancel` and `meta`
(`hestia/etcd/registry.go:112`); after lost heartbeats the keepalive goroutine ends and
no one registers again (`registry.go:169`, the step `KeepaliveLost`); the same after
the Consul agent reaped a service (`hestia/consul/registry.go:161`); when one
server fails `Run` returns and leaves the other serving (`micro/micro.go:293`, the
step `ReturnError`), and a recovered panic leaves `Run` waiting (`micro/micro.go:283`,
`HttpPanics`).

Outcomes that a property names as its exception, because the code does leave them so.  Where
a doc says otherwise the line is given:

- a list that a call stores after a newer one, and one read before the watch opens
  (`QuietCacheIsFresh`; `etcd_discovery_stale` shows the latter), a reload that fails and a watch
  that closes (`EventsReachCache`, `CachedIsWatched`);
- a change between the list of `Build` and the opening of the resolver's watch
  (`QuietConnectionIsFresh`, `BalancerSettles`), and a `Build` that fails
  (`hestia/readme.md:735` says that it does not);
- in Rust, an update that is applied after a newer one (`QuietChannelIsFresh`);
- a write of the settings file that comes before the callback, a section read or registered
  during a reload, a reload that was cut short, a section that was removed (`QuietSectionsAreFresh`);
- a second connection for a target, the connections of a failed `NewClient` and those that
  a repeated name replaced (`OpenConnectionsAreKnown`);
- `Write`s of the Sentry core that overlap (`FieldsStayWithTheirLogger`);
- with one address, gateway requests of hijacked connections (`OkMeansGraceful`) and an RPC in
  flight, at which the stop panics (`InterruptEndsRun`; `micro/readme.md:35` speaks of a graceful
  stop of both servers).

## 5. Plan

Done: (1) `InstanceListing`, `EtcdRegistry` and proofs; (2) `EtcdDiscovery`;
(3) `ConsulRegistry` and proofs; (4) `MicroService`; (5) `ConsulDiscovery` and
`ConsulResolver`; (6) `EtcdResolver`; (7) the Rust discoveries, resolvers and
registries; (8) `GrpcConnections`, `Settings`, `SentryCore`; (9) the safety of all of
them as theorems.

Next, proofs, the most important first:

1. `RustConsulRegistry`: that only a crash, or a call that was given up, leaves
   an orphan, as `OrphanedByCrashOnly` says in Go.
2. An abstract discovery, a cache whose entries come from the store and
   belong to their name, which `EtcdDiscovery`, `ConsulDiscovery` and `RustDiscovery`
   implement: the common part of `ListInv`.
3. The safety part of `BalancerSettles` for Consul: once nothing changes, a poll
   that tells the current list is never undone by an older one.
4. `MicroService`: that no request of any kind is accepted after `Run` returned nil.
