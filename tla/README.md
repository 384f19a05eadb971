# A TLA+ model of BoltConn

BoltConn (`src/`) is a transparent proxy and firewall: it captures the traffic of
a machine through a TUN device (or accepts it on SOCKS5/HTTP ports), decides by
rules which outbound each connection takes, pumps the bytes, and lets a
controller watch, stop and intercept connections. This directory models the parts
of it that keep state under concurrency, checks them with TLC and proves the
central ones with TLAPS.

## 1. Inventory

All paths are relative to `src/boltconn/src`.

| Component | State | Operations | Interacts with |
|---|---|---|---|
| `ConnAbortHandle` (`proxy/context.rs`) | an `AtomicU8` state, an `ArcSwap` of task handles | `new`, `placeholder`, `cancel`, `fulfill` | dispatcher (fulfills), adapters, guards and API (cancel) |
| `ContextManager` (`proxy/context.rs`) | active map, finished log, limit, notify flag | `push`, `mark_fin`, limit, two copies, drop | dispatcher, guards, controller, database |
| `HttpCapturer` (`proxy/context.rs`) | vector of exchanges | `push`, `get_copy`, `get_range_copy`, drop | interceptors, controller, database |
| `EvictableVec` (`common/evictable_vec.rs`) | vector and offset | push, evict, slice | the two above |
| TCP sessions (`proxy/manager.rs`, `session_ctl.rs`, `tun_inbound.rs`, `network/tun_device.rs`, `adapter/tcp_adapter.rs`) | a record and a shared counter per port | register, lookup, flush, accept, guards | TUN device, dispatcher, adapters |
| UDP sessions (`proxy/manager.rs`, `tun_udp_inbound.rs`, `adapter/udp_adapter.rs`) | a record and a liveness flag per address | probe, register, expire, relay | TUN device, dispatcher, adapters |
| `DnsTable` (`network/dns/dns_table.rs`) | two maps, free list, timestamps | query by name, query by address, two flushes | DNS hijack in the TUN device, inbounds |
| DNS resolution (`network/dns`) | hosts, policies, resolvers | `genuine_lookup`, replace on reload | dispatching, adapters |
| Dispatching (`dispatch`) | rules, rule sets, groups, temporary rules, selections | `matches`, `set_group_selection`, build | dispatcher, controller, reload |
| `Dispatcher` (`proxy/dispatcher.rs`) | swappable dispatching, interception and modifier | `submit_tcp`, `submit_*_udp`, replace | everything |
| App, reload, `LinkedState` (`app.rs`, `config`) | configuration, persisted selections and temporary rules | start, validate, reload, stop | all of the above |
| Outbound adapters (`adapter`, `transport`) | per connection tasks; shared WireGuard and SSH sessions | `spawn_tcp`, `spawn_udp`, endpoint cache | dispatcher, abort handle |
| `SmolStack` (`transport/smol.rs`) | sockets, tasks, buffers | open, drive, poll, close | WireGuard endpoint |
| Interception (`intercept`) | entries and their actions, pending requests, certificates | match, rewrite, read bodies, capture | dispatcher, capturer, reload |
| `MessageBus` (`instrument`, `external/instrument_server.rs`) | topic table, a bounded and one unbounded channel per client | publish, subscribe, deliver, disconnect | rule actions, web sockets |
| Database (`external/database.rs`) | file, writer thread, two channels | open, create, add rows, vacuum, drain | context manager, capturer |
| `TunConfigure` (`network/configure.rs`) | enabled flag, routes, DNS | enable, disable | app, controller, platform |
| Inbounds (`proxy/*_inbound.rs`) | handshake per connection | SOCKS5, HTTP CONNECT, mixed | dispatcher |
| Controllers, CLI, platform, packets | none of their own | request routing, system calls, parsing | controller |

### What is hard

* **Concurrency.** Everything runs on a multi-threaded tokio runtime. The abort
  handle is lock-free; `mark_fin` publishes with two `Relaxed` stores; a TCP
  record's counter is shared by the accept loop, two guards and the flush task.
* **Ordering.** Client packets, the accept, the dispatch and the flush of a
  session record happen in any order; the API reads two tables one after the
  other, or lists and then asks by id.
* **Failure.** `submit_tcp` can fail before and after tasks were spawned; a task
  can be aborted before its first poll; reload and TUN set-up have several steps,
  each of which may fail; a write of `state.yml` may fail, or the process be killed
  in it or while it creates its database; an outbound may stop taking data without
  ending; a tunnel stops under its connections.
* **Limits.** A pool of fake addresses, logs with a limit and a grace, byte-wide
  counters, bounded channels.

What makes the components correct: a cancelled connection loses all its tasks
and an uncancelled one none; every connection is accounted for exactly once;
records live as long as their connection and no longer; a client's traffic goes
to the destination it asked for, by the first rule that matches it; a fake
address belongs to one name; what the API acknowledged is in force and, unless the
write failed, on disk;
bytes and recorded exchanges are what passed; nothing that `unwrap`s can fail.

## 2. Modules

| Module | Models | State and actions |
|---|---|---|
| `AbortHandle` | `ConnAbortHandle` | `state` is the atomic, `handles` the `ArcSwap`; each load, compare-exchange, store and `abort()` is one action of a thread with a program counter |
| `CancelOnce` | the abstract promise: tasks are given once, cancel is requested, then all tasks given are stopped, exactly once | |
| `ContextManager` | `ContextManager`, `mark_fin`, `get_all_conns` | `push` takes the write lock and scans the active map entry by entry, so that `mark_fin` (no lock) interleaves with it |
| `EvictableVec` | operators on the vector | used by the previous and the next module |
| `HttpCapturer` | the capturer and the three `/intercept` requests | one action per locked operation |
| `Database` | `DatabaseHandle`: opening, creation, writer thread, vacuum | `file` outlives the process; `thread` is where the loop is; a failed insert, the end of the process and a partial creation are steps |
| `CaptureStore` | `HttpCapturer` composed with `Database`, in a process that ends and is started again | what a step of the capturer saves is sent as a batch; the two clones of the handle keep both channels open |
| `TcpSession` | session table, packet rewriting, accept loop, outcomes of `submit_tcp`, `TcpAdapter` with its two guards, `ConnContext::abort` | `cell` is the heap of `AtomicU8`s that records and guards share, so that a replaced record and the old guards keep different counters; a stop by the API is two steps, `StopConn` (the cancel, which sets `cancelled`) and `StopMarks` (the `mark_fin`), and `api` is where it is |
| `UdpSession` | port records and their flush, the packet loop of `TunUdpInbound`, `submit_tun_udp_session`, `TunUdpAdapter`, the end of the outbound, `stop_conn` | `probe` is the heap of `AtomicBool`s shared by records, mapping and adapters; `main` is where the packet loop awaits; each session has its bounded channel, a phase of its tasks and the place of its adapter's loop: before the test of the probe, waiting for a packet, or in `tx.send()` with the packet it took (`Take`) until the outbound takes it (`HandOver`) |
| `DnsTable` | fake address allocation | one action per locked query, its flushes included |
| `RuleSets` | single rules (`RuleImpl` without parts), rule sets with their radix tree of names, ports, inbound filters, the payloads a configuration loads | pure operators on connections and parsed rules |
| `Rules` | rules made of rules and of rule sets | recursive operators over `RuleSets` |
| `Dispatching` | `DispatchingBuilder` (proxies, providers, groups, rule lists), the walk of a connection, and `build_normal_outbound` and `create_chain` for the proxy it ends at | pure operators; a builder is a record with its error or panic |
| `App` | start, `validate_config`, reload step by step, `state.yml`, the API calls, `TunConfigure`, routing while the rules change | `inst` is every `Dispatching` made, `api`, `disp` and `filter` the pointers a reload swaps one after the other; `lock` is the `LinkedState` mutex; creating and writing `state.yml` may each fail, which is only logged; `hist` remembers API calls during a reload and a failed write; a connection reads the pointers at each of its awaits and ends with an outbound (`ConnOutbound`) or an error. How a `Dispatching` is built and what it answers are constant operators (`Built`, `WalkFrom`, ...) |
| `AppDispatching` | `App` with the operators of `Dispatching` for these constants | the configurations of the runs substitute them |
| `SmolStack` | `transport/smol.rs`: tasks, port maps, socket slots, send and receive paths, half close timer, buffer tuning | a stack is a value, its methods operators; `Nil` is a port without a task or a slot without a socket; smoltcp's socket, with the states of RFC 9293 after a close (a simultaneous close goes through Closing), and the number of its slots are external |
| `WireGuard` | endpoint, manager, `smol_drive` rounds, attaching connections, the name lookup through the tunnel | an endpoint is a record of its flags and of where its tasks are |
| `Modifiers` | configuration lines of interception, url, header and script engines, body reading, `modify_request`, `modify_response` | pure operators on messages |
| `Intercept` | `InterceptionManager`, TLS and HTTP handlers, pending and recorded exchanges, reload | one action for each await of a handler; `hist` remembers each message at each party |
| `MessageBus` | rule actions, bus task, subscriptions, web sockets | `egress_senders` keeps dead subscribers until somebody asks |
| `ContextProofs`, `CaptureStoreProofs`, `TunProofs`, `UdpSessionProofs`, `AppProofs`, `WireGuardProofs`, `InterceptProofs`, `MessageBusProofs` | the theorems (section 4) | each extends the modules it is about |
| `MC*` | instances for TLC | |

Data is abstracted: a connection, a domain or an address is a model value, an
exchange its capture number, time a small clock; a regular expression is what it
matches, a CIDR the set of its addresses, a name a short sequence of characters. Control is not: every guard,
early return and error arm of the mapped lines has its place.

## 3. Runs

| Run | Instance | Shows |
|---|---|---|
| `abort_handle` | 3 cancellers, 1 fulfiller, 2 tasks | no `unwrap` fails, no cancel is lost, tasks are aborted by one thread and only on cancel, `cancel` returns and takes effect, refinement of `CancelOnce` with its liveness |
| `context_manager` | 3 connections, limits 0 and 1, grace 1, with and without database | each connection is in one place, only finished ones are reaped, a finished one has a pending notification, listings are complete |
| `http_capturer` | 2 kept, grace 1, 8 captures; either API clients, or connections and one restart | no slice panics for any range, exchanges are saved once and in order, ids are stable, what the database holds is in order and, when the thread ends by itself, complete |
| `tcp_session` | 2 connections, one of which the API may stop, 1 port, 2 destinations, all outcomes | right destination, record kept while served, context finished when both directions are and earlier only by a stop whose cancel came first, record evicted after an end or a cancel (liveness) |
| `udp_session` | 1 source, 3 destinations (one per policy), 2 sessions, channel of 1 | nothing is relayed to a rejected destination, one live session per source, every live probe is in the port's record; a session ends and the packet loop returns unless an outbound stalls for good (liveness) |
| `dns_table` | 5 names, 4 addresses, clock to 4 | the two maps are inverse, the pool is never exhausted |
| `app` | about 2100 configurations to validate; 4 to run with 1 reload, 1 edit, 1 stop or crash and either 2 saving API calls and 1 connection, 2 such calls and 1 failing write, or 3 changes of the TUN mode | validation accepts exactly the well-formed groups, rule sets match nothing their lines do not, memory and, unless its last write failed, the file agree, a reload is all or nothing, a connection follows the first match of the rules it arrived under, the TUN status is true |
| `wireguard` | six scenes of two connections: a stream on an endpoint that stops, a download, TCP and UDP in the same slots, one port, a replaced endpoint, a name | tables and slots agree, bytes arrive once and in order before the FIN, buffers are bounded, closed connections are reaped, a stopped endpoint frees its connections (liveness) |
| `intercept` | two connections, three requests, five scenes, limit of 2 | the record is what passed, bodies are intact, url rules hold |
| `message_bus` | 3 clients, 2 topics, channel of 2, 4 messages | a live subscriber gets its topics' messages, once and in order |
| `fake_ip_expiry` | as `dns_table` | *violated*: `flush_expiration` evicts the fresh records and keeps the expired |
| `reload_race` | as `app`, 2 API calls, no connection, no failing write | *violated*: an API call during a reload is acknowledged and saved, then overwritten in memory |

**Bounds.** Three cancellers are more than enough to race each other and the fulfiller, and
the theorems lift the bound. Three connections let one push reap two and evict
one. Eight captures evict twice before the drop. One source port is
where TCP sessions meet: connections on different ports share only the accept
loop; a stopped connection and one that ends by itself are then both present, in
either order. Two sessions let the next session of a source run beside the one that is
ending, and a channel of one packet is full at once. Five names for four addresses force both flushes; with four records the
30% sample is one record, with fewer it is empty, and both happen.

`App` checks its pure part (validation, rule sets) on every configuration of a
family (every graph of three groups over a list of shapes with members, chains,
providers and unknown names; every rule set of two lines out of 18), and its
running part on four: one with
nested groups, a module and a rule set, a smaller one, one that is refused and
one that panics. One reload, two API calls and one edit are enough for each pair
of them to interleave; the members of `Budgets`, one of which is drawn in the initial
state, are the only bounds: connections do not write and the TUN mode is not saved,
so what they do beside a failing write is independent of it. `WireGuard`,
`Intercept` and `CaptureStore` choose a *scene* in the initial state: a scene
fixes which kinds of connections, messages and faults occur together, so that
each combination that shares state is explored without the product of all. Sizes
are scaled, not their relations: buffers of one to three bytes grow by doubling
and then linearly as those of 128 KB to 4 MB do, a body limit of 2 has bodies below, at and
above it in several framings. Symmetry is used over connections (`ContextManager`,
`Intercept`), names and addresses (`DnsTable`) and clients (`MessageBus`), which
the specifications only compare for equality; no run with symmetry checks liveness.

**Deadlock** checking is off where a run ends by design: every connection opened
and closed, every exchange captured, the clock or a counter at its bound, an
endpoint stopped, a start refused.

**Fairness.** `AbortHandle`: weak fairness of each thread that is inside `cancel`
or `fulfill`: the functions contain no await, so a thread that entered them is
scheduled by the operating system until it returns. Nothing forces a canceller to
call, nor a dispatcher to fulfill. `TcpSession`: the flush task ticks for ever,
the accept loop and spawned tasks are polled, a started guard drop finishes, an
aborted task ends at its await, `DuplexCloseGuard` ends the inner direction 30 s
after the outer one and a stop that has cancelled goes on to `mark_fin`; a client
never has to close, a direction never has to end by itself and nobody has to stop
a connection. `UdpSession`: time
passes, so records expire and the flush ticks; the packet loop and the sessions'
tasks are polled, and the 30-second timer of a black hole fires. Clients need not
send, and an outbound need neither take what it is handed nor end: `HandOver` and
`OutboundEnds` have no fairness. `tx.send()` has no timeout, so `SessionEnds` and
`LoopReturns` have the premise that no adapter stays in it for good
(`[]<>~Stalled(i)`); without it TLC finds both violated.
`WireGuard`: the tasks of an endpoint are polled and its driving thread runs
(`Kill`, `DriveFirst`, `NextRound`, `DriveEnd`), time passes, so timers fire
(`TimePasses`, `AttachTimeout`). Nothing is assumed of the network or of clients.

**Memory order.** The atomics of `AbortHandle` are acquire/release on a single
location, so interleaving semantics is exact. In `ContextManager` the two Relaxed
stores of `mark_fin` are seen in either order. When they are swapped, or when a
connection finishes before it is pushed, its notification may be consumed by a
push that does not see it done; the connection then stays listed as active until
another one finishes. `ReapPending` excepts exactly these two cases.

## 4. Proofs

TLAPS proves the theorems below for every value of the constants that satisfies
the named `ASSUME`s; TLC evaluates these on the instances of the runs. Each proof
module has the same shape: an inductive invariant, which TLC checked on the run's
instance before it was proved (where it quantifies over all urls, over those of
the run), `InitInv`, `StepInv` with one lemma or step per action, the theorem that
the invariant always holds, and one theorem for each property, which follows from
it in a state. Every invariant that a passing run checks is proved, except the two
named at the end of this section.

| Module | Theorems and the properties they state |
|---|---|
| `ContextProofs` (`AbortHandle`) | `HandleTypeCorrect`, `NeverPanics` (`NoPanic`), `CancelSticks` (`CancelNotForgotten`), `AbortsExactlyOnCancel` (`CancelledMeansAborted`), `SingleAborter` (`OneAborter`), `Refinement` |
| `ContextProofs` (`ContextManager`) | `ManagerInvariantHolds`, `EveryConnRecordedOnce` (`RecordedOnce`), `OnlyDoneAreReaped` (`ReapedOnlyWhenDone`), `FinishedWillBeFound` (`ReapPending`), `ListingComplete` (`SnapshotComplete`) |
| `CaptureStoreProofs` | `CapturerCorrect`, `NoRangePanics` (`SliceNeverPanics`), `EveryExchangeKept` (`SavedOrInMemory`), `PayloadsAreListed` (`PayloadIsListed`), `TablesInOrder` (`WrittenInOrder`) |
| `TunProofs` (`TcpSession`) | `TcpInvariantHolds`, `ContextFinishedOnTime` (`FinishedWithBothHalves`), `RecordOutlivesAdapter` (`RepliesRewritten`), `DispatchedRight` (`DispatchedToItsDest`) |
| `TunProofs` (`DnsTable`) | `TableTypeCorrect`, `FakeIpsAreABijection` (`TablesAgree`), `PoolNeverExhausted` (`PopNeverFails`) |
| `UdpSessionProofs` | `NothingLeaks` (`RejectedNeverRelayed`), `OneLiveSessionPerSource` (`LiveSessionIsMapped`), `FlushReachesEverySession` (`LiveProbeIsRecorded`) |
| `AppProofs` | `AppInvariant`, `ReloadIsWhole` (`ReloadAllOrNothing`), `LiveStateSaved` (`LiveStateIsSaved`), `TunStatusRight` (`TunStatusTruthful`), `RuleSetsSound` (`RuleSetSound`) |
| `WireGuardProofs` | `SlotsMatchTasks` (`HandlesOwned`), `BuffersBounded` (`RecvBufBounded`), `StreamsInOrder`, `BytesReachSocket` (`StreamIntact`) |
| `InterceptProofs` | `InterceptInvariant`, `RecordsAreTrue` (`RecordedIsWhatPassed`), `BodiesArrive` (`BodyIntact`), `UrlRulesAnswer` (`UrlRuleHolds`) |
| `MessageBusProofs` | `OwnersGetTheirMessages` (`OwnerGetsItsMessages`) |

**`AbortHandle`**, any number of cancellers and tasks. None of the invariants is
inductive: whether an unwrap fails depends on who may write the state next. The
inductive invariant ties the atomic to the program counters: `FULFILL_CHANGING`
iff the fulfiller is between its two compare-exchanges, `CANCELLING` iff exactly
one thread is in an aborting loop, the handles are stored from `READY` on, a
thread in the loop owns the tasks that are not yet aborted. Each action then
disturbs one conjunct. The refinement of `CancelOnce` maps a request to the
state's cancelled half and the given tasks to the fulfiller's progress; every
action is a step of the abstraction or a stutter.

**`ContextManager`**, any connections, limits and grace. The properties speak of
the moments when nobody holds the lock. The invariant follows `push` through its
scan: what it has moved is in both tables until the retain (`toRemove`), what it
has still to look at is in `scan`, and a connection's four places are disjoint
once `toRemove` is taken off the active map. `PendingInv` is the argument behind
the `Relaxed` flag: a connection that is done and that no scan will look at has
the flag set or is still to set it.

**`HttpCapturer`, `Database`, `CaptureStore`**, any keep count and grace, any
number of captures and restarts. For the capturer: the offset counts what was
saved, the k-th exchange captured is the k-th of what was saved and what is in
memory, and an eviction leaves at least `KeepCount` exchanges, which is what
`get_range_copy` relies on when it clips. With the database: each table is a
suffix of what it held followed by what was sent, and what was sent is the
inserted part, the batches in the channel and nothing else, for as long as the
thread runs; a crash keeps the tables and forgets the rest. The lemmas are about
`Append`, `SubSeq` and concatenation, from `SequenceTheorems`.

**`TcpSession`**, finitely many connections and ports, any destinations. A record
and the two guards of a connection share nothing but a counter, so the invariant
follows the counters: each belongs to one port (`CellInv`), one that no guard has
taken holds 2 (`FreshInv`), and one that a single connection holds counts the
guards not yet dropped (`CountOf`). A context that is done before both guards are
gone was marked by a stop, and a stop marks only what it has cancelled, so the
invariant also ties `done` to `api` and `cancelled`. `DispatchedRight` has the hypothesis
`PortReuse # "shared"`: with two open connections from one port it is false, as
the observations below say. Finiteness is used to find a counter that nobody
holds; the heap has one for each that can be held and one more.

**`UdpSession`**, finitely many ports and sessions, any sources, which may share
a port. A cleared probe is never set again and only a fresh one is set, so a
session whose probe is set is the one its source is mapped to and its port's
record points at (`AliveInv`). That nothing is relayed to a rejected destination
needs the path of a packet: a permit `"yes"` is only given to a good destination,
the packet that creates a session is asked for before the session has tasks
(`SubmitInv`), and so what an adapter takes out of the channel of a started session
is good.

**`DnsTable`**, every set of names and every finite non-empty pool, positive
`LowMark`. `TablesAgree` is inductive together with types; the key lemma is that
`Retain` preserves consistency for any set of names that is kept.
`PopNeverFails`: if the pool is empty after the flushes, every address is in use,
so `flush_older` had a record with the minimal timestamp and removed it.

**`WireGuard`**, any connections, ports, slots and endpoints. The methods of
`SmolStack` are functions of a stack, so the invariant is one of a stack,
`StackOK`: a task has a socket of its kind and owner in a slot of its own, and a
socket has a task. `Receive` with the transitions after a close (`Acked`, `Finned`),
`TrySend`, `TryRecv` and the polls keep owner, kind and slot (`SameStack`), so only `Open` and `Purged` need an argument: an empty
slot is no task's, and the slots that go are exactly those of the tasks that go.
For the buffers, `cap <= TCP_RCV_BUF_MAX` is not inductive (doubling or a step
could jump over the maximum); the invariant is that `cap` is one of the sizes
reached by doubling or lies whole steps below the maximum. `TuningAssumption`
says that the constants fit so, as those of `TcpTuning` do.

`StreamIntact` needs the bytes of a client wherever they are (`OInv`): those in
the socket, the rest of the chunk the task is sending (`remain`), its `rx` and the
client's channel are, one after the other, exactly the bytes sent; a task reads
the end of the channel only when the channel is empty, and sends its FIN only
when it has read the end and has nothing left. For this a task must belong to one open connection
of its endpoint, and a connection to one task (`CInv`, `Owners`, `OneEach`). The
loop of `try_send` is a recursive function of the number of rounds; that no round
loses or repeats a byte is an induction over that number.

**`App`**, any way of building and asking a `Dispatching`, any configurations,
connections and temporary rules, any number of routes. What `App` promises does
not depend on what the rules say, so the operators of `Dispatching`, which are
recursive, are constants here; a failing or panicking build is among their values.
`StepInv` says for each place of the reload which of the four stores are behind
it, which gives `ReloadAllOrNothing` whichever step fails. `SaveInv` is what a
reload carries from the reading of `state.yml` to its last store: as long as no
API call came in between (`hist.now`), the file is still what it read, the
instance it built agrees with it, and nobody is writing. The linked state and the
instance in force agree whether or not a write failed; the file agrees with them
unless its last write did (`hist.unsaved`), and a reload or a start, which read
whatever that write left, make it agree again. A restart begins with
what the file holds (`RestoreSelection`), so the agreement survives crashes.
`TunInv` follows flag, routes and mounts through every partial failure.
`RuleSetsSound` is about every payload: of the entries of the radix tree whose key
is a prefix of the reversed name there is a longest and latest one (well-foundedness
of the naturals), it is the entry of one line, and where it ends at a label
boundary this line matches the name itself. `StatesAssumption` and
`NamesAssumption` only say what a saved state and a name are made of.

**`Intercept`**, any connections, messages, configurations, scripts and limit;
`ScenesAssumption` says that bodies, entries and actions are finite lists. The
lemmas about `Modifiers` come first: reading ahead up to the limit moves bytes
from frames into a buffer, and whatever it finds (the end, a frame over the limit,
an error) buffer and remaining frames hold the same bytes in the same order; url,
header and body steps keep them unless a script may replace the body. The payloads
the manager makes of a configuration, entry by entry and line by line, answer a
url exactly when a url rule of the configuration does, and as the first of them
(`Corr`, by induction over the length of the lists that `FlattenSeq` joins). The
invariant then follows one exchange: what is pending under its tag is the request
as it left the modifier (`InService`), so the response is paired with it, and
each answered exchange is recorded once (`StoreInv`), although other connections
record theirs and reloads replace the manager meanwhile.

**`MessageBus`**, any topics, clients, request lists and capacity. That an owner
keeps its topics is not enough: the bus must send it nothing else, which needs
that the entries naming a live client are exactly its topics, and that no entry
names a client that has not subscribed yet.

**Only model-checked.** `AcceptedIffWellFormed` and `DispatchedByFirstMatch`:
they are about what the building of groups and the walk through nested rule lists
compute, which are `RECURSIVE` operators over trees, as the code is; the prover
cannot unfold these, and an induction over such data is out of its reach (over a
number it is not: a set of naturals without a least counterexample, as the proofs
of `WireGuard` and `Intercept` use it). Every liveness property and the fairness
of the refinement (`CancelTakesEffect` and the other temporal properties of the
runs). The type invariants are conjuncts of the inductive invariants and theorems
only; no run repeats them.

## 5. Observations without a run of their own

* `EvictableVec::evict_until` does not move `in_mem_offset`, so `logical_len`
  ("including those evicted") forgets what it evicted. Its only user never reads
  by index.
* `BadMitmCert` stores 0 in a counter that two guards will still decrement; it
  wraps to 254 and the record stays. A packet after the eviction re-creates a
  record nobody decrements. A task aborted before its first poll leaves its
  counter at 2.
* A connection stopped through the API is listed as finished at once, while its
  inner direction may run for another 30 seconds.
* A black-holed TCP connection leaves its record with a counter of 2: nobody
  decrements it, so the record stays.
* A UDP probe that was cleared (rejected first packet, failed outbound) stays in
  the port's record until the flush: sessions created meanwhile are dead on
  arrival, and the port is blocked for up to `udp_stale_time`. A session whose
  outbound ended by itself keeps a live probe, so its source's packets are
  dropped silently until the record expires.
* The expiry of a UDP record ignores traffic: `update_time` has no caller.
* The full channel of a black-holed UDP session holds up the packet loop of all
  sources for up to 30 seconds. A black-holed destination is relayed inside a
  session that exists already: `allow_tun_udp` only asks for `Reject`.
* An outbound of a UDP session that stops taking data without ending keeps
  `TunUdpAdapter::run` in `tx.send()`, away from its probe test: the session
  outlives its record, and when its channel is full the packet loop of all sources
  waits for it, until the API stops the connection.
* `DnsTable::flush` has no caller.
* When the outbound of a UDP session ends first, `established_udp` cancels the
  connection, which aborts `TunUdpAdapter::run` before its `mark_fin`: the
  connection stays listed as active.
* TCP records are keyed by source port. A connection from the port and to the
  destination of one that is closed but not yet flushed inherits its counter of
  0 and is evicted while it is served; two open connections from one port to
  different destinations replace each other's record.
* `/intercept/range` numbers its entries from the oldest exchange shown, not from
  the start of the range: a payload request by such an id may return another one.

Rules, reload and TUN:

* `RuleSet::matches` never looks at the inbound, source-address and local-address
  lines it collected; a `GEOIP` or `ASN` line makes the whole set be refused. In the
  radix tree, the entry of a name hides a suffix entry of its parent. This is why
  `RuleSetSound` goes one way only.
* A group that is left out because it is empty, used as a member, hits an
  `unwrap`; a group with the name of a proxy is ignored without a word.
* A failed write of `state.yml` is only logged: the API call reports success, and
  the next start or reload takes the old file, or fails on one that was cut off.
* A crash between the truncation and the writing of `state.yml`, or a saved
  temporary rule that names a proxy no longer configured, prevents the next start.
* Routes added before a failure stay, and the next attempt fails on them.

WireGuard:

* `smol_drive` waits for its first notification without a timeout and opening a
  TCP socket sends none: a server-speaks-first connection does not start, and an
  endpoint stopped before the notification leaks its thread.
* A client learns of the peer's end only by the 30-second half close timeout,
  which also cuts transfers that still run. A FIN sent in the round that sees the
  peer's, or one that crosses it (LastAck, Closing), has no timeout: without the
  peer's last acknowledgement the socket is never reaped.
* The local port is the client's port, so two clients with one port collide. Two
  configurations that differ in keys only share an endpoint. A connection on a
  stopped endpoint hangs until another one replaces it.

Interception:

* Response header rules are matched against the request's path, not its url; url
  rules are not applied without a `Host` header. A script's new body does not
  replace the `Content-Length`; repeated headers are merged, `Set-Cookie` too.
* `generate_redirect` panics on a redirect target with non-ASCII characters.
* A dead HTTP/2 sender is not replaced: the next request closes the connection.

Database:

* A crash or a failed `chown` between the creation of the file and of its tables
  leaves a file that `verify` refuses at every start. A failed insert ends the
  thread; later batches are dropped silently. The process exits without waiting
  for the thread. The vacuum timer starts anew with every batch.

## 6. Not modelled, and the plan

* Inbounds and outbound adapters other than WireGuard: per connection handshakes
  in fixed byte formats that share nothing; their ends are steps of the session
  modules. The SSH manager's session cache is the exception and is left for later.
* DNS resolution behind `genuine_lookup`: awaits on library resolvers; its answer
  or failure is an input.
* Of UDP, `StandardUdpAdapter` (SOCKS5 UDP ASSOCIATE), replies to the TUN device
  and a change of the rules under a session's cached permits. Of `App`, latency
  tests and the log limit (which `ContextManager` has). `Recorder` in
  `intercept/modifier.rs` has no caller.
* Packet parsing and checksums, system calls, TLS, regular expressions, the script
  engine, the command line client, request routing of the controllers: encodings
  and library code without shared state.

Left to do: the composition of dispatcher, context manager and abort handle (a
connection stopped through the API, whose half is in `TcpSession`, is reaped), the SSH manager's
session cache, and `DispatchedByFirstMatch` for rule lists without sub-dispatch,
where the walk is a recursion over a length.
