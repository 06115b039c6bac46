# intrabus: TLA+ models, checks and proofs

intrabus connects the modules of an application, usually one process each, over
ZeroMQ: publish/subscribe through a forwarder and request/reply through a
router, with a communication node that keeps a registry of modules, statistics
and health. This directory holds TLA+ modules translated from
`src/intrabus/`, TLC configurations that check them on small instances, and
TLAPS proofs of the properties that hold for every instance. File and line
numbers refer to the sources (`bus_interface.py:207` is
`src/intrabus/bus_interface.py`, line 207).

## 1. The system

| component | state it keeps | operations | correct when |
|---|---|---|---|
| BusInterface, request/reply (`bus_interface.py:137-274`) | `_pending` (correlation id -> event, reply) under `_lock`; `_tx_queue`; the DEALER socket, owned by the io thread; `_rr_running` | `send_request` on any thread; `_io_loop` and `_handle_rr_frames` on the io thread, which also runs `request_handler` | a call gets its own reply or a timeout, a request is handled at most once, stale replies disappear, no entry outlives its call, every call returns or raises |
| BusInterface, lifecycle (`:51-88`, `:276-380`) | `_heartbeat_running`, the heartbeat thread, `_sub_running`, `_rr_running` | constructor with registration, heartbeat every 2 s, `stop` | a running module is known to the node, a stopped one does not come back |
| BusInterface, publish/subscribe (`:90-135`) | PUB and SUB socket, `_sub_callbacks` | `publish`, `subscribe`, `_sub_loop` | a subscriber gets each matching publication that reaches it, a publication stays whole |
| CentralBroker (`brokers.py`) | ROUTER socket, `_running`, its thread | `start`, `stop`, `_loop`: forward one message to its target | forwards in order, loses only what cannot be delivered, survives bad frames |
| TopicBroker (`brokers.py`) | its two sockets, `_running`, its thread | `start`, `stop`, `_run` | publications and subscriptions pass, a stopped broker can be started again |
| ModuleRegistry (`registry.py`) | per name: status, `last_seen`, capabilities | `register`, `unregister`, `mark_seen`, `mark_stale_modules_offline` | online means alive, up to the time of the last poll |
| CommunicationNode (`node.py`) | both brokers, its own interface `intrabus.node`, the registry, statistics, diagnostics | `start`, `stop`, one handler per command | commands change the registry as documented, reports agree with each other |
| StatsCollector (`stats.py`) | totals, per-module counters, `recent_events`, pending latencies | `record_*`, `to_dict`, `reset` | totals agree with the traffic, pending latencies are bounded and expire |
| DiagnosticsManager (`diagnostics.py`) | a bounded deque of diagnostics | `refresh_from_runtime`, from registry and statistics | each problem is reported, the report is bounded |
| MessageEnvelope (`messages.py`) | pure data | construction, `with_hop`, conversion to and from a dict | round trip, hop limit |
| Configuration, exports, examples | none | | |

How they interact. A request passes from the calling thread to the io thread of
its interface (`_tx_queue`), over the DEALER to the broker's ROUTER, which
forwards it to the DEALER of the target, where the io thread runs the handler
and puts the reply on its own `_tx_queue`; the reply takes the same way back
and is handed to the waiting thread through `_pending` and an event. The node
is a module like any other, called `intrabus.node`, and lives in the process of
the brokers. Registration, heartbeat and unregistration are ordinary
requests to it; the broker and the node's own interface write to the same StatsCollector.

What is hard about it: several threads share an interface, and `_pending` is
read and written on both sides of a wait; handlers run on the io thread;
timeouts race replies; ZeroMQ keeps unsent requests across a restart of the
broker, so they arrive when their callers have given up; the broker drops
what it cannot deliver without telling anyone; the heartbeat thread races
`stop`; the node's own heartbeats come back to itself. `PROJECT.json` lists
each of these hazards at its line, with the properties that would catch it.

## 2. Modules

| module | models | source |
|---|---|---|
| `RequestReply` | `send_request`, the io thread, `stop`, the CentralBroker and the ZeroMQ queues between them | `bus_interface.py`, `brokers.py` |
| `AtMostOnceCall` | the abstract promise of `send_request`; `RequestReply` implements it | |
| `Registry` | interface lifecycle, heartbeat thread, node start, stop and crash, ModuleRegistry | `bus_interface.py`, `node.py`, `registry.py` |
| `Stats` | the counters and pending latencies of StatsCollector and the threads that write to it | `stats.py`, `brokers.py` |
| `PubSub` | `publish`, `subscribe`, `_sub_loop`, `stop`, the loop of the TopicBroker | `bus_interface.py`, `brokers.py` |
| `Feed` | the abstract promise of publish/subscribe; `PubSub` implements it | |
| `NodeHealth` | `node.get_health`: recent events, diagnostics, status, summary | `node.py`, `diagnostics.py`, `stats.py` |
| `BrokerLifecycle` | start and stop of both brokers, threads that outlive a stop, singletons, the node's two brokers | `brokers.py`, `node.py` |
| `Envelope` | MessageEnvelope | `messages.py` |
| `MCRequestReply`, `MCRegistry`, `MCStats`, `MCPubSub`, `MCBrokerLifecycle` | instances for TLC | |
| `RequestReplyProofs`, `MessageProofs`, `RegistryProofs`, `StatsProofs`, `NodeHealthProofs`, `BrokerLifecycleProofs`, `PubSubProofs`, `EnvelopeProofs` | theorems | |

### RequestReply

A call is one invocation of `send_request`; its identity stands for the uuid.
`pc[c]` is the position of the calling thread, one action per section that other
threads can interleave with:

| code | action |
|---|---|
| build the request, `_tx_queue.put` (`:145-156`) | `SendRequest` |
| insert into `_pending` under the lock (`:158-160`) | `RegisterPending` |
| `event.wait` returns true / gives up (`:162`) | `WaitDone` / `WaitTimeout` |
| record the latency, pop the entry and return (`:176-189`) | `PopReply` |
| `record_latency` raises before the pop (`:179`, `stats.py:491`) | `LatencyRaises`: the entry stays |
| pop the entry, record the timeout and return, or raise (`:163-174`) | `PopExpired`, `Outcome` |
| `get_nowait` and `send_multipart`, until `Empty` (`:265-270`) | `IoSend`, then `IoDrained` |
| poll of 10 ms without a message (`:272-273`) | `IoPollTimeout` |
| `_handle_rr_frames`: pending id / dropped / handler called | `AcceptReply` / `DropMessage` / `Dispatch` |
| handler returns or raises, reply queued (`:241-258`) | `HandlerReturns` |
| `reply \|=` or `json.dumps` raises outside the `try` (`:253-258`) | `HandlerBreaks`: the io thread ends |
| `stop`: clear the flags / close after the join (`:368-378`) | `StopLoop` / `CloseSockets` |
| one turn of `CentralBroker._loop` | `Route` |
| a turn in which `record_message` raises (`brokers.py:293`, `stats.py:491`) | `RouteBreaks`: the broker thread ends |
| `CentralBroker.start` / `stop` | `BrokerStart` / `BrokerStop` |
| ZeroMQ, external | `Connect`, `Disconnect`, `Transmit`, `Deliver` |

`pending[m]` is the key set of `_pending`; `slot[c]` the `"reply"` of an entry,
whose event is set exactly when it is there (`:208-209` set both under the lock).
A message keeps sender, target, correlation id and type marker, which is all the
path reads. `chan[<<stage, m>>]` holds the five queues a message of m can be in:
`tx`, `dealer`, `routerIn`, `routerOut`, `rx`. `BrokerStop` empties the two router
queues; `CloseSockets` empties the two DEALER queues (`linger=0`); the DEALER's
outgoing queue survives a broker restart. `Legacy` modules are releases
before 0.2.2 that add no type marker; `untyped` messages are what `:221-227` is
there for. `broker` is `down`, `plain`, `counting` (it has a StatsCollector) or `ended`, when its thread
has ended and its socket is still there: peers stay connected and nothing is forwarded until somebody stops and
starts it. Of the payload it matters only whether a StatsCollector can hash its command: `OddRequests` and
`OddReplies` are the calls with one that it cannot, `Observed` the interfaces that have a collector. A nested call is one that a handler makes on its own interface: it
starts only while its io thread is inside the handler, and keeps that thread until it
returns. `handled` is a history variable that counts dispatches per call, up to two.

Restrictions. `CloseSockets` assumes that the io thread leaves `poll` within the
second that `join` waits; only a handler holds it longer. There is no high-water mark: no send
blocks. A broker that stops loses its queues at once. What the statistics
count is left to `Stats`. An older module is one whose messages have no marker; its own receive code does what
the present one does in the roles of `LegacyRoles`. A process does not restart under its old
identity while the ROUTER still knows the old connection. `Workloads` is a bound: the sets of calls
that may have begun at some time, so that one run holds several small scenarios; a call starts
only if the calls begun so far and it are one of them (`Planned`).

### AtMostOnceCall

A call is idle, open, answered, timed out or failed (it raised, which only calls in `MayFail` do); its request is
executed at most once, an answer implies an execution, and a timeout or an exception neither implies nor prevents
one. `RequestReply` maps to it with `open` for a call between its queueing and
its pop, and `handled` for `executed`, over the calls to other modules
(`ImplementsAtMostOnceCall`).

### Registry

`phase[m]` is the thread that runs the constructor and `stop`, `beat[m]` the
heartbeat thread, `beating[m]` its flag. `Start` queues the registration,
`RegisterReturns` (answered or timed out, the code treats both alike) starts the
heartbeat; `BeatWakes`, `BeatSends`, `BeatReturns` are the loop at `:325-331`, with
the test of the flag and the send as separate steps; `Stop` clears the flag,
`JoinEnds` ends the join and queues the unregister, `UnregisterReturns` discards
what is unsent. `Crash` may take the process at any point. Commands go
through `outgoing[m]`, lost with the module, and `incoming[m]`, lost with the
node; while the node's interface is not up the broker drops them. The node goes
`down -> starting -> up -> stopping -> down` as in `CommunicationNode.start/stop`, or
crashes, which empties the registry. `HandleRegister`, `RejectRegister`,
`HandleHeartbeat`, `HandleUnregister` are the node's handlers with the registry
calls they make; `Poll(timeout)` is `mark_stale_modules_offline`. `silence[m]` is
the age of `last_seen`, cut off above the largest timeout, and `Tick` lets time pass.
Two threads may end while everything else goes on: the io thread of an interface (`HandlerBreaks`, `io[m]`), after which
its heartbeats are queued and never sent, and the thread of the node's broker (`BrokerBreaks`, `routing`), after which no command
reaches the node until it is restarted. Nothing in the code notices either, and a running module then stays offline; `RunningComesOnline`
names both. `voice` and `left` are history: which incarnation of the name set the
status online, which one's unregister was handled last.

`JoinEnds` requires the heartbeat thread to be asleep or ended: `join` waits 1 s,
longer than a heartbeat request takes (0.3 s), shorter than the sleep (2 s). That a
thread is not delayed by more than that difference is an assumption of the model.
Capabilities, and reads of the registry, are left out.

### Stats

The collector of a node is written to by five kinds of threads: the broker
(`record_message` before it sends, `record_delivery_failure` if the send fails), interfaces
that were given it (`record_timeout`, `record_latency`, `record_error`), the topic broker (events),
and the node's handler or any other code that calls `reset`. Each `record_*` is one action because it
takes the lock for all it does; the broker's record and send are two, with `taken` between
them. `totals`, `sent`, `received`, `timeouts` and `errors` are the counters, a
module that is not in `per_module` counting zero; `latencies` is the key set of
`_pending_latencies`, `place` its insertion order, `age` the time since each entry's start.
`Internal` is `is_internal_message` with the payload that each caller passes: a failure is
recorded without one, so a command between two applications is hidden as a request and
counted as a failure. A reply is what has the type marker (`brokers.py:270`): one without it, from an older application module
(`Untyped`), is recorded as a request of the target and starts the pending latency of the call anew (`RecordUntypedReply`), so that
an entry can exist for a call that is over. `PendingOnlyOpen` says exactly which entries there can be. `CountMessage` and `StartLatency`
are the parts of `record_message` that all three share.

The bus is cut down to the order in which the collector can hear of a call
(`caller`, `request`, `reply`): the broker takes a request at most once and a reply only after it has
forwarded the request, which `MessageProofs` proves of the whole path under `LegacyRoles` (a call never has two
messages, and a reply exists only for a handled request); that a late untyped reply may be answered again by a handler of the caller
(section 3) is left out here; a message that gets lost is one the broker
never takes; a timeout may come at any time. `Observed` is the set of modules that share the collector:
the node itself does. `recent_events` is in `NodeHealth`. Left out: `recent_messages`, the per-topic
counters and latency values, and commands that cannot be hashed, for which a `record_*` raises before it counts anything.

### PubSub and Feed

A publication is one invocation of `publish`, a callback one invocation of `subscribe`.
`send_multipart` sends a frame at a time without a lock, so `publish` is `PublishTopic` and
`PublishData`, with `open[i]` the message that the PUB socket of i has begun. `subscribe` is
`SetOption` (the socket option, `:96`) and `AddCallback` (the list, `:97`); `Learn` is the subscription's arrival
at the broker, whose PUB socket filters by prefix (`Covers`), while `_sub_loop` looks callbacks up by the exact topic
(`Listeners`). `_sub_loop` is `LoopTop`, `PollTimeout`, `Receive`, one `Call` for each callback, which may raise,
and `CallsDone`; the list it goes through is the live one. A message of other than two frames ends the
thread, as unpacking it raises. `Route` is a turn of `TopicBroker._run`, `ThreadEnds` the
turn in which `record_message` raises for a command that cannot be hashed. `stop` is `Stop` and
`CloseSockets`, with any part of what is unsent discarded.

`log` is history: what the broker forwarded, with the number of restarts before it. A message on its
way to a subscriber is a position in the log. In `Feed` a callback is a reader of one log, each call
hands it an entry on its own topic further on than the last; it may miss entries.

Restrictions. `Join`, the arrival of the broker's own subscription, exists only for an interface that publishes, and
`LoopTop` only for one that subscribes. No pipe fills up. Two threads may share
an interface; one thread publishes one message at a time (`Thread`). `Workloads` is a bound as in `RequestReply`.

### NodeHealth

`_get_node_health` takes the statistics up to three times, and other threads record in between: `GetHealth`
(stale modules, diagnostics, status), `Summarise`, `AddDetails`, `Respond`. The registry changes only
between two commands, since the handlers of a node run on one io thread. `Derived` is
`_collect_module_offline` followed by `_collect_stats_diagnostics`, one diagnostic for each group of events (module and target,
module and error; a key of `Keys`), cut by `KeepLast` as `deque(maxlen)` does. Of a diagnostic its code is kept,
of a module that it is `silent` beyond any timeout. A call that records appends one event (`Record`), except
`record_message` for a reply whose request is pending: its latency and the message are two events under one lock
(`RecordSampledReply`). `taken`, `reset` and `quiet` are history: the events the diagnostics were derived from, whether a
reset came since, and how many events since the last error.

### BrokerLifecycle

One thread calls `start`, `stop`, `run_*_broker`, `stop_*_broker` or the node's `start` and `stop`, one after the other;
`plan` is what is left of the call in progress, and an exception from a bind drops all of it. `user` is a node, or
a script that uses the singletons. `start` is `Returns` (it runs already), or `Prepare`, a `Bind` per address, `Launch`; `BindFails` raises.
`stop` is `ClearFlag` and `JoinEnds`, which may come before the thread has ended. `loop[<<b, n>>]` is the thread of the n-th
start of b: it polls its own socket, but looks up the flag, the socket to receive from and the socket to send on in the
broker, each at its own step (`TestFlag`, `Poll`, `Compare`, `Receive`, `RecordMessage`, `Sends`, `SendFails`), and so can see a later start at
any of them (`HasOpen`, `Mine`, `Assigned`). `from` is the start on whose socket a thread receives. A receive blocks if what was polled
is not there any more, because another thread took it (`Alone`) or because it is another socket by now; `Wake` ends it with a
message or with an error. Sockets that a failed start has left are closed when they are replaced or
collected, and release their address later (`closing`, `Release`); other processes take and leave addresses.
Only brokers that own their context are modelled.
That a running broker's flag is set and its addresses are bound does not mean that its thread lives: it may have ended
(`RecordMessage`). The socket of a broker that is stopped counts as closed even if a blocked receive of an earlier thread still uses it.

### Envelope

One envelope as a factory made it, then `with_hop` and the way to JSON and back in any order. An envelope is a record
with the twelve fields of the dataclass; `ToDict` writes the twelve camelCase keys of the wire format and `FromDict` reads
them, each with the default the code gives it when the key is missing, so that a field which one side forgets or misnames
is lost in the model as it would be in the code. `with_hop` (`Hop`) goes through both, as does the wire, with `Json`
between them. `Becomes` is the validation of `__post_init__`; a call that raises leaves the envelope as it was. Payloads
are five kinds: what JSON carries, empty, with keys that become strings, with values JSON refuses, and no dictionary at
all. Dictionaries from elsewhere, with keys missing, are not fed to `FromDict`.

## 3. Checks

Passing runs:

| run | instance | shows |
|---|---|---|
| `reqrep_restart` | two threads of a call a node without type markers, or one of them does while a calls itself; the call to itself and its reply have a command that cannot be hashed, a has statistics, the broker has them or not; a may stop, its handler may break, the broker may stop and start again once; 0.6 million states | `TypeOK`, `PendingConsistent`, `ReplyIntegrity`, `EchoOrHandled`, `HandledAtMostOnce`, `ImplementsAtMostOnceCall` |
| `reqrep_stop` | a calls b, whose handler calls a, whose handler calls b; or two threads of a call b, one with a command that ends the broker's thread; b may stop, b's handler may return what cannot be sent, one broker stop; with fairness; 0.12 million states | `NestedNeverAnswered`, `NoReplyWaitsForHandler`, `CallsReturn`, `BusSettles`, `RequestsHandled` |
| `registry_lifecycle` | three incarnations of a name, whose io threads may end, one outage of the node, whose broker thread may end, polls with timeouts 0 and 2; with fairness; 0.19 million states | `TypeOK`, `OnlineOnItsWord`, `RefusedOnlyIfStillThere`, `RunningComesOnline`, `GoneGoesOffline` |
| `stats_recording` | a call with room for one pending latency, together with a call back with a command of the node, with a call to the node, or with a call back that an older module answers; or the latter and a call by the node; one event, one reset, time to live 1; 1.0 million states | `TypeOK`, `SumsAgree`, `NodeTrafficExcluded`, `PendingOnlyOpen`, `PendingBounded`, `NoSampleOnceOver` |
| `pubsub` | a publishes up to three messages, on topics of which one begins with the other; b listens with three callbacks and may stop; one broker stop, one thread end; with fairness; 0.24 million states | `TypeOK`, `ImplementsFeed`, `NoGaps`, `Delivered` |
| `node_health` | one module, two keys, room for two events and two diagnostics, four calls that record, one reset; 1.6 million states | `TypeOK`, `VerdictFollowsEvents`, `ErrorsOnlyEvicted`, `SummaryCovers` |
| `broker_lifecycle` | both brokers, by a node or by a script, two starts each; 1.05 million states | `TypeOK`, `NodeHasBrokers`, `OneStrayAtMost`, `StartFailsForOthers`, `ReturnsRunning`, `EarlierLoopsRunOut` |
| `envelope` | every envelope over one name, two nodes, time to live 0 to 2; 7 500 states | `TypeOK`, `HopsConserved`, `CarriedWhole`, `HopFailsAtZero` |

Bounds. `Calls` is finite because a call is one invocation; two threads on one
interface are the smallest case in which a reply can meet the wrong call, a call to the own module and one beside it the smallest
in which what is stale can meet a handler, and three nested calls the smallest in which two io threads wait for each other. `Workloads` lets
one run explore several such cases without their product. One
broker stop is enough to let a request or reply outlive its call; the proofs of section 4
hold for any number. `MaxStops` is 0 in the runs whose counterexample needs no restart. `MaxStarts` = 3 in `Registry`
lets two earlier incarnations leave messages
behind for a third. `MaxOutages` = 1 covers one loss of the registry or of the mail. `MaxMail`
holds a heartbeat back while two commands are on their way; register
and unregister are never held back. `Horizon` cuts `silence` off one above the
largest timeout, beyond which no comparison can tell values apart. One name is enough in `Registry`
because entries of different names share only the node. In both runs of `RequestReply` a call with an odd command
and one without share an interface and a broker, so that one can end what the other needs. Only a call between application modules can raise
in `record_latency`, in `reqrep_restart` the one to itself; calls to another module that raise (`MayFail`) are in the theorem `Refinement`. In `Stats` one place for two calls
makes every insertion of the second trim the first, a time to live of 1 lets entries expire and not expire, and
`MaxPublished`, `MaxResets` = 1 put an event and a reset at every point of a call.
In `PubSub` three messages on one topic are what a gap needs; a callback on the longer of two topics, whose
interface also has the shorter, gets a message that two subscriptions match, which must arrive once. In `NodeHealth`
`MaxEvents` = `MaxDiagnostics` = 2 with four records overflow both deques: two timeouts push an error out of the events, and
an offline module with two groups overflows the diagnostics. In `BrokerLifecycle` `MaxStarts` = 2 gives a thread of an earlier
start and a current one, and a start that fails before one that succeeds; that two earlier threads can meet on one socket takes a third start, which the proofs
of `OneStrayAtMost` and `EarlierLoopsRunOut` include. `Ttls` = 0..2 makes
an envelope fail at once, after one hop and after two.

Deadlock is not checked, except in `envelope`: a bus with all calls over, all interfaces stopped, or a
broker that never starts may stand still.

Fairness. Calling threads, io threads and the heartbeat thread are scheduled, and
`event.wait` has a timeout, so each thread is weakly fair as a whole; a handler
returns (a nested call inside it returns because it times out). ZeroMQ connects,
sends and delivers as long as the broker is up, and the broker thread runs until it ends: `RequestsHandled`, `BusSettles` and
`RunningComesOnline` name the ended threads (`Broken`, `io`, `routing`) as exceptions. Nothing obliges
a broker to start, an interface to stop, a module to start, or a handler to return
what breaks its thread. In `Registry` a monitor polls again and again with each timeout
and time passes; without polls nothing ever goes offline in the code. In `PubSub`
subscriber threads run and the broker takes from each publisher in turn, as a SUB socket reads its pipes
fairly; nobody has to publish or to subscribe. `BrokerLifecycle`, `Stats`, `NodeHealth` and `Envelope` have safety properties only: that a thread of an
earlier start ends is put as a step property, `EarlierLoopsRunOut`, each step bringing it nearer to its end. Whether a blocked receive ever returns (`Wake`) stays open.

Findings, each the violation of one property by what the code does:

* `reqrep_early_reply`: `send_request` queues the request before it inserts its
  entry (`:156`, `:159-160`). A reply that arrives in between is not pending and is dropped
  as stale, and the caller times out. CHANGELOG.md:20 speaks of "late or stale
  replies" only. Inserting the entry first would close the gap.
* `reqrep_own_heartbeat`: the node's interface has `enable_heartbeat=True`
  (`node.py:54`) and sends its heartbeats to itself. The broker returns the
  request to its sender, where line 207 finds its id pending and takes it for the reply, so
  the node's own heartbeats never reach its registry.
* `stats_early_timeout`: a timeout that is recorded before the broker has taken the request
  (`stats.py:205` before `stats.py:398`) removes nothing, and the entry that is inserted
  afterwards stays until a reply or the time to live ends it. CHANGELOG.md:12 says that pending latencies are
  "cleaned up for requests that time out".
* `pubsub_two_threads`: two threads that publish on one interface interleave the frames of their messages
  on its PUB socket (`bus_interface.py:92`), and a callback is called with a payload that was published on another topic.
  CHANGELOG.md:95 calls `BusInterface` "thread-safe". A lock around the send would close the gap.

Two more that the models contain and no run is kept for. A late reply of an application module of an older release has no marker, so
`:212-236` take it for a request, and the handler of the module that had called gets it, although CHANGELOG.md:20 says that late replies are
dropped "instead of being dispatched to request handlers as new requests"; this is why theorems below need `LegacyRoles`. And in an interface with
statistics `record_latency` (`:179`) raises for a command that is a list or an object (`stats.py:491`) after the reply has come and before the
entry is popped (`:188`): the caller gets a TypeError instead of the reply, which stays in `_pending` (`Leaked` in `PendingConsistent`). Popping first
would close the gap.

## 4. Proofs

The theorems about `RequestReply` hold for every set of modules and calls, every
assignment of callers and targets and every number of broker stops, under
`CallAssumption` (a nested call is made by a module with a handler) and
`ModuleAssumption` (handlers, fragile, stoppable and observed modules are modules). TLC evaluates the assumptions of every
module in its runs. The theorems of `MessageProofs` have the hypothesis `LegacyRoles` besides: a module of an older release has
no handler, or is the node and makes no calls. For an older application module with a handler they are false (section 3).

* `RequestReplyProofs`. `TypeCorrect` is not inductive alone: `HandlerReturns` builds a
  reply from `current[m]`, which must not be `None`. `HandlerInv` adds that a module
  has a request in hand exactly while its io thread is in a handler, and that at most
  one nested call of a module is in progress, the one its io thread waits for.
  `PendingCorrect` then follows from `TypeOK /\ HandlerInv /\ PendingConsistent`: the entries that outlive their call are those of
  `LatencyRaises`, which had their reply (`Leaked`).
  `NestedCallsTimeOut`: `AcceptReply` needs an io thread in `poll`,
  and the io thread of a waiting nested call is in `nested`. `RepliesDoNotWait`: the io thread empties
  `tx` before it polls, and only it puts replies there.
* `MessageProofs`. `ReplyIntegrity`, `HandledAtMostOnce` and `OneMessagePerCall` (a call never has two messages) hold
  together or not at all, through `MessageInv`: `Located` (a message is on its
  sender's side before the broker and on its target's side after it), `QueuesDistinct` (no two queued
  messages with one correlation id), `Genuine` (a queued message is the request of a call not
  yet handled, or the reply to one that was handled once), `InHand` (what a handler
  works on was dispatched once and is in no queue), `HandledCount` and `ReplyIntegrity`.
  Every action except `SendRequest`, `Dispatch`, `HandlerReturns` and `AcceptReply` only moves or
  removes messages, and the lemmas `TakeEffect`, `MoveEffect`, `PutEffect` and `ClearEffect` say
  once what that does to the set of messages. The heart is
  `RepliesAreRecognised`: a genuine reply never looks like a request, with or without type
  marker; without the test of `:221` it would, and so does the reply of an older module that is not the node, which `LegacyRoles` excludes. `EchoesCorrect` adds `Echoes` to the invariant: a call to
  the own module that has taken its echo has no message left anywhere, so no handler will see it; without
  that a later `Dispatch` could make both answers true.
  `Refinement`: every step of `RequestReply` is a step of
  `AtMostOnceCall` or leaves it unchanged: `SendRequest` is `Start`, `Dispatch` is `Execute`
  by `HandledCount` and `Genuine`, `PopReply` is `Answer` by `PendingConsistent`
  and `ReplyIntegrity`, `PopExpired` is `GiveUp` or `Fail`, `LatencyRaises` is `Fail`.
* `RegistryProofs`, for any names, any number of incarnations and outages, and any timeouts of which one is
  the largest. `TypeOK` needs `LifeInv`: which thread can be where in which phase. `OnlineOnItsWord` and
  `RefusedOnlyIfStillThere` need `OrderInv`: the commands of a name on their way, in `incoming` and then in `outgoing`,
  are in the order of incarnations, and nothing of an incarnation follows its unregister (`Before`); each is
  of an incarnation that has not left and is not older than the one heard last (`Fits`). Losing commands keeps this
  (`FewerKeeps`), and a send keeps it because the heartbeat thread is `off` or `asleep` with its flag cleared when the unregister is queued, so
  that no heartbeat comes after it.
* `StatsProofs`, under `StatsAssumption` (finitely many calls, between two modules each, and finitely many modules; bounds are naturals).
  `PendingOnlyOpen` needs `Progress`: the broker does not take a request whose reply or
  timeout it has seen. From it follows `NoSampleOnceOver`, because only a call with a pending latency, which is not in `over`,
  is sampled. `PendingBounded` rests on the library's theorems on finite sets, and on well-founded relations
  for the existence of the oldest entry (`OldestExists`). `NodeTrafficExcluded` is inductive
  with `TypeOK`: a step that counts puts its call into one of the sets the counters are compared with (`SetsGrow`, `CountMessageWithin`). `SumsCorrect`: a total is a fold over the counters by module, which the community modules define by a recursive
  function on subsets. That this function exists, is a natural number and grows by what one of its
  terms grows (`SumExists`, `SumIs`, `SumGrows`) is proved for a subset of least cardinality for which it fails,
  with the library's `WFMin`; then every action raises a total and one term of its sum, or neither.
* `NodeHealthProofs`, for any finite sets of modules and keys, any `max_recent_events` and any positive `max_diagnostics`.
  `VerdictFollowsEvents`: the derived list is warnings followed by errors (`DerivedShape`), so its last element
  is an error if any is, and `KeepLast` keeps the last element (`KeepLastKeepsEnd`). This is where the order in which the code collects matters.
  `ErrorsOnlyEvicted`: the last error is at distance `quiet` from the end of the events, after each event
  appended (`LastErrorAppended`), and so after the two of a sampled reply.
  `SummaryCovers` needs `CountInv`: the events of one kind are at most the total of that kind, at the time of the report and later.
* `BrokerLifecycleProofs`, for any brokers and any number of starts, under `LifecycleAssumption` (the node's order names every
  broker, a broker has at least one address and shares none). `StrayInv`: a thread that is somewhere between its poll and its send
  (`Serving`) was led there by a poll of its own socket, and has sent through no later one; once it has, it is on its way to a poll
  that raises, because its own socket is closed by then.
  The same invariant gives `EarlierLoopsRunOut`, from the few steps that are left to a thread whose socket is closed (`TurnShortens`).
  `TypeOK`, `NodeHasBrokers`, `StartFailsForOthers` and `ReturnsRunning` hold together, through `LifeInv`: what is left
  of a call (`NodePlan`, `ScriptPlan`) is the rest of one that the code can make, so its head says who is in
  the middle of a start or a stop (`StepInv`); an address that is bound or still closing belongs to a broker that runs, that is being
  started or stopped, or whose start has failed (`PortInv`); a running broker is its singleton (`ScriptInv`), and the brokers of a node that is
  starting run or are yet to be started (`NodeInv`). `NodeHasBrokers` says nothing of a call under way and is not inductive alone.
* `PubSubProofs`. `TypeCorrect` holds for any threads. `FeedImplemented` and `DeliveryCorrect` assume `OneThread`: the publications
  of one interface are made by one thread, which run `pubsub_two_threads` shows to be necessary. `WholeInv`: what a socket has
  begun is the topic frame of the one publication that is half sent, and everything on its way or in the log is the two
  frames of one publication, in one place only, so a message the broker forwards is new to the log. `OrderInv`: what is on its way
  to an interface is in the order of the log and later than what its thread has in hand and its callbacks have heard
  (`QueueOrder`), and the callbacks that are still to be called have not heard what it has in hand (`CallOrder`), which holds when
  `subscribe` extends the list in the middle of the loop, because a new callback has heard nothing (`ListInv`).
  Then `Route` is `Publish` of `Feed`, `Call` is `Hear`, and every other step leaves it unchanged.
  `GapsCorrect` holds for any threads. It needs what becomes of the messages that are not heard yet: whatever an interface has in its queue
  or in hand or has heard (`Met`) is followed, on its topic and in its run of the broker, by all that the log has, which is on its way (`Coming`)
  or lost together with everything after it (`Cut`, `Gap`). A message that is forwarded joins them because this broker
  knows of the subscription, if it ever sent anything for it (`Knows`); a callback that is added while the loop calls is
  reached by that loop (`PlaceInv`, `ListedInv`).
* `EnvelopeProofs`, for any names and any time to live, negative ones that the constructor refuses included. `from_dict` reads
  back what `to_dict` wrote, key by key (`ReadsBack`), also where `with_hop` or JSON changed some of it; from it
  `HopsConserved` and `CarriedWhole` are inductive with `TypeOK`, and `HopFailureCorrect` shows that `validate` in
  `with_hop` refuses nothing but a time to live that is used up (`HopIsValid`).

Every safety property of a passing run is a theorem. Only model-checked are the
liveness properties (`CallsReturn`, `RequestsHandled`, `BusSettles`, `RunningComesOnline`, `GoneGoesOffline`, `Delivered`):
they rest on fairness, which is stated with ENABLED, and that is beyond TLAPS. The violations of section 3 are counterexamples and need no proof.

## 5. Not modelled

* Backpressure: a ROUTER with `ROUTER_MANDATORY` blocks when the pipe of a peer is full (`brokers.py:305`), and a PUB drops. When a
  pipe is full depends on sizes in ZeroMQ and in the kernel; no model here has a bound on pipes.
* Capabilities in the registry: which registration wins after a crash of the node. Reads of the registry and of the statistics.
* Use of a ModuleRegistry or a DiagnosticsManager from other threads than the node's io thread.
* A ZeroMQ context that the caller passes in, and two threads that start and stop one broker at the same time.
* `recent_messages`, counters by topic, latency values.
* Configuration, package exports and examples: no behaviour of their own. Logging and formatting.

## 6. What is left to do

1. A registry with several names inside `NodeHealth`, so that the node's own entry (`reqrep_own_heartbeat`) shows in its report.
2. Capabilities in `Registry`: a heartbeat that reaches the node before the registration does, after a crash, registers the module with none (`registry.py:84`).
3. An abstract registry, a log of words of incarnations of which some are lost, that `Registry` implements; its theorem would rest on `OrderInv`.
