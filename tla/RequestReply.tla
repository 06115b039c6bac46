---------------------------- MODULE RequestReply ----------------------------
(***************************************************************************)
(* The request/reply path of intrabus: the threads that call              *)
(* BusInterface.send_request, the io thread of each interface              *)
(* (_io_loop and _handle_rr_frames), the loop of CentralBroker, and the    *)
(* ZeroMQ queues between them.                                             *)
(*                                                                         *)
(* A message of module m travels through five FIFO queues.                 *)
(*   tx        the Python queue _tx_queue, emptied only by the io thread   *)
(*   dealer    ZeroMQ's outgoing pipe of the DEALER: it outlives the       *)
(*             broker, which m reaches again by reconnecting               *)
(*   routerIn  what the broker's ROUTER has received from m                *)
(*   routerOut what the ROUTER has accepted for m                          *)
(*   rx        what the DEALER of m has received                           *)
(* The two router queues are lost when the broker stops; the two DEALER    *)
(* queues are lost when the interface closes its socket.                   *)
(*                                                                         *)
(* Callers and broker may hand what passes to a StatsCollector.  Of the    *)
(* payload it reads the command, and raises if that cannot be hashed; this *)
(* is all of it that matters here, the rest is in Stats.  ZeroMQ's high-   *)
(* water mark is left out, so that no send blocks.                         *)
(***************************************************************************)
EXTENDS Naturals, Sequences

CONSTANTS
  Modules,      (* names of the interfaces on the bus (ZeroMQ identities)    *)
  NodeModule,   (* INTRABUS_NODE_MODULE, the node's own interface            *)
  Handlers,     (* modules whose interface has a request_handler             *)
  Fragile,      (* handlers that may return what cannot be sent as JSON      *)
  Legacy,       (* modules of releases before 0.2.2, which add no type marker *)
  Stoppable,    (* modules that may call stop()                              *)
  Observed,     (* modules whose interface has a StatsCollector              *)
  BrokerKinds,  (* the broker may be "plain" or, with statistics, "counting" *)
  Calls,        (* invocations of send_request, each with its own uuid       *)
  From,         (* the module that makes each call                           *)
  To,           (* the target of each call                                   *)
  Nested,       (* calls made inside a request handler, on its io thread     *)
  OddRequests,  (* calls whose command is a list or an object                *)
  OddReplies,   (* calls whose reply has such a command                      *)
  Workloads,    (* bound: the sets of calls that one behaviour may contain   *)
  MaxStops,     (* bound on how often the broker stops, to start again       *)
  None          (* no message                                                *)

Stages == {"tx", "dealer", "routerIn", "routerOut", "rx"}
Places == Stages \X Modules

Message == [src  : Modules, dst : Modules, cid : Calls,
            type : {"request", "reply", "untyped"}]

ASSUME CallAssumption ==
  /\ From \in [Calls -> Modules]
  /\ To \in [Calls -> Modules]
  /\ Nested \subseteq {c \in Calls : From[c] \in Handlers}
  /\ OddRequests \subseteq Calls /\ OddReplies \subseteq Calls

ASSUME ModuleAssumption ==
  /\ Handlers \subseteq Modules
  /\ Fragile \subseteq Handlers
  /\ Stoppable \subseteq Modules
  /\ Observed \subseteq Modules
  /\ BrokerKinds \subseteq {"plain", "counting"}
  /\ MaxStops \in Nat
  /\ None \notin Message

(* Peers of older releases in the roles in which the present code tells     *)
(* their untyped messages apart: a client without a handler, or a node that *)
(* sends no request.  (In these roles the old receive code does what the    *)
(* present does.)  An older application module that handles requests is not *)
(* one of them: its late replies look like requests.                        *)
LegacyRoles ==
  /\ Legacy \cap Handlers \subseteq {NodeModule}
  /\ \A c \in Calls : From[c] \notin Legacy \cap Handlers

VARIABLES
  pc,         (* where the thread of each call is in send_request            *)
  pending,    (* the keys of each interface's _pending dictionary            *)
  slot,       (* the "reply" of a call's entry; its event is set iff # None  *)
  chan,       (* the queues: chan[<<stage, module>>]                             *)
  io,         (* where the io thread of each interface is                    *)
  current,    (* the request that interface's handler is working on          *)
  running,    (* _rr_running of each interface                               *)
  closed,     (* interfaces whose sockets are closed                         *)
  broker,     (* "down", "plain" or "counting", or its thread has "ended"    *)
  connected,  (* identities the ROUTER can route to                          *)
  stops,      (* how often the broker has stopped                            *)
  handled     (* history: how often a call's message reached a handler; cut  *)
              (* off at two                                                  *)

threadVars == <<pc, pending, slot>>
ioVars     == <<io, current, handled>>
lifeVars   == <<running, closed>>
brokerVars == <<broker, connected, stops>>
vars == <<threadVars, chan, ioVars, lifeVars, brokerVars>>

-----------------------------------------------------------------------------
TypeOf(m, marker) == IF m \in Legacy THEN "untyped" ELSE marker

Request(c) ==
  [src |-> From[c], dst |-> To[c], cid |-> c, type |-> TypeOf(From[c], "request")]

(* Mutant: the reply carries no correlation id.                             *)
ReplyWithoutId(m, request) ==
  [src |-> m, dst |-> request.src, cid |-> None, type |-> TypeOf(m, "reply")]

Reply(m, request) ==
  [src |-> m, dst |-> request.src, cid |-> request.cid, type |-> TypeOf(m, "reply")]

Put(stage, m, msg) == chan' = [chan EXCEPT ![<<stage, m>>] = Append(@, msg)]

Take(stage, m) == chan' = [chan EXCEPT ![<<stage, m>>] = Tail(@)]

Move(stage, m, stage2, m2) ==
  chan' = [chan EXCEPT ![<<stage, m>>] = Tail(@),
                       ![<<stage2, m2>>] = Append(@, Head(chan[<<stage, m>>]))]

Init ==
  /\ pc = [c \in Calls |-> "idle"]
  /\ pending = [m \in Modules |-> {}]
  /\ slot = [c \in Calls |-> None]
  /\ chan = [p \in Places |-> << >>]
  /\ io = [m \in Modules |-> "drain"]
  /\ current = [m \in Modules |-> None]
  /\ running = [m \in Modules |-> TRUE]
  /\ closed = {}
  /\ broker = "down"
  /\ connected = {}
  /\ stops = 0
  /\ handled = [c \in Calls |-> 0]

-----------------------------------------------------------------------------
(* Where a StatsCollector raises.  It looks at no command in the traffic    *)
(* with the node.                                                           *)
Counted(m1, m2) == NodeModule \notin {m1, m2}

(* record_timeout and record_latency raise in the thread of such a call.    *)
Raises(c) == c \in OddRequests /\ From[c] \in Observed /\ Counted(From[c], To[c])

(* record_message raises in the thread of a broker that counts.             *)
Odd(msg) ==
  /\ Counted(msg.src, msg.dst)
  /\ msg.cid \in IF msg = Request(msg.cid) THEN OddRequests ELSE OddReplies

-----------------------------------------------------------------------------
(* The calling thread.  The request is queued before its entry exists.      *)

(* Bound: the calls made so far and c belong to one workload.               *)
Planned(c) ==
  \E S \in Workloads : c \in S /\ \A d \in Calls : pc[d] # "idle" => d \in S

(* Mutant: handlers run on a thread of their own, the io thread goes on.    *)
SendRequestFromWorker(c) ==
  /\ pc[c] = "idle" /\ Planned(c)
  /\ c \in Nested => io[From[c]] = "handler"
  /\ pc' = [pc EXCEPT ![c] = "queued"]
  /\ io' = IF c \in Nested THEN [io EXCEPT ![From[c]] = "drain"] ELSE io
  /\ Put("tx", From[c], Request(c))
  /\ UNCHANGED <<pending, slot, current, handled, lifeVars, brokerVars>>

SendRequest(c) ==
  /\ pc[c] = "idle" /\ Planned(c)
  /\ c \in Nested => io[From[c]] = "handler"
  /\ pc' = [pc EXCEPT ![c] = "queued"]
  /\ io' = IF c \in Nested THEN [io EXCEPT ![From[c]] = "nested"] ELSE io
  /\ Put("tx", From[c], Request(c))
  /\ UNCHANGED <<pending, slot, current, handled, lifeVars, brokerVars>>

RegisterPending(c) ==
  /\ pc[c] = "queued"
  /\ pc' = [pc EXCEPT ![c] = "waiting"]
  /\ pending' = [pending EXCEPT ![From[c]] = @ \cup {c}]
  /\ UNCHANGED <<slot, chan, ioVars, lifeVars, brokerVars>>

(* event.wait returns True, or gives up: the entry is removed only later.   *)
WaitDone(c) ==
  /\ pc[c] = "waiting" /\ slot[c] # None
  /\ pc' = [pc EXCEPT ![c] = "woken"]
  /\ UNCHANGED <<pending, slot, chan, ioVars, lifeVars, brokerVars>>

(* Mutant: the wait is repeated until the event is set.                     *)
WaitAgain(c) ==
  /\ pc[c] = "waiting" /\ slot[c] = None
  /\ UNCHANGED vars

WaitTimeout(c) ==
  /\ pc[c] = "waiting" /\ slot[c] = None
  /\ pc' = [pc EXCEPT ![c] = "expired"]
  /\ UNCHANGED <<pending, slot, chan, ioVars, lifeVars, brokerVars>>

(* A call made by a handler gives the io thread back to that handler.       *)
Resume(c) == IF c \in Nested THEN [io EXCEPT ![From[c]] = "handler"] ELSE io

(* record_latency raises before the pop: send_request raises to its caller  *)
(* and leaves its entry, with the reply, in _pending.                       *)
LatencyRaises(c) ==
  /\ pc[c] = "woken" /\ Raises(c)
  /\ pc' = [pc EXCEPT ![c] = "failed"]
  /\ io' = Resume(c)
  /\ UNCHANGED <<pending, slot, chan, current, handled, lifeVars, brokerVars>>

PopReply(c) ==
  /\ pc[c] = "woken" /\ ~Raises(c)
  /\ pc' = [pc EXCEPT ![c] = "answered"]
  /\ pending' = [pending EXCEPT ![From[c]] = @ \ {c}]
  /\ io' = Resume(c)
  /\ UNCHANGED <<slot, chan, current, handled, lifeVars, brokerVars>>

(* record_timeout follows the pop: what it raises leaves no entry behind.   *)
Outcome(c) == IF Raises(c) THEN "failed" ELSE "timedout"

(* Mutant: the request of a call that gives up is taken back.               *)
PopExpiredCancels(c) ==
  /\ pc[c] = "expired"
  /\ pc' = [pc EXCEPT ![c] = Outcome(c)]
  /\ pending' = [pending EXCEPT ![From[c]] = @ \ {c}]
  /\ slot' = [slot EXCEPT ![c] = None]
  /\ chan' = [chan EXCEPT ![<<"tx", From[c]>>] =
               SelectSeq(@, LAMBDA msg : msg # Request(c))]
  /\ io' = Resume(c)
  /\ UNCHANGED <<current, handled, lifeVars, brokerVars>>

(* Mutant: the caller returns without removing its entry.                   *)
ExpiredWithoutPop(c) ==
  /\ pc[c] = "expired"
  /\ pc' = [pc EXCEPT ![c] = Outcome(c)]
  /\ io' = Resume(c)
  /\ UNCHANGED <<pending, slot, chan, current, handled, lifeVars, brokerVars>>

PopExpired(c) ==
  /\ pc[c] = "expired"
  /\ pc' = [pc EXCEPT ![c] = Outcome(c)]
  /\ pending' = [pending EXCEPT ![From[c]] = @ \ {c}]
  /\ slot' = [slot EXCEPT ![c] = None]
  /\ io' = Resume(c)
  /\ UNCHANGED <<chan, current, handled, lifeVars, brokerVars>>

-----------------------------------------------------------------------------
(* The io thread: send all that is queued, poll for 10 ms, handle at most   *)
(* one message, look at _rr_running again.                                  *)

LoopTop(m) == IF running[m] THEN "drain" ELSE "exited"

(* Mutant: one message per turn of the loop.                                *)
IoSendOne(m) ==
  /\ io[m] = "drain" /\ chan[<<"tx", m>>] # << >>
  /\ Move("tx", m, "dealer", m)
  /\ io' = [io EXCEPT ![m] = "poll"]
  /\ UNCHANGED <<threadVars, current, handled, lifeVars, brokerVars>>

IoSend(m) ==
  /\ io[m] = "drain" /\ chan[<<"tx", m>>] # << >>
  /\ Move("tx", m, "dealer", m)
  /\ UNCHANGED <<threadVars, ioVars, lifeVars, brokerVars>>

IoDrained(m) ==
  /\ io[m] = "drain" /\ chan[<<"tx", m>>] = << >>
  /\ io' = [io EXCEPT ![m] = "poll"]
  /\ UNCHANGED <<threadVars, chan, current, handled, lifeVars, brokerVars>>

IoPollTimeout(m) ==
  /\ io[m] = "poll" /\ chan[<<"rx", m>>] = << >>
  /\ io' = [io EXCEPT ![m] = LoopTop(m)]
  /\ UNCHANGED <<threadVars, chan, current, handled, lifeVars, brokerVars>>

(* _handle_rr_frames: a pending correlation id wins over the type marker.   *)
Awaited(m, msg) == msg.cid \in pending[m]

(* Mutant: whatever is not awaited is a request, as before release 0.2.2.   *)
AnythingIsRequest(msg) == TRUE

(* Mutant: a node reply without a marker is not recognised.                 *)
UntypedIsRequest(msg) == msg.type \in {"request", "untyped"}

(* A message that is not awaited and that may be a request.                 *)
LooksLikeRequest(msg) ==
  \/ msg.type = "request"
  \/ msg.type = "untyped" /\ msg.src # NodeModule

(* Mutant: a reply answers any call that waits for its sender.              *)
AcceptReplyBySender(m) ==
  /\ io[m] = "poll" /\ chan[<<"rx", m>>] # << >>
  /\ LET msg == Head(chan[<<"rx", m>>]) IN
       \E c \in pending[m] :
         /\ To[c] = msg.src
         /\ slot' = [slot EXCEPT ![c] = msg]
  /\ Take("rx", m)
  /\ io' = [io EXCEPT ![m] = LoopTop(m)]
  /\ UNCHANGED <<pc, pending, current, handled, lifeVars, brokerVars>>

AcceptReply(m) ==
  /\ io[m] = "poll" /\ chan[<<"rx", m>>] # << >>
  /\ LET msg == Head(chan[<<"rx", m>>]) IN
       /\ Awaited(m, msg)
       /\ slot' = [slot EXCEPT ![msg.cid] = msg]
  /\ Take("rx", m)
  /\ io' = [io EXCEPT ![m] = LoopTop(m)]
  /\ UNCHANGED <<pc, pending, current, handled, lifeVars, brokerVars>>

DropMessage(m) ==
  /\ io[m] = "poll" /\ chan[<<"rx", m>>] # << >>
  /\ LET msg == Head(chan[<<"rx", m>>]) IN
       /\ ~Awaited(m, msg)
       /\ ~LooksLikeRequest(msg) \/ m \notin Handlers
  /\ Take("rx", m)
  /\ io' = [io EXCEPT ![m] = LoopTop(m)]
  /\ UNCHANGED <<threadVars, current, handled, lifeVars, brokerVars>>

Dispatch(m) ==
  /\ io[m] = "poll" /\ chan[<<"rx", m>>] # << >>
  /\ m \in Handlers
  /\ LET msg == Head(chan[<<"rx", m>>]) IN
       /\ ~Awaited(m, msg)
       /\ LooksLikeRequest(msg)
       /\ current' = [current EXCEPT ![m] = msg]
       /\ handled' = [handled EXCEPT ![msg.cid] = IF @ < 2 THEN @ + 1 ELSE 2]
  /\ Take("rx", m)
  /\ io' = [io EXCEPT ![m] = "handler"]
  /\ UNCHANGED <<threadVars, lifeVars, brokerVars>>

(* The handler returns or raises, as a nested call in it may: either way a  *)
(* reply is queued.                                                         *)
HandlerReturns(m) ==
  /\ io[m] = "handler"
  /\ Put("tx", m, Reply(m, current[m]))
  /\ current' = [current EXCEPT ![m] = None]
  /\ io' = [io EXCEPT ![m] = LoopTop(m)]
  /\ UNCHANGED <<threadVars, handled, lifeVars, brokerVars>>

(* The handler returns something that is no dict, or that json.dumps        *)
(* refuses: the exception leaves _handle_rr_frames and ends the io thread.  *)
HandlerBreaks(m) ==
  /\ io[m] = "handler" /\ m \in Fragile
  /\ current' = [current EXCEPT ![m] = None]
  /\ io' = [io EXCEPT ![m] = "dead"]
  /\ UNCHANGED <<threadVars, chan, handled, lifeVars, brokerVars>>

-----------------------------------------------------------------------------
(* stop() of an interface: the io thread is joined for at most one second,  *)
(* so the sockets may be closed under a handler that is still running.      *)

StopLoop(m) ==
  /\ m \in Stoppable /\ running[m]
  /\ running' = [running EXCEPT ![m] = FALSE]
  /\ UNCHANGED <<threadVars, chan, ioVars, closed, brokerVars>>

CloseSockets(m) ==
  /\ ~running[m] /\ m \notin closed
  /\ io[m] \notin {"drain", "poll"}
  /\ closed' = closed \cup {m}
  /\ chan' = [chan EXCEPT ![<<"dealer", m>>] = << >>, ![<<"rx", m>>] = << >>]
  /\ UNCHANGED <<threadVars, ioVars, running, brokerVars>>

-----------------------------------------------------------------------------
(* ZeroMQ.  It delivers in order and never twice; it reconnects by itself.  *)

Connect(m) ==
  /\ broker # "down" /\ m \notin connected \cup closed
  /\ connected' = connected \cup {m}
  /\ UNCHANGED <<threadVars, chan, ioVars, lifeVars, broker, stops>>

(* The ROUTER forgets a closed peer once it has read what that peer sent.   *)
Disconnect(m) ==
  /\ m \in connected \cap closed /\ chan[<<"routerIn", m>>] = << >>
  /\ connected' = connected \ {m}
  /\ chan' = [chan EXCEPT ![<<"routerOut", m>>] = << >>]
  /\ UNCHANGED <<threadVars, ioVars, lifeVars, broker, stops>>

Transmit(m) ==
  /\ m \in connected /\ chan[<<"dealer", m>>] # << >>
  /\ Move("dealer", m, "routerIn", m)
  /\ UNCHANGED <<threadVars, ioVars, lifeVars, brokerVars>>

Deliver(m) ==
  /\ m \in connected \ closed /\ chan[<<"routerOut", m>>] # << >>
  /\ Move("routerOut", m, "rx", m)
  /\ UNCHANGED <<threadVars, ioVars, lifeVars, brokerVars>>

-----------------------------------------------------------------------------
(* The central broker.                                                      *)

BrokerStart ==
  /\ broker = "down"
  /\ broker' \in BrokerKinds
  /\ UNCHANGED <<threadVars, chan, ioVars, lifeVars, connected, stops>>

BrokerStop ==
  /\ broker # "down" /\ stops < MaxStops
  /\ broker' = "down"
  /\ connected' = {}
  /\ chan' = [p \in Places |->
                IF p[1] \in {"routerIn", "routerOut"} THEN << >> ELSE chan[p]]
  /\ stops' = stops + 1
  /\ UNCHANGED <<threadVars, ioVars, lifeVars>>

Received(m) == broker # "ended" /\ m \in connected /\ chan[<<"routerIn", m>>] # << >>

Refused(m) == broker = "counting" /\ Odd(Head(chan[<<"routerIn", m>>]))

(* One turn of _loop.  ROUTER_MANDATORY makes the send to an unknown target *)
(* fail: the message is gone and its sender is not told.                    *)
Route(m) ==
  /\ Received(m) /\ ~Refused(m)
  /\ LET target == Head(chan[<<"routerIn", m>>]).dst IN
       IF target \in connected
       THEN Move("routerIn", m, "routerOut", target)
       ELSE Take("routerIn", m)
  /\ UNCHANGED <<threadVars, ioVars, lifeVars, brokerVars>>

(* A turn in which record_message raises: the message is lost, the thread   *)
(* ends, and the socket stays as it is until somebody stops the broker.     *)
RouteBreaks(m) ==
  /\ Received(m) /\ Refused(m)
  /\ Take("routerIn", m)
  /\ broker' = "ended"
  /\ UNCHANGED <<threadVars, ioVars, lifeVars, connected, stops>>

-----------------------------------------------------------------------------
(* What the thread of a call does once its request is queued.               *)
CallThread(c) ==
  \/ RegisterPending(c) \/ WaitDone(c) \/ WaitTimeout(c)
  \/ PopReply(c) \/ LatencyRaises(c) \/ PopExpired(c)

HandleFrames(m) == AcceptReply(m) \/ DropMessage(m) \/ Dispatch(m)

IoThread(m) ==
  IoSend(m) \/ IoDrained(m) \/ IoPollTimeout(m) \/ HandleFrames(m) \/ HandlerReturns(m)

Next ==
  \/ \E c \in Calls : SendRequest(c) \/ CallThread(c)
  \/ \E m \in Modules :
       \/ IoThread(m) \/ HandlerBreaks(m)
       \/ StopLoop(m) \/ CloseSockets(m)
       \/ Connect(m) \/ Disconnect(m) \/ Transmit(m) \/ Deliver(m)
       \/ Route(m) \/ RouteBreaks(m)
  \/ BrokerStart \/ BrokerStop

Spec == Init /\ [][Next]_vars

(* Threads keep running, event.wait ends at its timeout, handlers return,   *)
(* and ZeroMQ connects and delivers while the broker is up, whose thread    *)
(* goes on until it ends.  Nothing makes the broker start or an interface   *)
(* stop.                                                                    *)
Fairness ==
  /\ \A c \in Calls : WF_vars(CallThread(c))
  /\ \A m \in Modules :
       /\ WF_vars(IoThread(m))
       /\ WF_vars(Connect(m))
       /\ WF_vars(Transmit(m))
       /\ WF_vars(Deliver(m))
       /\ WF_vars(Route(m) \/ RouteBreaks(m))

FairSpec == Spec /\ Fairness

-----------------------------------------------------------------------------
TypeOK ==
  /\ pc \in [Calls -> {"idle", "queued", "waiting", "woken", "expired",
                       "answered", "timedout", "failed"}]
  /\ pending \in [Modules -> SUBSET Calls]
  /\ slot \in [Calls -> Message \cup {None}]
  /\ chan \in [Places -> Seq(Message)]
  /\ io \in [Modules -> {"drain", "poll", "handler", "nested", "exited", "dead"}]
  /\ current \in [Modules -> Message \cup {None}]
  /\ running \in [Modules -> BOOLEAN]
  /\ closed \subseteq Modules
  /\ broker \in {"down", "plain", "counting", "ended"}
  /\ connected \subseteq Modules
  /\ stops \in 0..MaxStops
  /\ handled \in [Calls -> 0..2]

(* Calls to another module, what send_request is documented for.            *)
RemoteCalls == {c \in Calls : From[c] # To[c]}

(* The _pending dictionaries hold exactly the calls between their           *)
(* registration and their pop, and the calls that raised once their reply   *)
(* had come: these, with a command that the caller's statistics refuse, are *)
(* the only ones that leak an entry.  And a call that was woken finds a     *)
(* reply in its entry, so pop(...)["reply"] neither raises KeyError nor     *)
(* hands None to the caller.                                                *)
Leaked(c) == pc[c] = "failed" /\ slot[c] # None

PendingConsistent ==
  /\ \A m \in Modules :
       pending[m] = {c \in Calls : /\ From[c] = m
                                   /\ pc[c] \in {"waiting", "woken", "expired"} \/ Leaked(c)}
  /\ \A c \in Calls :
       /\ pc[c] \in {"woken", "answered"} => slot[c] # None
       /\ pc[c] \in {"idle", "queued", "timedout"} => slot[c] = None
       /\ pc[c] = "failed" => Raises(c)

(* What a call to another module accepts as its reply was produced by a     *)
(* handler of the target, which worked on this very request: never another  *)
(* call's reply, never the echo of a request, whatever is late or lost.     *)
ReplyIntegrity ==
  \A c \in RemoteCalls : slot[c] # None =>
    /\ slot[c] = Reply(To[c], Request(c))
    /\ handled[c] = 1

(* A call to the caller's own name, as the heartbeat of the node, comes back *)
(* to its sender: either its echo is taken for the answer and no handler    *)
(* sees it, or it arrives too early or too late for that, is handled, and   *)
(* only the handler's reply can still answer it; never both.                *)
EchoOrHandled ==
  \A c \in Calls \ RemoteCalls : slot[c] # None =>
    \/ slot[c] = Request(c) /\ handled[c] = 0
    \/ slot[c] = Reply(To[c], Request(c)) /\ handled[c] = 1

(* A handler works only on requests made to its own module, and a request   *)
(* reaches a handler at most once, whatever reconnects or arrives late: a   *)
(* stale reply is never handled as if it were a new request.                *)
HandledAtMostOnce ==
  /\ \A c \in Calls : handled[c] <= 1
  /\ \A m \in Modules : current[m] # None =>
       /\ To[current[m].cid] = m
       /\ current[m] = Request(current[m].cid)

(* A handler that calls send_request on its own interface waits for the     *)
(* thread it runs on, so such a call is never answered and always times out.*)
NestedNeverAnswered ==
  \A c \in Nested : pc[c] \notin {"woken", "answered"} /\ slot[c] = None

(* The io thread empties _tx_queue before it takes the next message, so a   *)
(* finished reply never waits for another handler to return.                *)
IsReply(m, msg) == msg.dst = From[msg.cid] /\ msg.src = m /\ msg.src # From[msg.cid]

NoReplyWaitsForHandler ==
  \A m \in Modules : io[m] \in {"handler", "nested"} =>
    \A i \in DOMAIN chan[<<"tx", m>>] : ~IsReply(m, chan[<<"tx", m>>][i])

(* send_request returns or raises, whatever happens to the broker, to the   *)
(* target, to the io threads of either side or to the messages.             *)
Over(c) == pc[c] \in {"answered", "timedout", "failed"}

CallsReturn == \A c \in Calls : pc[c] = "queued" ~> Over(c)

(* A request that its sender has not put on the wire yet when both ends are *)
(* connected is handled in the end, unless a connection is lost or an io    *)
(* thread or the broker's ends: even if its caller has given up, for a      *)
(* timeout cancels nothing.                                                 *)
Unsent(c) == \E stage \in {"tx", "dealer"} :
  \E i \in DOMAIN chan[<<stage, From[c]>>] : chan[<<stage, From[c]>>][i] = Request(c)

Linked(c) == {From[c], To[c]} \subseteq connected

Broken(c) ==
  \/ ~Linked(c) \/ broker = "ended"
  \/ \E m \in {From[c], To[c]} : io[m] \in {"exited", "dead"}

RequestsHandled ==
  \A c \in {d \in RemoteCalls : To[d] \in Handlers} :
    (Unsent(c) /\ Linked(c)) ~> (handled[c] = 1 \/ Broken(c))

(* Once a call is over, its last message leaves the bus: what is late is    *)
(* handled once at most and then dropped, and not answered for ever between *)
(* two modules that take each other's replies for requests, as in the storm *)
(* of release 0.2.1 (CHANGELOG.md:19).                                      *)
Gone(c) ==
  /\ \A p \in Places : \A i \in DOMAIN chan[p] : chan[p][i].cid # c
  /\ \A m \in Modules : current[m] # None => current[m].cid # c

BusSettles ==
  \A c \in Calls : (Over(c) /\ Linked(c)) ~> (Gone(c) \/ Broken(c))

(* What send_request promises, see AtMostOnceCall: a call is open from the  *)
(* moment its request is queued until its entry is popped.                  *)
Promised(c) ==
  CASE pc[c] = "idle" -> "idle"
    [] pc[c] \in {"queued", "waiting", "woken", "expired"} -> "open"
    [] pc[c] = "answered" -> "answered"
    [] pc[c] = "timedout" -> "timedout"
    [] pc[c] = "failed" -> "failed"

Promise == INSTANCE AtMostOnceCall WITH
  Calls    <- RemoteCalls,
  MayFail  <- {c \in RemoteCalls : Raises(c)},
  status   <- [c \in RemoteCalls |-> Promised(c)],
  executed <- [c \in RemoteCalls |-> handled[c]]

(* Threads, queues, broker restarts and timeouts together give a call to    *)
(* another module at most one execution and an answer only after it.  That  *)
(* the call also returns is CallsReturn.                                    *)
ImplementsAtMostOnceCall == Promise!Spec

(* "Late or stale replies are now dropped when their correlationId is no    *)
(* longer pending" (CHANGELOG.md): a dropped reply is one whose call is over.*)
DroppedOnlyWhenLate ==
  [][\A c \in RemoteCalls :
       (/\ chan[<<"rx", From[c]>>] # << >>
        /\ Head(chan[<<"rx", From[c]>>]) = Reply(To[c], Request(c))
        /\ DropMessage(From[c])) => Over(c)]_vars

(* "Periodically notify the communication node that this module is alive"   *)
(* (_heartbeat_loop): a call, heartbeats of the node's own interface to the *)
(* node included, that gets an answer has reached the handler of its target.*)
AnsweredMeansHandled ==
  \A c \in Calls : pc[c] = "answered" => handled[c] = 1
=============================================================================
