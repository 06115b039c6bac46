------------------------------- MODULE PubSub -------------------------------
(***************************************************************************)
(* Publish/subscribe: BusInterface.publish and subscribe, its subscriber   *)
(* thread, and the TopicBroker between two interfaces.                     *)
(*                                                                         *)
(* ZeroMQ is external: a multipart message goes out frame by frame, the    *)
(* PUB side filters by topic prefix once it has learnt of a subscription,  *)
(* and pipes are FIFO and do not fill up.                                  *)
(***************************************************************************)
EXTENDS Naturals, Sequences, FiniteSets

CONSTANTS
  Interfaces,       (* instances of BusInterface                                *)
  Stoppable,        (* those that may stop                                      *)
  Topics,           (* the topics in use, and JSON                              *)
  Json,             (* stands for any payload where a topic is expected         *)
  Covers,           (* pairs <<t, u>>: the text of t is a prefix of that of u   *)
  Publications,     (* the invocations of publish                               *)
  Thread,           (* of a publication: the thread that calls publish          *)
  From,             (* of a publication: the interface                          *)
  Topic,            (* of a publication: its topic                              *)
  Unhashable,       (* publications with a payload whose command cannot be hashed *)
  Callbacks,        (* the invocations of subscribe                             *)
  At,               (* of a callback: the interface                             *)
  For,              (* of a callback: the topic it subscribes to                *)
  Garbled,          (* stands for a message nobody published                    *)
  Workloads,        (* bound: the sets of publications begun at some time       *)
  MaxStops          (* bound on how often the broker stops                      *)

ASSUME PublicationAssumption ==
  /\ \A p \in Publications : From[p] \in Interfaces /\ Topic[p] \in Topics
  /\ Garbled \notin Publications /\ IsFiniteSet(Publications)

ASSUME CallbackAssumption ==
  \A k \in Callbacks : At[k] \in Interfaces /\ For[k] \in Topics

ASSUME TopicAssumption == Json \in Topics /\ \A t \in Topics : <<t, t>> \in Covers

ASSUME StopAssumption == Stoppable \subseteq Interfaces /\ MaxStops \in Nat

VARIABLES
  pc,         (* of a publication: "idle", "half" sent, or "done"             *)
  open,       (* the message an interface's PUB socket has begun to send      *)
  joined,     (* whether that socket knows of a subscriber, the broker        *)
  up,         (* messages on their way from an interface to the broker        *)
  broker,     (* "down", "up", or "ended": bound, but its thread has ended    *)
  stops,      (* how often the broker has stopped                             *)
  log,        (* history: the messages the broker forwarded                   *)
  known,      (* the subscriptions of an interface that the broker knows of   *)
  down,       (* what is on its way to an interface: positions in the log     *)
  state,      (* of an interface: "running", "stopping" or "closed"           *)
  sub,        (* of a callback: "idle", "set" (the option), or "done"         *)
  callbacks,  (* _sub_callbacks of an interface, by topic                     *)
  loop,       (* the subscriber thread                                        *)
  hand,       (* the message it is working on, 0 for none                     *)
  next,       (* the place in the list of callbacks that comes next           *)
  at,         (* history: the message a callback was called with last         *)
  calls       (* history: how often a callback was called                     *)

publisherVars  == <<pc, open, joined, up>>
brokerVars     == <<broker, stops, log, known, down>>
subscriberVars == <<state, sub, callbacks, loop, hand, next, at, calls>>
vars == <<publisherVars, brokerVars, subscriberVars>>

Frame == [part : {"topic", "data"}, of : Publications]
Message == {frames \in Seq(Frame) :
              /\ frames # << >>
              /\ \A n \in 1..Len(frames) : frames[n].part = "data" <=> n = Len(frames)}
NoFrames == [frames |-> << >>, kept |-> FALSE]

(* The text that filters see in the first frame.                            *)
Heading(frames) ==
  IF frames[1].part = "topic" THEN Topic[frames[1].of] ELSE Json

Init ==
  /\ pc = [p \in Publications |-> "idle"]
  /\ open = [i \in Interfaces |-> NoFrames]
  /\ joined = [i \in Interfaces |-> FALSE]
  /\ up = [i \in Interfaces |-> << >>]
  /\ broker = "down" /\ stops = 0 /\ log = << >>
  /\ known = [i \in Interfaces |-> {}]
  /\ down = [i \in Interfaces |-> << >>]
  /\ state = [i \in Interfaces |-> "running"]
  /\ sub = [k \in Callbacks |-> "idle"]
  /\ callbacks = [x \in Interfaces \X Topics |-> << >>]
  /\ loop = [i \in Interfaces |-> "top"]
  /\ hand = [i \in Interfaces |-> 0]
  /\ next = [i \in Interfaces |-> 1]
  /\ at = [k \in Callbacks |-> 0]
  /\ calls = [k \in Callbacks |-> 0]

-----------------------------------------------------------------------------
(* publish(): send_multipart is a send per frame.  With the first frame of  *)
(* a message the PUB socket decides whether anybody gets it.                *)

Begun(i, frame) ==
  [frames |-> Append(open[i].frames, frame),
   kept   |-> IF open[i].frames = << >> THEN joined[i] ELSE open[i].kept]

Planned(p) == {q \in Publications : pc[q] # "idle"} \cup {p} \in Workloads

PublishTopic(p) ==
  /\ pc[p] = "idle" /\ Planned(p) /\ state[From[p]] = "running"
  /\ \A q \in Publications : Thread[q] = Thread[p] => pc[q] # "half"
  /\ pc' = [pc EXCEPT ![p] = "half"]
  /\ open' = [open EXCEPT ![From[p]] = Begun(From[p], [part |-> "topic", of |-> p])]
  /\ UNCHANGED <<joined, up, brokerVars, subscriberVars>>

(* Mutant: the end of a message is not marked, the next one continues it.   *)
PublishDataMore(p) ==
  LET i == From[p]
      message == Begun(i, [part |-> "data", of |-> p])
  IN  /\ pc[p] = "half" /\ state[i] # "closed"
      /\ pc' = [pc EXCEPT ![p] = "done"]
      /\ open' = [open EXCEPT ![i] = message]
      /\ up' = IF message.kept THEN [up EXCEPT ![i] = Append(@, message.frames)] ELSE up
      /\ UNCHANGED <<joined, brokerVars, subscriberVars>>

PublishData(p) ==
  LET i == From[p]
      message == Begun(i, [part |-> "data", of |-> p])
  IN  /\ pc[p] = "half" /\ state[i] # "closed"
      /\ pc' = [pc EXCEPT ![p] = "done"]
      /\ open' = [open EXCEPT ![i] = NoFrames]
      /\ up' = IF message.kept THEN [up EXCEPT ![i] = Append(@, message.frames)] ELSE up
      /\ UNCHANGED <<joined, brokerVars, subscriberVars>>

(* The subscription of the broker's SUB socket, to everything, arrives.  A  *)
(* connected PUB socket keeps it, and what it has to send, over restarts.   *)
Join(i) ==
  /\ broker # "down" /\ ~joined[i] /\ \E p \in Publications : From[p] = i
  /\ joined' = [joined EXCEPT ![i] = TRUE]
  /\ UNCHANGED <<pc, open, up, brokerVars, subscriberVars>>

-----------------------------------------------------------------------------
(* TopicBroker.                                                             *)

BrokerStart ==
  /\ broker = "down"
  /\ broker' = "up"
  /\ UNCHANGED <<publisherVars, stops, log, known, down, subscriberVars>>

(* With its sockets go the messages that have arrived and those that have   *)
(* not left, and what it knew of subscriptions.                             *)
BrokerStop ==
  /\ broker # "down" /\ stops < MaxStops
  /\ broker' = "down"
  /\ stops' = stops + 1
  /\ known' = [i \in Interfaces |-> {}]
  /\ \E lost \in [Interfaces -> 0..Cardinality(Publications)] :
       /\ \A i \in Interfaces : lost[i] <= Len(up[i])
       /\ up' = [i \in Interfaces |-> SubSeq(up[i], lost[i] + 1, Len(up[i]))]
  /\ \E left \in [Interfaces -> 0..Len(log)] :
       /\ \A i \in Interfaces : left[i] <= Len(down[i])
       /\ down' = [i \in Interfaces |-> SubSeq(down[i], 1, left[i])]
  /\ UNCHANGED <<pc, open, joined, log, subscriberVars>>

(* A turn of _run.  record_message raises TypeError, which _run does not    *)
(* catch, for a payload that has a list or a dict as its command.           *)
Breaks(frames) ==
  Len(frames) > 1 /\ frames[2].part = "data" /\ frames[2].of \in Unhashable

Wanted(i, frames) == \E t \in known[i] : <<t, Heading(frames)>> \in Covers

Route(i) ==
  /\ broker = "up" /\ up[i] # << >> /\ ~Breaks(Head(up[i]))
  /\ up' = [up EXCEPT ![i] = Tail(@)]
  /\ log' = Append(log, [frames |-> Head(up[i]), epoch |-> stops])
  /\ down' = [j \in Interfaces |->
                IF Wanted(j, Head(up[i])) THEN Append(down[j], Len(log) + 1) ELSE down[j]]
  /\ UNCHANGED <<pc, open, joined, broker, stops, known, subscriberVars>>

ThreadEnds(i) ==
  /\ broker = "up" /\ up[i] # << >> /\ Breaks(Head(up[i]))
  /\ up' = [up EXCEPT ![i] = Tail(@)]
  /\ broker' = "ended"
  /\ UNCHANGED <<pc, open, joined, stops, log, known, down, subscriberVars>>

(* The SUB socket of an interface tells the broker what it subscribes to.   *)
Learn(k) ==
  /\ broker # "down" /\ sub[k] # "idle" /\ state[At[k]] # "closed"
  /\ For[k] \notin known[At[k]]
  /\ known' = [known EXCEPT ![At[k]] = @ \cup {For[k]}]
  /\ UNCHANGED <<publisherVars, broker, stops, log, down, subscriberVars>>

-----------------------------------------------------------------------------
(* subscribe(): the socket option first, then the list of callbacks.        *)

SetOption(k) ==
  /\ sub[k] = "idle" /\ state[At[k]] = "running"
  /\ sub' = [sub EXCEPT ![k] = "set"]
  /\ UNCHANGED <<publisherVars, brokerVars, state, callbacks, loop, hand, next, at, calls>>

AddCallback(k) ==
  /\ sub[k] = "set"
  /\ sub' = [sub EXCEPT ![k] = "done"]
  /\ callbacks' = [callbacks EXCEPT ![<<At[k], For[k]>>] = Append(@, k)]
  /\ UNCHANGED <<publisherVars, brokerVars, state, loop, hand, next, at, calls>>

-----------------------------------------------------------------------------
(* _sub_loop.                                                               *)

LoopTop(i) ==
  /\ loop[i] = "top" /\ \E k \in Callbacks : At[k] = i
  /\ loop' = [loop EXCEPT ![i] = IF state[i] = "running" THEN "poll" ELSE "ended"]
  /\ UNCHANGED <<publisherVars, brokerVars, state, sub, callbacks, hand, next, at, calls>>

(* Mutant: a poll without a message ends the loop instead of the turn.      *)
PollTimeoutBreaks(i) ==
  /\ loop[i] = "poll" /\ down[i] = << >>
  /\ loop' = [loop EXCEPT ![i] = "ended"]
  /\ UNCHANGED <<publisherVars, brokerVars, state, sub, callbacks, hand, next, at, calls>>

PollTimeout(i) ==
  /\ loop[i] = "poll" /\ down[i] = << >>
  /\ loop' = [loop EXCEPT ![i] = "top"]
  /\ UNCHANGED <<publisherVars, brokerVars, state, sub, callbacks, hand, next, at, calls>>

(* A message that is not two frames cannot be unpacked: the thread ends.    *)
Receive(i) ==
  /\ loop[i] = "poll" /\ down[i] # << >>
  /\ down' = [down EXCEPT ![i] = Tail(@)]
  /\ hand' = [hand EXCEPT ![i] = Head(down[i])]
  /\ loop' = [loop EXCEPT ![i] =
                IF Len(log[Head(down[i])].frames) = 2 THEN "calling" ELSE "ended"]
  /\ UNCHANGED <<publisherVars, broker, stops, log, known, state, sub, callbacks, next,
                 at, calls>>

(* Mutant: the list of the first subscription that matches.                 *)
ListenersByPrefix(i) ==
  callbacks[<<i, CHOOSE t \in Topics : <<t, Heading(log[hand[i]].frames)>> \in Covers>>]

(* The live list of the exact topic, not of the topics that match it.       *)
Listeners(i) == callbacks[<<i, Heading(log[hand[i]].frames)>>]

(* Mutant: an exception in a callback ends the work on the message.         *)
CallOrGiveUp(i) ==
  /\ loop[i] = "calling" /\ next[i] <= Len(Listeners(i))
  /\ at' = [at EXCEPT ![Listeners(i)[next[i]]] = hand[i]]
  /\ calls' = [calls EXCEPT ![Listeners(i)[next[i]]] = @ + 1]
  /\ next' = [next EXCEPT ![i] = @ + 1]
  /\ loop' \in {loop, [loop EXCEPT ![i] = "top"]}
  /\ UNCHANGED <<publisherVars, brokerVars, state, sub, callbacks, hand>>

(* A callback may raise: the loop logs it and goes on.                      *)
Call(i) ==
  /\ loop[i] = "calling" /\ next[i] <= Len(Listeners(i))
  /\ at' = [at EXCEPT ![Listeners(i)[next[i]]] = hand[i]]
  /\ calls' = [calls EXCEPT ![Listeners(i)[next[i]]] = @ + 1]
  /\ next' = [next EXCEPT ![i] = @ + 1]
  /\ UNCHANGED <<publisherVars, brokerVars, state, sub, callbacks, loop, hand>>

CallsDone(i) ==
  /\ loop[i] = "calling" /\ next[i] > Len(Listeners(i))
  /\ loop' = [loop EXCEPT ![i] = "top"]
  /\ hand' = [hand EXCEPT ![i] = 0]
  /\ next' = [next EXCEPT ![i] = 1]
  /\ UNCHANGED <<publisherVars, brokerVars, state, sub, callbacks, at, calls>>

(* stop(): the flag; then, after a join that only a callback outlasts, the  *)
(* sockets, which discard what they have not sent.                          *)
Stop(i) ==
  /\ i \in Stoppable /\ state[i] = "running"
  /\ state' = [state EXCEPT ![i] = "stopping"]
  /\ UNCHANGED <<publisherVars, brokerVars, sub, callbacks, loop, hand, next, at, calls>>

CloseSockets(i) ==
  /\ state[i] = "stopping" /\ loop[i] \in {"ended", "calling"}
  /\ state' = [state EXCEPT ![i] = "closed"]
  /\ \E n \in 0..Len(up[i]) : up' = [up EXCEPT ![i] = SubSeq(@, 1, n)]
  /\ open' = [open EXCEPT ![i] = NoFrames]
  /\ down' = [down EXCEPT ![i] = << >>]
  /\ known' = [known EXCEPT ![i] = {}]
  /\ UNCHANGED <<pc, joined, broker, stops, log, sub, callbacks, loop, hand, next, at, calls>>

-----------------------------------------------------------------------------
SubThread(i) == LoopTop(i) \/ PollTimeout(i) \/ Receive(i) \/ Call(i) \/ CallsDone(i)

Broker == \E i \in Interfaces : Route(i) \/ ThreadEnds(i)

Next ==
  \/ \E p \in Publications : PublishTopic(p) \/ PublishData(p)
  \/ \E k \in Callbacks : SetOption(k) \/ AddCallback(k) \/ Learn(k)
  \/ \E i \in Interfaces : Join(i) \/ SubThread(i) \/ Stop(i) \/ CloseSockets(i)
  \/ BrokerStart \/ BrokerStop \/ Broker

Spec == Init /\ [][Next]_vars

(* The subscriber threads run, and the broker takes from its publishers in  *)
(* turn.  Nobody has to publish, to subscribe, or to start a broker.        *)
FairSpec ==
  /\ Spec
  /\ \A i \in Interfaces : WF_vars(SubThread(i)) /\ WF_vars(Route(i) \/ ThreadEnds(i))

-----------------------------------------------------------------------------
TypeOK ==
  /\ pc \in [Publications -> {"idle", "half", "done"}]
  /\ open \in [Interfaces -> [frames : Seq(Frame), kept : BOOLEAN]]
  /\ joined \in [Interfaces -> BOOLEAN]
  /\ up \in [Interfaces -> Seq(Message)]
  /\ broker \in {"down", "up", "ended"}
  /\ stops \in 0..MaxStops
  /\ log \in Seq([frames : Message, epoch : 0..MaxStops])
  /\ known \in [Interfaces -> SUBSET Topics]
  /\ down \in [Interfaces -> Seq(1..Len(log))]
  /\ state \in [Interfaces -> {"running", "stopping", "closed"}]
  /\ sub \in [Callbacks -> {"idle", "set", "done"}]
  /\ callbacks \in [Interfaces \X Topics -> Seq(Callbacks)]
  /\ loop \in [Interfaces -> {"top", "poll", "calling", "ended"}]
  /\ hand \in [Interfaces -> 0..Len(log)]
  /\ next \in [Interfaces -> Nat]
  /\ at \in [Callbacks -> 0..Len(log)]
  /\ calls \in [Callbacks -> Nat]

(* What a callback is called with is what somebody published on the topic   *)
(* it is called for: frames of two publications are not mixed.              *)
DeliveredAsPublished ==
  \A k \in Callbacks : at[k] # 0 =>
    LET frames == log[at[k]].frames
    IN  Topic[frames[1].of] = For[k] /\ frames[2].of = frames[1].of

(* A callback misses no publication on its topic between two that it hears, *)
(* unless the broker was restarted between them.                            *)
NoGaps ==
  [][\A k \in Callbacks :
       at[k] \notin {0, at'[k]} /\ log[at[k]].epoch = log[at'[k]].epoch =>
         \A n \in (at[k] + 1)..(at'[k] - 1) : Heading(log[n].frames) # For[k]]_vars

Listening(k) ==
  sub[k] = "done" /\ For[k] \in known[At[k]] /\ state[At[k]] = "running"

Sent(p) ==
  \E n \in 1..Len(up[From[p]]) : up[From[p]][n][1].of = p

Heard(p, k) ==
  \E n \in 1..at[k] : log[n].frames[1].of = p

(* Once the broker knows of a subscription whose callback is in the list,   *)
(* the callback hears everything that is sent on its topic, unless the      *)
(* broker ends, or one of the two interfaces stops.                         *)
Delivered ==
  \A p \in Publications, k \in Callbacks :
    Topic[p] = For[k] =>
      (Sent(p) /\ Listening(k) /\ broker = "up")
        ~> (Heard(p, k) \/ ~Listening(k) \/ broker # "up" \/ state[From[p]] = "closed")

(* What arrives at callbacks is a Feed of the messages the broker forwards. *)
Whole(message) ==
  LET frames == message.frames
  IN  IF Len(frames) = 2 /\ frames[1].of = frames[2].of THEN frames[1].of ELSE Garbled

F == INSTANCE Feed WITH log <- [n \in 1..Len(log) |-> Whole(log[n])]

ImplementsFeed == F!Spec
=============================================================================
