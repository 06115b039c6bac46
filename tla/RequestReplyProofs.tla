------------------------- MODULE RequestReplyProofs -------------------------
(***************************************************************************)
(* Theorems about RequestReply, for every set of modules and calls, and    *)
(* every number of broker restarts.                                        *)
(***************************************************************************)
EXTENDS RequestReply, SequenceTheorems, TLAPS

-----------------------------------------------------------------------------
(* What the helpers build and what the queue operations preserve.           *)

LEMMA RequestIsMessage ==
  ASSUME NEW c \in Calls
  PROVE  Request(c) \in Message
BY CallAssumption DEF Request, TypeOf, Message

LEMMA ReplyIsMessage ==
  ASSUME NEW m \in Modules, NEW msg \in Message
  PROVE  Reply(m, msg) \in Message
BY DEF Reply, TypeOf, Message

Queues == chan \in [Places -> Seq(Message)]

LEMMA EmptyQueue == << >> \in Seq(Message)
OBVIOUS

LEMMA PlaceIsPair ==
  ASSUME NEW stage \in Stages, NEW m \in Modules
  PROVE  <<stage, m>> \in Places
BY DEF Places

LEMMA PutKeepsQueues ==
  ASSUME NEW stage \in Stages, NEW m \in Modules, NEW msg \in Message,
         Queues, Put(stage, m, msg)
  PROVE  Queues'
<1>1. Append(chan[<<stage, m>>], msg) \in Seq(Message)
  BY PlaceIsPair DEF Queues
<1> QED BY <1>1 DEF Queues, Put

LEMMA TakeKeepsQueues ==
  ASSUME NEW stage \in Stages, NEW m \in Modules, Queues,
         chan[<<stage, m>>] # << >>, Take(stage, m)
  PROVE  Queues'
<1>1. Tail(chan[<<stage, m>>]) \in Seq(Message)
  BY PlaceIsPair DEF Queues
<1> QED BY <1>1 DEF Queues, Take

LEMMA HeadIsMessage ==
  ASSUME NEW stage \in Stages, NEW m \in Modules, Queues, chan[<<stage, m>>] # << >>
  PROVE  Head(chan[<<stage, m>>]) \in Message
BY PlaceIsPair DEF Queues

LEMMA MoveKeepsQueues ==
  ASSUME NEW stage \in Stages, NEW m \in Modules, NEW stage2 \in Stages,
         NEW m2 \in Modules, stage # stage2, Queues,
         chan[<<stage, m>>] # << >>, Move(stage, m, stage2, m2)
  PROVE  Queues'
<1>1. Tail(chan[<<stage, m>>]) \in Seq(Message)
  BY PlaceIsPair DEF Queues
<1>2. Append(chan[<<stage2, m2>>], Head(chan[<<stage, m>>])) \in Seq(Message)
  BY PlaceIsPair, HeadIsMessage DEF Queues
<1>3. <<stage, m>> # <<stage2, m2>>
  OBVIOUS
<1> QED BY <1>1, <1>2, <1>3 DEF Queues, Move

-----------------------------------------------------------------------------
(* The io thread and the handler it runs.  A module has a request in hand   *)
(* exactly while its io thread is inside the handler, and a nested call in  *)
(* progress is what the io thread of its module waits for.                  *)
InProgress(c) == pc[c] \in {"queued", "waiting", "woken", "expired"}

HandlerInv ==
  /\ \A m \in Modules : current[m] # None <=> io[m] \in {"handler", "nested"}
  /\ \A c \in Nested : InProgress(c) => io[From[c]] = "nested"
  /\ \A c, d \in Nested : InProgress(c) /\ InProgress(d) /\ From[c] = From[d] => c = d

-----------------------------------------------------------------------------
LEMMA TypeInitially == Init => TypeOK
<1> SUFFICES ASSUME Init PROVE TypeOK
  OBVIOUS
<1>1. Queues
  BY EmptyQueue DEF Init, Queues
<1>2. stops \in 0..MaxStops
  BY ModuleAssumption DEF Init
<1> QED BY <1>1, <1>2 DEF Init, TypeOK, Queues

LEMMA TypePreserved == TypeOK /\ HandlerInv /\ [Next]_vars => TypeOK'
<1> SUFFICES ASSUME TypeOK, HandlerInv, [Next]_vars PROVE TypeOK'
  OBVIOUS
<1> USE DEF TypeOK, threadVars, ioVars, lifeVars, brokerVars
<1>1. CASE UNCHANGED vars
  BY <1>1 DEF vars
<1>2. ASSUME NEW c \in Calls, SendRequest(c) PROVE TypeOK'
  <2>1. Queues'
    BY <1>2, RequestIsMessage, PutKeepsQueues, CallAssumption
    DEF SendRequest, Queues, Stages
  <2> QED BY <1>2, <2>1, CallAssumption DEF SendRequest, Queues
<1>3. ASSUME NEW c \in Calls, CallThread(c) PROVE TypeOK'
  <2>1. From[c] \in Modules
    BY CallAssumption
  <2>2. CASE RegisterPending(c)
    BY <2>1, <2>2 DEF RegisterPending
  <2>3. CASE WaitDone(c) \/ WaitTimeout(c)
    BY <2>3 DEF WaitDone, WaitTimeout
  <2>4. CASE PopReply(c)
    BY <2>1, <2>4 DEF PopReply, Resume
  <2>5. CASE LatencyRaises(c)
    BY <2>1, <2>5 DEF LatencyRaises, Resume
  <2>6. CASE PopExpired(c)
    BY <2>1, <2>6 DEF PopExpired, Resume, Outcome
  <2> QED BY <1>3, <2>2, <2>3, <2>4, <2>5, <2>6 DEF CallThread
<1>4. ASSUME NEW m \in Modules, IoSend(m) PROVE TypeOK'
  <2>1. Queues'
    BY <1>4, MoveKeepsQueues DEF IoSend, Queues, Stages
  <2> QED BY <1>4, <2>1 DEF IoSend, Queues
<1>5. ASSUME NEW m \in Modules, IoDrained(m) \/ IoPollTimeout(m) PROVE TypeOK'
  BY <1>5 DEF IoDrained, IoPollTimeout, LoopTop
<1>6. ASSUME NEW m \in Modules, HandleFrames(m) PROVE TypeOK'
  <2>1. "rx" \in Stages /\ chan[<<"rx", m>>] # << >> /\ Take("rx", m)
    BY <1>6 DEF HandleFrames, AcceptReply, DropMessage, Dispatch, Stages
  <2>2. Queues' /\ Head(chan[<<"rx", m>>]) \in Message
    BY <2>1, TakeKeepsQueues, HeadIsMessage DEF Queues
  <2>3. Head(chan[<<"rx", m>>]).cid \in Calls
    BY <2>2 DEF Message
  <2>4. CASE AcceptReply(m)
    BY <2>2, <2>3, <2>4 DEF AcceptReply, LoopTop, Queues
  <2>5. CASE DropMessage(m)
    BY <2>2, <2>5 DEF DropMessage, LoopTop, Queues
  <2>6. CASE Dispatch(m)
    <3>1. \A n \in 0..2 : (IF n < 2 THEN n + 1 ELSE 2) \in 0..2
      OBVIOUS
    <3>2. \E v \in 0..2 : handled' = [handled EXCEPT ![Head(chan[<<"rx", m>>]).cid] = v]
      BY <2>3, <2>6, <3>1 DEF Dispatch
    <3>3. handled' \in [Calls -> 0..2]
      BY <2>3, <3>2
    <3> QED BY <2>2, <2>3, <2>6, <3>3 DEF Dispatch, Queues
  <2> QED BY <1>6, <2>4, <2>5, <2>6 DEF HandleFrames
<1>7. ASSUME NEW m \in Modules, HandlerReturns(m) PROVE TypeOK'
  <2>1. current[m] \in Message
    BY <1>7 DEF HandlerReturns, HandlerInv
  <2>2. Queues'
    BY <1>7, <2>1, ReplyIsMessage, PutKeepsQueues DEF HandlerReturns, Queues, Stages
  <2> QED BY <1>7, <2>2 DEF HandlerReturns, LoopTop, Queues
<1>8. ASSUME NEW m \in Modules, HandlerBreaks(m) \/ StopLoop(m) \/ Connect(m)
      PROVE TypeOK'
  BY <1>8 DEF HandlerBreaks, StopLoop, Connect
<1>9. ASSUME NEW m \in Modules, CloseSockets(m) PROVE TypeOK'
  <2>1. Queues'
    BY <1>9, EmptyQueue DEF CloseSockets, Queues
  <2> QED BY <1>9, <2>1 DEF CloseSockets, Queues
<1>10. ASSUME NEW m \in Modules, Disconnect(m) PROVE TypeOK'
  <2>1. Queues'
    BY <1>10, EmptyQueue DEF Disconnect, Queues
  <2> QED BY <1>10, <2>1 DEF Disconnect, Queues
<1>11. ASSUME NEW m \in Modules, Transmit(m) PROVE TypeOK'
  <2>1. Queues'
    BY <1>11, MoveKeepsQueues DEF Transmit, Queues, Stages
  <2> QED BY <1>11, <2>1 DEF Transmit, Queues
<1>12. ASSUME NEW m \in Modules, Deliver(m) PROVE TypeOK'
  <2>1. Queues'
    BY <1>12, MoveKeepsQueues DEF Deliver, Queues, Stages
  <2> QED BY <1>12, <2>1 DEF Deliver, Queues
<1>13. ASSUME NEW m \in Modules, Route(m) PROVE TypeOK'
  <2> DEFINE target == Head(chan[<<"routerIn", m>>]).dst
  <2>1. "routerIn" \in Stages /\ "routerOut" \in Stages /\ chan[<<"routerIn", m>>] # << >>
    BY <1>13 DEF Route, Received, Stages
  <2>2. target \in Modules
    BY <2>1, HeadIsMessage DEF Queues, Message
  <2>3. Queues'
    BY <1>13, <2>1, <2>2, MoveKeepsQueues, TakeKeepsQueues DEF Route, Queues
  <2> QED BY <1>13, <2>3 DEF Route, Queues
<1>14. ASSUME NEW m \in Modules, RouteBreaks(m) PROVE TypeOK'
  <2>1. Queues'
    BY <1>14, TakeKeepsQueues DEF RouteBreaks, Received, Queues, Stages
  <2> QED BY <1>14, <2>1 DEF RouteBreaks, Queues
<1>15. CASE BrokerStart
  BY <1>15, ModuleAssumption DEF BrokerStart
<1>16. CASE BrokerStop
  <2>1. Queues'
    BY <1>16, EmptyQueue DEF BrokerStop, Queues
  <2>2. stops' \in 0..MaxStops
    BY <1>16, ModuleAssumption DEF BrokerStop
  <2> QED BY <1>16, <2>1, <2>2 DEF BrokerStop, Queues
<1> QED
  BY <1>1, <1>2, <1>3, <1>4, <1>5, <1>6, <1>7, <1>8, <1>9, <1>10, <1>11, <1>12,
     <1>13, <1>14, <1>15, <1>16
  DEF Next, IoThread

-----------------------------------------------------------------------------
LEMMA HandlerInitially == Init => HandlerInv
BY CallAssumption DEF Init, HandlerInv, InProgress

LEMMA HandlerPreserved == TypeOK /\ HandlerInv /\ [Next]_vars => HandlerInv'
<1> SUFFICES ASSUME TypeOK, HandlerInv, [Next]_vars PROVE HandlerInv'
  OBVIOUS
<1> USE CallAssumption DEF TypeOK, HandlerInv, InProgress, threadVars, ioVars
<1>1. CASE UNCHANGED vars
  BY <1>1 DEF vars
<1>2. ASSUME NEW c \in Calls, SendRequest(c) PROVE HandlerInv'
  <2>1. From[c] \in Modules /\ ~InProgress(c) /\ current' = current
    BY <1>2 DEF SendRequest
  <2>2. \A d \in Calls : d # c => (InProgress(d)' <=> InProgress(d))
    BY <1>2 DEF SendRequest
  <2>3. CASE c \in Nested
    <3>1. io[From[c]] = "handler" /\ io' = [io EXCEPT ![From[c]] = "nested"]
      BY <1>2, <2>3 DEF SendRequest
    <3>2. \A d \in Nested : InProgress(d) => From[d] # From[c]
      BY <3>1
    <3> QED BY <2>1, <2>2, <3>1, <3>2
  <2>4. CASE c \notin Nested
    BY <1>2, <2>1, <2>2, <2>4 DEF SendRequest
  <2> QED BY <2>3, <2>4
<1>3. ASSUME NEW c \in Calls,
             RegisterPending(c) \/ WaitDone(c) \/ WaitTimeout(c)
      PROVE HandlerInv'
  <2>1. io' = io /\ current' = current
    BY <1>3 DEF RegisterPending, WaitDone, WaitTimeout
  <2>2. \A d \in Calls : InProgress(d)' <=> InProgress(d)
    BY <1>3 DEF RegisterPending, WaitDone, WaitTimeout
  <2> QED BY <2>1, <2>2
<1>4. ASSUME NEW c \in Calls, PopReply(c) \/ LatencyRaises(c) \/ PopExpired(c)
      PROVE HandlerInv'
  <2>1. /\ InProgress(c) /\ ~InProgress(c)'
        /\ From[c] \in Modules /\ io' = Resume(c) /\ current' = current
    BY <1>4 DEF PopReply, LatencyRaises, PopExpired, Outcome
  <2>2. \A d \in Calls : d # c => (InProgress(d)' <=> InProgress(d))
    BY <1>4 DEF PopReply, LatencyRaises, PopExpired, Outcome
  <2>3. CASE c \in Nested
    <3>1. io[From[c]] = "nested" /\ \A d \in Nested \ {c} : InProgress(d) => From[d] # From[c]
      BY <2>1, <2>3
    <3> QED BY <2>1, <2>2, <2>3, <3>1 DEF Resume
  <2>4. CASE c \notin Nested
    BY <2>1, <2>2, <2>4 DEF Resume
  <2> QED BY <2>3, <2>4
<1>5. ASSUME NEW m \in Modules,
             \/ IoSend(m) \/ IoDrained(m) \/ IoPollTimeout(m)
             \/ AcceptReply(m) \/ DropMessage(m)
      PROVE HandlerInv'
  <2>1. pc' = pc /\ current' = current
    BY <1>5 DEF IoSend, IoDrained, IoPollTimeout, AcceptReply, DropMessage
  <2>2. \/ io' = io
        \/ /\ io[m] \notin {"handler", "nested"}
           /\ io'[m] \notin {"handler", "nested"}
           /\ \A m2 \in Modules \ {m} : io'[m2] = io[m2]
    BY <1>5 DEF IoSend, IoDrained, IoPollTimeout, AcceptReply, DropMessage, LoopTop
  <2> QED BY <2>1, <2>2
<1>6. ASSUME NEW m \in Modules, Dispatch(m) PROVE HandlerInv'
  <2>1. Head(chan[<<"rx", m>>]) # None
    BY <1>6, HeadIsMessage, ModuleAssumption DEF Dispatch, Queues, Stages
  <2> QED BY <1>6, <2>1 DEF Dispatch
<1>7. ASSUME NEW m \in Modules, HandlerReturns(m) \/ HandlerBreaks(m) PROVE HandlerInv'
  <2>1. /\ pc' = pc /\ io[m] = "handler"
        /\ current' = [current EXCEPT ![m] = None]
    BY <1>7 DEF HandlerReturns, HandlerBreaks
  <2>2. /\ io'[m] \notin {"handler", "nested"}
        /\ \A m2 \in Modules \ {m} : io'[m2] = io[m2]
    BY <1>7 DEF HandlerReturns, HandlerBreaks, LoopTop
  <2> QED BY <2>1, <2>2
<1>8. ASSUME NEW m \in Modules,
             \/ StopLoop(m) \/ CloseSockets(m) \/ Connect(m) \/ Disconnect(m)
             \/ Transmit(m) \/ Deliver(m) \/ Route(m) \/ RouteBreaks(m)
      PROVE HandlerInv'
  BY <1>8
  DEF StopLoop, CloseSockets, Connect, Disconnect, Transmit, Deliver, Route, RouteBreaks
<1>9. CASE BrokerStart \/ BrokerStop
  BY <1>9 DEF BrokerStart, BrokerStop
<1> QED
  BY <1>1, <1>2, <1>3, <1>4, <1>5, <1>6, <1>7, <1>8, <1>9
  DEF Next, CallThread, IoThread, HandleFrames

LEMMA ThreadsConsistent == Spec => [](TypeOK /\ HandlerInv)
<1>1. Init => TypeOK /\ HandlerInv
  BY TypeInitially, HandlerInitially
<1>2. TypeOK /\ HandlerInv /\ [Next]_vars => (TypeOK /\ HandlerInv)'
  BY TypePreserved, HandlerPreserved
<1> QED BY <1>1, <1>2, PTL DEF Spec

(* Every variable keeps its type: no step queues, stores or hands to a      *)
(* handler anything but a message of a known module about a known call.     *)
THEOREM TypeCorrect == Spec => []TypeOK
BY ThreadsConsistent, PTL

-----------------------------------------------------------------------------
(* The _pending dictionaries.                                               *)

LEMMA PendingInitially == Init => PendingConsistent
BY DEF Init, PendingConsistent, Leaked

LEMMA PendingPreserved ==
  TypeOK /\ PendingConsistent /\ [Next]_vars => PendingConsistent'
<1> SUFFICES ASSUME TypeOK, PendingConsistent, [Next]_vars PROVE PendingConsistent'
  OBVIOUS
<1> USE CallAssumption DEF PendingConsistent, Leaked, threadVars
<1>0. pc \in [Calls -> {"idle", "queued", "waiting", "woken", "expired", "answered",
                       "timedout", "failed"}]
      /\ pending \in [Modules -> SUBSET Calls]
      /\ slot \in [Calls -> Message \cup {None}]
  BY DEF TypeOK
<1>1. CASE UNCHANGED threadVars
  BY <1>1
<1>2. ASSUME NEW c \in Calls, SendRequest(c) PROVE PendingConsistent'
  BY <1>0, <1>2 DEF SendRequest
<1>3. ASSUME NEW c \in Calls, RegisterPending(c) PROVE PendingConsistent'
  BY <1>0, <1>3 DEF RegisterPending
<1>4. ASSUME NEW c \in Calls, WaitDone(c) \/ WaitTimeout(c) PROVE PendingConsistent'
  BY <1>0, <1>4 DEF WaitDone, WaitTimeout
<1>5. ASSUME NEW c \in Calls, PopReply(c) PROVE PendingConsistent'
  BY <1>0, <1>5 DEF PopReply
<1>6. ASSUME NEW c \in Calls, PopExpired(c) PROVE PendingConsistent'
  BY <1>0, <1>6 DEF PopExpired, Outcome, Raises
<1>7. ASSUME NEW c \in Calls, LatencyRaises(c) PROVE PendingConsistent'
  BY <1>0, <1>7 DEF LatencyRaises, Raises
<1>8. ASSUME NEW m \in Modules, AcceptReply(m) PROVE PendingConsistent'
  <2> DEFINE msg == Head(chan[<<"rx", m>>])
  <2>1. msg \in Message /\ msg # None
    BY <1>8, HeadIsMessage, ModuleAssumption DEF AcceptReply, TypeOK, Queues, Stages
  <2>2. msg.cid \in pending[m] /\ slot' = [slot EXCEPT ![msg.cid] = msg]
    BY <1>8 DEF AcceptReply, Awaited
  <2>3. pc' = pc /\ pending' = pending
    BY <1>8 DEF AcceptReply
  <2>4. /\ msg.cid \in Calls
        /\ pc[msg.cid] \in {"waiting", "woken", "expired"} \/ Leaked(msg.cid)
    BY <2>2
  <2> QED BY <1>0, <2>1, <2>2, <2>3, <2>4
<1>9. ASSUME NEW m \in Modules,
             \/ IoThread(m) /\ ~AcceptReply(m)
             \/ HandlerBreaks(m) \/ StopLoop(m) \/ CloseSockets(m)
             \/ Connect(m) \/ Disconnect(m) \/ Transmit(m) \/ Deliver(m)
             \/ Route(m) \/ RouteBreaks(m)
      PROVE UNCHANGED threadVars
  BY <1>9
  DEF IoThread, IoSend, IoDrained, IoPollTimeout, HandleFrames, DropMessage, Dispatch,
      HandlerReturns, HandlerBreaks, StopLoop, CloseSockets, Connect, Disconnect,
      Transmit, Deliver, Route, RouteBreaks
<1>10. BrokerStart \/ BrokerStop \/ UNCHANGED vars => UNCHANGED threadVars
  BY DEF BrokerStart, BrokerStop, vars
<1> QED
  BY <1>1, <1>2, <1>3, <1>4, <1>5, <1>6, <1>7, <1>8, <1>9, <1>10 DEF Next, CallThread

(* An entry leaks only if record_latency raises, once the reply has come;   *)
(* and no caller finds its entry gone or empty.                             *)
THEOREM PendingCorrect == Spec => []PendingConsistent
<1>1. TypeOK /\ PendingConsistent /\ [Next]_vars => PendingConsistent'
  BY PendingPreserved
<1> QED BY <1>1, PendingInitially, ThreadsConsistent, PTL DEF Spec

-----------------------------------------------------------------------------
LEMMA NestedPreserved ==
  TypeOK /\ HandlerInv /\ PendingConsistent /\ NestedNeverAnswered /\ [Next]_vars
    => NestedNeverAnswered'
<1> SUFFICES ASSUME TypeOK, HandlerInv, PendingConsistent, NestedNeverAnswered, [Next]_vars,
                    NEW c \in Nested
             PROVE  (pc[c] \notin {"woken", "answered"} /\ slot[c] = None)'
  BY DEF NestedNeverAnswered
<1> USE CallAssumption DEF threadVars
<1>0. c \in Calls /\ pc[c] \notin {"woken", "answered"} /\ slot[c] = None
      /\ pc \in [Calls -> {"idle", "queued", "waiting", "woken", "expired", "answered",
                       "timedout", "failed"}]
      /\ slot \in [Calls -> Message \cup {None}]
  BY DEF TypeOK, NestedNeverAnswered
<1>1. ASSUME NEW d \in Calls, SendRequest(d) \/ CallThread(d)
      PROVE  (pc[c] \notin {"woken", "answered"} /\ slot[c] = None)'
  BY <1>0, <1>1
  DEF SendRequest, CallThread, RegisterPending, WaitDone, WaitTimeout, PopReply,
      LatencyRaises, PopExpired, Outcome
<1>2. ASSUME NEW m \in Modules, AcceptReply(m)
      PROVE  (pc[c] \notin {"woken", "answered"} /\ slot[c] = None)'
  <2> DEFINE msg == Head(chan[<<"rx", m>>])
  <2>1. io[m] = "poll" /\ msg.cid \in pending[m]
        /\ slot' = [slot EXCEPT ![msg.cid] = msg] /\ pc' = pc
    BY <1>2 DEF AcceptReply, Awaited
  <2>2. msg.cid # c
    <3>1. SUFFICES ASSUME msg.cid = c PROVE FALSE
      OBVIOUS
    <3>2. From[c] = m /\ InProgress(c)
      BY <1>0, <2>1, <3>1 DEF PendingConsistent, Leaked, InProgress
    <3>3. io[m] = "nested"
      BY <3>2 DEF HandlerInv
    <3> QED BY <2>1, <3>3
  <2> QED BY <1>0, <2>1, <2>2
<1>3. ASSUME NEW m \in Modules,
             \/ IoThread(m) /\ ~AcceptReply(m)
             \/ HandlerBreaks(m) \/ StopLoop(m) \/ CloseSockets(m)
             \/ Connect(m) \/ Disconnect(m) \/ Transmit(m) \/ Deliver(m)
             \/ Route(m) \/ RouteBreaks(m)
      PROVE pc' = pc /\ slot' = slot
  BY <1>3
  DEF IoThread, IoSend, IoDrained, IoPollTimeout, HandleFrames, DropMessage, Dispatch,
      HandlerReturns, HandlerBreaks, StopLoop, CloseSockets, Connect, Disconnect,
      Transmit, Deliver, Route, RouteBreaks
<1>4. BrokerStart \/ BrokerStop \/ UNCHANGED vars => pc' = pc /\ slot' = slot
  BY DEF BrokerStart, BrokerStop, vars
<1> QED BY <1>0, <1>1, <1>2, <1>3, <1>4 DEF Next

(* A handler's own send_request never gets an answer, on any bus.           *)
THEOREM NestedCallsTimeOut == Spec => []NestedNeverAnswered
<1>1. Init => NestedNeverAnswered
  BY CallAssumption DEF Init, NestedNeverAnswered
<1>2. TypeOK /\ HandlerInv /\ PendingConsistent /\ NestedNeverAnswered /\ [Next]_vars
        => NestedNeverAnswered'
  BY NestedPreserved
<1> QED BY <1>1, <1>2, ThreadsConsistent, PendingCorrect, PTL DEF Spec

-----------------------------------------------------------------------------
(* The queue of what an interface has still to send.  Once its io thread    *)
(* has emptied the queue, only requests of its own module come in, until    *)
(* the thread itself queues a reply and goes back to empty the queue.       *)
NoReplyQueued(m) ==
  \A i \in DOMAIN chan[<<"tx", m>>] : ~IsReply(m, chan[<<"tx", m>>][i])

Quiet ==
  \A m \in Modules : io[m] \in {"poll", "handler", "nested"} => NoReplyQueued(m)

LEMMA QuietPreserved == TypeOK /\ HandlerInv /\ Quiet /\ [Next]_vars => Quiet'
<1> SUFFICES ASSUME TypeOK, HandlerInv, Quiet, [Next]_vars, NEW m \in Modules,
                    io'[m] \in {"poll", "handler", "nested"}
             PROVE  NoReplyQueued(m)'
  BY DEF Quiet
<1> USE DEF threadVars, ioVars, lifeVars, brokerVars
<1>0. /\ io \in [Modules -> {"drain", "poll", "handler", "nested", "exited", "dead"}]
      /\ chan \in [Places -> Seq(Message)]
      /\ \A stage \in Stages, m2 \in Modules : <<stage, m2>> \in Places
  BY PlaceIsPair DEF TypeOK
<1>1. ASSUME io[m] \in {"poll", "handler", "nested"}, chan'[<<"tx", m>>] = chan[<<"tx", m>>]
      PROVE  NoReplyQueued(m)'
  BY <1>1 DEF Quiet, NoReplyQueued, IsReply
<1>2. CASE UNCHANGED vars
  BY <1>1, <1>2 DEF vars
<1>3. ASSUME NEW c \in Calls, SendRequest(c) PROVE NoReplyQueued(m)'
  <2>1. io[m] \in {"poll", "handler", "nested"}
    BY <1>0, <1>3 DEF SendRequest
  <2>2. CASE From[c] # m
    <3>1. chan'[<<"tx", m>>] = chan[<<"tx", m>>]
      BY <1>0, <1>3, <2>2 DEF SendRequest, Put, Stages
    <3> QED BY <1>1, <2>1, <3>1
  <2>3. CASE From[c] = m
    <3> DEFINE q == chan[<<"tx", m>>]
    <3>1. chan'[<<"tx", m>>] = Append(q, Request(c)) /\ q \in Seq(Message)
      BY <1>0, <1>3, <2>3 DEF SendRequest, Put, Stages
    <3>2. ~IsReply(m, Request(c))
      BY <2>3 DEF IsReply, Request
    <3>3. \A i \in DOMAIN q : ~IsReply(m, q[i])
      BY <2>1 DEF Quiet, NoReplyQueued
    <3>4. Request(c) \in Message
      BY RequestIsMessage
    <3>5. \A i \in DOMAIN Append(q, Request(c)) : ~IsReply(m, Append(q, Request(c))[i])
      <4> HIDE DEF q
      <4> QED BY <3>1, <3>2, <3>3, <3>4
    <3> QED BY <3>1, <3>5 DEF NoReplyQueued, IsReply
  <2> QED BY <2>2, <2>3
<1>4. ASSUME NEW c \in Calls, CallThread(c) PROVE NoReplyQueued(m)'
  <2>1. io'[m] = io[m] \/ (c \in Nested /\ InProgress(c) /\ From[c] = m)
    BY <1>0, <1>4 DEF CallThread, RegisterPending, WaitDone, WaitTimeout, PopReply,
                      LatencyRaises, PopExpired, Resume, InProgress
  <2>2. io[m] \in {"poll", "handler", "nested"}
    BY <2>1 DEF HandlerInv
  <2>3. chan' = chan
    BY <1>4 DEF CallThread, RegisterPending, WaitDone, WaitTimeout, PopReply,
                LatencyRaises, PopExpired
  <2> QED BY <1>1, <2>2, <2>3
<1>5. ASSUME NEW m2 \in Modules, IoSend(m2) PROVE NoReplyQueued(m)'
  <2>1. m2 # m /\ io' = io
    BY <1>0, <1>5 DEF IoSend
  <2>2. chan'[<<"tx", m>>] = chan[<<"tx", m>>]
    BY <1>0, <1>5, <2>1 DEF IoSend, Move, Stages
  <2> QED BY <1>1, <2>1, <2>2
<1>6. ASSUME NEW m2 \in Modules, IoDrained(m2) PROVE NoReplyQueued(m)'
  <2>1. CASE m2 = m
    BY <1>6, <2>1 DEF IoDrained, NoReplyQueued
  <2>2. CASE m2 # m
    BY <1>0, <1>1, <1>6, <2>2 DEF IoDrained
  <2> QED BY <2>1, <2>2
<1>7. ASSUME NEW m2 \in Modules, IoPollTimeout(m2) \/ HandleFrames(m2) PROVE NoReplyQueued(m)'
  <2>1. io[m] \in {"poll", "handler", "nested"}
    BY <1>0, <1>7
    DEF IoPollTimeout, HandleFrames, AcceptReply, DropMessage, Dispatch, LoopTop
  <2>2. chan'[<<"tx", m>>] = chan[<<"tx", m>>]
    BY <1>0, <1>7
    DEF IoPollTimeout, HandleFrames, AcceptReply, DropMessage, Dispatch, Take, Stages
  <2> QED BY <1>1, <2>1, <2>2
<1>8. ASSUME NEW m2 \in Modules, HandlerReturns(m2) \/ HandlerBreaks(m2)
      PROVE  NoReplyQueued(m)'
  <2>1. m2 # m /\ io'[m] = io[m]
    BY <1>0, <1>8 DEF HandlerReturns, HandlerBreaks, LoopTop
  <2>2. chan'[<<"tx", m>>] = chan[<<"tx", m>>]
    BY <1>0, <1>8, <2>1 DEF HandlerReturns, HandlerBreaks, Put, Stages
  <2> QED BY <1>1, <2>1, <2>2
<1>9. ASSUME NEW m2 \in Modules,
             \/ StopLoop(m2) \/ CloseSockets(m2) \/ Connect(m2) \/ Disconnect(m2)
             \/ Transmit(m2) \/ Deliver(m2) \/ Route(m2) \/ RouteBreaks(m2)
      PROVE  NoReplyQueued(m)'
  <2>1. io' = io
    BY <1>9 DEF StopLoop, CloseSockets, Connect, Disconnect, Transmit, Deliver, Route,
                RouteBreaks
  <2>2. chan'[<<"tx", m>>] = chan[<<"tx", m>>]
    BY <1>0, <1>9 DEF StopLoop, CloseSockets, Connect, Disconnect, Transmit, Deliver, Route,
                      RouteBreaks, Move, Take, Stages
  <2> QED BY <1>1, <2>1, <2>2
<1>10. CASE BrokerStart \/ BrokerStop
  <2>1. io' = io
    BY <1>10 DEF BrokerStart, BrokerStop
  <2>2. chan'[<<"tx", m>>] = chan[<<"tx", m>>]
    BY <1>0, <1>10 DEF BrokerStart, BrokerStop, Stages
  <2> QED BY <1>1, <2>1, <2>2
<1> QED
  BY <1>2, <1>3, <1>4, <1>5, <1>6, <1>7, <1>8, <1>9, <1>10 DEF Next, IoThread

(* A finished reply never waits for another handler of the same interface:  *)
(* while a handler runs, or the thread polls, only requests wait to be sent.*)
THEOREM RepliesDoNotWait == Spec => []NoReplyWaitsForHandler
<1>1. Init => Quiet
  BY DEF Init, Quiet
<1>2. TypeOK /\ HandlerInv /\ Quiet /\ [Next]_vars => Quiet'
  BY QuietPreserved
<1>3. Quiet => NoReplyWaitsForHandler
  BY DEF Quiet, NoReplyQueued, NoReplyWaitsForHandler
<1> QED BY <1>1, <1>2, <1>3, ThreadsConsistent, PTL DEF Spec
=============================================================================
