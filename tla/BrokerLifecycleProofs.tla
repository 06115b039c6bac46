------------------------ MODULE BrokerLifecycleProofs ------------------------
(***************************************************************************)
(* Proofs about BrokerLifecycle, for any brokers and any number of starts: *)
(* what a thread that outlives its stop can still do, and what holds of a  *)
(* broker, a node and the singletons between and during calls.             *)
(***************************************************************************)
EXTENDS BrokerLifecycle, TLAPS

(* A thread that has a message in its hands, or is about to take one.       *)
Serving == {"polled", "receive", "blocked", "record", "send"}

(* A thread that has sent through later sockets is of an earlier start, and *)
(* has no further message in its hands: it was led to the one it sent by a  *)
(* poll of its own socket, which by now is closed.                          *)
StrayInv ==
  /\ starts \in [Brokers -> 0..MaxStarts]
  /\ loop \in [Brokers \X Starts -> Places]
  /\ from \in [Brokers \X Starts -> Starts]
  /\ strays \in [Brokers \X Starts -> Nat]
  /\ \A b \in Brokers, n \in Starts :
       /\ strays[<<b, n>>] <= 1
       /\ loop[<<b, n>>] # "none" => n <= starts[b]
       /\ n >= starts[b] => strays[<<b, n>>] = 0
       /\ loop[<<b, n>>] \in Serving => strays[<<b, n>>] = 0

LEMMA Bounded == MaxStarts \in Nat
  BY LifecycleAssumption DEF LifecycleAssumption

LEMMA CallsKeep ==
  ASSUME NEW sequence, Calls(sequence)
  PROVE  UNCHANGED <<starts, loop, from, strays>>
  BY DEF Calls, brokerVars, loopVars

LEMMA PrepareKeeps ==
  ASSUME StrayInv, NEW b \in Brokers, Prepare(b)
  PROVE  StrayInv'
  <1>1. /\ starts' = [starts EXCEPT ![b] = @ + 1] /\ starts[b] < MaxStarts
        /\ UNCHANGED <<loop, from, strays>> /\ MaxStarts \in Nat
    BY Bounded DEF Prepare, loopVars
  <1>2. starts' \in [Brokers -> 0..MaxStarts]
    BY <1>1 DEF StrayInv
  <1>3. ASSUME NEW c \in Brokers, NEW n \in Starts
        PROVE  starts[c] <= starts'[c] /\ starts[c] \in Nat /\ starts'[c] \in Nat /\ n \in Nat
    BY <1>1 DEF StrayInv, Starts
  <1> QED BY <1>1, <1>2, <1>3 DEF StrayInv

LEMMA LaunchKeeps ==
  ASSUME StrayInv, NEW b \in Brokers, Launch(b)
  PROVE  StrayInv'
  <1>1. /\ loop' = [loop EXCEPT ![<<b, starts[b]>>] = "test"]
        /\ UNCHANGED <<starts, from, strays>>
    BY DEF Launch
  <1>2. loop' \in [Brokers \X Starts -> Places]
    BY <1>1 DEF StrayInv, Places
  <1>3. ASSUME NEW c \in Brokers, NEW n \in Starts
        PROVE  /\ loop'[<<c, n>>] # "none" => n <= starts[c]
               /\ loop'[<<c, n>>] \in Serving => strays[<<c, n>>] = 0
    <2>1. CASE c = b /\ n = starts[b]
      BY <1>1, <2>1 DEF StrayInv, Starts
    <2>2. CASE ~(c = b /\ n = starts[b])
      <3>1. loop'[<<c, n>>] = loop[<<c, n>>]
        BY <1>1, <2>2 DEF StrayInv
      <3> QED BY <3>1 DEF StrayInv
    <2> QED BY <2>1, <2>2
  <1> QED BY <1>1, <1>2, <1>3 DEF StrayInv

LEMMA LoopKeeps ==
  ASSUME StrayInv, NEW b \in Brokers, NEW n \in Starts, Loop(b, n) \/ Wake(b, n)
  PROVE  StrayInv'
  <1> DEFINE x == <<b, n>>
  <1>0. x \in Brokers \X Starts /\ n \in Nat /\ starts[b] \in Nat /\ strays[x] \in Nat
    BY Bounded DEF Starts, StrayInv
  <1>1. ASSUME NEW to \in Places \ {"none"}, loop' = [loop EXCEPT ![x] = to], loop[x] # "none",
               starts' = starts, from' \in [Brokers \X Starts -> Starts],
               \/ strays' = strays /\ (to \in Serving => strays[x] = 0)
               \/ /\ strays' = [strays EXCEPT ![x] = @ + 1] /\ strays[x] = 0
                  /\ n # starts[b] /\ to \notin Serving
        PROVE  StrayInv'
    <2>1. loop' \in [Brokers \X Starts -> Places] /\ loop'[x] = to
      BY <1>0, <1>1 DEF StrayInv
    <2>2. strays' \in [Brokers \X Starts -> Nat]
      <3>1. strays \in [Brokers \X Starts -> Nat]
        BY DEF StrayInv
      <3>2. strays' = strays \/ strays' = [strays EXCEPT ![x] = @ + 1]
        BY <1>1
      <3> HIDE DEF x
      <3> QED BY <1>0, <3>1, <3>2
    <2>3. ASSUME NEW c \in Brokers, NEW k \in Starts, <<c, k>> # x
          PROVE  loop'[<<c, k>>] = loop[<<c, k>>] /\ strays'[<<c, k>>] = strays[<<c, k>>]
      BY <1>1, <2>3 DEF StrayInv
    <2>4. n <= starts[b]
      BY <1>0, <1>1 DEF StrayInv
    <2>5. /\ strays'[x] <= 1 /\ (n >= starts[b] => strays'[x] = 0)
          /\ to \in Serving => strays'[x] = 0
      <3>1. strays[x] <= 1 /\ (n >= starts[b] => strays[x] = 0)
        BY DEF StrayInv
      <3>2. strays \in [Brokers \X Starts -> Nat]
        BY DEF StrayInv
      <3> HIDE DEF x
      <3>3. CASE strays' = strays /\ (to \in Serving => strays[x] = 0)
        BY <3>1, <3>3
      <3>4. CASE /\ strays' = [strays EXCEPT ![x] = @ + 1] /\ strays[x] = 0
                 /\ n # starts[b] /\ to \notin Serving
        <4>1. strays'[x] = 1
          BY <1>0, <3>2, <3>4
        <4>2. ~(n >= starts[b])
          BY <1>0, <2>4, <3>4
        <4> QED BY <3>4, <4>1, <4>2
      <3> QED BY <1>1, <3>3, <3>4
    <2>6. ASSUME NEW c \in Brokers, NEW k \in Starts
          PROVE  /\ strays'[<<c, k>>] <= 1
                 /\ loop'[<<c, k>>] # "none" => k <= starts[c]
                 /\ k >= starts[c] => strays'[<<c, k>>] = 0
                 /\ loop'[<<c, k>>] \in Serving => strays'[<<c, k>>] = 0
      <3>1. CASE <<c, k>> = x
        BY <2>1, <2>4, <2>5, <3>1
      <3>2. CASE <<c, k>> # x
        BY <2>3, <3>2 DEF StrayInv
      <3> QED BY <3>1, <3>2
    <2> QED BY <1>1, <2>1, <2>2, <2>6 DEF StrayInv
  <1>2. ASSUME NEW at \in Places \ {"none"}, NEW to \in Places \ {"none"}, Stays(b, n, at, to),
               to \in Serving => at \in Serving \/ n = starts[b]
        PROVE  StrayInv'
    <2>1. /\ loop[x] = at /\ loop' = [loop EXCEPT ![x] = to] /\ at # "none"
          /\ starts' = starts /\ from' = from /\ strays' = strays
      BY <1>2 DEF Stays, Goes, brokerVars
    <2>2. to \in Serving => strays[x] = 0
      BY <1>0, <1>2, <2>1 DEF StrayInv
    <2> QED BY <1>1, <2>1, <2>2 DEF StrayInv
  <1> USE DEF Places, Serving
  <1>3. CASE TestFlag(b, n)
    BY <1>2, <1>3 DEF TestFlag
  <1>4. CASE Poll(b, n)
    BY <1>2, <1>4 DEF Poll, HasOpen
  <1>5. CASE Compare(b, n)
    BY <1>2, <1>5 DEF Compare
  <1>6. CASE RecordMessage(b, n) \/ SendFails(b, n) \/ Wake(b, n)
    BY <1>2, <1>6 DEF RecordMessage, SendFails, Wake
  <1>7. CASE Receive(b, n)
    <2>1. /\ loop[x] = "receive" /\ starts' = starts /\ strays' = strays
          /\ \E to \in {"record", "blocked", "ended"} : loop' = [loop EXCEPT ![x] = to]
          /\ from' = from \/ from' = [from EXCEPT ![x] = starts[b]]
      BY <1>7 DEF Receive, Goes, brokerVars
    <2>2. n <= starts[b] /\ strays[x] = 0
      BY <1>0, <2>1 DEF StrayInv
    <2>3. starts[b] \in Starts
      BY <1>0, <2>2, Bounded DEF StrayInv, Starts
    <2>4. from' \in [Brokers \X Starts -> Starts]
      BY <1>0, <2>1, <2>3 DEF StrayInv
    <2> QED BY <1>1, <2>1, <2>2, <2>4
  <1>8. CASE Sends(b, n)
    <2>1. /\ loop[x] = "send" /\ starts' = starts /\ from' = from
          /\ loop' = [loop EXCEPT ![x] = "test"]
          /\ strays' = IF n # starts[b] THEN [strays EXCEPT ![x] = @ + 1] ELSE strays
      BY <1>8 DEF Sends, Goes, brokerVars
    <2>2. strays[x] = 0 /\ from' \in [Brokers \X Starts -> Starts]
      BY <1>0, <2>1 DEF StrayInv
    <2> QED BY <1>1, <2>1, <2>2
  <1> QED BY <1>3, <1>4, <1>5, <1>6, <1>7, <1>8 DEF Loop

LEMMA StrayStays == StrayInv /\ [Next]_vars => StrayInv'
  <1> SUFFICES ASSUME StrayInv, [Next]_vars
               PROVE  StrayInv'
    OBVIOUS
  <1>1. ASSUME UNCHANGED <<starts, loop, from, strays>>
        PROVE  StrayInv'
    BY <1>1 DEF StrayInv
  <1>2. CASE NodeStart \/ NodeStop \/
             \E b \in Brokers : StopSingleton(b) \/ \E restart \in BOOLEAN : Run(b, restart)
    BY <1>1, <1>2, CallsKeep DEF NodeStart, NodeStop, StopSingleton, Run
  <1>3. ASSUME NEW b \in Brokers, Caller(b)
        PROVE  StrayInv'
    <2>1. CASE NodeIsUp(b) \/ NodeIsDown(b) \/ Assign(b) \/ Forget(b) \/ RunReturns(b)
      BY <1>1, <2>1
         DEF NodeIsUp, NodeIsDown, NodeChanges, Assign, Forget, RunReturns, brokerVars, loopVars
    <2>2. CASE Returns("start", b) \/ Returns("stop", b) \/ Bind(b) \/ BindFails(b)
               \/ ClearFlag(b) \/ JoinEnds(b)
      BY <1>1, <2>2
         DEF Returns, Bind, BindFails, ClearFlag, JoinEnds, brokerVars, loopVars
    <2> QED BY <1>3, <2>1, <2>2, PrepareKeeps, LaunchKeeps DEF Caller
  <1>4. CASE (\E a \in Ports : Release(a) \/ Occupy(a) \/ Vacate(a)) \/ UNCHANGED vars
    BY <1>1, <1>4 DEF Release, Occupy, Vacate, brokerVars, loopVars, vars
  <1> QED BY <1>2, <1>3, <1>4, LoopKeeps DEF Next

LEMMA StrayHolds == Spec => []StrayInv
  <1>1. Init => StrayInv
    BY Bounded DEF Init, StrayInv, Starts, Places, Serving
  <1> QED BY <1>1, StrayStays, PTL DEF Spec

(* Whatever is started and stopped, and however long a thread outlives its  *)
(* stop, it sends one message at most through sockets of a later start.     *)
THEOREM StraysCorrect == Spec => []OneStrayAtMost
  <1>1. StrayInv => OneStrayAtMost
    BY DEF StrayInv, OneStrayAtMost
  <1> QED BY <1>1, StrayHolds, PTL

-----------------------------------------------------------------------------
(* A step of the thread of an earlier start.                                *)
LEMMA TurnShortens ==
  ASSUME StrayInv, NEW b \in Brokers, NEW n \in Starts, Loop(b, n) \/ Wake(b, n)
  PROVE  /\ \A y \in (Brokers \X Starts) \ {<<b, n>>} : loop'[y] = loop[y]
         /\ n < starts[b] => Remaining[loop'[<<b, n>>]] < Remaining[loop[<<b, n>>]]
  <1> DEFINE x == <<b, n>>
  <1>0. x \in Brokers \X Starts /\ n \in Nat /\ starts[b] \in Nat
    BY Bounded DEF Starts, StrayInv
  <1>1. n < starts[b] => ~HasOpen(b, n)
    BY <1>0 DEF HasOpen
  <1>2. PICK at \in Places, to \in Places :
          /\ loop[x] = at /\ loop' = [loop EXCEPT ![x] = to]
          /\ n < starts[b] =>
               <<at, to>> \in {<<"test", "poll">>, <<"test", "ended">>, <<"poll", "ended">>,
                 <<"polled", "test">>, <<"receive", "record">>, <<"receive", "blocked">>,
                 <<"receive", "ended">>, <<"blocked", "record">>, <<"blocked", "ended">>,
                 <<"record", "send">>, <<"record", "ended">>, <<"send", "test">>, <<"send", "ended">>}
    <2>1. CASE TestFlag(b, n) \/ Poll(b, n) \/ Compare(b, n)
      BY <1>1, <2>1 DEF TestFlag, Poll, Compare, Stays, Goes, Places
    <2>2. CASE Receive(b, n) \/ Wake(b, n)
      BY <2>2 DEF Receive, Wake, Stays, Goes, Places
    <2>3. CASE RecordMessage(b, n) \/ Sends(b, n) \/ SendFails(b, n)
      BY <2>3 DEF RecordMessage, Sends, SendFails, Stays, Goes, Places
    <2> QED BY <2>1, <2>2, <2>3 DEF Loop
  <1>3. /\ loop'[x] = to
        /\ \A y \in (Brokers \X Starts) \ {x} : loop'[y] = loop[y]
    BY <1>0, <1>2 DEF StrayInv
  <1>4. n < starts[b] => Remaining[to] < Remaining[at]
    BY <1>2 DEF Remaining
  <1> QED BY <1>2, <1>3, <1>4

(* However often a broker is started, the thread of an earlier start makes  *)
(* at most the steps that Remaining counts, and no second turn of its loop. *)
THEOREM LoopsRunOut == Spec => EarlierLoopsRunOut
  <1>1. StrayInv /\ [Next]_vars =>
          [\A b \in Brokers, n \in Starts :
             loop[<<b, n>>] # "none" /\ n < starts[b] /\ loop'[<<b, n>>] # loop[<<b, n>>]
               => Remaining[loop'[<<b, n>>]] < Remaining[loop[<<b, n>>]]]_vars
    <2> SUFFICES ASSUME StrayInv, Next, NEW b \in Brokers, NEW n \in Starts,
                        n < starts[b], loop'[<<b, n>>] # loop[<<b, n>>]
                 PROVE  Remaining[loop'[<<b, n>>]] < Remaining[loop[<<b, n>>]]
      OBVIOUS
    <2>1. <<b, n>> \in Brokers \X Starts
      OBVIOUS
    <2>2. ASSUME NEW c \in Brokers, NEW k \in Starts, Loop(c, k) \/ Wake(c, k)
          PROVE  Remaining[loop'[<<b, n>>]] < Remaining[loop[<<b, n>>]]
      <3>1. c = b /\ k = n
        BY <2>1, <2>2, TurnShortens
      <3> QED BY <2>2, <3>1, TurnShortens
    <2>3. ASSUME NEW c \in Brokers, Launch(c) PROVE FALSE
      <3>1. loop' = [loop EXCEPT ![<<c, starts[c]>>] = "test"]
        BY <2>3 DEF Launch
      <3>2. c = b /\ starts[c] = n
        BY <2>1, <3>1 DEF StrayInv
      <3> QED BY <3>2, Bounded DEF Starts, StrayInv
    <2>4. CASE UNCHANGED loop
      BY <2>4
    <2>5. UNCHANGED loop \/ (\E c \in Brokers : Launch(c)
                             \/ \E k \in Starts : Loop(c, k) \/ Wake(c, k))
      <3>1. ASSUME NEW c \in Brokers, Caller(c) PROVE UNCHANGED loop \/ Launch(c)
        BY <3>1 DEF Caller, NodeIsUp, NodeIsDown, NodeChanges, Assign, Forget, RunReturns, Returns,
             Prepare, Bind, BindFails, ClearFlag, JoinEnds, loopVars
      <3>2. NodeStart \/ NodeStop => UNCHANGED loop
        BY CallsKeep DEF NodeStart, NodeStop
      <3>3. ASSUME NEW c \in Brokers, StopSingleton(c) \/ \E restart \in BOOLEAN : Run(c, restart)
            PROVE  UNCHANGED loop
        BY <3>3, CallsKeep DEF StopSingleton, Run
      <3>4. ASSUME NEW a \in Ports, Release(a) \/ Occupy(a) \/ Vacate(a)
            PROVE  UNCHANGED loop
        BY <3>4 DEF Release, Occupy, Vacate, loopVars
      <3> QED BY <3>1, <3>2, <3>3, <3>4 DEF Next
    <2> QED BY <2>2, <2>3, <2>4, <2>5
  <1> QED BY <1>1, StrayHolds, PTL DEF Spec, EarlierLoopsRunOut

-----------------------------------------------------------------------------
(* What the caller has left to do.                                          *)

Entries == {"start", "stop", "up", "down", "assign", "forget", "return"} \X Brokers

(* A call on a singleton is a part of: stop, forget, assign, start, return; *)
(* all of it about one broker.                                              *)
Successions ==
  {<<"stop", "forget">>, <<"forget", "assign">>, <<"assign", "start">>, <<"start", "return">>}

ScriptPlan ==
  \A i \in 1..Len(plan) :
    /\ i < Len(plan) =>
         <<plan[i][1], plan[i + 1][1]>> \in Successions /\ plan[i + 1][2] = plan[i][2]
    /\ i = Len(plan) => plan[i][1] \in {"forget", "return"}

(* A node that is down starts its brokers and is up, and the reverse.       *)
NodePlan ==
  \A i \in 1..Len(plan) :
    plan[i][1] = IF nodeUp THEN (IF i < Len(plan) THEN "stop" ELSE "down")
                 ELSE (IF i < Len(plan) THEN "start" ELSE "up")

LEMMA PlanLeft ==
  ASSUME plan \in Seq(Entries), NEW op, NEW b, Doing(op, b), Next1
  PROVE  /\ plan' \in Seq(Entries) /\ Len(plan) \in Nat /\ Len(plan) > 0
         /\ Len(plan') = Len(plan) - 1
         /\ plan[1] = <<op, b>>
         /\ \A i \in 1..Len(plan') : plan'[i] = plan[i + 1]
         /\ plan' # << >> => Len(plan') > 0 /\ Head(plan') = plan[2]
<1>1. /\ plan' = Tail(plan) /\ plan # << >> /\ plan[1] = <<op, b>>
  BY DEF Next1, Doing
<1>2. Len(plan) \in Nat /\ Len(plan) > 0
  BY <1>1
<1>3. plan' \in Seq(Entries) /\ Len(plan') = Len(plan) - 1
  BY <1>1
<1>4. \A i \in 1..Len(plan') : plan'[i] = plan[i + 1]
  BY <1>1, <1>3
<1>5. plan' # << >> => Len(plan') > 0 /\ Head(plan') = plan[2]
  BY <1>1, <1>3
<1> QED BY <1>1, <1>2, <1>3, <1>4, <1>5

LEMMA ScriptGoesOn ==
  ASSUME plan \in Seq(Entries), ScriptPlan, NEW op, NEW b, Doing(op, b), Next1
  PROVE  /\ ScriptPlan'
         /\ op \in {"stop", "forget", "assign", "start", "return"}
         /\ \A next, c : Doing(next, c)' => c = b /\ <<op, next>> \in Successions
         /\ plan' = << >> => op \in {"forget", "return"}
<1>1. /\ plan' \in Seq(Entries) /\ Len(plan) \in Nat /\ Len(plan) > 0
      /\ Len(plan') = Len(plan) - 1 /\ plan[1] = <<op, b>>
      /\ \A i \in 1..Len(plan') : plan'[i] = plan[i + 1]
  BY PlanLeft
<1>2. plan' # << >> => Len(plan') > 0 /\ Head(plan') = plan[2]
  BY PlanLeft
<1>3. ScriptPlan'
  <2> SUFFICES ASSUME NEW i \in 1..Len(plan')
               PROVE  /\ i < Len(plan') =>
                           /\ <<plan'[i][1], plan'[i + 1][1]>> \in Successions
                           /\ plan'[i + 1][2] = plan'[i][2]
                      /\ i = Len(plan') => plan'[i][1] \in {"forget", "return"}
    BY DEF ScriptPlan
  <2>1. i + 1 \in 1..Len(plan) /\ i \in Nat
    BY <1>1
  <2>2. plan'[i] = plan[i + 1]
    BY <1>1
  <2>3. CASE i < Len(plan')
    <3>1. i + 1 < Len(plan) /\ plan'[i + 1] = plan[i + 1 + 1] /\ i # Len(plan')
      BY <1>1, <2>1, <2>3
    <3>2. /\ <<plan[i + 1][1], plan[i + 1 + 1][1]>> \in Successions
          /\ plan[i + 1 + 1][2] = plan[i + 1][2]
      BY <2>1, <3>1 DEF ScriptPlan
    <3> QED BY <2>2, <3>1, <3>2
  <2>4. CASE i = Len(plan')
    <3>1. i + 1 = Len(plan) /\ ~(i < Len(plan'))
      BY <1>1, <2>1, <2>4
    <3>2. plan[i + 1][1] \in {"forget", "return"}
      BY <2>1, <3>1 DEF ScriptPlan
    <3> QED BY <2>2, <3>1, <3>2
  <2> QED BY <1>1, <2>1, <2>3, <2>4
<1>4. 1 \in 1..Len(plan) /\ (1 < Len(plan) \/ 1 = Len(plan))
  BY <1>1
<1>5. 1 < Len(plan) => <<op, plan[2][1]>> \in Successions /\ plan[2][2] = b
  BY <1>1, <1>4 DEF ScriptPlan
<1>6. 1 = Len(plan) => op \in {"forget", "return"}
  <2>1. 1 = Len(plan) => plan[1][1] \in {"forget", "return"}
    BY <1>4 DEF ScriptPlan
  <2>2. plan[1][1] = op
    BY <1>1
  <2> QED BY <2>1, <2>2
<1>7. op \in {"stop", "forget", "assign", "start", "return"}
  BY <1>4, <1>5, <1>6 DEF Successions
<1>8. ASSUME NEW next, NEW c, Doing(next, c)'
      PROVE  c = b /\ <<op, next>> \in Successions
  <2>1. plan' # << >> /\ Head(plan') = <<next, c>>
    BY <1>8 DEF Doing
  <2>2. 1 < Len(plan) /\ plan[2] = <<next, c>>
    BY <1>1, <1>2, <2>1
  <2> QED BY <1>5, <2>2
<1>9. plan' = << >> => 1 = Len(plan)
  BY <1>1
<1> QED BY <1>3, <1>6, <1>7, <1>8, <1>9

LEMMA NodeGoesOn ==
  ASSUME plan \in Seq(Entries), NodePlan, NEW op, NEW b, Doing(op, b), Next1
  PROVE  /\ nodeUp' = nodeUp => NodePlan'
         /\ op = IF nodeUp THEN (IF plan' # << >> THEN "stop" ELSE "down")
                 ELSE (IF plan' # << >> THEN "start" ELSE "up")
         /\ \A i \in 1..Len(plan) : plan[i] = <<op, b>> \/ i - 1 \in 1..Len(plan')
         /\ \A i \in 1..Len(plan') : plan'[i] = plan[i + 1]
<1>1. /\ plan' \in Seq(Entries) /\ Len(plan) \in Nat /\ Len(plan) > 0
      /\ Len(plan') = Len(plan) - 1 /\ plan[1] = <<op, b>>
      /\ \A i \in 1..Len(plan') : plan'[i] = plan[i + 1]
  BY PlanLeft
<1>2. ASSUME nodeUp' = nodeUp
      PROVE  NodePlan'
  <2> SUFFICES ASSUME NEW i \in 1..Len(plan')
               PROVE  plan'[i][1] = IF nodeUp THEN (IF i < Len(plan') THEN "stop" ELSE "down")
                                    ELSE (IF i < Len(plan') THEN "start" ELSE "up")
    BY <1>2 DEF NodePlan
  <2>1. i + 1 \in 1..Len(plan) /\ i \in Nat /\ plan'[i] = plan[i + 1]
    BY <1>1
  <2>2. i < Len(plan') <=> i + 1 < Len(plan)
    BY <1>1, <2>1
  <2> QED BY <2>1, <2>2 DEF NodePlan
<1>3. 1 \in 1..Len(plan) /\ (1 < Len(plan) <=> plan' # << >>)
  BY <1>1
<1>4. op = IF nodeUp THEN (IF plan' # << >> THEN "stop" ELSE "down")
           ELSE (IF plan' # << >> THEN "start" ELSE "up")
  BY <1>1, <1>3 DEF NodePlan
<1>5. \A i \in 1..Len(plan) : plan[i] = <<op, b>> \/ i - 1 \in 1..Len(plan')
  BY <1>1
<1> QED BY <1>1, <1>2, <1>4, <1>5

-----------------------------------------------------------------------------
(* The state between the steps of start() and stop(): who is in the middle  *)
(* of one, and which addresses its sockets hold.                            *)

StepInv ==
  /\ step = "binding" => \E b \in Brokers :
       /\ Doing("start", b) /\ ~running[b]
       /\ \A i \in 1..bound[b] : Addresses[b][i] \notin closing
  /\ step = "joining" => \E b \in Brokers : Doing("stop", b) /\ ~running[b]

(* Sockets that no running broker uses are left by a start that failed.     *)
PortInv ==
  \A b \in Brokers :
    /\ bound[b] > 0 => \/ running[b] \/ failed[b]
                       \/ step # "none" /\ plan # << >> /\ Head(plan)[2] = b
    /\ \A i \in 1..All(b) : Addresses[b][i] \in closing => failed[b]

ScriptInv ==
  user = "script" =>
    /\ ~nodeUp /\ ScriptPlan
    /\ \A b \in Brokers :
         /\ running[b] => single[b]
         /\ single[b] => \/ running[b] \/ failed[b]
                         \/ \E op \in {"stop", "forget", "start"} : Doing(op, b)
         /\ Doing("start", b) => single[b]
         /\ Doing("forget", b) \/ Doing("assign", b) => ~running[b]
         /\ Doing("return", b) => running[b] \/ failed[b]

NodeInv ==
  user = "node" =>
    /\ NodePlan
    /\ nodeUp /\ plan = << >> => \A b \in Brokers : running[b]
    /\ ~nodeUp /\ plan # << >> => \A b \in Brokers :
         running[b] \/ \E i \in 1..Len(plan) : plan[i] = <<"start", b>>

CallerType ==
  /\ user \in {"node", "script"} /\ step \in {"none", "binding", "joining"}
  /\ plan \in Seq(Entries)
  /\ nodeUp \in BOOLEAN /\ single \in [Brokers -> BOOLEAN] /\ running \in [Brokers -> BOOLEAN]
  /\ born \in [Brokers -> 0..MaxStarts]
  /\ bound \in [Brokers -> Nat] /\ \A b \in Brokers : bound[b] <= All(b)
  /\ closing \subseteq Ports /\ foreign \subseteq Ports
  /\ failed \in [Brokers -> BOOLEAN]
  /\ \A b \in Brokers : running[b] => bound[b] = All(b)

LifeInv == CallerType /\ StepInv /\ PortInv /\ ScriptInv /\ NodeInv

(* With nothing of a call under way, step says so.                          *)
LEMMA StepIsNone ==
  ASSUME LifeInv, \/ plan = << >>
                  \/ \E op \in {"up", "down", "assign", "forget", "return"}, b \in Brokers : Doing(op, b)
  PROVE  step = "none"
BY DEF LifeInv, CallerType, StepInv, Doing

(* A call of NodeStart, NodeStop, Run or StopSingleton.                     *)
LEMMA BeginKeeps ==
  ASSUME LifeInv, NEW s \in Seq(Entries), Calls(s), s # << >>,
         user = "script" =>
           /\ \A i \in 1..Len(s) :
                /\ i < Len(s) =>
                     <<s[i][1], s[i + 1][1]>> \in Successions /\ s[i + 1][2] = s[i][2]
                /\ i = Len(s) => s[i][1] \in {"forget", "return"}
           /\ \A b \in Brokers :
                /\ s[1] = <<"forget", b>> \/ s[1] = <<"assign", b>> => ~running[b]
                /\ s[1] # <<"start", b>>
                /\ s[1] = <<"return", b>> => running[b] \/ failed[b],
         user = "node" =>
           /\ \A i \in 1..Len(s) :
                s[i][1] = IF nodeUp THEN (IF i < Len(s) THEN "stop" ELSE "down")
                          ELSE (IF i < Len(s) THEN "start" ELSE "up")
           /\ ~nodeUp => \A b \in Brokers : \E i \in 1..Len(s) : s[i] = <<"start", b>>
  PROVE  LifeInv'
<1>1. plan = << >> /\ plan' = s /\ step = "none"
  BY StepIsNone DEF Calls
<1>2. UNCHANGED <<user, step, nodeUp, single, running, bound, born, closing, foreign, failed>>
  BY DEF Calls, brokerVars, portVars
<1>3. CallerType'
  BY <1>1, <1>2 DEF LifeInv, CallerType, All
<1>4. StepInv' /\ PortInv'
  BY <1>1, <1>2 DEF LifeInv, StepInv, PortInv, All
<1>5. ScriptInv'
  <2> SUFFICES ASSUME user = "script"
               PROVE  ScriptInv'
    BY <1>2 DEF ScriptInv
  <2>1. ScriptPlan' /\ ~nodeUp'
    BY <1>1, <1>2 DEF LifeInv, ScriptInv, ScriptPlan
  <2>2. ASSUME NEW b \in Brokers, NEW op
        PROVE  Doing(op, b)' <=> s[1] = <<op, b>>
    BY <1>1 DEF Doing
  <2>3. ASSUME NEW b \in Brokers
        PROVE  (running[b] => single[b]) /\ (single[b] => running[b] \/ failed[b])
    BY <1>1 DEF LifeInv, ScriptInv, Doing
  <2> QED BY <1>2, <2>1, <2>2, <2>3 DEF ScriptInv
<1>6. NodeInv'
  BY <1>1, <1>2 DEF NodeInv, NodePlan
<1> QED BY <1>3, <1>4, <1>5, <1>6 DEF LifeInv

LEMMA NodeCallKeeps ==
  ASSUME LifeInv, NodeStart \/ NodeStop
  PROVE  LifeInv'
<1>1. /\ user = "node"
      /\ \/ ~nodeUp /\ Calls(Each("start") \o <<<<"up", Order[1]>>>>)
         \/ nodeUp /\ Calls(Each("stop") \o <<<<"down", Order[1]>>>>)
  BY DEF NodeStart, NodeStop
<1>2. Order \in Seq(Brokers) /\ Len(Order) \in Nat /\ Len(Order) > 0 /\ Order[1] \in Brokers
  BY LifecycleAssumption DEF LifecycleAssumption
<1>3. ASSUME NEW op \in {"start", "stop"}, NEW last \in {"up", "down"}
      PROVE  LET s == Each(op) \o <<<<last, Order[1]>>>>
             IN  /\ s \in Seq(Entries) /\ Len(s) = Len(Order) + 1
                 /\ \A i \in 1..Len(Order) : s[i] = <<op, Order[i]>>
                 /\ s[Len(Order) + 1] = <<last, Order[1]>>
  <2>1. Each(op) \in Seq(Entries) /\ Len(Each(op)) = Len(Order)
    BY <1>2 DEF Each, Entries
  <2>2. <<<<last, Order[1]>>>> \in Seq(Entries)
    BY <1>2 DEF Entries
  <2>3. \A i \in 1..Len(Order) : Each(op)[i] = <<op, Order[i]>>
    BY DEF Each
  <2> HIDE DEF Each
  <2> QED BY <1>2, <2>1, <2>2, <2>3
<1>4. CASE ~nodeUp /\ Calls(Each("start") \o <<<<"up", Order[1]>>>>)
  <2> DEFINE s == Each("start") \o <<<<"up", Order[1]>>>>
  <2>1. /\ s \in Seq(Entries) /\ Len(s) = Len(Order) + 1
        /\ \A i \in 1..Len(Order) : s[i] = <<"start", Order[i]>>
        /\ s[Len(Order) + 1] = <<"up", Order[1]>>
    BY <1>3
  <2>2. Calls(s)
    BY <1>4
  <2> HIDE DEF s
  <2>3. \A i \in 1..Len(s) : s[i][1] = IF i < Len(s) THEN "start" ELSE "up"
    BY <1>2, <2>1
  <2>4. \A b \in Brokers : \E i \in 1..Len(s) : s[i] = <<"start", b>>
    <3> TAKE b \in Brokers
    <3>1. PICK i \in 1..Len(Order) : Order[i] = b
      BY LifecycleAssumption DEF LifecycleAssumption
    <3>2. i \in 1..Len(s)
      BY <1>2, <2>1
    <3> QED BY <2>1, <3>1, <3>2
  <2>5. s # << >>
    BY <1>2, <2>1
  <2> QED BY <1>1, <1>4, <2>1, <2>2, <2>3, <2>4, <2>5, BeginKeeps
<1>5. CASE nodeUp /\ Calls(Each("stop") \o <<<<"down", Order[1]>>>>)
  <2> DEFINE s == Each("stop") \o <<<<"down", Order[1]>>>>
  <2>1. /\ s \in Seq(Entries) /\ Len(s) = Len(Order) + 1
        /\ \A i \in 1..Len(Order) : s[i] = <<"stop", Order[i]>>
        /\ s[Len(Order) + 1] = <<"down", Order[1]>>
    BY <1>3
  <2>2. Calls(s)
    BY <1>5
  <2> HIDE DEF s
  <2>3. \A i \in 1..Len(s) : s[i][1] = IF i < Len(s) THEN "stop" ELSE "down"
    BY <1>2, <2>1
  <2>4. s # << >>
    BY <1>2, <2>1
  <2> QED BY <1>1, <1>5, <2>1, <2>2, <2>3, <2>4, BeginKeeps
<1> QED BY <1>1, <1>4, <1>5

LEMMA SingletonCallKeeps ==
  ASSUME LifeInv, NEW b \in Brokers,
         StopSingleton(b) \/ \E restart \in BOOLEAN : Run(b, restart)
  PROVE  LifeInv'
<1> DEFINE Stopping == <<<<"stop", b>>, <<"forget", b>>>>
           Starting == <<<<"assign", b>>, <<"start", b>>>>
           Returning == <<<<"return", b>>>>
           Restarted == Stopping \o Starting \o Returning
           Started == << >> \o Starting \o Returning
           Returned == << >> \o << >> \o Returning
<1>1. user = "script" /\ plan = << >>
  BY DEF StopSingleton, Run, Calls
<1>2. (running[b] => single[b]) /\ (single[b] => running[b] \/ failed[b])
  BY <1>1 DEF LifeInv, ScriptInv, Doing
<1>3. \/ Calls(Stopping) \/ Calls(Restarted)
      \/ ~single[b] /\ Calls(Started)
      \/ single[b] /\ Calls(Returned)
  <2>1. CASE StopSingleton(b)
    BY <2>1 DEF StopSingleton
  <2>2. ASSUME NEW restart \in BOOLEAN, Run(b, restart)
        PROVE  \/ Calls(Restarted)
               \/ ~single[b] /\ Calls(Started)
               \/ single[b] /\ Calls(Returned)
    BY <2>2 DEF Run
  <2> QED BY <2>1, <2>2
<1>4. CASE Calls(Stopping)
  <2>1. Stopping \in Seq(Entries) /\ Stopping # << >> /\ Len(Stopping) = 2
    BY DEF Entries
  <2>2. Stopping[1] = <<"stop", b>> /\ Stopping[2] = <<"forget", b>>
    OBVIOUS
  <2> HIDE DEF Stopping
  <2>3. \A i \in 1..Len(Stopping) :
          /\ i < Len(Stopping) => /\ <<Stopping[i][1], Stopping[i + 1][1]>> \in Successions
                               /\ Stopping[i + 1][2] = Stopping[i][2]
          /\ i = Len(Stopping) => Stopping[i][1] \in {"forget", "return"}
    <3> SUFFICES ASSUME NEW i \in 1..2
                 PROVE  /\ i < 2 => /\ <<Stopping[i][1], Stopping[i + 1][1]>> \in Successions
                                     /\ Stopping[i + 1][2] = Stopping[i][2]
                        /\ i = 2 => Stopping[i][1] \in {"forget", "return"}
      BY <2>1
    <3>1. i = 1 \/ i = 2
      OBVIOUS
    <3> QED BY <2>2, <3>1 DEF Successions
  <2>4. \A c \in Brokers :
          /\ Stopping[1] = <<"forget", c>> \/ Stopping[1] = <<"assign", c>> => ~running[c]
          /\ Stopping[1] # <<"start", c>>
          /\ Stopping[1] = <<"return", c>> => running[c] \/ failed[c]
    BY <1>2, <1>4, <2>2
  <2> QED BY <1>1, <1>4, <2>1, <2>3, <2>4, BeginKeeps
<1>5. CASE Calls(Restarted)
  <2>1. Restarted \in Seq(Entries) /\ Restarted # << >> /\ Len(Restarted) = 5
    BY DEF Entries
  <2>2. /\ Restarted[1] = <<"stop", b>> /\ Restarted[2] = <<"forget", b>>
        /\ Restarted[3] = <<"assign", b>>
        /\ Restarted[4] = <<"start", b>> /\ Restarted[5] = <<"return", b>>
    OBVIOUS
  <2> HIDE DEF Restarted
  <2>3. \A i \in 1..Len(Restarted) :
          /\ i < Len(Restarted) => /\ <<Restarted[i][1], Restarted[i + 1][1]>> \in Successions
                               /\ Restarted[i + 1][2] = Restarted[i][2]
          /\ i = Len(Restarted) => Restarted[i][1] \in {"forget", "return"}
    <3> SUFFICES ASSUME NEW i \in 1..5
                 PROVE  /\ i < 5 => /\ <<Restarted[i][1], Restarted[i + 1][1]>> \in Successions
                                     /\ Restarted[i + 1][2] = Restarted[i][2]
                        /\ i = 5 => Restarted[i][1] \in {"forget", "return"}
      BY <2>1
    <3>1. i = 1 \/ i = 2 \/ i = 3 \/ i = 4 \/ i = 5
      OBVIOUS
    <3> QED BY <2>2, <3>1 DEF Successions
  <2>4. \A c \in Brokers :
          /\ Restarted[1] = <<"forget", c>> \/ Restarted[1] = <<"assign", c>> => ~running[c]
          /\ Restarted[1] # <<"start", c>>
          /\ Restarted[1] = <<"return", c>> => running[c] \/ failed[c]
    BY <1>2, <1>5, <2>2
  <2> QED BY <1>1, <1>5, <2>1, <2>3, <2>4, BeginKeeps
<1>6. CASE ~single[b] /\ Calls(Started)
  <2>1. Started \in Seq(Entries) /\ Started # << >> /\ Len(Started) = 3
    BY DEF Entries
  <2>2. Started[1] = <<"assign", b>> /\ Started[2] = <<"start", b>> /\ Started[3] = <<"return", b>>
    OBVIOUS
  <2> HIDE DEF Started
  <2>3. \A i \in 1..Len(Started) :
          /\ i < Len(Started) => /\ <<Started[i][1], Started[i + 1][1]>> \in Successions
                               /\ Started[i + 1][2] = Started[i][2]
          /\ i = Len(Started) => Started[i][1] \in {"forget", "return"}
    <3> SUFFICES ASSUME NEW i \in 1..3
                 PROVE  /\ i < 3 => /\ <<Started[i][1], Started[i + 1][1]>> \in Successions
                                     /\ Started[i + 1][2] = Started[i][2]
                        /\ i = 3 => Started[i][1] \in {"forget", "return"}
      BY <2>1
    <3>1. i = 1 \/ i = 2 \/ i = 3
      OBVIOUS
    <3> QED BY <2>2, <3>1 DEF Successions
  <2>4. \A c \in Brokers :
          /\ Started[1] = <<"forget", c>> \/ Started[1] = <<"assign", c>> => ~running[c]
          /\ Started[1] # <<"start", c>>
          /\ Started[1] = <<"return", c>> => running[c] \/ failed[c]
    BY <1>2, <1>6, <2>2
  <2> QED BY <1>1, <1>6, <2>1, <2>3, <2>4, BeginKeeps
<1>7. CASE single[b] /\ Calls(Returned)
  <2>1. Returned \in Seq(Entries) /\ Returned # << >> /\ Len(Returned) = 1
    BY DEF Entries
  <2>2. Returned[1] = <<"return", b>>
    OBVIOUS
  <2> HIDE DEF Returned
  <2>3. \A i \in 1..Len(Returned) :
          /\ i < Len(Returned) => /\ <<Returned[i][1], Returned[i + 1][1]>> \in Successions
                               /\ Returned[i + 1][2] = Returned[i][2]
          /\ i = Len(Returned) => Returned[i][1] \in {"forget", "return"}
    <3> SUFFICES ASSUME NEW i \in 1..1
                 PROVE  /\ i < 1 => /\ <<Returned[i][1], Returned[i + 1][1]>> \in Successions
                                     /\ Returned[i + 1][2] = Returned[i][2]
                        /\ i = 1 => Returned[i][1] \in {"forget", "return"}
      BY <2>1
    <3>1. i = 1
      OBVIOUS
    <3> QED BY <2>2, <3>1 DEF Successions
  <2>4. \A c \in Brokers :
          /\ Returned[1] = <<"forget", c>> \/ Returned[1] = <<"assign", c>> => ~running[c]
          /\ Returned[1] # <<"start", c>>
          /\ Returned[1] = <<"return", c>> => running[c] \/ failed[c]
    BY <1>2, <1>7, <2>2
  <2> QED BY <1>1, <1>7, <2>1, <2>3, <2>4, BeginKeeps
<1> QED BY <1>3, <1>4, <1>5, <1>6, <1>7

(* In a call of a node nothing is assigned, in one of a script no node      *)
(* comes up.                                                                *)
LEMMA WhoCalls ==
  ASSUME LifeInv, NEW op, NEW b, Doing(op, b), Next1
  PROVE  /\ op \in {"up", "down"} => user = "node"
         /\ op \in {"assign", "forget", "return"} => user = "script"
<1>1. plan \in Seq(Entries) /\ (user = "node" \/ user = "script")
  BY DEF LifeInv, CallerType
<1>2. CASE user = "script"
  <2>1. ScriptPlan
    BY <1>2 DEF LifeInv, ScriptInv
  <2> QED BY <1>1, <1>2, <2>1, ScriptGoesOn
<1>3. CASE user = "node"
  <2>1. NodePlan
    BY <1>3 DEF LifeInv, NodeInv
  <2>2. op \in {"stop", "down", "start", "up"}
    BY <1>1, <2>1, NodeGoesOn
  <2> QED BY <1>3, <2>2
<1> QED BY <1>1, <1>2, <1>3

(* Steps of a call that change nothing but the plan and one flag.           *)
LEMMA FlagsKeep ==
  ASSUME LifeInv, NEW op, NEW b \in Brokers, Doing(op, b), Next1, step = "none",
         UNCHANGED <<user, step, brokerVars, portVars, failed>>,
         nodeUp' \in BOOLEAN, single' \in [Brokers -> BOOLEAN]
  PROVE  CallerType' /\ StepInv' /\ PortInv'
<1>1. plan' \in Seq(Entries)
  BY PlanLeft DEF LifeInv, CallerType
<1>2. CallerType'
  BY <1>1 DEF LifeInv, CallerType, brokerVars, portVars, All
<1>3. StepInv'
  BY DEF StepInv
<1>4. PortInv'
  BY DEF LifeInv, PortInv, brokerVars, portVars, All
<1> QED BY <1>2, <1>3, <1>4

LEMMA UpDownKeeps ==
  ASSUME LifeInv, NEW b \in Brokers, NodeIsUp(b) \/ NodeIsDown(b)
  PROVE  LifeInv'
<1>1. PICK op \in {"up", "down"} : /\ Doing(op, b) /\ Next1 /\ nodeUp' = (op = "up")
                                   /\ UNCHANGED <<user, step, single, brokerVars, portVars, failed>>
  BY DEF NodeIsUp, NodeIsDown, NodeChanges
<1>2. user = "node" /\ user' = "node" /\ step = "none"
  BY <1>1, WhoCalls, StepIsNone
<1>3. nodeUp' \in BOOLEAN /\ single' \in [Brokers -> BOOLEAN]
  BY <1>1 DEF LifeInv, CallerType
<1>4. CallerType' /\ StepInv' /\ PortInv'
  BY <1>1, <1>2, <1>3, FlagsKeep
<1>5. plan \in Seq(Entries) /\ NodePlan
  BY <1>2 DEF LifeInv, CallerType, NodeInv
<1>6. plan' = << >> /\ Len(plan') = 0 /\ Len(plan) = 1 /\ plan[1] = <<op, b>> /\ (op = "up" => ~nodeUp)
  <2>1. /\ op = IF nodeUp THEN (IF plan' # << >> THEN "stop" ELSE "down")
                ELSE (IF plan' # << >> THEN "start" ELSE "up")
    BY <1>1, <1>5, NodeGoesOn
  <2>2. plan' = << >> /\ (op = "up" => ~nodeUp)
    BY <1>1, <2>1
  <2>3. Len(plan) \in Nat /\ Len(plan') = Len(plan) - 1 /\ plan[1] = <<op, b>>
    BY <1>1, <1>5, PlanLeft
  <2> QED BY <2>2, <2>3
<1>7. NodeInv'
  <2>1. NodePlan'
    BY <1>6 DEF NodePlan
  <2>2. ASSUME op = "up", NEW c \in Brokers
        PROVE  running'[c]
    <3>1. running[c] \/ \E i \in 1..Len(plan) : plan[i] = <<"start", c>>
      BY <1>1, <1>2, <1>6, <2>2 DEF LifeInv, NodeInv, Doing
    <3>2. \A i \in 1..Len(plan) : plan[i] = <<"up", b>>
      BY <1>6, <2>2
    <3> QED BY <1>1, <3>1, <3>2 DEF brokerVars
  <2> QED BY <1>1, <1>6, <2>1, <2>2 DEF NodeInv
<1>8. ScriptInv'
  BY <1>2 DEF ScriptInv
<1> QED BY <1>4, <1>7, <1>8 DEF LifeInv

(* What a script finds at the next step of its call.                        *)
LEMMA ScriptNext ==
  ASSUME LifeInv, user = "script", NEW op, NEW b \in Brokers, Doing(op, b), Next1
  PROVE  /\ ScriptPlan'
         /\ \A next, c : Doing(next, c)' => c = b /\ <<op, next>> \in Successions
         /\ plan' = << >> => op \in {"forget", "return"}
         /\ \A c \in Brokers \ {b} : /\ \A any : ~Doing(any, c)
                                     /\ single[c] => running[c] \/ failed[c]
<1>1. plan \in Seq(Entries) /\ ScriptPlan
  BY DEF LifeInv, CallerType, ScriptInv
<1>2. \A c \in Brokers \ {b} : \A any : ~Doing(any, c)
  BY DEF Doing
<1>3. \A c \in Brokers \ {b} : single[c] => running[c] \/ failed[c]
  BY <1>2 DEF LifeInv, ScriptInv
<1> QED BY <1>1, <1>2, <1>3, ScriptGoesOn

LEMMA ForgetKeeps ==
  ASSUME LifeInv, NEW b \in Brokers, Forget(b) \/ RunReturns(b)
  PROVE  LifeInv'
<1>1. PICK op \in {"forget", "return"} :
        /\ Doing(op, b) /\ Next1
        /\ single' = IF op = "forget" THEN [single EXCEPT ![b] = FALSE] ELSE single
        /\ UNCHANGED <<user, step, nodeUp, brokerVars, portVars, failed>>
  BY DEF Forget, RunReturns
<1>2. user = "script" /\ user' = "script" /\ step = "none"
  BY <1>1, WhoCalls, StepIsNone
<1>3. nodeUp' \in BOOLEAN /\ single' \in [Brokers -> BOOLEAN]
  BY <1>1 DEF LifeInv, CallerType
<1>4. CallerType' /\ StepInv' /\ PortInv'
  BY <1>1, <1>2, <1>3, FlagsKeep
<1>5. /\ ScriptPlan'
      /\ \A next, c : Doing(next, c)' => c = b /\ <<op, next>> \in Successions
      /\ \A c \in Brokers \ {b} : single[c] => running[c] \/ failed[c]
  BY <1>1, <1>2, ScriptNext
<1>6. ~running[b] \/ op = "return"
  BY <1>1, <1>2 DEF LifeInv, ScriptInv
<1>7. /\ op = "forget" => ~single'[b] /\ \A c \in Brokers \ {b} : single'[c] = single[c]
      /\ op = "return" => single' = single
  BY <1>1 DEF LifeInv, CallerType
<1>8. single'[b] => running[b] \/ failed[b]
  BY <1>1, <1>2, <1>7 DEF LifeInv, ScriptInv
<1>9. \A next, c : Doing(next, c)' => op = "forget" /\ next = "assign" /\ c = b
  BY <1>1, <1>5 DEF Successions
<1>10. ScriptInv'
  <2>1. ~nodeUp' /\ running' = running /\ failed' = failed
    BY <1>1, <1>2 DEF LifeInv, ScriptInv, brokerVars
  <2>2. ASSUME NEW c \in Brokers
        PROVE  /\ running'[c] => single'[c]
               /\ single'[c] => running'[c] \/ failed'[c]
               /\ ~Doing("start", c)' /\ ~Doing("forget", c)' /\ ~Doing("return", c)'
               /\ Doing("assign", c)' => ~running'[c]
    <3>1. running[c] => single[c]
      BY <1>2 DEF LifeInv, ScriptInv
    <3> QED BY <1>1, <1>5, <1>6, <1>7, <1>8, <1>9, <2>1, <3>1
  <2> QED BY <1>5, <2>1, <2>2 DEF ScriptInv
<1>11. NodeInv'
  BY <1>2 DEF NodeInv
<1> QED BY <1>4, <1>10, <1>11 DEF LifeInv

(* What an object has bound goes into closing: of no other broker.          *)
LEMMA LeftIsOwn ==
  ASSUME LifeInv, NEW b \in Brokers, ~running[b], step = "none"
  PROVE  /\ Left(b) \subseteq Ports
         /\ \A c \in Brokers : \A i \in 1..All(c) :
              Addresses[c][i] \in closing \cup Left(b) => failed[c]
<1>1. bound[b] \in Nat /\ bound[b] <= All(b) /\ All(b) \in Nat
  BY LifecycleAssumption DEF LifecycleAssumption, LifeInv, CallerType, All
<1>2. 1..bound[b] \subseteq 1..All(b)
  BY <1>1
<1>3. Left(b) \subseteq Ports
  BY <1>2 DEF Left, Ports
<1>4. Left(b) # {} => failed[b]
  <2>1. Left(b) # {} => bound[b] > 0
    BY <1>1 DEF Left
  <2> QED BY <2>1 DEF LifeInv, PortInv
<1>5. ASSUME NEW c \in Brokers, NEW i \in 1..All(c), Addresses[c][i] \in closing \cup Left(b)
      PROVE  failed[c]
  <2>1. CASE Addresses[c][i] \in closing
    BY <2>1 DEF LifeInv, PortInv
  <2>2. CASE Addresses[c][i] \in Left(b)
    <3>1. PICK j \in 1..All(b) : Addresses[c][i] = Addresses[b][j]
      BY <1>2, <2>2 DEF Left
    <3>2. c = b
      BY <3>1, LifecycleAssumption DEF LifecycleAssumption, All
    <3> QED BY <1>4, <2>2, <3>2
  <2> QED BY <1>5, <2>1, <2>2
<1> QED BY <1>3, <1>5

LEMMA NothingBound ==
  ASSUME LifeInv, NEW b \in Brokers, ~running[b], bound' = [bound EXCEPT ![b] = 0]
  PROVE  /\ bound' \in [Brokers -> Nat] /\ bound'[b] = 0
         /\ \A c \in Brokers \ {b} : bound'[c] = bound[c]
         /\ \A c \in Brokers : bound'[c] <= All(c) /\ (running[c] => bound'[c] = All(c))
<1>1. /\ bound' \in [Brokers -> Nat] /\ bound'[b] = 0
      /\ \A c \in Brokers \ {b} : bound'[c] = bound[c]
  BY DEF LifeInv, CallerType
<1>2. All(b) \in Nat
  BY LifecycleAssumption DEF LifecycleAssumption, All
<1>3. 0 <= All(b)
  BY <1>2
<1>4. \A c \in Brokers : bound'[c] <= All(c)
  BY <1>1, <1>3 DEF LifeInv, CallerType
<1>5. \A c \in Brokers : running[c] => bound'[c] = All(c)
  BY <1>1 DEF LifeInv, CallerType
<1> QED BY <1>1, <1>4, <1>5

LEMMA AssignKeeps ==
  ASSUME LifeInv, starts \in [Brokers -> 0..MaxStarts], NEW b \in Brokers, Assign(b)
  PROVE  LifeInv'
<1>1. /\ Doing("assign", b) /\ Next1
      /\ single' = [single EXCEPT ![b] = TRUE]
      /\ born' = [born EXCEPT ![b] = starts[b]]
      /\ bound' = [bound EXCEPT ![b] = 0]
      /\ closing' = closing \cup Left(b)
      /\ UNCHANGED <<user, step, nodeUp, running, foreign, failed>>
  BY DEF Assign
<1>2. user = "script" /\ user' = "script" /\ step = "none" /\ step' = "none"
  BY <1>1, WhoCalls, StepIsNone
<1>3. ~running[b]
  BY <1>1, <1>2 DEF LifeInv, ScriptInv
<1>4. /\ Left(b) \subseteq Ports
      /\ \A c \in Brokers : \A i \in 1..All(c) : Addresses[c][i] \in closing' => failed[c]
  BY <1>1, <1>2, <1>3, LeftIsOwn
<1>5. plan' \in Seq(Entries)
  BY <1>1, PlanLeft DEF LifeInv, CallerType
<1>6. /\ bound' \in [Brokers -> Nat] /\ \A c \in Brokers : bound'[c] <= All(c)
      /\ \A c \in Brokers : running[c] => bound'[c] = All(c)
      /\ \A c \in Brokers \ {b} : bound'[c] = bound[c]
      /\ bound'[b] = 0
  BY <1>1, <1>3, NothingBound
<1>7. CallerType'
  <2>1. single' \in [Brokers -> BOOLEAN] /\ born' \in [Brokers -> 0..MaxStarts]
    BY <1>1 DEF LifeInv, CallerType
  <2>2. \A c \in Brokers : running[c] => bound'[c] = All(c)
    BY <1>6
  <2>3. closing' \subseteq Ports
    BY <1>1, <1>4 DEF LifeInv, CallerType
  <2>4. /\ user' \in {"node", "script"} /\ step' \in {"none", "binding", "joining"}
        /\ nodeUp' \in BOOLEAN /\ running' \in [Brokers -> BOOLEAN]
        /\ foreign' \subseteq Ports /\ failed' \in [Brokers -> BOOLEAN]
    BY <1>1 DEF LifeInv, CallerType
  <2>5. \A c \in Brokers : running'[c] => bound'[c] = All(c)
    BY <1>1, <2>2
  <2> QED BY <1>5, <1>6, <2>1, <2>3, <2>4, <2>5 DEF CallerType, All
<1>8. StepInv'
  BY <1>2 DEF StepInv
<1>9. PortInv'
  <2>1. \A c \in Brokers : bound'[c] > 0 => running'[c] \/ failed'[c]
    BY <1>1, <1>2, <1>6 DEF LifeInv, PortInv
  <2> QED BY <1>1, <1>4, <2>1 DEF PortInv, All
<1>10. ScriptInv'
  <2>1. /\ ScriptPlan'
        /\ \A next, c : Doing(next, c)' => c = b /\ <<"assign", next>> \in Successions
        /\ plan' # << >>
        /\ \A c \in Brokers \ {b} : single[c] => running[c] \/ failed[c]
    BY <1>1, <1>2, ScriptNext
  <2>2. \A next, c : Doing(next, c)' => c = b /\ next = "start"
    BY <2>1 DEF Successions
  <2>3. Doing("start", b)'
    <3>1. /\ plan' # << >> /\ plan' \in Seq(Entries)
      BY <1>5, <2>1
    <3>2. PICK next, c : Head(plan') = <<next, c>>
      BY <3>1 DEF Entries
    <3> QED BY <2>2, <3>1, <3>2 DEF Doing
  <2>4. /\ single'[b] /\ \A c \in Brokers \ {b} : single'[c] = single[c]
    BY <1>1 DEF LifeInv, CallerType
  <2>5. ~nodeUp' /\ \A c \in Brokers : running[c] => single[c]
    BY <1>1, <1>2 DEF LifeInv, ScriptInv
  <2> QED BY <1>1, <1>3, <2>1, <2>2, <2>3, <2>4, <2>5 DEF ScriptInv
<1>11. NodeInv'
  BY <1>2 DEF NodeInv
<1> QED BY <1>7, <1>8, <1>9, <1>10, <1>11 DEF LifeInv

(* The end of a start, or of a stop, of one broker, whoever called it.      *)
LEMMA NextOfScript ==
  ASSUME LifeInv, user = "script", user' = "script", nodeUp' = nodeUp, single' = single,
         NEW op \in {"start", "stop"}, NEW b \in Brokers, Doing(op, b), Next1,
         \A c \in Brokers \ {b} : running'[c] = running[c] /\ failed'[c] = failed[c],
         op = "start" => running'[b] \/ failed'[b],
         op = "stop" => ~running'[b]
  PROVE  ScriptInv'
<1>1. /\ ScriptPlan'
      /\ \A next, c : Doing(next, c)' => c = b /\ <<op, next>> \in Successions
      /\ plan' # << >>
      /\ \A c \in Brokers \ {b} : single[c] => running[c] \/ failed[c]
  BY ScriptNext
<1>2. \A next, c : Doing(next, c)' => c = b /\ next = IF op = "start" THEN "return" ELSE "forget"
  BY <1>1 DEF Successions
<1>3. op = "stop" => Doing("forget", b)'
  <2>1. plan' \in Seq(Entries)
    BY PlanLeft DEF LifeInv, CallerType
  <2>2. PICK next, c : Head(plan') = <<next, c>>
    BY <1>1, <2>1 DEF Entries
  <2> QED BY <1>1, <1>2, <2>2 DEF Doing
<1>4. ~nodeUp' /\ (\A c \in Brokers : running[c] => single[c]) /\ (op = "start" => single[b])
  BY DEF LifeInv, ScriptInv
<1> QED BY <1>1, <1>2, <1>3, <1>4 DEF ScriptInv

LEMMA NextOfNode ==
  ASSUME LifeInv, user = "node", user' = "node", nodeUp' = nodeUp,
         NEW op \in {"start", "stop"}, NEW b \in Brokers, Doing(op, b), Next1,
         \A c \in Brokers \ {b} : running'[c] = running[c],
         op = "start" => running'[b]
  PROVE  NodeInv'
<1>1. plan \in Seq(Entries) /\ NodePlan
  BY DEF LifeInv, CallerType, NodeInv
<1>2. /\ NodePlan' /\ op = IF nodeUp THEN (IF plan' # << >> THEN "stop" ELSE "down")
                           ELSE (IF plan' # << >> THEN "start" ELSE "up")
      /\ \A i \in 1..Len(plan) : plan[i] = <<op, b>> \/ i - 1 \in 1..Len(plan')
      /\ \A i \in 1..Len(plan') : plan'[i] = plan[i + 1]
  BY <1>1, NodeGoesOn
<1>3. plan' # << >> /\ (op = "start" <=> ~nodeUp)
  BY <1>2 DEF LifeInv, CallerType
<1>4. ASSUME ~nodeUp, NEW c \in Brokers, ~running'[c]
      PROVE  \E i \in 1..Len(plan') : plan'[i] = <<"start", c>>
  <2>1. c # b /\ ~running[c]
    BY <1>3, <1>4
  <2>2. plan # << >>
    BY DEF Doing
  <2>3. PICK i \in 1..Len(plan) : plan[i] = <<"start", c>>
    BY <1>4, <2>1, <2>2 DEF LifeInv, NodeInv
  <2>4. plan[i] # <<op, b>>
    BY <2>1, <2>3
  <2>5. i - 1 \in 1..Len(plan') /\ i \in Nat
    BY <1>2, <2>4
  <2>6. plan'[i - 1] = plan[i - 1 + 1] /\ i - 1 + 1 = i
    BY <1>2, <2>5
  <2> QED BY <2>3, <2>5, <2>6
<1> QED BY <1>2, <1>3, <1>4 DEF NodeInv

LEMMA ReturnsKeeps ==
  ASSUME LifeInv, NEW op \in {"start", "stop"}, NEW b \in Brokers, Returns(op, b)
  PROVE  LifeInv'
<1>1. /\ Doing(op, b) /\ Next1 /\ step = "none" /\ running[b] = (op = "start")
      /\ UNCHANGED <<user, step, nodeUp, single, brokerVars, portVars, failed>>
  BY DEF Returns
<1>2. running' = running
  BY <1>1 DEF brokerVars
<1>3. CallerType' /\ StepInv' /\ PortInv'
  BY <1>1, FlagsKeep DEF LifeInv, CallerType
<1>4. ScriptInv'
  BY <1>1, <1>2, NextOfScript DEF ScriptInv
<1>5. NodeInv'
  BY <1>1, <1>2, NextOfNode DEF NodeInv
<1> QED BY <1>3, <1>4, <1>5 DEF LifeInv

(* Steps within start() or stop(): the plan stays.                          *)
LEMMA WithinCall ==
  ASSUME LifeInv, UNCHANGED <<user, plan, nodeUp, single, failed>>,
         \A c \in Brokers : running'[c] = running[c] \/ (Doing("stop", c) /\ ~running'[c])
  PROVE  ScriptInv' /\ NodeInv'
<1>1. CASE user = "script"
  <2>1. \A op, c : Doing(op, c)' <=> Doing(op, c)
    BY DEF Doing
  <2>2. ScriptPlan' /\ ~nodeUp'
    BY <1>1 DEF LifeInv, ScriptInv, ScriptPlan
  <2>3. ASSUME NEW b \in Brokers
        PROVE  /\ running'[b] => single[b]
               /\ single[b] => \/ running'[b] \/ failed[b]
                               \/ \E op \in {"stop", "forget", "start"} : Doing(op, b)
               /\ Doing("start", b) => single[b]
               /\ Doing("forget", b) \/ Doing("assign", b) => ~running'[b]
               /\ Doing("return", b) => running'[b] \/ failed[b]
    <3>1. CASE running'[b] = running[b]
      BY <1>1, <3>1 DEF LifeInv, ScriptInv
    <3>2. CASE Doing("stop", b) /\ ~running'[b]
      <4>1. ~Doing("return", b) /\ ~Doing("start", b)
        BY <3>2 DEF Doing
      <4> QED BY <3>2, <4>1
    <3> QED BY <3>1, <3>2
  <2> QED BY <1>1, <2>1, <2>2, <2>3 DEF ScriptInv, NodeInv
<1>2. CASE user = "node"
  <2>1. NodePlan' /\ NodePlan
    BY <1>2 DEF LifeInv, NodeInv, NodePlan
  <2>2. ASSUME NEW c \in Brokers, Doing("stop", c)
        PROVE  nodeUp /\ plan # << >>
    <3>1. 1 \in 1..Len(plan) /\ plan[1][1] = "stop"
      BY <2>2 DEF Doing, LifeInv, CallerType
    <3> QED BY <2>1, <2>2, <3>1 DEF NodePlan, Doing
  <2> QED BY <1>2, <2>1, <2>2 DEF LifeInv, NodeInv, ScriptInv
<1> QED BY <1>1, <1>2 DEF LifeInv, CallerType

LEMMA PrepareHolds ==
  ASSUME LifeInv, NEW b \in Brokers, Prepare(b)
  PROVE  LifeInv'
<1>1. /\ Doing("start", b) /\ step = "none" /\ step' = "binding" /\ ~running[b]
      /\ bound' = [bound EXCEPT ![b] = 0]
      /\ closing' = closing \cup Left(b)
      /\ UNCHANGED <<user, plan, nodeUp, single, running, born, foreign, failed>>
  BY DEF Prepare
<1>2. /\ Left(b) \subseteq Ports
      /\ \A c \in Brokers : \A i \in 1..All(c) : Addresses[c][i] \in closing' => failed[c]
  BY <1>1, LeftIsOwn
<1>3. /\ bound' \in [Brokers -> Nat] /\ bound'[b] = 0
      /\ \A c \in Brokers \ {b} : bound'[c] = bound[c]
  BY <1>1 DEF LifeInv, CallerType
<1>4. CallerType'
  <2>1. \A c \in Brokers : bound'[c] <= All(c) /\ (running[c] => bound'[c] = All(c))
    BY <1>1, NothingBound
  <2>2. closing' \subseteq Ports
    BY <1>1, <1>2 DEF LifeInv, CallerType
  <2> QED BY <1>1, <1>3, <2>1, <2>2 DEF LifeInv, CallerType, All
<1>5. StepInv'
  <2>1. Doing("start", b)' /\ ~running'[b] /\ \A i \in 1..bound'[b] : Addresses[b][i] \notin closing'
    BY <1>1, <1>3 DEF Doing
  <2> QED BY <1>1, <2>1 DEF StepInv
<1>6. PortInv'
  <2>1. \A c \in Brokers : bound'[c] > 0 => running[c] \/ failed[c]
    BY <1>1, <1>3 DEF LifeInv, PortInv
  <2> QED BY <1>1, <1>2, <2>1 DEF PortInv, All
<1>7. ScriptInv' /\ NodeInv'
  BY <1>1, WithinCall
<1> QED BY <1>4, <1>5, <1>6, <1>7 DEF LifeInv

LEMMA BindKeeps ==
  ASSUME LifeInv, NEW b \in Brokers, Bind(b)
  PROVE  LifeInv'
<1>1. /\ Doing("start", b) /\ step = "binding" /\ bound[b] < All(b)
      /\ Addresses[b][bound[b] + 1] \notin closing
      /\ bound' = [bound EXCEPT ![b] = @ + 1]
      /\ UNCHANGED <<user, plan, step, nodeUp, single, running, born, closing, foreign, failed>>
  BY DEF Bind, Address, callVars, portVars
<1>2. bound[b] \in Nat /\ All(b) \in Nat
  BY LifecycleAssumption DEF LifecycleAssumption, LifeInv, CallerType, All
<1>3. /\ bound' \in [Brokers -> Nat] /\ bound'[b] = bound[b] + 1
      /\ \A c \in Brokers \ {b} : bound'[c] = bound[c]
  BY <1>1 DEF LifeInv, CallerType
<1>4. ~running[b] /\ \A i \in 1..bound[b] : Addresses[b][i] \notin closing
  <2>1. PICK c \in Brokers : /\ Doing("start", c) /\ ~running[c]
                             /\ \A i \in 1..bound[c] : Addresses[c][i] \notin closing
    BY <1>1 DEF LifeInv, StepInv
  <2>2. c = b
    BY <1>1, <2>1 DEF Doing
  <2> QED BY <2>1, <2>2
<1>5. CallerType'
  <2>1. \A c \in Brokers : bound'[c] <= All(c)
    BY <1>1, <1>2, <1>3 DEF LifeInv, CallerType
  <2>2. \A c \in Brokers : running[c] => bound'[c] = All(c)
    BY <1>3, <1>4 DEF LifeInv, CallerType
  <2> QED BY <1>1, <1>3, <2>1, <2>2 DEF LifeInv, CallerType, All
<1>6. StepInv'
  <2>1. \A i \in 1..bound'[b] : Addresses[b][i] \notin closing
    <3> TAKE i \in 1..bound'[b]
    <3>1. i \in 1..bound[b] \/ i = bound[b] + 1
      BY <1>2, <1>3
    <3> QED BY <1>1, <1>4, <3>1
  <2>2. Doing("start", b)'
    BY <1>1 DEF Doing
  <2> QED BY <1>1, <1>4, <2>1, <2>2 DEF StepInv
<1>7. PortInv'
  <2>1. plan # << >> /\ Head(plan)[2] = b
    BY <1>1 DEF Doing
  <2> QED BY <1>1, <1>3, <2>1 DEF LifeInv, PortInv, All
<1>8. ScriptInv' /\ NodeInv'
  BY <1>1, WithinCall
<1> QED BY <1>5, <1>6, <1>7, <1>8 DEF LifeInv

(* A bind that fails raises out of every call.                              *)
LEMMA BindFailureKeeps ==
  ASSUME LifeInv, NEW b \in Brokers, BindFails(b)
  PROVE  LifeInv'
<1>1. /\ Doing("start", b) /\ step = "binding" /\ plan' = << >> /\ step' = "none"
      /\ failed' = [failed EXCEPT ![b] = TRUE]
      /\ UNCHANGED <<user, nodeUp, single, running, born, bound, closing, foreign>>
  BY DEF BindFails, brokerVars, portVars
<1>2. plan' \in Seq(Entries) /\ Len(plan') = 0 /\ \A op, c : ~Doing(op, c)'
  BY <1>1 DEF Doing
<1>3. failed' \in [Brokers -> BOOLEAN] /\ failed'[b] /\ \A c \in Brokers \ {b} : failed'[c] = failed[c]
  BY <1>1 DEF LifeInv, CallerType
<1>4. CallerType'
  BY <1>1, <1>2, <1>3 DEF LifeInv, CallerType, All
<1>5. StepInv'
  BY <1>1 DEF StepInv
<1>6. PortInv'
  <2>1. \A c \in Brokers \ {b} : ~(plan # << >> /\ Head(plan)[2] = c)
    BY <1>1 DEF Doing
  <2> QED BY <1>1, <1>3, <2>1 DEF LifeInv, PortInv, All
<1>7. ScriptInv'
  <2> SUFFICES ASSUME user = "script"
               PROVE  ScriptInv'
    BY <1>1 DEF ScriptInv
  <2>1. \A c \in Brokers \ {b} : \A op : ~Doing(op, c)
    BY <1>1 DEF Doing
  <2>2. \A c \in Brokers : (running[c] => single[c]) /\ (single[c] => running[c] \/ failed'[c])
    BY <1>3, <2>1 DEF LifeInv, ScriptInv
  <2>3. ScriptPlan' /\ ~nodeUp'
    BY <1>1, <1>2 DEF LifeInv, ScriptInv, ScriptPlan
  <2> QED BY <1>1, <1>2, <2>2, <2>3 DEF ScriptInv
<1>8. NodeInv'
  <2> SUFFICES ASSUME user = "node"
               PROVE  NodeInv'
    BY <1>1 DEF NodeInv
  <2>1. ~nodeUp
    <3>1. 1 \in 1..Len(plan) /\ plan[1][1] = "start"
      BY <1>1 DEF Doing, LifeInv, CallerType
    <3> QED BY <3>1 DEF LifeInv, NodeInv, NodePlan
  <2> QED BY <1>1, <1>2, <2>1 DEF NodeInv, NodePlan
<1> QED BY <1>4, <1>5, <1>6, <1>7, <1>8 DEF LifeInv

LEMMA LaunchHolds ==
  ASSUME LifeInv, NEW b \in Brokers, Launch(b)
  PROVE  LifeInv'
<1>1. /\ Doing("start", b) /\ step = "binding" /\ bound[b] = All(b) /\ Next1 /\ step' = "none"
      /\ running' = [running EXCEPT ![b] = TRUE]
      /\ failed' = [failed EXCEPT ![b] = FALSE]
      /\ UNCHANGED <<user, nodeUp, single, born, bound, closing, foreign>>
  BY DEF Launch, portVars
<1>2. /\ running' \in [Brokers -> BOOLEAN] /\ running'[b]
      /\ failed' \in [Brokers -> BOOLEAN] /\ ~failed'[b]
      /\ \A c \in Brokers \ {b} : running'[c] = running[c] /\ failed'[c] = failed[c]
  BY <1>1 DEF LifeInv, CallerType
<1>3. \A i \in 1..All(b) : Addresses[b][i] \notin closing
  <2>1. PICK c \in Brokers : /\ Doing("start", c)
                             /\ \A i \in 1..bound[c] : Addresses[c][i] \notin closing
    BY <1>1 DEF LifeInv, StepInv
  <2>2. c = b
    BY <1>1, <2>1 DEF Doing
  <2> QED BY <1>1, <2>1, <2>2
<1>4. plan' \in Seq(Entries)
  BY <1>1, PlanLeft DEF LifeInv, CallerType
<1>5. CallerType'
  BY <1>1, <1>2, <1>4 DEF LifeInv, CallerType, All
<1>6. StepInv'
  BY <1>1 DEF StepInv
<1>7. PortInv'
  <2>1. \A c \in Brokers \ {b} : ~(plan # << >> /\ Head(plan)[2] = c)
    BY <1>1 DEF Doing
  <2> QED BY <1>1, <1>2, <1>3, <2>1 DEF LifeInv, PortInv, All
<1>8. ScriptInv'
  BY <1>1, <1>2, NextOfScript DEF ScriptInv
<1>9. NodeInv'
  BY <1>1, <1>2, NextOfNode DEF NodeInv
<1> QED BY <1>5, <1>6, <1>7, <1>8, <1>9 DEF LifeInv

LEMMA ClearFlagKeeps ==
  ASSUME LifeInv, NEW b \in Brokers, ClearFlag(b)
  PROVE  LifeInv'
<1>1. /\ Doing("stop", b) /\ step = "none" /\ step' = "joining"
      /\ running' = [running EXCEPT ![b] = FALSE]
      /\ UNCHANGED <<user, plan, nodeUp, single, born, bound, closing, foreign, failed>>
  BY DEF ClearFlag, portVars
<1>2. /\ running' \in [Brokers -> BOOLEAN] /\ ~running'[b]
      /\ \A c \in Brokers \ {b} : running'[c] = running[c]
  BY <1>1 DEF LifeInv, CallerType
<1>3. CallerType'
  BY <1>1, <1>2 DEF LifeInv, CallerType, All
<1>4. StepInv'
  BY <1>1, <1>2 DEF StepInv, Doing
<1>5. PortInv'
  BY <1>1, <1>2 DEF LifeInv, PortInv, Doing, All
<1>6. ScriptInv' /\ NodeInv'
  BY <1>1, <1>2, WithinCall
<1> QED BY <1>3, <1>4, <1>5, <1>6 DEF LifeInv

LEMMA JoinKeeps ==
  ASSUME LifeInv, NEW b \in Brokers, JoinEnds(b)
  PROVE  LifeInv'
<1>1. /\ Doing("stop", b) /\ step = "joining" /\ Next1 /\ step' = "none"
      /\ bound' = [bound EXCEPT ![b] = 0]
      /\ UNCHANGED <<user, nodeUp, single, running, born, closing, foreign, failed>>
  BY DEF JoinEnds, portVars
<1>2. ~running[b]
  BY <1>1 DEF LifeInv, StepInv, Doing
<1>3. /\ bound' \in [Brokers -> Nat] /\ bound'[b] = 0
      /\ \A c \in Brokers \ {b} : bound'[c] = bound[c]
  BY <1>1 DEF LifeInv, CallerType
<1>4. plan' \in Seq(Entries)
  BY <1>1, PlanLeft DEF LifeInv, CallerType
<1>5. CallerType'
  <2>1. \A c \in Brokers : bound'[c] <= All(c) /\ (running[c] => bound'[c] = All(c))
    BY <1>1, <1>2, NothingBound
  <2> QED BY <1>1, <1>3, <1>4, <2>1 DEF LifeInv, CallerType, All
<1>6. StepInv'
  BY <1>1 DEF StepInv
<1>7. PortInv'
  <2>1. \A c \in Brokers \ {b} : ~(plan # << >> /\ Head(plan)[2] = c)
    BY <1>1 DEF Doing
  <2> QED BY <1>1, <1>3, <2>1 DEF LifeInv, PortInv, All
<1>8. ScriptInv'
  BY <1>1, <1>2, NextOfScript DEF ScriptInv
<1>9. NodeInv'
  BY <1>1, <1>2, NextOfNode DEF NodeInv
<1> QED BY <1>5, <1>6, <1>7, <1>8, <1>9 DEF LifeInv

(* Threads, other processes and the release of addresses.                   *)
LEMMA OthersKeep ==
  ASSUME LifeInv, UNCHANGED <<callVars, brokerVars, failed>>,
         closing' \subseteq closing, foreign' \subseteq Ports
  PROVE  LifeInv'
<1> USE DEF callVars, brokerVars
<1>1. CallerType'
  BY DEF LifeInv, CallerType, All
<1>2. StepInv'
  BY DEF LifeInv, StepInv, Doing
<1>3. PortInv'
  BY DEF LifeInv, PortInv, All
<1>4. ScriptInv' /\ NodeInv'
  BY WithinCall
<1> QED BY <1>1, <1>2, <1>3, <1>4 DEF LifeInv

LEMMA LifeStays == LifeInv /\ StrayInv /\ [Next]_vars => LifeInv'
<1> SUFFICES ASSUME LifeInv, StrayInv, [Next]_vars
             PROVE  LifeInv'
  OBVIOUS
<1>1. foreign \subseteq Ports
  BY DEF LifeInv, CallerType
<1>2. CASE UNCHANGED vars
  BY <1>1, <1>2, OthersKeep DEF vars, portVars
<1>3. ASSUME NEW b \in Brokers, NEW n \in Starts, Loop(b, n) \/ Wake(b, n)
      PROVE  LifeInv'
  <2>1. UNCHANGED <<callVars, brokerVars, portVars, failed>>
    BY <1>3
       DEF Loop, TestFlag, Poll, Compare, Receive, Wake, RecordMessage, Sends, SendFails, Stays, Goes
  <2> QED BY <1>1, <2>1, OthersKeep DEF portVars
<1>4. ASSUME NEW a \in Ports, Release(a) \/ Occupy(a) \/ Vacate(a)
      PROVE  LifeInv'
  BY <1>1, <1>4, OthersKeep DEF Release, Occupy, Vacate
<1>5. ASSUME NEW b \in Brokers, Caller(b)
      PROVE  LifeInv'
  <2>1. starts \in [Brokers -> 0..MaxStarts]
    BY DEF StrayInv
  <2> QED BY <1>5, <2>1, UpDownKeeps, AssignKeeps, ForgetKeeps, ReturnsKeeps, PrepareHolds,
             BindKeeps, BindFailureKeeps, LaunchHolds, ClearFlagKeeps, JoinKeeps DEF Caller
<1> QED BY <1>2, <1>3, <1>4, <1>5, NodeCallKeeps, SingletonCallKeeps DEF Next

LEMMA LifeBegins == Init => LifeInv
<1> SUFFICES ASSUME Init PROVE LifeInv
  OBVIOUS
<1>1. plan = << >> /\ plan \in Seq(Entries) /\ Len(plan) = 0
  BY DEF Init
<1>2. CallerType
  <2>1. \A b \in Brokers : All(b) \in Nat
    BY LifecycleAssumption DEF LifecycleAssumption, All
  <2>2. \A b \in Brokers : bound[b] <= All(b) /\ ~running[b]
    <3> TAKE b \in Brokers
    <3>1. bound[b] = 0 /\ ~running[b]
      BY DEF Init
    <3> QED BY <2>1, <3>1
  <2>3. born \in [Brokers -> 0..MaxStarts] /\ bound \in [Brokers -> Nat]
    BY Bounded DEF Init
  <2> QED BY <1>1, <2>2, <2>3 DEF Init, CallerType
<1>3. StepInv /\ PortInv
  BY DEF Init, StepInv, PortInv
<1>4. ScriptInv /\ NodeInv
  BY <1>1 DEF Init, ScriptInv, NodeInv, ScriptPlan, NodePlan, Doing
<1> QED BY <1>2, <1>3, <1>4 DEF LifeInv

LEMMA LifeHolds == Spec => []LifeInv
BY LifeBegins, LifeStays, StrayHolds, PTL DEF Spec

(* The state of both brokers, of the node and of the singletons is well     *)
(* typed, and a broker that runs has bound all its addresses.               *)
THEOREM LifecycleTypeCorrect == Spec => []TypeOK
<1>1. LifeInv /\ StrayInv => TypeOK
  BY DEF LifeInv, CallerType, StrayInv, TypeOK, Entries
<1> QED BY <1>1, LifeHolds, StrayHolds, PTL

(* A node whose start has returned owns brokers that run, until it stops.   *)
THEOREM NodeCorrect == Spec => []NodeHasBrokers
<1>1. LifeInv => NodeHasBrokers
  BY DEF LifeInv, CallerType, ScriptInv, NodeInv, NodeHasBrokers
<1> QED BY <1>1, LifeHolds, PTL

(* A stop leaves no address behind that a start could trip over: a bind     *)
(* fails because of another process, or after a start that failed.          *)
THEOREM StartFailureCorrect == Spec => StartFailsForOthers
<1>1. LifeInv => \A b \in Brokers : BindFails(b) => Address(b) \in foreign \/ failed[b]
  <2> SUFFICES ASSUME LifeInv, NEW b \in Brokers, BindFails(b), Address(b) \in closing
               PROVE  failed[b]
    BY DEF BindFails
  <2>1. bound[b] \in Nat /\ All(b) \in Nat /\ bound[b] < All(b)
    BY LifecycleAssumption DEF LifecycleAssumption, LifeInv, CallerType, BindFails, All
  <2>2. bound[b] + 1 \in 1..All(b)
    BY <2>1
  <2> QED BY <2>2 DEF LifeInv, PortInv, Address
<1> QED BY <1>1, LifeHolds, PTL DEF StartFailsForOthers

(* run_topic_broker and run_central_broker return a broker that runs, or    *)
(* one whose last start has raised.                                         *)
THEOREM RunCorrect == Spec => ReturnsRunning
<1>1. LifeInv => \A b \in Brokers : RunReturns(b) => running[b] \/ failed[b]
  <2> SUFFICES ASSUME LifeInv, NEW b \in Brokers, RunReturns(b)
               PROVE  running[b] \/ failed[b]
    OBVIOUS
  <2>1. Doing("return", b) /\ Next1
    BY DEF RunReturns
  <2> QED BY <2>1, WhoCalls DEF LifeInv, ScriptInv
<1> QED BY <1>1, LifeHolds, PTL DEF ReturnsRunning
=============================================================================
