-------------------------- MODULE BrokerLifecycle --------------------------
(***************************************************************************)
(* Starting and stopping the brokers: TopicBroker and CentralBroker, the   *)
(* CommunicationNode that owns one of each, and the process-wide           *)
(* singletons.  One thread calls these operations, one after the other.    *)
(* Each start makes new sockets and a new thread; the threads of earlier   *)
(* starts share the flag _running and the socket attributes with it.       *)
(***************************************************************************)
EXTENDS Naturals, Sequences

CONSTANTS
  Brokers,      (* the kinds of broker, see Order                            *)
  Order,        (* the brokers in the order in which a node starts them      *)
  Addresses,    (* of a broker: what it binds, in order                      *)
  MaxStarts     (* bound on how often a broker is started                    *)

ASSUME LifecycleAssumption ==
  /\ Order \in Seq(Brokers) /\ Order # << >> /\ MaxStarts \in Nat
  /\ \A b \in Brokers : \E i \in 1..Len(Order) : Order[i] = b
  /\ \A b \in Brokers : Len(Addresses[b]) \in Nat \ {0}
  /\ \A b, c \in Brokers : b # c =>
       \A i \in 1..Len(Addresses[b]), j \in 1..Len(Addresses[c]) :
         Addresses[b][i] # Addresses[c][j]

VARIABLES
  user,       (* who calls: a "node" or a "script" that uses the singletons  *)
  plan,       (* what is left of the call in progress                        *)
  step,       (* where in start() or stop() the caller is                    *)
  nodeUp,     (* _running of the node                                        *)
  single,     (* whether the singleton is assigned                           *)
  running,    (* _running of a broker                                        *)
  starts,     (* how often a broker was started: its current sockets         *)
  born,       (* starts at the time the broker object was created            *)
  bound,      (* addresses of a broker's current sockets, as a count         *)
  loop,       (* the thread of the n-th start of a broker                    *)
  from,       (* the start on whose socket that thread receives              *)
  closing,    (* addresses of sockets that were closed and not yet released  *)
  foreign,    (* addresses that other processes have                         *)
  failed,     (* history: the last start of a broker raised                  *)
  strays      (* history: messages a thread sent through later sockets       *)

callVars   == <<user, plan, step, nodeUp, single>>
brokerVars == <<running, starts, born, bound>>
loopVars   == <<loop, from>>
portVars   == <<closing, foreign>>
vars == <<callVars, brokerVars, loopVars, portVars, failed, strays>>

Starts == 1..MaxStarts
All(b) == Len(Addresses[b])
Ports == UNION {{Addresses[b][i] : i \in 1..All(b)} : b \in Brokers}

Init ==
  /\ user \in {"node", "script"} /\ plan = << >> /\ step = "none"
  /\ nodeUp = FALSE /\ single = [b \in Brokers |-> FALSE]
  /\ running = [b \in Brokers |-> FALSE]
  /\ starts = [b \in Brokers |-> 0]
  /\ born = [b \in Brokers |-> 0]
  /\ bound = [b \in Brokers |-> 0]
  /\ loop = [t \in Brokers \X Starts |-> "none"]
  /\ from = [t \in Brokers \X Starts |-> t[2]]
  /\ closing = {} /\ foreign = {}
  /\ failed = [b \in Brokers |-> FALSE]
  /\ strays = [t \in Brokers \X Starts |-> 0]

-----------------------------------------------------------------------------
(* The calls.                                                               *)

Each(op) == [i \in 1..Len(Order) |-> <<op, Order[i]>>]

Calls(sequence) ==
  /\ plan = << >>
  /\ plan' = sequence
  /\ UNCHANGED <<user, step, nodeUp, single, brokerVars, loopVars, portVars, failed, strays>>

(* Mutant: stop_topic_broker keeps the stopped broker.                      *)
StopSingletonKeeps(b) ==
  user = "script" /\ single[b] /\ Calls(<<<<"stop", b>>>>)

NodeStart == user = "node" /\ ~nodeUp /\ Calls(Each("start") \o <<<<"up", Order[1]>>>>)
NodeStop  == user = "node" /\ nodeUp  /\ Calls(Each("stop") \o <<<<"down", Order[1]>>>>)

(* run_topic_broker, run_central_broker: a singleton that is assigned is    *)
(* returned, or with restart stopped and replaced.                          *)
Run(b, restart) ==
  /\ user = "script"
  /\ Calls((IF single[b] /\ restart THEN <<<<"stop", b>>, <<"forget", b>>>> ELSE << >>)
           \o (IF single[b] /\ ~restart THEN << >> ELSE <<<<"assign", b>>, <<"start", b>>>>)
           \o <<<<"return", b>>>>)

StopSingleton(b) ==
  user = "script" /\ single[b] /\ Calls(<<<<"stop", b>>, <<"forget", b>>>>)

Doing(op, b) == plan # << >> /\ Head(plan) = <<op, b>>
Next1 == plan' = Tail(plan)

NodeChanges(op, up, b) ==
  /\ Doing(op, b) /\ Next1
  /\ nodeUp' = up
  /\ UNCHANGED <<user, step, single, brokerVars, loopVars, portVars, failed, strays>>

NodeIsUp(b)   == NodeChanges("up", TRUE, b)
NodeIsDown(b) == NodeChanges("down", FALSE, b)

(* The new object is assigned before it is started.  What sockets the old   *)
(* one still has are closed when it is collected.                           *)
Left(b) == {Addresses[b][i] : i \in 1..bound[b]}

Assign(b) ==
  /\ Doing("assign", b) /\ Next1
  /\ single' = [single EXCEPT ![b] = TRUE]
  /\ born' = [born EXCEPT ![b] = starts[b]]
  /\ bound' = [bound EXCEPT ![b] = 0]
  /\ closing' = closing \cup Left(b)
  /\ UNCHANGED <<user, step, nodeUp, running, starts, loopVars, foreign, failed, strays>>

Forget(b) ==
  /\ Doing("forget", b) /\ Next1
  /\ single' = [single EXCEPT ![b] = FALSE]
  /\ UNCHANGED <<user, step, nodeUp, brokerVars, loopVars, portVars, failed, strays>>

RunReturns(b) ==
  /\ Doing("return", b) /\ Next1
  /\ UNCHANGED <<user, step, nodeUp, single, brokerVars, loopVars, portVars, failed, strays>>

-----------------------------------------------------------------------------
(* start(): nothing if it runs; else sockets, one bind after the other, the *)
(* flag and the thread.  A bind that fails raises out of all calls.         *)

Returns(op, b) ==
  /\ Doing(op, b) /\ step = "none" /\ running[b] = (op = "start") /\ Next1
  /\ UNCHANGED <<user, step, nodeUp, single, brokerVars, loopVars, portVars, failed, strays>>

(* Sockets that a failed start has left are closed as they are replaced.    *)
Prepare(b) ==
  /\ Doing("start", b) /\ step = "none" /\ ~running[b] /\ starts[b] < MaxStarts
  /\ step' = "binding"
  /\ starts' = [starts EXCEPT ![b] = @ + 1]
  /\ bound' = [bound EXCEPT ![b] = 0]
  /\ closing' = closing \cup Left(b)
  /\ UNCHANGED <<user, plan, nodeUp, single, running, born, loopVars, foreign, failed, strays>>

Address(b) == Addresses[b][bound[b] + 1]

Bind(b) ==
  /\ Doing("start", b) /\ step = "binding" /\ bound[b] < All(b)
  /\ Address(b) \notin closing \cup foreign
  /\ bound' = [bound EXCEPT ![b] = @ + 1]
  /\ UNCHANGED <<callVars, running, starts, born, loopVars, portVars, failed, strays>>

(* Mutant: an address in use is logged, and the caller goes on.             *)
BindFailureLogged(b) ==
  /\ Doing("start", b) /\ step = "binding" /\ bound[b] < All(b)
  /\ Address(b) \in closing \cup foreign
  /\ step' = "none" /\ Next1
  /\ failed' = [failed EXCEPT ![b] = TRUE]
  /\ UNCHANGED <<user, nodeUp, single, brokerVars, loopVars, portVars, strays>>

BindFails(b) ==
  /\ Doing("start", b) /\ step = "binding" /\ bound[b] < All(b)
  /\ Address(b) \in closing \cup foreign
  /\ plan' = << >> /\ step' = "none"
  /\ failed' = [failed EXCEPT ![b] = TRUE]
  /\ UNCHANGED <<user, nodeUp, single, brokerVars, loopVars, portVars, strays>>

(* Mutant: the flag is set before the last address is bound.                *)
LaunchEarly(b) ==
  /\ Doing("start", b) /\ step = "binding" /\ bound[b] + 1 >= All(b) /\ Next1
  /\ step' = "none"
  /\ running' = [running EXCEPT ![b] = TRUE]
  /\ loop' = [loop EXCEPT ![<<b, starts[b]>>] = "test"]
  /\ failed' = [failed EXCEPT ![b] = FALSE]
  /\ UNCHANGED <<user, nodeUp, single, starts, born, bound, from, portVars, strays>>

Launch(b) ==
  /\ Doing("start", b) /\ step = "binding" /\ bound[b] = All(b) /\ Next1
  /\ step' = "none"
  /\ running' = [running EXCEPT ![b] = TRUE]
  /\ loop' = [loop EXCEPT ![<<b, starts[b]>>] = "test"]
  /\ failed' = [failed EXCEPT ![b] = FALSE]
  /\ UNCHANGED <<user, nodeUp, single, starts, born, bound, from, portVars, strays>>

(* stop(): nothing if it does not run; else the flag, the join, the sockets *)
(* and the context, which waits until the addresses are released.           *)
ClearFlag(b) ==
  /\ Doing("stop", b) /\ step = "none" /\ running[b]
  /\ step' = "joining"
  /\ running' = [running EXCEPT ![b] = FALSE]
  /\ UNCHANGED <<user, plan, nodeUp, single, starts, born, bound, loopVars, portVars, failed, strays>>

(* Mutant: the sockets are closed and the context is left alone.            *)
JoinEndsNoDestroy(b) ==
  /\ Doing("stop", b) /\ step = "joining" /\ Next1
  /\ step' = "none"
  /\ bound' = [bound EXCEPT ![b] = 0]
  /\ closing' = closing \cup Left(b)
  /\ UNCHANGED <<user, nodeUp, single, running, starts, born, loopVars, foreign, failed, strays>>

(* The join ends with the thread or with the timeout the caller has chosen. *)
JoinEnds(b) ==
  /\ Doing("stop", b) /\ step = "joining" /\ Next1
  /\ step' = "none"
  /\ bound' = [bound EXCEPT ![b] = 0]
  /\ UNCHANGED <<user, nodeUp, single, running, starts, born, loopVars, portVars, failed, strays>>

Release(a) ==
  /\ a \in closing
  /\ closing' = closing \ {a}
  /\ UNCHANGED <<callVars, brokerVars, loopVars, foreign, failed, strays>>

(* Other processes take an address that is free, one at a time, and leave.  *)
Occupy(a) ==
  /\ foreign = {} /\ a \notin closing /\ \A b \in Brokers : a \notin Left(b)
  /\ foreign' = foreign \cup {a}
  /\ UNCHANGED <<callVars, brokerVars, loopVars, closing, failed, strays>>

Vacate(a) ==
  /\ a \in foreign
  /\ foreign' = foreign \ {a}
  /\ UNCHANGED <<callVars, brokerVars, loopVars, closing, failed, strays>>

-----------------------------------------------------------------------------
(* The thread of the n-th start: _run, _loop.  Its poller knows the socket  *)
(* it was made with; the flag, the socket to receive from and the one to    *)
(* send on are looked up in the broker every time.                          *)

Mine(b, n) == n > born[b]

(* Mutant: the poller is made anew with the socket of the broker.           *)
PollsCurrent(b, n) == Mine(b, n) /\ bound[b] = All(b)

HasOpen(b, n) == n = starts[b] /\ bound[b] = All(b)

(* Whether the attribute holds a socket: a start assigns one before it      *)
(* binds it, and leaves it there if the bind fails.                         *)
Assigned(b) == bound[b] > 0 \/ failed[b] \/ (step = "binding" /\ Doing("start", b))

Goes(b, n, at, to) ==
  /\ loop[<<b, n>>] = at
  /\ loop' = [loop EXCEPT ![<<b, n>>] = to]
  /\ UNCHANGED <<callVars, brokerVars, portVars, failed>>

Stays(b, n, at, to) == Goes(b, n, at, to) /\ UNCHANGED <<from, strays>>

TestFlag(b, n) == Stays(b, n, "test", IF Mine(b, n) /\ running[b] THEN "poll" ELSE "ended")

(* Mutant: an error of the poll is taken for a timeout.                     *)
PollAgain(b, n) ==
  IF HasOpen(b, n) THEN Stays(b, n, "poll", "test") \/ Stays(b, n, "poll", "polled")
  ELSE Stays(b, n, "poll", "test")

(* A poll returns with or without a message; with a closed socket it        *)
(* raises, which ends the thread.                                           *)
Poll(b, n) ==
  IF HasOpen(b, n) THEN Stays(b, n, "poll", "test") \/ Stays(b, n, "poll", "polled")
  ELSE Stays(b, n, "poll", "ended")

(* What the poll has found is compared with the socket of the broker.       *)
Compare(b, n) == Stays(b, n, "polled", IF HasOpen(b, n) THEN "receive" ELSE "test")

(* recv_multipart takes the socket the broker has by now.  Nothing need     *)
(* have come for it if that is another one than was polled, or if a thread  *)
(* of an earlier start receives from it as well; and without a socket the   *)
(* attribute is None, which ends the thread.                                *)
Alone(b, n) == n = starts[b] /\ \A k \in Starts : k # n => from[<<b, k>>] # n

Receive(b, n) ==
  /\ strays' = strays
  /\ IF Mine(b, n) /\ Assigned(b)
     THEN /\ \/ Goes(b, n, "receive", "record") /\ bound[b] > 0
             \/ Goes(b, n, "receive", "blocked") /\ ~Alone(b, n)
          /\ from' = [from EXCEPT ![<<b, n>>] = starts[b]]
     ELSE Goes(b, n, "receive", "ended") /\ from' = from

(* A receive that waits ends with a message, or with an error once its      *)
(* socket is closed.  Neither has to happen: nobody need send a message,    *)
(* and no call interrupts a receive on a socket that another thread closes. *)
Wake(b, n) ==
  IF Mine(b, n) /\ from[<<b, n>>] = starts[b] /\ Assigned(b)
  THEN bound[b] > 0 /\ Stays(b, n, "blocked", "record")
  ELSE Stays(b, n, "blocked", "ended")

(* record_message, which raises for a command that cannot be hashed.        *)
RecordMessage(b, n) == Stays(b, n, "record", "send") \/ Stays(b, n, "record", "ended")

(* Without a socket the attribute is None, and the thread ends.  A socket   *)
(* that is closed meanwhile raises ZMQError, which _loop takes for a        *)
(* message it cannot deliver.  Half way through a start there may be a      *)
(* socket to send on or not.                                                *)
Sends(b, n) ==
  /\ Mine(b, n) /\ Assigned(b)
  /\ Goes(b, n, "send", "test") /\ from' = from
  /\ strays' = IF n # starts[b] THEN [strays EXCEPT ![<<b, n>>] = @ + 1] ELSE strays

SendFails(b, n) ==
  /\ ~(Mine(b, n) /\ bound[b] = All(b))
  /\ Stays(b, n, "send", "test") \/ Stays(b, n, "send", "ended")

Loop(b, n) ==
  \/ TestFlag(b, n) \/ Poll(b, n) \/ Compare(b, n) \/ Receive(b, n)
  \/ RecordMessage(b, n) \/ Sends(b, n) \/ SendFails(b, n)

-----------------------------------------------------------------------------
Caller(b) ==
  \/ NodeIsUp(b) \/ NodeIsDown(b) \/ Assign(b) \/ Forget(b) \/ RunReturns(b)
  \/ Returns("start", b) \/ Prepare(b) \/ Bind(b) \/ BindFails(b) \/ Launch(b)
  \/ Returns("stop", b) \/ ClearFlag(b) \/ JoinEnds(b)

Next ==
  \/ NodeStart \/ NodeStop
  \/ \E b \in Brokers : StopSingleton(b) \/ \E restart \in BOOLEAN : Run(b, restart)
  \/ \E b \in Brokers : Caller(b) \/ \E n \in Starts : Loop(b, n) \/ Wake(b, n)
  \/ \E a \in Ports : Release(a) \/ Occupy(a) \/ Vacate(a)

Spec == Init /\ [][Next]_vars

-----------------------------------------------------------------------------
Places == {"none", "test", "poll", "polled", "receive", "blocked", "record", "send", "ended"}

TypeOK ==
  /\ user \in {"node", "script"} /\ step \in {"none", "binding", "joining"}
  /\ plan \in Seq({"start", "stop", "up", "down", "assign", "forget", "return"} \X Brokers)
  /\ nodeUp \in BOOLEAN /\ single \in [Brokers -> BOOLEAN] /\ running \in [Brokers -> BOOLEAN]
  /\ starts \in [Brokers -> 0..MaxStarts] /\ born \in [Brokers -> 0..MaxStarts]
  /\ bound \in [Brokers -> Nat] /\ \A b \in Brokers : bound[b] <= All(b)
  /\ loop \in [Brokers \X Starts -> Places] /\ from \in [Brokers \X Starts -> Starts]
  /\ closing \subseteq Ports /\ foreign \subseteq Ports
  /\ failed \in [Brokers -> BOOLEAN]
  /\ strays \in [Brokers \X Starts -> Nat]
  /\ \A b \in Brokers : running[b] => bound[b] = All(b)

(* A thread that outlives its stop and finds the broker started again sends *)
(* one message at most through the new socket, the one it has in its hands  *)
(* or one that it takes from the new socket: it is never a second thread    *)
(* that serves the broker.                                                  *)
OneStrayAtMost ==
  \A b \in Brokers, n \in Starts : strays[<<b, n>>] <= 1

(* A thread of an earlier start only comes nearer to its end, though a start *)
(* that follows sets the flag and the sockets it looks at again: it makes no *)
(* second turn.  It may wait for good in a receive, on the socket of a later *)
(* start or on one that has been closed.                                     *)
Remaining == [ended |-> 0, poll |-> 1, test |-> 2, send |-> 3, polled |-> 3,
              record |-> 4, blocked |-> 5, receive |-> 6]

EarlierLoopsRunOut ==
  [][\A b \in Brokers, n \in Starts :
       loop[<<b, n>>] # "none" /\ n < starts[b] /\ loop'[<<b, n>>] # loop[<<b, n>>]
         => Remaining[loop'[<<b, n>>]] < Remaining[loop[<<b, n>>]]]_vars

(* A start fails only because another process has the address, or because   *)
(* an earlier start failed half way and its socket is still closing: a stop *)
(* leaves nothing behind that a start could trip over.                      *)
StartFailsForOthers ==
  [][\A b \in Brokers : BindFails(b) => Address(b) \in foreign \/ failed[b]]_vars

(* run_topic_broker and run_central_broker return a broker that runs,       *)
(* unless a start of it has raised: then the singleton is assigned and      *)
(* stays as it is.  Here and below a broker runs when its flag is set and   *)
(* all its addresses are bound; its thread may have ended.                  *)
ReturnsRunning ==
  [][\A b \in Brokers : RunReturns(b) => running[b] \/ failed[b]]_vars

(* A node that is up, with no call under way, has brokers that run, whatever *)
(* starts failed half way before.                                           *)
NodeHasBrokers == nodeUp /\ plan = << >> => \A b \in Brokers : running[b]
=============================================================================
