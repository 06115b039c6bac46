------------------------------ MODULE Registry ------------------------------
(***************************************************************************)
(* Which modules the communication node believes to be online: the         *)
(* ModuleRegistry, the node's handlers that change it, and the life of the *)
(* interfaces that register, send heartbeats, unregister, or crash.        *)
(*                                                                         *)
(* All three commands are best effort: the reply of the node changes        *)
(* nothing in the sender, so a call returns at any time after its request  *)
(* is queued, answered or timed out.  The way of a request to the node     *)
(* (RequestReply) is cut down to two FIFO queues per module: outgoing dies *)
(* with the interface, incoming with the node.  Two threads it needs can   *)
(* end while everything else goes on: the io thread of the interface, when *)
(* a handler returns what cannot be sent, and the broker thread of the     *)
(* node, when it counts a request whose command cannot be hashed.          *)
(***************************************************************************)
EXTENDS Naturals, Sequences

CONSTANTS
  Modules,      (* names under which interfaces are started                  *)
  Timeouts,     (* values of timeoutSeconds that health polls ask for        *)
  MaxStarts,    (* bound on how often an interface is started under a name   *)
  MaxOutages,   (* bound on how often the node stops or crashes              *)
  MaxMail       (* bound on the commands of a module on their way, at a beat *)

ASSUME TimeoutAssumption ==
  Timeouts \subseteq Nat /\ \E t \in Timeouts : \A u \in Timeouts : u <= t

ASSUME BoundAssumption ==
  MaxStarts \in Nat /\ MaxOutages \in Nat /\ MaxMail \in Nat \ {0}

VARIABLES
  phase,      (* the thread that starts and stops the interface              *)
  starts,     (* how often an interface was started: the current incarnation *)
  beat,       (* the heartbeat thread of the current incarnation             *)
  beating,    (* its _heartbeat_running                                      *)
  io,         (* whether its io thread runs                                  *)
  outgoing,   (* its commands that have not left the interface               *)
  incoming,   (* commands of the module that the node has still to handle    *)
  node,       (* the communication node                                      *)
  routing,    (* whether the thread of its request/reply broker runs         *)
  outages,    (* how often the node has gone down                            *)
  status,     (* status of the registry entry, "unknown" if there is none    *)
  silence,    (* time since last_seen of the entry, see Horizon              *)
  voice,      (* history: the incarnation whose command set status online    *)
  left        (* history: the last incarnation whose unregister was handled  *)

moduleVars   == <<phase, starts, beat, beating, io>>
nodeVars     == <<node, routing, outages>>
registryVars == <<status, silence, voice, left>>
vars == <<moduleVars, outgoing, incoming, nodeVars, registryVars>>

Incarnations == 1..MaxStarts
Command == [kind : {"register", "heartbeat", "unregister"}, by : Incarnations]

(* Silence is told apart up to the first value that exceeds every timeout.  *)
Horizon == CHOOSE t \in Timeouts : \A u \in Timeouts : u <= t
Silences == 0..(Horizon + 1)

Init ==
  /\ phase = [m \in Modules |-> "down"]
  /\ starts = [m \in Modules |-> 0]
  /\ beat = [m \in Modules |-> "off"]
  /\ beating = [m \in Modules |-> FALSE]
  /\ io = [m \in Modules |-> FALSE]
  /\ outgoing = [m \in Modules |-> << >>]
  /\ incoming = [m \in Modules |-> << >>]
  /\ node = "down"
  /\ routing = FALSE
  /\ outages = 0
  /\ status = [m \in Modules |-> "unknown"]
  /\ silence = [m \in Modules |-> 0]
  /\ voice = [m \in Modules |-> 0]
  /\ left = [m \in Modules |-> 0]

Send(m, kind, incarnation) ==
  outgoing' = [outgoing EXCEPT ![m] = Append(@, [kind |-> kind, by |-> incarnation])]

-----------------------------------------------------------------------------
(* The interface: __init__, the heartbeat thread, stop().                   *)

Start(m) ==
  /\ phase[m] = "down" /\ starts[m] < MaxStarts
  /\ phase' = [phase EXCEPT ![m] = "registering"]
  /\ starts' = [starts EXCEPT ![m] = @ + 1]
  /\ io' = [io EXCEPT ![m] = TRUE]
  /\ Send(m, "register", starts[m] + 1)
  /\ UNCHANGED <<beat, beating, incoming, nodeVars, registryVars>>

RegisterReturns(m) ==
  /\ phase[m] = "registering"
  /\ phase' = [phase EXCEPT ![m] = "running"]
  /\ beat' = [beat EXCEPT ![m] = "asleep"]
  /\ beating' = [beating EXCEPT ![m] = TRUE]
  /\ UNCHANGED <<starts, io, outgoing, incoming, nodeVars, registryVars>>

(* After its sleep the thread looks at the flag, and sends only later.      *)
BeatWakes(m) ==
  /\ beat[m] = "asleep"
  /\ beat' = [beat EXCEPT ![m] = IF beating[m] THEN "sending" ELSE "off"]
  /\ UNCHANGED <<phase, starts, beating, io, outgoing, incoming, nodeVars, registryVars>>

BeatSends(m) ==
  /\ beat[m] = "sending" /\ Len(outgoing[m]) + Len(incoming[m]) < MaxMail
  /\ beat' = [beat EXCEPT ![m] = "waiting"]
  /\ Send(m, "heartbeat", starts[m])
  /\ UNCHANGED <<phase, starts, beating, io, incoming, nodeVars, registryVars>>

BeatReturns(m) ==
  /\ beat[m] = "waiting"
  /\ beat' = [beat EXCEPT ![m] = IF beating[m] THEN "asleep" ELSE "off"]
  /\ UNCHANGED <<phase, starts, beating, io, outgoing, incoming, nodeVars, registryVars>>

Stop(m) ==
  /\ phase[m] = "running"
  /\ phase' = [phase EXCEPT ![m] = "joining"]
  /\ beating' = [beating EXCEPT ![m] = FALSE]
  /\ UNCHANGED <<starts, beat, io, outgoing, incoming, nodeVars, registryVars>>

Unregister(m) ==
  /\ phase' = [phase EXCEPT ![m] = "unregistering"]
  /\ Send(m, "unregister", starts[m])
  /\ UNCHANGED <<starts, beat, beating, io, incoming, nodeVars, registryVars>>

(* Mutant: stop() does not join the heartbeat thread.                       *)
DoesNotJoin(m) == phase[m] = "joining" /\ Unregister(m)

(* join(timeout=1.0) outlasts a heartbeat that is being sent or answered,   *)
(* which takes 0.3 s at most, but not the sleep of two seconds.             *)
JoinEnds(m) ==
  /\ phase[m] = "joining"
  /\ beat[m] \in {"off", "asleep"}
  /\ Unregister(m)

(* The interface ends: what it has not sent is discarded (linger=0).        *)
Ends(m) ==
  /\ phase' = [phase EXCEPT ![m] = "down"]
  /\ beat' = [beat EXCEPT ![m] = "off"]
  /\ beating' = [beating EXCEPT ![m] = FALSE]
  /\ io' = [io EXCEPT ![m] = FALSE]
  /\ outgoing' = [outgoing EXCEPT ![m] = << >>]
  /\ UNCHANGED <<starts, incoming, nodeVars, registryVars>>

UnregisterReturns(m) == phase[m] = "unregistering" /\ Ends(m)

Crash(m) == phase[m] # "down" /\ Ends(m)

(* A handler of the module returns what cannot be sent: the io thread ends  *)
(* with the exception, and commands are put into the queue and time out.    *)
HandlerBreaks(m) ==
  /\ io[m]
  /\ io' = [io EXCEPT ![m] = FALSE]
  /\ UNCHANGED <<phase, starts, beat, beating, outgoing, incoming, nodeVars, registryVars>>

-----------------------------------------------------------------------------
(* The way to the node.  While only the broker of the node is up, it has no *)
(* peer named intrabus.node and drops the command.  Once its thread has     *)
(* ended it takes nothing more, and what was sent to it is lost with it.    *)

Transmit(m) ==
  /\ outgoing[m] # << >> /\ node # "down" /\ io[m]
  /\ outgoing' = [outgoing EXCEPT ![m] = Tail(@)]
  /\ incoming' = IF node = "up" /\ routing
                 THEN [incoming EXCEPT ![m] = Append(@, Head(outgoing[m]))]
                 ELSE incoming
  /\ UNCHANGED <<moduleVars, nodeVars, registryVars>>

(* CommunicationNode.start and stop; the registry belongs to the object and *)
(* survives a stop, but not the end of the process.                         *)
NodeStarts ==
  /\ node = "down"
  /\ node' = "starting"
  /\ routing' = TRUE
  /\ UNCHANGED <<moduleVars, outgoing, incoming, outages, registryVars>>

(* The broker counts a request between modules whose command is a list or a *)
(* dictionary: the exception ends its thread, and the node does not notice. *)
BrokerBreaks ==
  /\ routing
  /\ routing' = FALSE
  /\ UNCHANGED <<moduleVars, outgoing, incoming, node, outages, registryVars>>

NodeReady ==
  /\ node = "starting"
  /\ node' = "up"
  /\ UNCHANGED <<moduleVars, outgoing, incoming, routing, outages, registryVars>>

NodeStops ==
  /\ node = "up" /\ outages < MaxOutages
  /\ node' = "stopping"
  /\ outages' = outages + 1
  /\ incoming' = [m \in Modules |-> << >>]
  /\ UNCHANGED <<moduleVars, outgoing, routing, registryVars>>

NodeStopped ==
  /\ node = "stopping"
  /\ node' = "down"
  /\ routing' = FALSE
  /\ UNCHANGED <<moduleVars, outgoing, incoming, outages, registryVars>>

NodeCrashes ==
  /\ node # "down" /\ outages < MaxOutages
  /\ node' = "down"
  /\ routing' = FALSE
  /\ outages' = outages + 1
  /\ incoming' = [m \in Modules |-> << >>]
  /\ status' = [m \in Modules |-> "unknown"]
  /\ silence' = [m \in Modules |-> 0]
  /\ UNCHANGED <<moduleVars, outgoing, voice, left>>

-----------------------------------------------------------------------------
(* The node's handlers, one command at a time.                              *)

Takes(m, kind) ==
  /\ node = "up" /\ incoming[m] # << >> /\ Head(incoming[m]).kind = kind
  /\ incoming' = [incoming EXCEPT ![m] = Tail(@)]
  /\ UNCHANGED <<moduleVars, outgoing, nodeVars>>

SetOnline(m) ==
  /\ status' = [status EXCEPT ![m] = "online"]
  /\ silence' = [silence EXCEPT ![m] = 0]
  /\ voice' = [voice EXCEPT ![m] = Head(incoming[m]).by]

HandleRegister(m) ==
  /\ Takes(m, "register")
  /\ status[m] # "online"
  /\ SetOnline(m)
  /\ UNCHANGED left

(* A name that is online is refused, and its last_seen stays as it was.     *)
RejectRegister(m) ==
  /\ Takes(m, "register")
  /\ status[m] = "online"
  /\ UNCHANGED registryVars

(* Mutant: a heartbeat updates last_seen and leaves the status alone.       *)
HeartbeatOnlySeen(m) ==
  /\ Takes(m, "heartbeat")
  /\ IF status[m] = "unknown" THEN SetOnline(m)
     ELSE silence' = [silence EXCEPT ![m] = 0] /\ UNCHANGED <<status, voice>>
  /\ UNCHANGED left

(* mark_seen registers a name it does not know and revives one offline.     *)
HandleHeartbeat(m) ==
  /\ Takes(m, "heartbeat")
  /\ SetOnline(m)
  /\ UNCHANGED left

(* Mutant: unregister only notes when the module was last seen.             *)
UnregisterOnlySeen(m) ==
  /\ Takes(m, "unregister")
  /\ silence' = [silence EXCEPT ![m] = 0]
  /\ left' = [left EXCEPT ![m] = Head(incoming[m]).by]
  /\ UNCHANGED <<status, voice>>

HandleUnregister(m) ==
  /\ Takes(m, "unregister")
  /\ status' = [status EXCEPT ![m] = IF @ = "unknown" THEN @ ELSE "offline"]
  /\ silence' = [silence EXCEPT ![m] = 0]
  /\ left' = [left EXCEPT ![m] = Head(incoming[m]).by]
  /\ UNCHANGED voice

Stale(m, timeout) == status[m] = "online" /\ silence[m] > timeout

(* Mutant: a silent module gets a status that no other operation knows.     *)
PollMarksStale(timeout) ==
  /\ node = "up"
  /\ status' = [m \in Modules |-> IF Stale(m, timeout) THEN "stale" ELSE status[m]]
  /\ UNCHANGED <<moduleVars, outgoing, incoming, nodeVars, silence, voice, left>>

(* Mutant: a poll counts as a sign of life of the modules it leaves online. *)
PollRefreshes(timeout) ==
  /\ node = "up"
  /\ status' = [m \in Modules |-> IF Stale(m, timeout) THEN "offline" ELSE status[m]]
  /\ silence' = [m \in Modules |-> IF Stale(m, timeout) THEN silence[m] ELSE 0]
  /\ UNCHANGED <<moduleVars, outgoing, incoming, nodeVars, voice, left>>

(* registry.health and node.get_health: who asks chooses the timeout.       *)
Poll(timeout) ==
  /\ node = "up"
  /\ status' = [m \in Modules |-> IF Stale(m, timeout) THEN "offline" ELSE status[m]]
  /\ UNCHANGED <<moduleVars, outgoing, incoming, nodeVars, silence, voice, left>>

(* The passing of time, told apart up to Horizon + 1.                       *)
Tick ==
  /\ silence' = [m \in Modules |->
                   IF silence[m] > Horizon \/ status[m] = "unknown"
                   THEN silence[m] ELSE silence[m] + 1]
  /\ UNCHANGED <<moduleVars, outgoing, incoming, nodeVars, status, voice, left>>

-----------------------------------------------------------------------------
(* What the threads of an interface do by themselves.                       *)
Interface(m) ==
  \/ RegisterReturns(m) \/ JoinEnds(m) \/ UnregisterReturns(m)

Heartbeat(m) == BeatWakes(m) \/ BeatSends(m) \/ BeatReturns(m)

Handle(m) ==
  HandleRegister(m) \/ RejectRegister(m) \/ HandleHeartbeat(m) \/ HandleUnregister(m)

Next ==
  \/ \E m \in Modules :
       \/ Start(m) \/ Interface(m) \/ Heartbeat(m) \/ Stop(m) \/ Crash(m)
       \/ HandlerBreaks(m) \/ Transmit(m) \/ Handle(m)
  \/ BrokerBreaks
  \/ NodeStarts \/ NodeReady \/ NodeStops \/ NodeStopped \/ NodeCrashes
  \/ \E timeout \in Timeouts : Poll(timeout)
  \/ Tick

Spec == Init /\ [][Next]_vars

(* Threads that have not ended run, handlers return, time passes, and some  *)
(* monitor in the process of the node keeps asking for the health with      *)
(* every timeout.  Nobody has to start or stop an interface or the node.    *)
Fairness ==
  /\ \A m \in Modules :
       /\ WF_vars(Interface(m))
       /\ WF_vars(Heartbeat(m))
       /\ WF_vars(Transmit(m))
       /\ WF_vars(Handle(m))
  /\ \A timeout \in Timeouts : WF_vars(Poll(timeout))
  /\ WF_vars(Tick)

FairSpec == Spec /\ Fairness

-----------------------------------------------------------------------------
TypeOK ==
  /\ phase \in [Modules -> {"down", "registering", "running", "joining", "unregistering"}]
  /\ starts \in [Modules -> 0..MaxStarts]
  /\ beat \in [Modules -> {"off", "asleep", "sending", "waiting"}]
  /\ beating \in [Modules -> BOOLEAN]
  /\ io \in [Modules -> BOOLEAN]
  /\ outgoing \in [Modules -> Seq(Command)]
  /\ incoming \in [Modules -> Seq(Command)]
  /\ node \in {"down", "starting", "up", "stopping"}
  /\ routing \in BOOLEAN
  /\ outages \in 0..MaxOutages
  /\ status \in [Modules -> {"unknown", "online", "offline"}]
  /\ silence \in [Modules -> Silences]
  /\ voice \in [Modules -> 0..MaxStarts]
  /\ left \in [Modules -> 0..MaxStarts]

(* A module is shown online only on the word of an incarnation that has not *)
(* left: no heartbeat overtakes or follows the unregister of its interface, *)
(* so a module that has stopped is not brought back by its own heartbeat.   *)
OnlineOnItsWord ==
  \A m \in Modules : status[m] = "online" => voice[m] > left[m]

(* A registration is refused only while an earlier incarnation has neither  *)
(* unregistered nor been found silent: after a clean stop that reached the  *)
(* node, the same name registers again.                                     *)
RefusedOnlyIfStillThere ==
  [][\A m \in Modules :
       RejectRegister(m) => left[m] < voice[m] /\ voice[m] <= Head(incoming[m]).by]_vars

(* A running module is online again and again while the node is up: its     *)
(* heartbeats repair a lost or refused registration, a poll that found it   *)
(* silent and the empty registry of a node that has crashed.  Not so once   *)
(* the thread that sends its heartbeats or the one that routes them ended.  *)
RunningComesOnline ==
  \A m \in Modules :
    <>[](phase[m] = "running" /\ io[m] /\ node = "up" /\ routing)
      => []<>(status[m] = "online")

(* A module that is gone, crashed or stopped, is found offline for good     *)
(* while the node is up and polled.                                         *)
GoneGoesOffline ==
  \A m \in Modules :
    <>[](phase[m] = "down" /\ node = "up") => <>[](status[m] # "online")
=============================================================================
