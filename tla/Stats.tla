------------------------------- MODULE Stats -------------------------------
(***************************************************************************)
(* The StatsCollector of a communication node and the threads that write   *)
(* to it: the broker, which records a message before it tries to send it;  *)
(* the threads of the interfaces that were given the collector, which      *)
(* record timeouts, latencies and handler errors; the topic broker, which  *)
(* records events; and whoever resets it.                                  *)
(*                                                                         *)
(* Each call is one send_request between two modules.  Of the bus only the *)
(* order is kept in which the collector can hear of it (RequestReply has   *)
(* the rest): the broker takes a request at most once, a reply only after  *)
(* it has forwarded the request, and the caller may give up at any time.   *)
(* A message that is lost on the way is one the broker never takes.        *)
(*                                                                         *)
(* Of latencies only the number of samples is kept, of messages only what  *)
(* is counted: recent_events (see NodeHealth), recent_messages and the     *)
(* topics are left out.  So are commands that cannot be hashed: they raise *)
(* before anything is recorded (see RequestReply for what that ends).      *)
(***************************************************************************)
EXTENDS Naturals, FiniteSets, Functions

CONSTANTS
  Modules,       (* names of the interfaces                                  *)
  NodeModule,    (* INTRABUS_NODE_MODULE                                     *)
  Observed,      (* modules whose interface was given this collector         *)
  Calls,         (* invocations of send_request                              *)
  From, To,      (* the module that makes a call, and its target             *)
  Workloads,     (* bound: the sets of calls that one behaviour may contain  *)
  Commands,      (* calls whose payload has a command of INTERNAL_COMMANDS   *)
  Untyped,       (* calls answered by a module of a release before 0.2.2,    *)
                 (* whose replies have no INTRABUS_MESSAGE_TYPE              *)
  MaxPending,    (* max_pending_latencies                                    *)
  TimeToLive,    (* pending_latency_ttl_seconds                              *)
  MaxPublished,  (* bound on the events published                            *)
  MaxResets,     (* bound on the resets                                      *)
  None           (* no message                                               *)

ASSUME StatsAssumption ==
  /\ IsFiniteSet(Calls) /\ IsFiniteSet(Modules)
  /\ From \in [Calls -> Modules]
  /\ To \in [Calls -> Modules]
  /\ \A c \in Calls : From[c] # To[c]
  /\ Observed \subseteq Modules
  /\ Commands \subseteq Calls
  /\ Untyped \subseteq Calls
  /\ {MaxPending, TimeToLive, MaxPublished, MaxResets} \subseteq Nat
  /\ None \notin Modules \cup (Calls \X {"request", "reply"})

VARIABLES
  caller,     (* what the calling thread does                                *)
  request,    (* how far the request has come                                *)
  reply,      (* how far the reply has come                                  *)
  taken,      (* what the broker has recorded and not sent: <<call, kind>>   *)
  published,  (* how many events were published                              *)
  resets,     (* how often the collector was reset                           *)
  totals,     (* total_messages, total_requests, ..., latency_samples        *)
  sent,       (* per_module: messages, requests and replies sent             *)
  received,   (* per_module: messages, requests and replies received         *)
  timeouts,   (* per_module                                                  *)
  errors,     (* per_module                                                  *)
  latencies,  (* keys of _pending_latencies                                  *)
  place,      (* place of an entry in the order of the dictionary            *)
  age,        (* time since a pending latency was started, see Tick          *)
  over,       (* history: timed out or failed since the broker recorded them *)
  sampled     (* history: calls whose latency the broker has recorded        *)

busVars     == <<caller, request, reply, taken, published>>
moduleVars  == <<sent, received, timeouts, errors>>
pendingVars == <<latencies, place, age>>
historyVars == <<over, sampled>>
vars == <<busVars, resets, totals, moduleVars, pendingVars, historyVars>>

Kinds    == {"message", "request", "reply"}
Counters == Kinds \cup {"event", "timeout", "error", "failure", "sample"}

NoCounts  == [m \in Modules |-> [k \in Kinds |-> 0]]
NoTotals  == [k \in Counters |-> 0]
Zero      == [m \in Modules |-> 0]

Init ==
  /\ caller = [c \in Calls |-> "idle"]
  /\ request = [c \in Calls |-> "unsent"]
  /\ reply = [c \in Calls |-> "unsent"]
  /\ taken = None
  /\ published = 0
  /\ resets = 0
  /\ totals = NoTotals
  /\ sent = NoCounts
  /\ received = NoCounts
  /\ timeouts = Zero
  /\ errors = Zero
  /\ latencies = {}
  /\ place = [c \in Calls |-> 0]
  /\ age = [c \in Calls |-> 0]
  /\ over = {}
  /\ sampled = {}

-----------------------------------------------------------------------------
(* is_internal_message: traffic with the node, and requests, but not        *)
(* replies, that carry a command of the node.                               *)

Internal(c, kind) ==
  \/ NodeModule \in {From[c], To[c]}
  \/ kind = "request" /\ c \in Commands

(* _expire_pending_latencies: what is too old at the next message is gone.  *)
Alive == IF TimeToLive = 0 THEN {} ELSE {c \in latencies : age[c] <= TimeToLive}

(* _trim_pending_latencies, after one insertion: the oldest entry goes.     *)
Oldest(S) == CHOOSE c \in S : \A d \in S : place'[c] <= place'[d]

(* Mutant: one entry more than the bound is kept.                           *)
TrimLate(S) == IF Cardinality(S) > MaxPending + 1 THEN S \ {Oldest(S)} ELSE S

Trim(S) == IF Cardinality(S) > MaxPending THEN S \ {Oldest(S)} ELSE S

(* record_message: the totals, and the sender's and the target's counters.  *)
CountMessage(kind, from, to, samples) ==
  /\ totals' = [totals EXCEPT !["message"] = @ + 1, ![kind] = @ + 1,
                              !["sample"] = @ + samples]
  /\ sent' = [sent EXCEPT ![from]["message"] = @ + 1, ![from][kind] = @ + 1]
  /\ received' = [received EXCEPT ![to]["message"] = @ + 1, ![to][kind] = @ + 1]
  /\ UNCHANGED <<timeouts, errors>>

(* How many messages the broker has taken: later entries have more.         *)
Taken == Cardinality({d \in Calls : request[d] # "unsent"})
         + Cardinality({d \in Calls : reply[d] # "unsent"})

(* An entry that is there keeps its place when it is written again.         *)
StartLatency(c) ==
  /\ place' = [place EXCEPT ![c] = IF c \in Alive THEN @ ELSE 1 + Taken]
  /\ age' = [age EXCEPT ![c] = 0]
  /\ latencies' = Trim(Alive \cup {c})

-----------------------------------------------------------------------------
(* The broker: record, then send, then record a failure.                    *)

(* Bound: the calls made so far and c belong to one workload.               *)
Planned(c) ==
  \E S \in Workloads : c \in S /\ \A d \in Calls : caller[d] # "idle" => d \in S

Ask(c) ==
  /\ caller[c] = "idle" /\ Planned(c)
  /\ caller' = [caller EXCEPT ![c] = "open"]
  /\ UNCHANGED <<request, reply, taken, published, resets, totals, moduleVars,
                 pendingVars, historyVars>>

TakesRequest(c) ==
  /\ taken = None /\ caller[c] # "idle" /\ request[c] = "unsent"
  /\ taken' = <<c, "request">>
  /\ request' = [request EXCEPT ![c] = "taken"]
  /\ UNCHANGED <<caller, reply, published, resets>>

TakesReply(c) ==
  /\ taken = None /\ request[c] \in {"forwarded", "raised"} /\ reply[c] = "unsent"
  /\ taken' = <<c, "reply">>
  /\ reply' = [reply EXCEPT ![c] = "taken"]
  /\ UNCHANGED <<caller, request, published, resets>>

RecordRequest(c) ==
  /\ TakesRequest(c) /\ ~Internal(c, "request")
  /\ CountMessage("request", From[c], To[c], 0)
  /\ StartLatency(c)
  /\ UNCHANGED historyVars

(* Mutant: every reply is a latency sample.                                 *)
RecordReplyAlwaysSamples(c) ==
  /\ TakesReply(c) /\ ~Internal(c, "reply") /\ c \notin Untyped
  /\ CountMessage("reply", To[c], From[c], 1)
  /\ latencies' = Alive \ {c}
  /\ sampled' = sampled \cup {c}
  /\ UNCHANGED <<place, age, over>>

RecordReply(c) ==
  /\ TakesReply(c) /\ ~Internal(c, "reply") /\ c \notin Untyped
  /\ CountMessage("reply", To[c], From[c], IF c \in Alive THEN 1 ELSE 0)
  /\ latencies' = Alive \ {c}
  /\ sampled' = IF c \in Alive THEN sampled \cup {c} ELSE sampled
  /\ UNCHANGED <<place, age, over>>

(* Without a type it is a request to the broker: it is counted as one, it   *)
(* starts the latency of the call anew, and it is no sample.                *)
RecordUntypedReply(c) ==
  /\ TakesReply(c) /\ ~Internal(c, "reply") /\ c \in Untyped
  /\ CountMessage("request", To[c], From[c], 0)
  /\ StartLatency(c)
  /\ over' = over \ {c}
  /\ UNCHANGED sampled

PassInternal(c) ==
  /\ \/ TakesRequest(c) /\ Internal(c, "request")
     \/ TakesReply(c) /\ Internal(c, "reply")
  /\ UNCHANGED <<totals, moduleVars, pendingVars, historyVars>>

Concludes(c, kind, outcome) ==
  /\ taken = <<c, kind>>
  /\ taken' = None
  /\ IF kind = "request"
     THEN request' = [request EXCEPT ![c] = outcome] /\ UNCHANGED reply
     ELSE reply' = [reply EXCEPT ![c] = outcome] /\ UNCHANGED request
  /\ UNCHANGED <<caller, published, resets>>

Forward(c, kind) ==
  /\ Concludes(c, kind, "forwarded")
  /\ UNCHANGED <<totals, moduleVars, pendingVars, historyVars>>

(* Mutant: a failure leaves the pending latency to expire.                  *)
FailureKeepsEntry(c, kind) ==
  /\ Concludes(c, kind, "failed")
  /\ over' = over \cup {c}
  /\ IF NodeModule \in {From[c], To[c]}
     THEN UNCHANGED <<totals, errors>>
     ELSE /\ totals' = [totals EXCEPT !["failure"] = @ + 1, !["error"] = @ + 1]
          /\ errors' = [errors EXCEPT ![IF kind = "request" THEN From[c] ELSE To[c]] = @ + 1]
  /\ UNCHANGED <<sent, received, timeouts, pendingVars, sampled>>

(* record_delivery_failure sees no payload: a command does not hide it.     *)
RecordFailure(c, kind) ==
  /\ Concludes(c, kind, "failed")
  /\ latencies' = latencies \ {c}
  /\ over' = over \cup {c}
  /\ IF NodeModule \in {From[c], To[c]}
     THEN UNCHANGED <<totals, errors>>
     ELSE /\ totals' = [totals EXCEPT !["failure"] = @ + 1, !["error"] = @ + 1]
          /\ errors' = [errors EXCEPT ![IF kind = "request" THEN From[c] ELSE To[c]] = @ + 1]
  /\ UNCHANGED <<sent, received, timeouts, place, age, sampled>>

-----------------------------------------------------------------------------
(* The interfaces.  One that was not given the collector records nothing.   *)

(* Mutant: timeouts and latencies of calls with the node are recorded too.   *)
CountedWithNode(c) == From[c] \in Observed /\ c \notin Commands

Counted(c) == From[c] \in Observed /\ ~Internal(c, "request")

GiveUp(c) ==
  /\ caller[c] = "open"
  /\ caller' = [caller EXCEPT ![c] = "timedout"]
  /\ IF Counted(c)
     THEN /\ latencies' = latencies \ {c}
          /\ totals' = [totals EXCEPT !["timeout"] = @ + 1]
          /\ timeouts' = [timeouts EXCEPT ![From[c]] = @ + 1]
          /\ over' = IF request[c] = "unsent" THEN over ELSE over \cup {c}
     ELSE UNCHANGED <<latencies, totals, timeouts, over>>
  /\ UNCHANGED <<request, reply, taken, published, resets, sent, received, errors,
                 place, age, sampled>>

(* The caller's own measure of a latency the broker has measured already.   *)
Answer(c) ==
  /\ caller[c] = "open" /\ reply[c] = "forwarded"
  /\ caller' = [caller EXCEPT ![c] = "answered"]
  /\ totals' = IF Counted(c) THEN [totals EXCEPT !["sample"] = @ + 1] ELSE totals
  /\ UNCHANGED <<request, reply, taken, published, resets, moduleVars,
                 pendingVars, historyVars>>

(* The target's handler raises: record_error knows no internal messages.    *)
HandlerError(c) ==
  /\ request[c] = "forwarded" /\ reply[c] = "unsent"
  /\ To[c] \in Observed
  /\ request' = [request EXCEPT ![c] = "raised"]
  /\ totals' = [totals EXCEPT !["error"] = @ + 1]
  /\ errors' = [errors EXCEPT ![To[c]] = @ + 1]
  /\ UNCHANGED <<caller, reply, taken, published, resets, sent, received, timeouts,
                 pendingVars, historyVars>>

(* Mutant: an event without a sender is counted under None.                 *)
PublishCountsNobody(sender) ==
  /\ published < MaxPublished
  /\ published' = published + 1
  /\ totals' = [totals EXCEPT !["message"] = @ + 1, !["event"] = @ + 1]
  /\ sent' = IF sender = None
             THEN [m \in Modules \cup {None} |->
                     IF m = None THEN [k \in Kinds |-> 1] ELSE sent[m]]
             ELSE [sent EXCEPT ![sender]["message"] = @ + 1]
  /\ latencies' = Alive
  /\ UNCHANGED <<caller, request, reply, taken, resets, received, timeouts, errors,
                 place, age, historyVars>>

(* The topic broker records an event; its payload may name a sender.        *)
Publish(sender) ==
  /\ published < MaxPublished
  /\ published' = published + 1
  /\ totals' = [totals EXCEPT !["message"] = @ + 1, !["event"] = @ + 1]
  /\ sent' = IF sender = None THEN sent ELSE [sent EXCEPT ![sender]["message"] = @ + 1]
  /\ latencies' = Alive
  /\ UNCHANGED <<caller, request, reply, taken, resets, received, timeouts, errors,
                 place, age, historyVars>>

(* Mutant: the counters of the modules survive a reset.                     *)
ResetKeepsModules ==
  /\ resets < MaxResets
  /\ resets' = resets + 1
  /\ totals' = NoTotals
  /\ latencies' = {}
  /\ UNCHANGED <<busVars, moduleVars, place, age, historyVars>>

Reset ==
  /\ resets < MaxResets
  /\ resets' = resets + 1
  /\ totals' = NoTotals
  /\ sent' = NoCounts
  /\ received' = NoCounts
  /\ timeouts' = Zero
  /\ errors' = Zero
  /\ latencies' = {}
  /\ UNCHANGED <<busVars, place, age, historyVars>>

(* Ages are told apart up to the first that exceeds the time to live.       *)
Tick ==
  /\ age' = [c \in Calls |-> IF c \in latencies /\ age[c] <= TimeToLive
                             THEN age[c] + 1 ELSE age[c]]
  /\ UNCHANGED <<busVars, resets, totals, moduleVars, latencies, place, historyVars>>

-----------------------------------------------------------------------------
Broker(c) ==
  \/ RecordRequest(c) \/ RecordReply(c) \/ RecordUntypedReply(c) \/ PassInternal(c)
  \/ \E kind \in {"request", "reply"} : Forward(c, kind) \/ RecordFailure(c, kind)

Next ==
  \/ \E c \in Calls : Ask(c) \/ Broker(c) \/ GiveUp(c) \/ Answer(c) \/ HandlerError(c)
  \/ \E sender \in Modules \cup {None} : Publish(sender)
  \/ Reset \/ Tick

Spec == Init /\ [][Next]_vars

-----------------------------------------------------------------------------
TypeOK ==
  /\ caller \in [Calls -> {"idle", "open", "answered", "timedout"}]
  /\ request \in [Calls -> {"unsent", "taken", "forwarded", "raised", "failed"}]
  /\ reply \in [Calls -> {"unsent", "taken", "forwarded", "failed"}]
  /\ taken \in (Calls \X {"request", "reply"}) \cup {None}
  /\ published \in 0..MaxPublished
  /\ resets \in 0..MaxResets
  /\ totals \in [Counters -> Nat]
  /\ sent \in [Modules -> [Kinds -> Nat]]
  /\ received \in [Modules -> [Kinds -> Nat]]
  /\ timeouts \in [Modules -> Nat]
  /\ errors \in [Modules -> Nat]
  /\ latencies \subseteq Calls
  /\ place \in [Calls -> Nat]
  /\ age \in [Calls -> 0..(TimeToLive + 1)]
  /\ over \subseteq Calls
  /\ sampled \subseteq Calls

(* The totals are the sums of the counters of the modules, in every state   *)
(* a report can be taken in: whatever threads record at the same time, and  *)
(* whenever the collector is reset.                                         *)
SumOf(counts, kind) == SumFunction([m \in Modules |-> counts[m][kind]])

SumsAgree ==
  /\ \A kind \in {"request", "reply"} :
       totals[kind] = SumOf(sent, kind) /\ totals[kind] = SumOf(received, kind)
  /\ totals["message"] = totals["request"] + totals["reply"] + totals["event"]
  /\ SumOf(received, "message") = totals["request"] + totals["reply"]
  /\ totals["timeout"] = SumFunction(timeouts)
  /\ totals["error"] = SumFunction(errors)

(* A pending latency belongs to a request that can still be answered: the   *)
(* broker has recorded it, no reply came, and it has no internal command.   *)
(* Or it was started by the untyped reply of an older module: such an entry *)
(* is for a call that may be over.  In both cases nobody has recorded a     *)
(* timeout or a failure of the call since.                                  *)
PendingOnlyOpen ==
  \A c \in latencies :
    /\ c \notin over
    /\ \/ /\ request[c] \in {"taken", "forwarded", "raised"} /\ reply[c] = "unsent"
          /\ ~Internal(c, "request")
       \/ /\ c \in Untyped /\ reply[c] \in {"taken", "forwarded"}
          /\ ~Internal(c, "reply")

(* "Pending latency tracking is bounded" (CHANGELOG.md).                    *)
PendingBounded == Cardinality(latencies) <= MaxPending

(* "Internal node-management traffic still does not contribute" to what the *)
(* collector tells a user (CHANGELOG.md says it of latencies): the messages *)
(* and timeouts counted for a module are accounted for by calls that the    *)
(* node neither makes nor gets, and so are the samples.  A call with the    *)
(* node leaves a trace neither at the node nor at the other module.         *)
Business == {c \in Calls : NodeModule \notin {From[c], To[c]}}

NodeTrafficExcluded ==
  /\ \A m \in Modules :
       LET asked    == {c \in Business : From[c] = m /\ request[c] # "unsent"}
           answered == {c \in Business : To[c] = m /\ reply[c] # "unsent"}
           called   == {c \in Business : To[c] = m /\ request[c] # "unsent"}
           told     == {c \in Business : From[c] = m /\ reply[c] # "unsent"}
       IN  /\ sent[m]["request"] + sent[m]["reply"] <= Cardinality(asked) + Cardinality(answered)
           /\ received[m]["message"] <= Cardinality(called) + Cardinality(told)
           /\ timeouts[m]
                <= Cardinality({c \in Business : From[c] = m /\ caller[c] = "timedout"})
  /\ totals["sample"] <= Cardinality({c \in Business : caller[c] = "answered"})
                          + Cardinality({c \in Business : reply[c] # "unsent"})

(* A late reply is no sample: after a timeout or a failure of a request the *)
(* broker has recorded, the reply does not count as a latency.              *)
NoSampleOnceOver ==
  [][\A c \in over : c \in sampled' => c \in sampled]_vars

(* "Pending latency tracking is bounded and cleaned up for requests that    *)
(* time out or cannot be delivered" (CHANGELOG.md): once a timeout was      *)
(* recorded and the broker is done with the request, no entry is left.      *)
CleanedUp ==
  \A c \in Calls :
    caller[c] = "timedout" /\ Counted(c) /\ taken # <<c, "request">> => c \notin latencies
=============================================================================
