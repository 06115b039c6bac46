---------------------------- MODULE StatsProofs ----------------------------
(***************************************************************************)
(* What Stats keeps for every set of modules and calls, every time to live *)
(* and every bound: types, which requests have a pending latency, how many *)
(* there are, that a late reply is no sample, and that totals are sums.    *)
(***************************************************************************)
EXTENDS Stats, FiniteSetTheorems, WellFoundedInduction, TLAPS

(* Alive and Trim only remove entries.                                      *)
LEMMA AliveShrinks == Alive \subseteq latencies
BY DEF Alive

LEMMA TrimShrinks == \A S : Trim(S) \subseteq S
BY DEF Trim

LEMMA PlaceIsNatural == 1 + Taken \in Nat
<1>1. IsFiniteSet({d \in Calls : request[d] # "unsent"})
      /\ IsFiniteSet({d \in Calls : reply[d] # "unsent"})
  BY StatsAssumption, FS_Subset DEF StatsAssumption
<1> QED BY <1>1, FS_CardinalityType DEF Taken

(* Counting one more message keeps the types of the counters.               *)
Counts ==
  /\ totals \in [Counters -> Nat]
  /\ sent \in [Modules -> [Kinds -> Nat]]
  /\ received \in [Modules -> [Kinds -> Nat]]
  /\ timeouts \in [Modules -> Nat]
  /\ errors \in [Modules -> Nat]

LEMMA CountsKept ==
  ASSUME Counts, NEW kind \in {"request", "reply"}, NEW from \in Modules,
         NEW to \in Modules, NEW samples \in {0, 1},
         CountMessage(kind, from, to, samples)
  PROVE  Counts'
<1> USE DEF Counts, CountMessage, Counters, Kinds
<1>1. totals' \in [Counters -> Nat]
  OBVIOUS
<1>2. sent' \in [Modules -> [Kinds -> Nat]]
  <2>1. [sent[from] EXCEPT !["message"] = @ + 1] \in [Kinds -> Nat]
    OBVIOUS
  <2>2. [sent EXCEPT ![from]["message"] = @ + 1] \in [Modules -> [Kinds -> Nat]]
    BY <2>1
  <2> QED BY <2>2
<1>3. received' \in [Modules -> [Kinds -> Nat]]
  <2>1. [received EXCEPT ![to]["message"] = @ + 1] \in [Modules -> [Kinds -> Nat]]
    OBVIOUS
  <2> QED BY <2>1
<1> QED BY <1>1, <1>2, <1>3

-----------------------------------------------------------------------------
LEMMA TypeInitially == Init => TypeOK
BY StatsAssumption DEF Init, TypeOK, StatsAssumption, NoTotals, NoCounts, Zero,
                       Counters, Kinds

LEMMA TypePreserved == TypeOK /\ [Next]_vars => TypeOK'
<1> SUFFICES ASSUME TypeOK, [Next]_vars PROVE TypeOK'
  OBVIOUS
<1>0. Counts
  BY DEF TypeOK, Counts
<1> USE DEF TypeOK, busVars, moduleVars, pendingVars, historyVars
<1>1. CASE UNCHANGED vars
  BY <1>1 DEF vars
<1>2. ASSUME NEW c \in Calls, Ask(c) PROVE TypeOK'
  BY <1>2 DEF Ask
<1>3. ASSUME NEW c \in Calls, RecordRequest(c) PROVE TypeOK'
  <2>1. Counts'
    BY <1>0, <1>3, CountsKept, StatsAssumption DEF RecordRequest, StatsAssumption
  <2>2. latencies' \subseteq Calls
    BY <1>3, AliveShrinks, TrimShrinks DEF RecordRequest, StartLatency
  <2>3. place' \in [Calls -> Nat]
    BY <1>3, PlaceIsNatural DEF RecordRequest, StartLatency
  <2>4. age' \in [Calls -> 0..(TimeToLive + 1)]
    BY <1>3, StatsAssumption DEF RecordRequest, StartLatency, StatsAssumption
  <2> QED BY <1>3, <2>1, <2>2, <2>3, <2>4 DEF RecordRequest, TakesRequest, Counts
<1>4. ASSUME NEW c \in Calls, RecordReply(c) PROVE TypeOK'
  <2>1. Counts'
    BY <1>0, <1>4, CountsKept, StatsAssumption DEF RecordReply, StatsAssumption
  <2> QED BY <1>4, <2>1, AliveShrinks DEF RecordReply, TakesReply, Counts
<1>14. ASSUME NEW c \in Calls, RecordUntypedReply(c) PROVE TypeOK'
  <2>1. Counts'
    BY <1>0, <1>14, CountsKept, StatsAssumption DEF RecordUntypedReply, StatsAssumption
  <2>2. latencies' \subseteq Calls
    BY <1>14, AliveShrinks, TrimShrinks DEF RecordUntypedReply, StartLatency
  <2>3. place' \in [Calls -> Nat]
    BY <1>14, PlaceIsNatural DEF RecordUntypedReply, StartLatency
  <2>4. age' \in [Calls -> 0..(TimeToLive + 1)]
    BY <1>14, StatsAssumption DEF RecordUntypedReply, StartLatency, StatsAssumption
  <2> QED BY <1>14, <2>1, <2>2, <2>3, <2>4 DEF RecordUntypedReply, TakesReply, Counts
<1>5. ASSUME NEW c \in Calls, PassInternal(c) PROVE TypeOK'
  BY <1>5 DEF PassInternal, TakesRequest, TakesReply
<1>6. ASSUME NEW c \in Calls, NEW kind \in {"request", "reply"}, Forward(c, kind)
      PROVE  TypeOK'
  BY <1>6 DEF Forward, Concludes
<1>7. ASSUME NEW c \in Calls, NEW kind \in {"request", "reply"}, RecordFailure(c, kind)
      PROVE  TypeOK'
  <2>1. (IF kind = "request" THEN From[c] ELSE To[c]) \in Modules
    BY StatsAssumption DEF StatsAssumption
  <2>2. totals' \in [Counters -> Nat]
    BY <1>7 DEF RecordFailure, Counters
  <2>3. errors' \in [Modules -> Nat]
    <3>1. errors' = errors \/ \E m \in Modules : errors' = [errors EXCEPT ![m] = @ + 1]
      BY <1>7, <2>1 DEF RecordFailure
    <3> QED BY <1>0, <3>1 DEF Counts
  <2>4. Counts'
    BY <1>7, <2>2, <2>3 DEF RecordFailure, Counts
  <2> QED BY <1>7, <2>4 DEF RecordFailure, Concludes, Counts
<1>8. ASSUME NEW c \in Calls, GiveUp(c) PROVE TypeOK'
  <2>1. Counts'
    BY <1>8, StatsAssumption DEF GiveUp, StatsAssumption, Counts, Counters, Kinds
  <2> QED BY <1>8, <2>1 DEF GiveUp, Counts
<1>9. ASSUME NEW c \in Calls, Answer(c) PROVE TypeOK'
  BY <1>9 DEF Answer, Counters, Kinds
<1>10. ASSUME NEW c \in Calls, HandlerError(c) PROVE TypeOK'
  BY <1>10, StatsAssumption DEF HandlerError, StatsAssumption, Counters, Kinds
<1>11. ASSUME NEW sender \in Modules \cup {None}, Publish(sender) PROVE TypeOK'
  <2>1. totals' \in [Counters -> Nat]
    BY <1>11 DEF Publish, Counters, Kinds
  <2>2. sent' \in [Modules -> [Kinds -> Nat]]
    BY <1>11 DEF Publish, Kinds
  <2>3. published' \in 0..MaxPublished
    BY <1>11, StatsAssumption DEF Publish, StatsAssumption
  <2> QED BY <1>11, <2>1, <2>2, <2>3, AliveShrinks DEF Publish
<1>12. CASE Reset
  BY <1>12, StatsAssumption DEF Reset, StatsAssumption, NoTotals, NoCounts, Zero,
                                Counters, Kinds
<1>13. CASE Tick
  BY <1>13, StatsAssumption DEF Tick, StatsAssumption
<1> QED
  BY <1>1, <1>2, <1>3, <1>4, <1>5, <1>6, <1>7, <1>8, <1>9, <1>10, <1>11, <1>12, <1>13,
     <1>14 DEF Next, Broker

(* Every variable of the collector keeps its type: no counter is ever       *)
(* negative, whatever is recorded and reset in which order.                 *)
THEOREM TypeCorrect == Spec => []TypeOK
BY TypeInitially, TypePreserved, PTL DEF Spec

-----------------------------------------------------------------------------
(* Where the messages of a call are.  Needed because PendingOnlyOpen alone  *)
(* does not say that a request the broker has yet to take is new.           *)
Progress ==
  \A c \in Calls :
    /\ request[c] = "unsent" => reply[c] = "unsent" /\ c \notin over
    /\ taken = <<c, "request">> => request[c] # "unsent"
    /\ taken = <<c, "reply">> => request[c] # "unsent" /\ reply[c] # "unsent"

PendingInv == TypeOK /\ Progress /\ PendingOnlyOpen

LEMMA NoMessage == \A c \in Calls, kind \in {"request", "reply"} : None # <<c, kind>>
BY StatsAssumption DEF StatsAssumption

LEMMA PendingInitially == Init => Progress /\ PendingOnlyOpen
BY NoMessage DEF Init, Progress, PendingOnlyOpen

LEMMA PendingPreserved == PendingInv /\ [Next]_vars => Progress' /\ PendingOnlyOpen'
<1> SUFFICES ASSUME TypeOK, Progress, PendingOnlyOpen, [Next]_vars
             PROVE  Progress' /\ PendingOnlyOpen'
  BY DEF PendingInv
<1> USE NoMessage DEF Progress, PendingOnlyOpen, TypeOK, busVars, moduleVars,
                      pendingVars, historyVars, Internal
<1>1. CASE UNCHANGED vars
  BY <1>1 DEF vars
<1>2. ASSUME NEW c \in Calls, Ask(c) PROVE Progress' /\ PendingOnlyOpen'
  BY <1>2 DEF Ask
<1>3. ASSUME NEW c \in Calls, RecordRequest(c) PROVE Progress' /\ PendingOnlyOpen'
  <2>1. latencies' \subseteq latencies \cup {c}
    BY <1>3, AliveShrinks, TrimShrinks DEF RecordRequest, StartLatency
  <2> QED BY <1>3, <2>1 DEF RecordRequest, TakesRequest
<1>4. ASSUME NEW c \in Calls, RecordReply(c) PROVE Progress' /\ PendingOnlyOpen'
  <2>1. latencies' \subseteq latencies \ {c}
    BY <1>4, AliveShrinks DEF RecordReply
  <2> QED BY <1>4, <2>1 DEF RecordReply, TakesReply
<1>14. ASSUME NEW c \in Calls, RecordUntypedReply(c) PROVE Progress' /\ PendingOnlyOpen'
  <2>1. latencies' \subseteq latencies \cup {c}
    BY <1>14, AliveShrinks, TrimShrinks DEF RecordUntypedReply, StartLatency
  <2> QED BY <1>14, <2>1 DEF RecordUntypedReply, TakesReply
<1>5. ASSUME NEW c \in Calls, PassInternal(c) PROVE Progress' /\ PendingOnlyOpen'
  BY <1>5 DEF PassInternal, TakesRequest, TakesReply
<1>6. ASSUME NEW c \in Calls, NEW kind \in {"request", "reply"}, Forward(c, kind)
      PROVE  Progress' /\ PendingOnlyOpen'
  <2>1. taken = <<c, kind>> /\ taken' = None /\ latencies' = latencies /\ over' = over
    BY <1>6 DEF Forward, Concludes
  <2>2. CASE kind = "request"
    <3>1. request' = [request EXCEPT ![c] = "forwarded"] /\ reply' = reply
      BY <1>6, <2>2 DEF Forward, Concludes
    <3> QED BY <2>1, <2>2, <3>1
  <2>3. CASE kind = "reply"
    <3>1. reply' = [reply EXCEPT ![c] = "forwarded"] /\ request' = request
      BY <1>6, <2>3 DEF Forward, Concludes
    <3> QED BY <2>1, <2>3, <3>1
  <2> QED BY <2>2, <2>3
<1>7. ASSUME NEW c \in Calls, NEW kind \in {"request", "reply"}, RecordFailure(c, kind)
      PROVE  Progress' /\ PendingOnlyOpen'
  BY <1>7 DEF RecordFailure, Concludes
<1>8. ASSUME NEW c \in Calls, GiveUp(c) PROVE Progress' /\ PendingOnlyOpen'
  BY <1>8 DEF GiveUp
<1>9. ASSUME NEW c \in Calls, Answer(c) PROVE Progress' /\ PendingOnlyOpen'
  BY <1>9 DEF Answer
<1>10. ASSUME NEW c \in Calls, HandlerError(c) PROVE Progress' /\ PendingOnlyOpen'
  BY <1>10 DEF HandlerError
<1>11. ASSUME NEW sender \in Modules \cup {None}, Publish(sender)
       PROVE  Progress' /\ PendingOnlyOpen'
  BY <1>11, AliveShrinks DEF Publish
<1>12. CASE Reset
  BY <1>12 DEF Reset
<1>13. CASE Tick
  BY <1>13 DEF Tick
<1> QED
  BY <1>1, <1>2, <1>3, <1>4, <1>5, <1>6, <1>7, <1>8, <1>9, <1>10, <1>11, <1>12, <1>13,
     <1>14 DEF Next, Broker

LEMMA PendingConsistent == Spec => []PendingInv
<1>1. Init => PendingInv
  BY TypeInitially, PendingInitially DEF PendingInv
<1>2. PendingInv /\ [Next]_vars => PendingInv'
  BY TypePreserved, PendingPreserved DEF PendingInv
<1> QED BY <1>1, <1>2, PTL DEF Spec

(* A pending latency belongs to a request that can still be answered, or    *)
(* was started by an untyped reply, for any number of threads, resets,      *)
(* timeouts and failures.                                                   *)
THEOREM PendingCorrect == Spec => []PendingOnlyOpen
<1>1. PendingInv => PendingOnlyOpen
  BY DEF PendingInv
<1> QED BY <1>1, PendingConsistent, PTL

(* A reply that comes after a recorded timeout or failure is not a sample.  *)
THEOREM LateRepliesAreNoSamples == Spec => NoSampleOnceOver
<1>1. PendingInv /\ [Next]_vars => [\A c \in over : c \in sampled' => c \in sampled]_vars
  <2> SUFFICES ASSUME PendingInv, Next, NEW c \in over, c \in sampled', c \notin sampled
               PROVE  FALSE
    OBVIOUS
  <2> USE DEF PendingInv, PendingOnlyOpen, busVars, moduleVars, pendingVars, historyVars
  <2>1. ASSUME NEW d \in Calls, RecordReply(d) PROVE FALSE
    BY <2>1, AliveShrinks DEF RecordReply
  <2>2. ASSUME NEW d \in Calls,
               Ask(d) \/ RecordRequest(d) \/ RecordUntypedReply(d) \/ PassInternal(d)
                 \/ GiveUp(d) \/ Answer(d) \/ HandlerError(d)
        PROVE  FALSE
    BY <2>2 DEF Ask, RecordRequest, RecordUntypedReply, PassInternal, GiveUp, Answer,
                HandlerError
  <2>3. ASSUME NEW d \in Calls, NEW kind \in {"request", "reply"},
               Forward(d, kind) \/ RecordFailure(d, kind)
        PROVE  FALSE
    BY <2>3 DEF Forward, RecordFailure
  <2>4. ASSUME NEW sender \in Modules \cup {None}, Publish(sender) PROVE FALSE
    BY <2>4 DEF Publish
  <2>5. CASE Reset \/ Tick
    BY <2>5 DEF Reset, Tick
  <2> QED BY <2>1, <2>2, <2>3, <2>4, <2>5 DEF Next, Broker
<1> QED BY <1>1, PendingConsistent, PTL DEF Spec, NoSampleOnceOver

-----------------------------------------------------------------------------
(* Trimming after an insertion removes one entry of the set, so the bound   *)
(* holds again.  The oldest entry exists because places are naturals.       *)
LEMMA OldestExists ==
  ASSUME TypeOK', NEW S \in SUBSET Calls, S # {}
  PROVE  Oldest(S) \in S
<1> DEFINE Places == {place'[c] : c \in S}
           Less   == OpToRel(<, Nat)
<1>1. Places \subseteq Nat /\ Places # {}
  BY DEF TypeOK
<1>2. PICK x \in Places : \A y \in Places : ~ (<<y, x>> \in Less)
  <2> HIDE DEF Places, Less
  <2>1. IsWellFoundedOn(Less, Nat)
    BY NatLessThanWellFounded DEF Less
  <2> QED BY <1>1, <2>1, WFMin
<1>3. PICK c \in S : x = place'[c]
  OBVIOUS
<1>4. \A d \in S : place'[c] <= place'[d]
  <2> SUFFICES ASSUME NEW d \in S PROVE place'[c] <= place'[d]
    OBVIOUS
  <2>1. ~ (<<place'[d], place'[c]>> \in Less)
    BY <1>2, <1>3
  <2>2. place'[d] \in Nat /\ place'[c] \in Nat
    BY DEF TypeOK
  <2>3. ~ (place'[d] < place'[c])
    BY <2>1, <2>2 DEF OpToRel
  <2> QED BY <2>2, <2>3
<1> QED BY <1>3, <1>4 DEF Oldest

LEMMA BoundPreserved == TypeOK /\ PendingBounded /\ [Next]_vars => PendingBounded'
<1> SUFFICES ASSUME TypeOK, PendingBounded, [Next]_vars PROVE PendingBounded'
  OBVIOUS
<1> USE DEF PendingBounded
<1>0. TypeOK' /\ IsFiniteSet(latencies)
      /\ MaxPending \in Nat /\ Cardinality(latencies) \in Nat
  BY TypePreserved, StatsAssumption, FS_Subset, FS_CardinalityType
     DEF TypeOK, StatsAssumption
<1>1. ASSUME latencies' \subseteq latencies PROVE PendingBounded'
  <2>1. Cardinality(latencies') <= Cardinality(latencies)
    BY <1>0, <1>1, FS_Subset
  <2>2. Cardinality(latencies') \in Nat
    BY <1>0, <1>1, FS_Subset, FS_CardinalityType
  <2> QED BY <1>0, <2>1, <2>2
<1>2. ASSUME NEW c \in Calls, StartLatency(c) PROVE PendingBounded'
  <2> DEFINE S == Alive \cup {c}
  <2>1. IsFiniteSet(Alive) /\ Cardinality(Alive) <= Cardinality(latencies)
        /\ Cardinality(Alive) \in Nat
    BY <1>0, AliveShrinks, FS_Subset, FS_CardinalityType
  <2>2. IsFiniteSet(S) /\ Cardinality(S) \in Nat /\ Cardinality(S) <= MaxPending + 1
    <3>1. IsFiniteSet(S)
      BY <2>1, FS_AddElement
    <3>2. Cardinality(S) = Cardinality(Alive) \/ Cardinality(S) = Cardinality(Alive) + 1
      BY <2>1, FS_AddElement
    <3> HIDE DEF S
    <3> QED BY <1>0, <2>1, <3>1, <3>2
  <2>3. latencies' = Trim(S)
    BY <1>2 DEF StartLatency
  <2>4. CASE Cardinality(S) > MaxPending
    <3>1. Oldest(S) \in S
      <4>1. S \in SUBSET Calls /\ S # {}
        BY AliveShrinks DEF TypeOK
      <4> HIDE DEF S
      <4> QED BY <1>0, <4>1, OldestExists
    <3>2. Cardinality(S \ {Oldest(S)}) = Cardinality(S) - 1
      BY <2>2, <3>1, FS_RemoveElement
    <3>3. latencies' = S \ {Oldest(S)}
      BY <2>3, <2>4 DEF Trim
    <3> HIDE DEF S
    <3> QED BY <1>0, <2>2, <3>2, <3>3
  <2>5. CASE ~(Cardinality(S) > MaxPending)
    <3>1. latencies' = S
      BY <2>3, <2>5 DEF Trim
    <3> HIDE DEF S
    <3> QED BY <1>0, <2>2, <2>5, <3>1
  <2> QED BY <2>4, <2>5
<1>3. ASSUME \A c \in Calls : ~RecordRequest(c) /\ ~RecordUntypedReply(c)
      PROVE  latencies' \subseteq latencies
  <2> USE AliveShrinks DEF moduleVars, pendingVars, historyVars
  <2>1. CASE UNCHANGED vars
    BY <2>1 DEF vars
  <2>2. ASSUME NEW c \in Calls,
               Ask(c) \/ RecordReply(c) \/ PassInternal(c) \/ GiveUp(c) \/ Answer(c)
                 \/ HandlerError(c)
        PROVE  latencies' \subseteq latencies
    BY <2>2 DEF Ask, RecordReply, PassInternal, GiveUp, Answer, HandlerError
  <2>3. ASSUME NEW c \in Calls, NEW kind \in {"request", "reply"},
               Forward(c, kind) \/ RecordFailure(c, kind)
        PROVE  latencies' \subseteq latencies
    BY <2>3 DEF Forward, RecordFailure
  <2>4. ASSUME NEW sender \in Modules \cup {None}, Publish(sender)
        PROVE  latencies' \subseteq latencies
    BY <2>4 DEF Publish
  <2>5. CASE Reset \/ Tick
    BY <2>5 DEF Reset, Tick
  <2> QED BY <1>3, <2>1, <2>2, <2>3, <2>4, <2>5 DEF Next, Broker
<1> QED BY <1>1, <1>2, <1>3 DEF RecordRequest, RecordUntypedReply

(* There are never more pending latencies than max_pending_latencies, which *)
(* may be zero.                                                             *)
THEOREM PendingStaysBounded == Spec => []PendingBounded
<1>1. Init => TypeOK /\ PendingBounded
  BY TypeInitially, StatsAssumption, FS_EmptySet DEF Init, PendingBounded, StatsAssumption
<1>2. TypeOK /\ PendingBounded /\ [Next]_vars => (TypeOK /\ PendingBounded)'
  BY TypePreserved, BoundPreserved
<1> QED BY <1>1, <1>2, PTL DEF Spec

-----------------------------------------------------------------------------
(* The sets of calls that the counters are compared with: they only grow.   *)
Asked(m)    == {c \in Business : From[c] = m /\ request[c] # "unsent"}
Replied(m)  == {c \in Business : To[c] = m /\ reply[c] # "unsent"}
Called(m)   == {c \in Business : To[c] = m /\ request[c] # "unsent"}
Told(m)     == {c \in Business : From[c] = m /\ reply[c] # "unsent"}
GivenUp(m)  == {c \in Business : From[c] = m /\ caller[c] = "timedout"}
Answered    == {c \in Business : caller[c] = "answered"}
Sampled     == {c \in Business : reply[c] # "unsent"}

SentWithin(m) ==
  sent[m]["request"] + sent[m]["reply"] <= Cardinality(Asked(m)) + Cardinality(Replied(m))
ReceivedWithin(m) ==
  received[m]["message"] <= Cardinality(Called(m)) + Cardinality(Told(m))
TimeoutsWithin(m) == timeouts[m] <= Cardinality(GivenUp(m))
SamplesWithin == totals["sample"] <= Cardinality(Answered) + Cardinality(Sampled)

LEMMA ExclusionRestated ==
  NodeTrafficExcluded
    <=> /\ \A m \in Modules : SentWithin(m) /\ ReceivedWithin(m) /\ TimeoutsWithin(m)
        /\ SamplesWithin
BY DEF NodeTrafficExcluded, SentWithin, ReceivedWithin, TimeoutsWithin, SamplesWithin, Asked,
       Replied, Called, Told, GivenUp, Answered, Sampled

LEMMA LargerSet ==
  ASSUME NEW A \in SUBSET Calls, NEW B \in SUBSET Calls, A \subseteq B
  PROVE  /\ Cardinality(A) \in Nat /\ Cardinality(B) \in Nat
         /\ Cardinality(A) <= Cardinality(B)
         /\ \A c \in B : c \notin A => Cardinality(A) + 1 <= Cardinality(B)
<1>1. IsFiniteSet(A) /\ IsFiniteSet(B)
  BY StatsAssumption, FS_Subset DEF StatsAssumption
<1>2. /\ Cardinality(A) \in Nat /\ Cardinality(B) \in Nat
      /\ Cardinality(A) <= Cardinality(B)
  BY <1>1, FS_Subset, FS_CardinalityType
<1>3. ASSUME NEW c \in B, c \notin A PROVE Cardinality(A) + 1 <= Cardinality(B)
  <2>1. Cardinality(A \cup {c}) = Cardinality(A) + 1
    BY <1>1, <1>3, FS_AddElement
  <2>2. Cardinality(A \cup {c}) <= Cardinality(B)
    BY <1>1, <1>3, FS_Subset
  <2> QED BY <2>1, <2>2
<1> QED BY <1>2, <1>3

LEMMA SetsGrow ==
  ASSUME TypeOK, [Next]_vars
  PROVE  /\ \A c \in Calls : request[c] # "unsent" => request'[c] # "unsent"
         /\ \A c \in Calls : reply[c] # "unsent" => reply'[c] # "unsent"
         /\ \A c \in Calls : caller[c] \in {"answered", "timedout"} => caller'[c] = caller[c]
<1> USE DEF TypeOK, busVars
<1>1. CASE UNCHANGED vars
  BY <1>1 DEF vars
<1>2. ASSUME NEW c \in Calls,
             \/ Ask(c) \/ RecordRequest(c) \/ RecordReply(c) \/ RecordUntypedReply(c)
             \/ PassInternal(c) \/ GiveUp(c) \/ Answer(c) \/ HandlerError(c)
      PROVE  /\ \A d \in Calls : request[d] # "unsent" => request'[d] # "unsent"
             /\ \A d \in Calls : reply[d] # "unsent" => reply'[d] # "unsent"
             /\ \A d \in Calls : caller[d] \in {"answered", "timedout"} => caller'[d] = caller[d]
  BY <1>2 DEF Ask, RecordRequest, RecordReply, RecordUntypedReply, PassInternal, TakesRequest,
              TakesReply, GiveUp, Answer, HandlerError
<1>3. ASSUME NEW c \in Calls, NEW kind \in {"request", "reply"},
             Forward(c, kind) \/ RecordFailure(c, kind)
      PROVE  /\ \A d \in Calls : request[d] # "unsent" => request'[d] # "unsent"
             /\ \A d \in Calls : reply[d] # "unsent" => reply'[d] # "unsent"
             /\ caller' = caller
  BY <1>3 DEF Forward, RecordFailure, Concludes
<1>4. ASSUME NEW sender \in Modules \cup {None}, Publish(sender)
      PROVE  UNCHANGED <<request, reply, caller>>
  BY <1>4 DEF Publish
<1>5. CASE Reset \/ Tick
  BY <1>5 DEF Reset, Tick
<1> QED BY <1>1, <1>2, <1>3, <1>4, <1>5 DEF Next, Broker

(* A message of c that the broker counts.                                   *)
LEMMA CountMessageWithin ==
  ASSUME TypeOK, NodeTrafficExcluded, NEW c \in Business, [Next]_vars,
         NEW kind \in {"request", "reply"}, NEW from \in Modules, NEW to \in Modules,
         NEW samples \in {0, 1}, CountMessage(kind, from, to, samples), caller' = caller,
         \/ /\ from = From[c] /\ to = To[c] /\ samples = 0
            /\ request[c] = "unsent" /\ request'[c] # "unsent"
         \/ from = To[c] /\ to = From[c] /\ reply[c] = "unsent" /\ reply'[c] # "unsent"
  PROVE  NodeTrafficExcluded'
<1>0. Business \subseteq Calls
  BY DEF Business
<1>1. /\ \A m \in Modules : SentWithin(m) /\ ReceivedWithin(m) /\ TimeoutsWithin(m)
      /\ SamplesWithin
  BY ExclusionRestated
<1>2. /\ totals \in [Counters -> Nat] /\ sent \in [Modules -> [Kinds -> Nat]]
      /\ received \in [Modules -> [Kinds -> Nat]] /\ timeouts' = timeouts
  BY DEF TypeOK, CountMessage
<1>3. ASSUME NEW m \in Modules
      PROVE  /\ Asked(m) \in SUBSET Calls /\ Asked(m)' \in SUBSET Calls
             /\ Asked(m) \subseteq Asked(m)'
             /\ Replied(m) \in SUBSET Calls /\ Replied(m)' \in SUBSET Calls
             /\ Replied(m) \subseteq Replied(m)'
             /\ Called(m) \in SUBSET Calls /\ Called(m)' \in SUBSET Calls
             /\ Called(m) \subseteq Called(m)'
             /\ Told(m) \in SUBSET Calls /\ Told(m)' \in SUBSET Calls
             /\ Told(m) \subseteq Told(m)'
  BY <1>0, SetsGrow DEF Asked, Replied, Called, Told
<1>4. ASSUME NEW m \in Modules PROVE SentWithin(m)'
  <2>1. /\ m # from => sent'[m]["request"] + sent'[m]["reply"]
                         = sent[m]["request"] + sent[m]["reply"]
        /\ m = from => sent'[m]["request"] + sent'[m]["reply"]
                         = sent[m]["request"] + sent[m]["reply"] + 1
        /\ sent[m]["request"] + sent[m]["reply"] \in Nat
    BY <1>2 DEF CountMessage, Kinds
  <2>2. m = from => \/ c \in Asked(m)' /\ c \notin Asked(m)
                    \/ c \in Replied(m)' /\ c \notin Replied(m)
    BY DEF Asked, Replied
  <2>3. /\ Cardinality(Asked(m)) \in Nat /\ Cardinality(Asked(m)') \in Nat
        /\ Cardinality(Asked(m)) <= Cardinality(Asked(m)')
        /\ c \in Asked(m)' /\ c \notin Asked(m)
             => Cardinality(Asked(m)) + 1 <= Cardinality(Asked(m)')
    BY <1>3, LargerSet
  <2>4. /\ Cardinality(Replied(m)) \in Nat /\ Cardinality(Replied(m)') \in Nat
        /\ Cardinality(Replied(m)) <= Cardinality(Replied(m)')
        /\ c \in Replied(m)' /\ c \notin Replied(m)
             => Cardinality(Replied(m)) + 1 <= Cardinality(Replied(m)')
    BY <1>3, LargerSet
  <2>5. sent'[m]["request"] + sent'[m]["reply"]
          <= Cardinality(Asked(m)') + Cardinality(Replied(m)')
    BY <1>1, <2>1, <2>2, <2>3, <2>4 DEF SentWithin
  <2> QED BY <2>5 DEF SentWithin
<1>5. ASSUME NEW m \in Modules PROVE ReceivedWithin(m)'
  <2>1. /\ m # to => received'[m]["message"] = received[m]["message"]
        /\ m = to => received'[m]["message"] = received[m]["message"] + 1
        /\ received[m]["message"] \in Nat
    BY <1>2 DEF CountMessage, Kinds
  <2>2. m = to => \/ c \in Called(m)' /\ c \notin Called(m)
                  \/ c \in Told(m)' /\ c \notin Told(m)
    BY DEF Called, Told
  <2>3. /\ Cardinality(Called(m)) \in Nat /\ Cardinality(Called(m)') \in Nat
        /\ Cardinality(Called(m)) <= Cardinality(Called(m)')
        /\ c \in Called(m)' /\ c \notin Called(m)
             => Cardinality(Called(m)) + 1 <= Cardinality(Called(m)')
    BY <1>3, LargerSet
  <2>4. /\ Cardinality(Told(m)) \in Nat /\ Cardinality(Told(m)') \in Nat
        /\ Cardinality(Told(m)) <= Cardinality(Told(m)')
        /\ c \in Told(m)' /\ c \notin Told(m)
             => Cardinality(Told(m)) + 1 <= Cardinality(Told(m)')
    BY <1>3, LargerSet
  <2>5. received'[m]["message"] <= Cardinality(Called(m)') + Cardinality(Told(m)')
    BY <1>1, <2>1, <2>2, <2>3, <2>4 DEF ReceivedWithin
  <2> QED BY <2>5 DEF ReceivedWithin
<1>6. ASSUME NEW m \in Modules PROVE TimeoutsWithin(m)'
  BY <1>1, <1>2 DEF TimeoutsWithin, GivenUp
<1>7. SamplesWithin'
  <2>1. totals'["sample"] = totals["sample"] + samples /\ totals["sample"] \in Nat
    BY <1>2 DEF CountMessage, Counters, Kinds
  <2>2. /\ Answered' = Answered /\ Answered \in SUBSET Calls
        /\ Sampled \in SUBSET Calls /\ Sampled' \in SUBSET Calls /\ Sampled \subseteq Sampled'
    BY <1>0, SetsGrow DEF Answered, Sampled
  <2>3. samples = 1 => c \in Sampled' /\ c \notin Sampled
    BY DEF Sampled
  <2>4. /\ Cardinality(Sampled) \in Nat /\ Cardinality(Sampled') \in Nat
        /\ Cardinality(Answered) \in Nat
        /\ Cardinality(Sampled) <= Cardinality(Sampled')
        /\ c \in Sampled' /\ c \notin Sampled
             => Cardinality(Sampled) + 1 <= Cardinality(Sampled')
    BY <2>2, LargerSet
  <2>5. totals'["sample"] <= Cardinality(Answered') + Cardinality(Sampled')
    BY <1>1, <2>1, <2>2, <2>3, <2>4 DEF SamplesWithin
  <2> QED BY <2>5 DEF SamplesWithin
<1>8. (\A m \in Modules : SentWithin(m) /\ ReceivedWithin(m) /\ TimeoutsWithin(m))'
  BY <1>4, <1>5, <1>6
<1> QED BY <1>7, <1>8, ExclusionRestated, PTL

(* No counter that is compared grows, or only of timeouts or samples and    *)
(* with the set of calls it is compared with.                               *)
LEMMA OthersWithin ==
  ASSUME TypeOK, NodeTrafficExcluded, [Next]_vars,
         \A m \in Modules :
           /\ \A kind \in {"request", "reply"} : sent'[m][kind] \in {0, sent[m][kind]}
           /\ received'[m]["message"] \in {0, received[m]["message"]}
           /\ \/ timeouts'[m] \in {0, timeouts[m]}
              \/ /\ timeouts'[m] = timeouts[m] + 1
                 /\ \E c \in Business : /\ From[c] = m /\ caller[c] # "timedout"
                                        /\ caller'[c] = "timedout",
         \/ totals'["sample"] \in {0, totals["sample"]}
         \/ /\ totals'["sample"] = totals["sample"] + 1
            /\ \E c \in Business : caller[c] # "answered" /\ caller'[c] = "answered"
  PROVE  NodeTrafficExcluded'
<1>0. Business \subseteq Calls
  BY DEF Business
<1>1. /\ \A m \in Modules : SentWithin(m) /\ ReceivedWithin(m) /\ TimeoutsWithin(m)
      /\ SamplesWithin
  BY ExclusionRestated
<1>2. /\ totals["sample"] \in Nat
      /\ \A m \in Modules :
           /\ timeouts[m] \in Nat /\ received[m]["message"] \in Nat
           /\ sent[m]["request"] \in Nat /\ sent[m]["reply"] \in Nat
  BY DEF TypeOK, Counters, Kinds
<1>3. ASSUME NEW m \in Modules PROVE SentWithin(m)'
  <2>1. /\ Asked(m) \in SUBSET Calls /\ Asked(m)' \in SUBSET Calls
        /\ Asked(m) \subseteq Asked(m)'
        /\ Replied(m) \in SUBSET Calls /\ Replied(m)' \in SUBSET Calls
        /\ Replied(m) \subseteq Replied(m)'
    BY <1>0, SetsGrow DEF Asked, Replied
  <2>2. /\ Cardinality(Asked(m)) \in Nat /\ Cardinality(Asked(m)') \in Nat
        /\ Cardinality(Asked(m)) <= Cardinality(Asked(m)')
    BY <2>1, LargerSet
  <2>3. /\ Cardinality(Replied(m)) \in Nat /\ Cardinality(Replied(m)') \in Nat
        /\ Cardinality(Replied(m)) <= Cardinality(Replied(m)')
    BY <2>1, LargerSet
  <2>4. /\ sent'[m]["request"] \in {0, sent[m]["request"]}
        /\ sent'[m]["reply"] \in {0, sent[m]["reply"]}
    OBVIOUS
  <2>5. sent'[m]["request"] + sent'[m]["reply"]
          <= Cardinality(Asked(m)') + Cardinality(Replied(m)')
    BY <1>1, <1>2, <2>2, <2>3, <2>4 DEF SentWithin
  <2> QED BY <2>5 DEF SentWithin
<1>4. ASSUME NEW m \in Modules PROVE ReceivedWithin(m)'
  <2>1. /\ Called(m) \in SUBSET Calls /\ Called(m)' \in SUBSET Calls
        /\ Called(m) \subseteq Called(m)'
        /\ Told(m) \in SUBSET Calls /\ Told(m)' \in SUBSET Calls
        /\ Told(m) \subseteq Told(m)'
    BY <1>0, SetsGrow DEF Called, Told
  <2>2. /\ Cardinality(Called(m)) \in Nat /\ Cardinality(Called(m)') \in Nat
        /\ Cardinality(Called(m)) <= Cardinality(Called(m)')
    BY <2>1, LargerSet
  <2>3. /\ Cardinality(Told(m)) \in Nat /\ Cardinality(Told(m)') \in Nat
        /\ Cardinality(Told(m)) <= Cardinality(Told(m)')
    BY <2>1, LargerSet
  <2>4. received'[m]["message"] <= Cardinality(Called(m)') + Cardinality(Told(m)')
    BY <1>1, <1>2, <2>2, <2>3 DEF ReceivedWithin
  <2> QED BY <2>4 DEF ReceivedWithin
<1>5. ASSUME NEW m \in Modules PROVE TimeoutsWithin(m)'
  <2>1. /\ GivenUp(m) \in SUBSET Calls /\ GivenUp(m)' \in SUBSET Calls
        /\ GivenUp(m) \subseteq GivenUp(m)'
    BY <1>0, SetsGrow DEF GivenUp
  <2>2. /\ Cardinality(GivenUp(m)) \in Nat /\ Cardinality(GivenUp(m)') \in Nat
        /\ Cardinality(GivenUp(m)) <= Cardinality(GivenUp(m)')
        /\ \A c \in GivenUp(m)' :
             c \notin GivenUp(m) => Cardinality(GivenUp(m)) + 1 <= Cardinality(GivenUp(m)')
    BY <2>1, LargerSet
  <2>3. \/ timeouts'[m] \in {0, timeouts[m]}
        \/ timeouts'[m] = timeouts[m] + 1 /\ \E c \in GivenUp(m)' : c \notin GivenUp(m)
    BY DEF GivenUp
  <2>4. timeouts'[m] <= Cardinality(GivenUp(m)')
    BY <1>1, <1>2, <2>2, <2>3 DEF TimeoutsWithin
  <2> QED BY <2>4 DEF TimeoutsWithin
<1>6. SamplesWithin'
  <2>1. /\ Answered \in SUBSET Calls /\ Answered' \in SUBSET Calls /\ Answered \subseteq Answered'
        /\ Sampled \in SUBSET Calls /\ Sampled' \in SUBSET Calls /\ Sampled \subseteq Sampled'
    BY <1>0, SetsGrow DEF Answered, Sampled
  <2>2. /\ Cardinality(Answered) \in Nat /\ Cardinality(Answered') \in Nat
        /\ Cardinality(Answered) <= Cardinality(Answered')
        /\ \A c \in Answered' :
             c \notin Answered => Cardinality(Answered) + 1 <= Cardinality(Answered')
    BY <2>1, LargerSet
  <2>3. /\ Cardinality(Sampled) \in Nat /\ Cardinality(Sampled') \in Nat
        /\ Cardinality(Sampled) <= Cardinality(Sampled')
    BY <2>1, LargerSet
  <2>4. \/ totals'["sample"] \in {0, totals["sample"]}
        \/ totals'["sample"] = totals["sample"] + 1 /\ \E c \in Answered' : c \notin Answered
    BY DEF Answered
  <2>5. totals'["sample"] <= Cardinality(Answered') + Cardinality(Sampled')
    BY <1>1, <1>2, <2>2, <2>3, <2>4 DEF SamplesWithin
  <2> QED BY <2>5 DEF SamplesWithin
<1>7. (\A m \in Modules : SentWithin(m) /\ ReceivedWithin(m) /\ TimeoutsWithin(m))'
  BY <1>3, <1>4, <1>5
<1> QED BY <1>6, <1>7, ExclusionRestated, PTL

(* The counters that NodeTrafficExcluded compares stay, or are reset.       *)
NothingCounted ==
  /\ \A m \in Modules :
       /\ \A kind \in {"request", "reply"} : sent'[m][kind] \in {0, sent[m][kind]}
       /\ received'[m]["message"] \in {0, received[m]["message"]}
       /\ timeouts'[m] \in {0, timeouts[m]}
  /\ totals'["sample"] \in {0, totals["sample"]}

LEMMA ExclusionPreserved == TypeOK /\ NodeTrafficExcluded /\ [Next]_vars => NodeTrafficExcluded'
<1> SUFFICES ASSUME TypeOK, NodeTrafficExcluded, [Next]_vars PROVE NodeTrafficExcluded'
  OBVIOUS
<1>0. ASSUME NothingCounted PROVE NodeTrafficExcluded'
  BY <1>0, OthersWithin DEF NothingCounted
<1>t. /\ totals \in [Counters -> Nat] /\ sent \in [Modules -> [Kinds -> Nat]]
      /\ received \in [Modules -> [Kinds -> Nat]] /\ timeouts \in [Modules -> Nat]
  BY DEF TypeOK
<1>1. CASE UNCHANGED vars
  BY <1>0, <1>1 DEF vars, moduleVars, NothingCounted
<1>2. ASSUME NEW c \in Calls,
             RecordRequest(c) \/ RecordReply(c) \/ RecordUntypedReply(c)
      PROVE  NodeTrafficExcluded'
  <2>1. c \in Business
    BY <1>2 DEF RecordRequest, RecordReply, RecordUntypedReply, Internal, Business
  <2>2. From[c] \in Modules /\ To[c] \in Modules
    BY StatsAssumption DEF StatsAssumption
  <2>3. CASE RecordRequest(c)
    <3>1. /\ CountMessage("request", From[c], To[c], 0) /\ caller' = caller
          /\ request[c] = "unsent" /\ request'[c] # "unsent"
      BY <2>3 DEF RecordRequest, TakesRequest, TypeOK
    <3> QED BY <2>1, <2>2, <3>1, CountMessageWithin
  <2>4. CASE RecordReply(c)
    <3>1. /\ \E samples \in {0, 1} : CountMessage("reply", To[c], From[c], samples)
          /\ caller' = caller /\ reply[c] = "unsent" /\ reply'[c] # "unsent"
      BY <2>4 DEF RecordReply, TakesReply, TypeOK
    <3> QED BY <2>1, <2>2, <3>1, CountMessageWithin
  <2>5. CASE RecordUntypedReply(c)
    <3>1. /\ CountMessage("request", To[c], From[c], 0) /\ caller' = caller
          /\ reply[c] = "unsent" /\ reply'[c] # "unsent"
      BY <2>5 DEF RecordUntypedReply, TakesReply, TypeOK
    <3> QED BY <2>1, <2>2, <3>1, CountMessageWithin
  <2> QED BY <1>2, <2>3, <2>4, <2>5
<1>3. ASSUME NEW c \in Calls, GiveUp(c) PROVE NodeTrafficExcluded'
  <2>1. sent' = sent /\ received' = received
    BY <1>3 DEF GiveUp
  <2>2. totals'["sample"] = totals["sample"]
    BY <1>3, <1>t DEF GiveUp, Counters, Kinds
  <2>3. CASE ~Counted(c)
    BY <1>0, <1>3, <2>1, <2>2, <2>3 DEF GiveUp, NothingCounted
  <2>4. CASE Counted(c)
    <3>1. c \in Business /\ caller[c] # "timedout" /\ caller'[c] = "timedout"
      BY <1>3, <2>4 DEF GiveUp, Counted, Internal, Business, TypeOK
    <3>2. timeouts' = [timeouts EXCEPT ![From[c]] = @ + 1]
      BY <1>3, <2>4 DEF GiveUp
    <3>3. \A m \in Modules : \/ timeouts'[m] = timeouts[m]
                             \/ timeouts'[m] = timeouts[m] + 1 /\ From[c] = m
      BY <1>t, <3>2
    <3> QED BY <2>1, <2>2, <3>1, <3>3, OthersWithin
  <2> QED BY <2>3, <2>4
<1>4. ASSUME NEW c \in Calls, Answer(c) PROVE NodeTrafficExcluded'
  <2>1. sent' = sent /\ received' = received /\ timeouts' = timeouts
    BY <1>4 DEF Answer, moduleVars
  <2>2. CASE ~Counted(c)
    BY <1>0, <1>4, <2>1, <2>2 DEF Answer, NothingCounted
  <2>3. CASE Counted(c)
    <3>1. c \in Business /\ caller[c] # "answered" /\ caller'[c] = "answered"
      BY <1>4, <2>3 DEF Answer, Counted, Internal, Business, TypeOK
    <3>2. totals'["sample"] = totals["sample"] + 1
      BY <1>4, <1>t, <2>3 DEF Answer, Counters, Kinds
    <3> QED BY <2>1, <3>1, <3>2, OthersWithin
  <2> QED BY <2>2, <2>3
<1>5. ASSUME NEW c \in Calls, Ask(c) \/ PassInternal(c) \/ HandlerError(c)
      PROVE  NodeTrafficExcluded'
  <2>1. sent' = sent /\ received' = received /\ timeouts' = timeouts
    BY <1>5 DEF Ask, PassInternal, HandlerError, moduleVars
  <2>2. totals'["sample"] = totals["sample"]
    BY <1>5, <1>t DEF Ask, PassInternal, HandlerError, Counters, Kinds
  <2> QED BY <1>0, <2>1, <2>2 DEF NothingCounted
<1>6. ASSUME NEW c \in Calls, NEW kind \in {"request", "reply"},
             Forward(c, kind) \/ RecordFailure(c, kind)
      PROVE  NodeTrafficExcluded'
  <2>1. sent' = sent /\ received' = received /\ timeouts' = timeouts
    BY <1>6 DEF Forward, RecordFailure, moduleVars
  <2>2. totals'["sample"] = totals["sample"]
    BY <1>6, <1>t DEF Forward, RecordFailure, Counters, Kinds
  <2> QED BY <1>0, <2>1, <2>2 DEF NothingCounted
<1>7. ASSUME NEW sender \in Modules \cup {None}, Publish(sender)
      PROVE  NodeTrafficExcluded'
  <2>1. received' = received /\ timeouts' = timeouts
    BY <1>7 DEF Publish
  <2>2. totals'["sample"] = totals["sample"]
    BY <1>7, <1>t DEF Publish, Counters, Kinds
  <2>3. \A m \in Modules, kind \in {"request", "reply"} : sent'[m][kind] = sent[m][kind]
    BY <1>7, <1>t DEF Publish, Kinds
  <2> QED BY <1>0, <2>1, <2>2, <2>3 DEF NothingCounted
<1>8. CASE Reset
  BY <1>0, <1>8 DEF Reset, NoCounts, NoTotals, Zero, Counters, Kinds, NothingCounted
<1>9. CASE Tick
  BY <1>0, <1>9 DEF Tick, moduleVars, NothingCounted
<1> QED
  BY <1>1, <1>2, <1>3, <1>4, <1>5, <1>6, <1>7, <1>8, <1>9 DEF Next, Broker

LEMMA ExclusionInitially == Init => NodeTrafficExcluded
<1> SUFFICES ASSUME Init PROVE NodeTrafficExcluded
  OBVIOUS
<1>1. \A S \in SUBSET Calls : Cardinality(S) \in Nat
  BY LargerSet
<1>2. \A m \in Modules : /\ Asked(m) \in SUBSET Calls /\ Replied(m) \in SUBSET Calls
                         /\ Called(m) \in SUBSET Calls /\ Told(m) \in SUBSET Calls
                         /\ GivenUp(m) \in SUBSET Calls
  BY DEF Asked, Replied, Called, Told, GivenUp, Business
<1>3. Answered \in SUBSET Calls /\ Sampled \in SUBSET Calls
  BY DEF Answered, Sampled, Business
<1>4. \A m \in Modules : /\ sent[m]["request"] = 0 /\ sent[m]["reply"] = 0
                         /\ received[m]["message"] = 0 /\ timeouts[m] = 0
  BY DEF Init, NoCounts, Zero, Kinds
<1>5. totals["sample"] = 0
  BY DEF Init, NoTotals, Counters
<1>6. \A i, j \in Nat : 0 + 0 <= i + j /\ 0 <= i + j /\ 0 <= i
  OBVIOUS
<1> QED BY <1>1, <1>2, <1>3, <1>4, <1>5, <1>6, ExclusionRestated
        DEF SentWithin, ReceivedWithin, TimeoutsWithin, SamplesWithin

(* Registration, heartbeats, polling and whatever else is sent to the node  *)
(* or by it counts for no module, as message, timeout or latency.           *)
THEOREM NodeIsNotCounted == Spec => []NodeTrafficExcluded
<1>1. Init => TypeOK /\ NodeTrafficExcluded
  BY TypeInitially, ExclusionInitially
<1>2. TypeOK /\ NodeTrafficExcluded /\ [Next]_vars => (TypeOK /\ NodeTrafficExcluded)'
  BY TypePreserved, ExclusionPreserved
<1> QED BY <1>1, <1>2, PTL DEF Spec

-----------------------------------------------------------------------------
(* Sums over a finite set.  SumFunction is a recursive function on the      *)
(* subsets of the domain: it exists, it is a natural number, and it grows   *)
(* with one of its terms.  Each is proved for a smallest subset, which has  *)
(* the rest without the element that the recursion takes first.             *)
First(s) == CHOOSE x \in s : TRUE

IsSum(g, f, S) ==
  g = [s \in S |-> IF s = {} THEN 0 ELSE f[First(s)] + g[s \ {First(s)}]]

(* A set of subsets that is not empty has a smallest.                       *)
LEMMA LeastNatural ==
  ASSUME NEW N \in SUBSET Nat, N # {}
  PROVE  \E n \in N : \A m \in N : n <= m
<1> DEFINE Less == OpToRel(<, Nat)
<1>1. PICK n \in N : \A m \in N : ~ (<<m, n>> \in Less)
  <2>1. IsWellFoundedOn(Less, Nat)
    BY NatLessThanWellFounded
  <2> HIDE DEF Less
  <2> QED BY <2>1, WFMin
<1>2. \A m \in N : n <= m
  <2> SUFFICES ASSUME NEW m \in N PROVE n <= m
    OBVIOUS
  <2>1. ~ (<<m, n>> \in Less)
    BY <1>1
  <2>2. m \in Nat /\ n \in Nat
    OBVIOUS
  <2>3. ~ (m < n)
    BY <2>1, <2>2 DEF OpToRel
  <2> HIDE DEF Less
  <2> QED BY <2>2, <2>3
<1> QED
  <2> HIDE DEF Less
  <2> QED BY <1>2

LEMMA SmallestSet ==
  ASSUME NEW S, IsFiniteSet(S), NEW Bad \in SUBSET SUBSET S, Bad # {}
  PROVE  \E s \in Bad : \A t \in SUBSET S : Cardinality(t) < Cardinality(s) => t \notin Bad
<1> DEFINE N == {Cardinality(s) : s \in Bad}
<1>1. \A s \in SUBSET S : Cardinality(s) \in Nat
  BY FS_Subset, FS_CardinalityType
<1>2. N \in SUBSET Nat /\ N # {}
  BY <1>1
<1>3. PICK n \in N : \A m \in N : n <= m
  <2> HIDE DEF N
  <2> QED BY <1>2, LeastNatural
<1>4. PICK s \in Bad : Cardinality(s) = n
  OBVIOUS
<1>5. ASSUME NEW t \in SUBSET S, Cardinality(t) < Cardinality(s), t \in Bad
      PROVE  FALSE
  <2>1. Cardinality(t) \in N
    BY <1>5
  <2>2. Cardinality(s) <= Cardinality(t)
    BY <1>3, <1>4, <2>1
  <2> QED BY <1>1, <1>5, <2>2
<1> QED BY <1>5

LEMMA RestIsSmaller ==
  ASSUME NEW S, IsFiniteSet(S), NEW s \in SUBSET S, s # {}
  PROVE  /\ First(s) \in s /\ s \ {First(s)} \in SUBSET S
         /\ Cardinality(s) \in Nat /\ Cardinality(s \ {First(s)}) \in Nat
         /\ Cardinality(s \ {First(s)}) = Cardinality(s) - 1
<1>1. First(s) \in s
  BY DEF First
<1>2. IsFiniteSet(s) /\ Cardinality(s) \in Nat
  BY FS_Subset, FS_CardinalityType
<1>3. IsFiniteSet(s \ {First(s)}) /\ Cardinality(s \ {First(s)}) = Cardinality(s) - 1
  BY <1>1, <1>2, FS_RemoveElement
<1> QED BY <1>1, <1>2, <1>3, FS_CardinalityType

LEMMA SumExists ==
  ASSUME NEW S, IsFiniteSet(S), NEW f
  PROVE  \E g : IsSum(g, f, SUBSET S)
<1> DEFINE UpTo(n) == {s \in SUBSET S : Cardinality(s) <= n}
           Bad     == {n \in Nat : ~ \E g : IsSum(g, f, UpTo(n))}
<1>1. \A s \in SUBSET S : Cardinality(s) \in Nat /\ (Cardinality(s) = 0 <=> s = {})
  BY FS_Subset, FS_CardinalityType, FS_EmptySet
<1>2. Bad = {}
  <2> SUFFICES ASSUME Bad # {} PROVE FALSE
    OBVIOUS
  <2>1. PICK n \in Bad : \A m \in Bad : n <= m
    <3>1. Bad \in SUBSET Nat
      OBVIOUS
    <3> HIDE DEF Bad
    <3> QED BY <3>1, LeastNatural
  <2>2. n \in Nat /\ \A g : ~IsSum(g, f, UpTo(n))
    OBVIOUS
  <2>3. CASE n = 0
    <3> DEFINE g == [s \in UpTo(n) |-> 0]
    <3>1. \A s \in UpTo(n) : s = {}
      BY <1>1, <2>3
    <3>2. IsSum(g, f, UpTo(n))
      <4> HIDE DEF UpTo
      <4> QED BY <3>1 DEF IsSum
    <3> QED BY <2>2, <3>2
  <2>4. CASE n # 0
    <3>1. n - 1 \in Nat /\ n - 1 \notin Bad
      <4>1. n - 1 \in Nat /\ ~(n <= n - 1)
        BY <2>2, <2>4
      <4> HIDE DEF Bad
      <4> QED BY <2>1, <4>1
    <3>2. PICK g : IsSum(g, f, UpTo(n - 1))
      BY <3>1
    <3> DEFINE h == [s \in UpTo(n) |->
                       IF s = {} THEN 0 ELSE f[First(s)] + g[s \ {First(s)}]]
    <3>3. ASSUME NEW s \in UpTo(n - 1) PROVE s \in UpTo(n) /\ h[s] = g[s]
      <4>1. s \in UpTo(n)
        BY <1>1, <2>2
      <4> HIDE DEF UpTo
      <4> QED BY <3>2, <4>1 DEF IsSum
    <3>4. ASSUME NEW s \in UpTo(n), s # {} PROVE s \ {First(s)} \in UpTo(n - 1)
      <4>1. /\ s \ {First(s)} \in SUBSET S /\ Cardinality(s) \in Nat
            /\ Cardinality(s \ {First(s)}) = Cardinality(s) - 1
        BY <3>4, RestIsSmaller
      <4> QED BY <2>2, <4>1
    <3>5. ASSUME NEW s \in UpTo(n)
          PROVE  h[s] = IF s = {} THEN 0 ELSE f[First(s)] + h[s \ {First(s)}]
      <4> HIDE DEF UpTo
      <4>1. h[s] = IF s = {} THEN 0 ELSE f[First(s)] + g[s \ {First(s)}]
        OBVIOUS
      <4> HIDE DEF h
      <4> QED BY <3>3, <3>4, <4>1
    <3>6. h = [s \in UpTo(n) |-> IF s = {} THEN 0 ELSE f[First(s)] + h[s \ {First(s)}]]
      <4>1. h = [s \in UpTo(n) |-> h[s]]
        OBVIOUS
      <4> HIDE DEF h, UpTo
      <4> QED BY <3>5, <4>1
    <3>7. IsSum(h, f, UpTo(n))
      <4> HIDE DEF h, UpTo
      <4> QED BY <3>6 DEF IsSum
    <3> QED BY <2>2, <3>7
  <2> QED BY <2>3, <2>4
<1>3. Cardinality(S) \in Nat /\ UpTo(Cardinality(S)) = SUBSET S
  <2>1. Cardinality(S) \in Nat /\ \A s \in SUBSET S : Cardinality(s) <= Cardinality(S)
    BY FS_Subset, FS_CardinalityType
  <2> QED BY <2>1
<1>4. \E g : IsSum(g, f, UpTo(Cardinality(S)))
  <2> HIDE DEF UpTo
  <2> QED BY <1>2, <1>3
<1> QED BY <1>3, <1>4

(* What SumFunction is for a function on a finite set.                      *)
Sums(g, f, S) ==
  /\ SumFunction(f) = g[S] /\ g[{}] = 0
  /\ \A s \in SUBSET S : s # {} => g[s] = f[First(s)] + g[s \ {First(s)}]

LEMMA SumIs ==
  ASSUME NEW S, IsFiniteSet(S), NEW f, DOMAIN f = S
  PROVE  \E g : Sums(g, f, S)
<1> DEFINE g == CHOOSE h : IsSum(h, f, SUBSET S)
<1>1. SumFunctionOnSet(f, S) = g[S]
  BY DEF SumFunctionOnSet, FoldFunctionOnSet, MapThenFoldSet, First, IsSum
<1>2. SumFunction(f) = SumFunctionOnSet(f, S)
  BY DEF SumFunction
<1>3. IsSum(g, f, SUBSET S)
  BY SumExists
<1> HIDE DEF g
<1>4. g[{}] = 0 /\ \A s \in SUBSET S : s # {} => g[s] = f[First(s)] + g[s \ {First(s)}]
  BY <1>3 DEF IsSum
<1> QED BY <1>1, <1>2, <1>4 DEF Sums

(* The sum of zeros is zero, and adding to one term adds to the sum.        *)
LEMMA SumZero ==
  ASSUME NEW S, IsFiniteSet(S), NEW f, f = [x \in S |-> 0]
  PROVE  SumFunction(f) = 0
<1>1. PICK g : Sums(g, f, S)
  BY SumIs
<1> DEFINE Bad == {s \in SUBSET S : g[s] # 0}
<1>2. Bad = {}
  <2> SUFFICES ASSUME Bad # {} PROVE FALSE
    OBVIOUS
  <2>1. PICK s \in Bad : \A t \in SUBSET S : Cardinality(t) < Cardinality(s) => t \notin Bad
    <3>1. Bad \in SUBSET SUBSET S
      OBVIOUS
    <3> HIDE DEF Bad
    <3> QED BY <3>1, SmallestSet
  <2>2. s # {}
    BY <1>1 DEF Sums
  <2>3. /\ s \ {First(s)} \in SUBSET S /\ First(s) \in S
        /\ Cardinality(s \ {First(s)}) < Cardinality(s)
    <3>1. s \in SUBSET S
      OBVIOUS
    <3> QED BY <2>2, <3>1, RestIsSmaller
  <2>4. g[s \ {First(s)}] = 0
    BY <2>1, <2>3
  <2>5. g[s] = f[First(s)] + g[s \ {First(s)}]
    BY <1>1, <2>2 DEF Sums
  <2>6. f[First(s)] = 0
    BY <2>3
  <2> QED BY <2>4, <2>5, <2>6
<1> QED BY <1>1, <1>2 DEF Sums

Raised(S, f, h, m, d) ==
  /\ f \in [S -> Nat] /\ h \in [S -> Nat] /\ m \in S /\ d \in Nat
  /\ h[m] = f[m] + d /\ \A x \in S : x # m => h[x] = f[x]

LEMMA SumGrows ==
  ASSUME NEW S, IsFiniteSet(S), NEW f, NEW h, NEW m, NEW d, Raised(S, f, h, m, d)
  PROVE  SumFunction(f) \in Nat /\ SumFunction(h) = SumFunction(f) + d
<1>1. /\ f \in [S -> Nat] /\ h \in [S -> Nat] /\ m \in S /\ d \in Nat
      /\ h[m] = f[m] + d /\ \A x \in S : x # m => h[x] = f[x]
  BY DEF Raised
<1>2. PICK g : Sums(g, f, S)
  BY <1>1, SumIs
<1>3. PICK k : Sums(k, h, S)
  BY <1>1, SumIs
<1> DEFINE More(s) == IF m \in s THEN d ELSE 0
           Bad     == {s \in SUBSET S : ~ (g[s] \in Nat /\ k[s] = g[s] + More(s))}
<1>4. Bad = {}
  <2> SUFFICES ASSUME Bad # {} PROVE FALSE
    OBVIOUS
  <2>1. PICK s \in Bad : \A t \in SUBSET S : Cardinality(t) < Cardinality(s) => t \notin Bad
    <3>1. Bad \in SUBSET SUBSET S
      OBVIOUS
    <3> HIDE DEF Bad
    <3> QED BY <3>1, SmallestSet
  <2>2. s \in SUBSET S
    OBVIOUS
  <2>3. s # {}
    <3> SUFFICES ASSUME s = {} PROVE FALSE
      OBVIOUS
    <3>1. g[s] = 0 /\ k[s] = 0
      BY <1>2, <1>3 DEF Sums
    <3> QED BY <1>1, <3>1
  <2> DEFINE x == First(s)
             t == s \ {x}
  <2> HIDE DEF More, Bad
  <2>4. x \in s /\ x \in S /\ t \in SUBSET S /\ Cardinality(t) < Cardinality(s)
    <3>1. /\ x \in s /\ t \in SUBSET S /\ Cardinality(s) \in Nat
          /\ Cardinality(t) = Cardinality(s) - 1
      BY <2>2, <2>3, RestIsSmaller
    <3> HIDE DEF x, t
    <3> QED BY <2>2, <3>1
  <2> HIDE DEF x
  <2>5. g[t] \in Nat /\ k[t] = g[t] + More(t)
    BY <2>1, <2>4 DEF Bad
  <2>6. g[s] = f[x] + g[t] /\ k[s] = h[x] + k[t]
    <3>1. g[s] = f[x] + g[t]
      BY <1>2, <2>2, <2>3 DEF Sums, x
    <3>2. k[s] = h[x] + k[t]
      BY <1>3, <2>2, <2>3 DEF Sums, x
    <3> QED BY <3>1, <3>2
  <2>7. h[x] + More(t) = f[x] + More(s) /\ f[x] \in Nat /\ More(s) \in Nat /\ More(t) \in Nat
        /\ h[x] \in Nat
    <3>1. CASE x = m
      <4>1. m \in s /\ m \notin t
        BY <2>4, <3>1
      <4>2. More(s) = d /\ More(t) = 0
        BY <1>1, <4>1 DEF More
      <4> QED BY <1>1, <2>4, <3>1, <4>2
    <3>2. CASE x # m
      <4>1. m \in s <=> m \in t
        BY <3>2
      <4>2. More(t) = More(s) /\ More(s) \in Nat
        BY <1>1, <4>1 DEF More
      <4> QED BY <1>1, <2>4, <3>2, <4>2
    <3> QED BY <3>1, <3>2
  <2>8. g[s] \in Nat /\ k[s] = g[s] + More(s)
    <3> HIDE DEF t
    <3>1. g[s] \in Nat
      BY <2>5, <2>6, <2>7
    <3>2. k[s] = (h[x] + More(t)) + g[t]
      BY <2>5, <2>6, <2>7
    <3>3. k[s] = (f[x] + More(s)) + g[t]
      BY <2>7, <3>2
    <3>4. (f[x] + More(s)) + g[t] = (f[x] + g[t]) + More(s)
      BY <2>5, <2>7
    <3> QED BY <2>6, <3>1, <3>3, <3>4
  <2> QED BY <2>8 DEF Bad
<1>5. S \notin Bad
  BY <1>4
<1> QED BY <1>1, <1>2, <1>3, <1>5 DEF Sums

-----------------------------------------------------------------------------
(* One message more.                                                        *)
RaisedAt(old, new, kind, m, d) ==
  /\ old \in [Modules -> [Kinds -> Nat]] /\ new \in [Modules -> [Kinds -> Nat]]
  /\ kind \in Kinds /\ m \in Modules /\ d \in Nat
  /\ new[m][kind] = old[m][kind] + d
  /\ \A x \in Modules : x # m => new[x][kind] = old[x][kind]

LEMMA SumRaised ==
  ASSUME NEW old, NEW new, NEW kind, NEW m, NEW d, RaisedAt(old, new, kind, m, d)
  PROVE  SumOf(old, kind) \in Nat /\ SumOf(new, kind) = SumOf(old, kind) + d
<1> DEFINE f == [x \in Modules |-> old[x][kind]]
           h == [x \in Modules |-> new[x][kind]]
<1>1. Raised(Modules, f, h, m, d)
  BY DEF Raised, RaisedAt
<1>2. IsFiniteSet(Modules)
  BY StatsAssumption DEF StatsAssumption
<1> HIDE DEF f, h
<1>3. SumFunction(f) \in Nat /\ SumFunction(h) = SumFunction(f) + d
  BY <1>1, <1>2, SumGrows
<1> QED BY <1>3 DEF SumOf, f, h

LEMMA OneRaised ==
  ASSUME NEW old \in [Modules -> Nat], NEW m \in Modules,
         NEW new, new = [old EXCEPT ![m] = @ + 1]
  PROVE  SumFunction(old) \in Nat /\ SumFunction(new) = SumFunction(old) + 1
<1>1. Raised(Modules, old, new, m, 1)
  BY DEF Raised
<1>2. IsFiniteSet(Modules)
  BY StatsAssumption DEF StatsAssumption
<1> QED BY <1>1, <1>2, SumGrows

LEMMA SumsPrimed ==
  /\ \A kind \in Kinds : /\ SumOf(sent, kind)' = SumOf(sent', kind)
                         /\ SumOf(received, kind)' = SumOf(received', kind)
  /\ SumFunction(timeouts)' = SumFunction(timeouts')
  /\ SumFunction(errors)' = SumFunction(errors')
BY DEF SumOf

(* SumsAgree with the variables of the next state as parameters.            *)
Agree(tot, snt, rcv, tmo, err) ==
  /\ \A kind \in {"request", "reply"} :
       tot[kind] = SumOf(snt, kind) /\ tot[kind] = SumOf(rcv, kind)
  /\ tot["message"] = tot["request"] + tot["reply"] + tot["event"]
  /\ SumOf(rcv, "message") = tot["request"] + tot["reply"]
  /\ tot["timeout"] = SumFunction(tmo)
  /\ tot["error"] = SumFunction(err)

LEMMA AgreePrimed ==
  /\ SumsAgree <=> Agree(totals, sent, received, timeouts, errors)
  /\ SumsAgree' <=> Agree(totals', sent', received', timeouts', errors')
BY SumsPrimed DEF SumsAgree, Agree, Kinds

LEMMA SumsOfNothing == Agree(NoTotals, NoCounts, NoCounts, Zero, Zero)
<1>1. SumFunction(Zero) = 0
  BY SumZero, StatsAssumption DEF Zero, StatsAssumption
<1>2. ASSUME NEW kind \in Kinds PROVE SumOf(NoCounts, kind) = 0
  <2>1. [m \in Modules |-> NoCounts[m][kind]] = [m \in Modules |-> 0]
    BY DEF NoCounts
  <2>2. SumFunction([m \in Modules |-> 0]) = 0
    BY SumZero, StatsAssumption DEF StatsAssumption
  <2> QED BY <2>1, <2>2 DEF SumOf
<1>3. \A k \in Counters : NoTotals[k] = 0
  BY DEF NoTotals
<1>4. 0 = 0 + 0 + 0 /\ 0 = 0 + 0
  OBVIOUS
<1> QED BY <1>1, <1>2, <1>3, <1>4 DEF Agree, Kinds, Counters

LEMMA SumsInitially == Init => SumsAgree
BY SumsOfNothing, AgreePrimed DEF Init

(* A message that the broker records raises a total and two of its terms.   *)
LEMMA CountAgrees ==
  ASSUME TypeOK, SumsAgree, NEW kind \in {"request", "reply"}, NEW from \in Modules,
         NEW to \in Modules, NEW samples \in {0, 1},
         CountMessage(kind, from, to, samples)
  PROVE  SumsAgree'
<1>1. /\ totals \in [Counters -> Nat] /\ sent \in [Modules -> [Kinds -> Nat]]
      /\ received \in [Modules -> [Kinds -> Nat]]
      /\ timeouts' = timeouts /\ errors' = errors
  BY DEF TypeOK, CountMessage
<1>2. /\ sent' \in [Modules -> [Kinds -> Nat]] /\ received' \in [Modules -> [Kinds -> Nat]]
  <2>1. Counts
    BY DEF TypeOK, Counts
  <2> QED BY <2>1, CountsKept DEF Counts
<1> DEFINE more(k) == IF k \in {"message", kind} THEN 1 ELSE 0
<1>3. ASSUME NEW k \in Kinds
      PROVE  SumOf(sent', k) = SumOf(sent, k) + more(k) /\ SumOf(sent, k) \in Nat
  <2>1. sent'[from][k] = sent[from][k] + more(k) /\ more(k) \in Nat
    BY <1>1 DEF CountMessage, Kinds
  <2>2. \A x \in Modules : x # from => sent'[x][k] = sent[x][k]
    BY <1>1 DEF CountMessage
  <2> HIDE DEF more
  <2>3. RaisedAt(sent, sent', k, from, more(k))
    BY <1>1, <1>2, <2>1, <2>2 DEF RaisedAt
  <2> QED BY <2>3, SumRaised
<1>4. ASSUME NEW k \in Kinds
      PROVE  SumOf(received', k) = SumOf(received, k) + more(k) /\ SumOf(received, k) \in Nat
  <2>1. received'[to][k] = received[to][k] + more(k) /\ more(k) \in Nat
    BY <1>1 DEF CountMessage, Kinds
  <2>2. \A x \in Modules : x # to => received'[x][k] = received[x][k]
    BY <1>1 DEF CountMessage
  <2> HIDE DEF more
  <2>3. RaisedAt(received, received', k, to, more(k))
    BY <1>1, <1>2, <2>1, <2>2 DEF RaisedAt
  <2> QED BY <2>3, SumRaised
<1>5. /\ \A k \in {"request", "reply"} : totals'[k] = totals[k] + more(k)
      /\ totals'["message"] = totals["message"] + 1
      /\ \A k \in {"event", "timeout", "error"} : totals'[k] = totals[k]
      /\ \A k \in Kinds \cup {"event", "timeout", "error"} : totals[k] \in Nat
  BY <1>1 DEF CountMessage, Counters, Kinds
<1>6. /\ more("request") + more("reply") = 1 /\ more("message") = 1
      /\ more("request") \in Nat /\ more("reply") \in Nat
  OBVIOUS
<1> HIDE DEF more
<1>7. Agree(totals, sent, received, timeouts, errors)
  BY AgreePrimed
<1>8. \A k \in {"request", "reply"} :
        totals'[k] = SumOf(sent', k) /\ totals'[k] = SumOf(received', k)
  BY <1>3, <1>4, <1>5, <1>7 DEF Agree, Kinds
<1>9. totals'["message"] = totals'["request"] + totals'["reply"] + totals'["event"]
  <2>1. totals["message"] = totals["request"] + totals["reply"] + totals["event"]
    BY <1>7 DEF Agree
  <2> QED BY <1>5, <1>6, <2>1 DEF Kinds
<1>10. SumOf(received', "message") = totals'["request"] + totals'["reply"]
  <2>1. SumOf(received, "message") = totals["request"] + totals["reply"]
    BY <1>7 DEF Agree
  <2>2. SumOf(received', "message") = SumOf(received, "message") + 1
    BY <1>4, <1>6 DEF Kinds
  <2>3. /\ totals'["request"] = totals["request"] + more("request")
        /\ totals'["reply"] = totals["reply"] + more("reply")
        /\ totals["request"] \in Nat /\ totals["reply"] \in Nat
    BY <1>5 DEF Kinds
  <2> QED BY <1>6, <2>1, <2>2, <2>3
<1>11. totals'["timeout"] = SumFunction(timeouts') /\ totals'["error"] = SumFunction(errors')
  BY <1>1, <1>5, <1>7 DEF Agree
<1>12. Agree(totals', sent', received', timeouts', errors')
  BY <1>8, <1>9, <1>10, <1>11 DEF Agree
<1> QED BY <1>12, AgreePrimed

(* A total and one term of its sum are raised, or neither.                  *)
LEMMA CountOne ==
  ASSUME TypeOK, SumsAgree, UNCHANGED received,
         \A kind \in {"request", "reply"} : SumOf(sent', kind) = SumOf(sent, kind),
         \A k \in {"request", "reply"} : totals'[k] = totals[k],
         \/ totals'["message"] = totals["message"] /\ totals'["event"] = totals["event"]
         \/ totals'["message"] = totals["message"] + 1 /\ totals'["event"] = totals["event"] + 1,
         \/ totals'["timeout"] = totals["timeout"] /\ timeouts' = timeouts
         \/ totals'["timeout"] = totals["timeout"] + 1
              /\ \E m \in Modules : timeouts' = [timeouts EXCEPT ![m] = @ + 1],
         \/ totals'["error"] = totals["error"] /\ errors' = errors
         \/ totals'["error"] = totals["error"] + 1
              /\ \E m \in Modules : errors' = [errors EXCEPT ![m] = @ + 1]
  PROVE  SumsAgree'
<1>1. Agree(totals, sent, received, timeouts, errors)
  BY AgreePrimed
<1>2. \A k \in {"message", "request", "reply", "event", "timeout", "error"} : totals[k] \in Nat
  BY DEF TypeOK, Counters, Kinds
<1>3. timeouts \in [Modules -> Nat] /\ errors \in [Modules -> Nat]
  BY DEF TypeOK
<1>4. totals'["timeout"] = SumFunction(timeouts')
  BY <1>1, <1>3, OneRaised DEF Agree
<1>5. totals'["error"] = SumFunction(errors')
  BY <1>1, <1>3, OneRaised DEF Agree
<1>6. totals'["message"] = totals'["request"] + totals'["reply"] + totals'["event"]
  <2>1. totals["message"] = totals["request"] + totals["reply"] + totals["event"]
    BY <1>1 DEF Agree
  <2> QED BY <1>2, <2>1
<1>7. Agree(totals', sent', received', timeouts', errors')
  BY <1>1, <1>4, <1>5, <1>6 DEF Agree
<1> QED BY <1>7, AgreePrimed

LEMMA SumsPreserved == TypeOK /\ SumsAgree /\ [Next]_vars => SumsAgree'
<1> SUFFICES ASSUME TypeOK, SumsAgree, [Next]_vars PROVE SumsAgree'
  OBVIOUS
<1>0. totals \in [Counters -> Nat]
  BY DEF TypeOK
<1>1. ASSUME UNCHANGED <<sent, received>>,
             \A k \in {"message", "request", "reply", "event"} : totals'[k] = totals[k],
             \/ totals'["timeout"] = totals["timeout"] /\ timeouts' = timeouts
             \/ totals'["timeout"] = totals["timeout"] + 1
                  /\ \E m \in Modules : timeouts' = [timeouts EXCEPT ![m] = @ + 1],
             \/ totals'["error"] = totals["error"] /\ errors' = errors
             \/ totals'["error"] = totals["error"] + 1
                  /\ \E m \in Modules : errors' = [errors EXCEPT ![m] = @ + 1]
      PROVE  SumsAgree'
  BY <1>1, CountOne
<1>2. ASSUME UNCHANGED <<sent, received, timeouts, errors>>,
             \A k \in {"message", "request", "reply", "event", "timeout", "error"} :
               totals'[k] = totals[k]
      PROVE  SumsAgree'
  BY <1>1, <1>2
<1>3. ASSUME NEW c \in Calls, RecordRequest(c) PROVE SumsAgree'
  BY <1>3, CountAgrees, StatsAssumption DEF RecordRequest, StatsAssumption
<1>4. ASSUME NEW c \in Calls, RecordReply(c) PROVE SumsAgree'
  BY <1>4, CountAgrees, StatsAssumption DEF RecordReply, StatsAssumption
<1>14. ASSUME NEW c \in Calls, RecordUntypedReply(c) PROVE SumsAgree'
  BY <1>14, CountAgrees, StatsAssumption DEF RecordUntypedReply, StatsAssumption
<1>5. ASSUME NEW c \in Calls, NEW kind \in {"request", "reply"}, RecordFailure(c, kind)
      PROVE  SumsAgree'
  <2>1. UNCHANGED <<sent, received, timeouts>>
    BY <1>5 DEF RecordFailure
  <2>2. CASE UNCHANGED <<totals, errors>>
    BY <1>2, <2>1, <2>2
  <2>3. CASE /\ totals' = [totals EXCEPT !["failure"] = @ + 1, !["error"] = @ + 1]
             /\ errors' = [errors EXCEPT ![IF kind = "request" THEN From[c] ELSE To[c]] = @ + 1]
    <3>1. (IF kind = "request" THEN From[c] ELSE To[c]) \in Modules
      BY StatsAssumption DEF StatsAssumption
    <3>2. /\ \A k \in {"message", "request", "reply", "event", "timeout"} : totals'[k] = totals[k]
          /\ totals'["error"] = totals["error"] + 1
      BY <1>0, <2>3 DEF Counters, Kinds
    <3> QED BY <1>1, <2>1, <2>3, <3>1, <3>2
  <2> QED BY <1>5, <2>2, <2>3 DEF RecordFailure
<1>6. ASSUME NEW c \in Calls, GiveUp(c) PROVE SumsAgree'
  <2>1. UNCHANGED <<sent, received, errors>>
    BY <1>6 DEF GiveUp
  <2>2. CASE UNCHANGED <<totals, timeouts>>
    BY <1>2, <2>1, <2>2
  <2>3. CASE /\ totals' = [totals EXCEPT !["timeout"] = @ + 1]
             /\ timeouts' = [timeouts EXCEPT ![From[c]] = @ + 1]
    <3>1. From[c] \in Modules
      BY StatsAssumption DEF StatsAssumption
    <3>2. /\ \A k \in {"message", "request", "reply", "event", "error"} : totals'[k] = totals[k]
          /\ totals'["timeout"] = totals["timeout"] + 1
      BY <1>0, <2>3 DEF Counters, Kinds
    <3> QED BY <1>1, <2>1, <2>3, <3>1, <3>2
  <2> QED BY <1>6, <2>2, <2>3 DEF GiveUp
<1>7. ASSUME NEW c \in Calls, Answer(c) PROVE SumsAgree'
  <2>1. \A k \in {"message", "request", "reply", "event", "timeout", "error"} :
          totals'[k] = totals[k]
    BY <1>0, <1>7 DEF Answer, Counters, Kinds
  <2> QED BY <1>2, <1>7, <2>1 DEF Answer, moduleVars
<1>8. ASSUME NEW c \in Calls, HandlerError(c) PROVE SumsAgree'
  <2>1. To[c] \in Modules
    BY StatsAssumption DEF StatsAssumption
  <2>2. /\ totals' = [totals EXCEPT !["error"] = @ + 1]
        /\ errors' = [errors EXCEPT ![To[c]] = @ + 1]
        /\ UNCHANGED <<sent, received, timeouts>>
    BY <1>8 DEF HandlerError
  <2>3. /\ \A k \in {"message", "request", "reply", "event", "timeout"} : totals'[k] = totals[k]
        /\ totals'["error"] = totals["error"] + 1
    BY <1>0, <2>2 DEF Counters, Kinds
  <2> QED BY <1>1, <2>1, <2>2, <2>3
<1>9. ASSUME NEW sender \in Modules \cup {None}, Publish(sender) PROVE SumsAgree'
  <2>1. /\ totals' = [totals EXCEPT !["message"] = @ + 1, !["event"] = @ + 1]
        /\ UNCHANGED <<received, timeouts, errors>>
    BY <1>9 DEF Publish
  <2>2. /\ \A k \in {"request", "reply", "timeout", "error"} : totals'[k] = totals[k]
        /\ totals'["message"] = totals["message"] + 1 /\ totals'["event"] = totals["event"] + 1
    BY <1>0, <2>1 DEF Counters, Kinds
  <2>3. ASSUME NEW kind \in {"request", "reply"}
        PROVE  SumOf(sent', kind) = SumOf(sent, kind)
    <3>1. sent \in [Modules -> [Kinds -> Nat]]
      BY DEF TypeOK
    <3>2. \A m \in Modules : sent'[m][kind] = sent[m][kind]
      BY <1>9, <3>1 DEF Publish, Kinds
    <3>3. [m \in Modules |-> sent'[m][kind]] = [m \in Modules |-> sent[m][kind]]
      BY <3>2
    <3> QED BY <3>3 DEF SumOf
  <2> QED BY <2>1, <2>2, <2>3, CountOne
<1>10. CASE Reset
  BY <1>10, SumsOfNothing, AgreePrimed DEF Reset
<1>11. ASSUME NEW c \in Calls, Ask(c) \/ PassInternal(c) PROVE SumsAgree'
  BY <1>2, <1>11 DEF Ask, PassInternal, moduleVars
<1>12. ASSUME NEW c \in Calls, NEW kind \in {"request", "reply"}, Forward(c, kind)
       PROVE  SumsAgree'
  BY <1>2, <1>12 DEF Forward, moduleVars
<1>13. CASE Tick \/ UNCHANGED vars
  BY <1>2, <1>13 DEF Tick, moduleVars, vars
<1> QED
  BY <1>3, <1>4, <1>5, <1>6, <1>7, <1>8, <1>9, <1>10, <1>11, <1>12, <1>13, <1>14
     DEF Next, Broker

(* The totals of a report are the sums of what it says of the modules, for  *)
(* any number of modules and threads, whenever the collector is reset.      *)
THEOREM SumsCorrect == Spec => []SumsAgree
<1>1. Init => TypeOK /\ SumsAgree
  BY TypeInitially, SumsInitially
<1>2. TypeOK /\ SumsAgree /\ [Next]_vars => (TypeOK /\ SumsAgree)'
  BY TypePreserved, SumsPreserved
<1> QED BY <1>1, <1>2, PTL DEF Spec
=============================================================================
