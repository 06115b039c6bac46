---------------------------- MODULE PubSubProofs ----------------------------
(***************************************************************************)
(* Proofs about PubSub, for any interfaces, publications, callbacks and    *)
(* topics, and any number of broker restarts: a callback misses nothing    *)
(* between two messages that it hears; and what callbacks hear is a Feed,  *)
(* provided that the publications of one interface share a thread.         *)
(***************************************************************************)
EXTENDS PubSub, FiniteSetTheorems, SequenceTheorems, TLAPS

-----------------------------------------------------------------------------
(* Sequences and parts of them.                                             *)

Elems(s) == {s[n] : n \in 1..Len(s)}

Distinct(s) == \A m, n \in 1..Len(s) : s[m] = s[n] => m = n

Increasing(s) == \A m, n \in 1..Len(s) : m < n => s[m] < s[n]

IsPart(t, s) ==
  \E c \in Nat : Len(t) + c <= Len(s) /\ \A n \in 1..Len(t) : t[n] = s[n + c]

LEMMA PartKeeps ==
  ASSUME NEW S, NEW s \in Seq(S), NEW t \in Seq(S), IsPart(t, s)
  PROVE  /\ Elems(t) \subseteq Elems(s)
         /\ Distinct(s) => Distinct(t)
         /\ Increasing(s) => Increasing(t)
  <1>1. PICK c \in Nat : Len(t) + c <= Len(s) /\ \A n \in 1..Len(t) : t[n] = s[n + c]
    BY DEF IsPart
  <1>2. Len(t) \in Nat /\ Len(s) \in Nat
    OBVIOUS
  <1>3. ASSUME NEW n \in 1..Len(t)
        PROVE  n + c \in 1..Len(s) /\ t[n] = s[n + c]
    BY <1>1, <1>2
  <1>4. Elems(t) \subseteq Elems(s)
    BY <1>3 DEF Elems
  <1>5. ASSUME Distinct(s)
        PROVE  Distinct(t)
    <2> SUFFICES ASSUME NEW m \in 1..Len(t), NEW n \in 1..Len(t), t[m] = t[n]
                 PROVE  m = n
      BY DEF Distinct
    <2>1. s[m + c] = s[n + c] /\ m + c \in 1..Len(s) /\ n + c \in 1..Len(s)
      BY <1>3
    <2>2. m + c = n + c
      BY <1>5, <2>1 DEF Distinct
    <2> QED BY <1>1, <2>2
  <1>6. ASSUME Increasing(s)
        PROVE  Increasing(t)
    <2> SUFFICES ASSUME NEW m \in 1..Len(t), NEW n \in 1..Len(t), m < n
                 PROVE  t[m] < t[n]
      BY DEF Increasing
    <2>1. m + c \in 1..Len(s) /\ n + c \in 1..Len(s) /\ m + c < n + c
      BY <1>1, <1>3
    <2>2. s[m + c] < s[n + c]
      BY <1>6, <2>1 DEF Increasing
    <2> QED BY <1>3, <2>2
  <1> QED BY <1>4, <1>5, <1>6

LEMMA TailPart ==
  ASSUME NEW S, NEW s \in Seq(S), s # << >>
  PROVE  /\ Tail(s) \in Seq(S) /\ IsPart(Tail(s), s)
         /\ Head(s) \in S /\ Head(s) \in Elems(s)
         /\ Distinct(s) => Head(s) \notin Elems(Tail(s))
         /\ Increasing(s) => \A x \in Elems(Tail(s)) : Head(s) < x
  <1>1. /\ Len(s) \in Nat /\ Len(s) >= 1 /\ Len(Tail(s)) = Len(s) - 1
        /\ Head(s) = s[1] /\ Tail(s) \in Seq(S) /\ Head(s) \in S
        /\ \A n \in 1..Len(Tail(s)) : Tail(s)[n] = s[n + 1]
    OBVIOUS
  <1>2. Len(Tail(s)) + 1 <= Len(s) /\ 1 \in Nat /\ 1 \in 1..Len(s)
    BY <1>1
  <1>3. IsPart(Tail(s), s)
    BY <1>1, <1>2 DEF IsPart
  <1>4. ASSUME NEW x \in Elems(Tail(s))
        PROVE  \E n \in 1..Len(s) : n > 1 /\ x = s[n]
    <2>1. PICK n \in 1..Len(Tail(s)) : x = Tail(s)[n]
      BY DEF Elems
    <2>2. n + 1 \in 1..Len(s) /\ n + 1 > 1 /\ x = s[n + 1]
      BY <1>1, <2>1
    <2> QED BY <2>2
  <1>5. Distinct(s) => Head(s) \notin Elems(Tail(s))
    BY <1>1, <1>2, <1>4 DEF Distinct
  <1>6. Increasing(s) => \A x \in Elems(Tail(s)) : Head(s) < x
    BY <1>1, <1>2, <1>4 DEF Increasing
  <1> QED BY <1>1, <1>2, <1>3, <1>5, <1>6 DEF Elems

LEMMA DropPart ==
  ASSUME NEW S, NEW s \in Seq(S), NEW c \in Nat, c <= Len(s)
  PROVE  SubSeq(s, c + 1, Len(s)) \in Seq(S) /\ IsPart(SubSeq(s, c + 1, Len(s)), s)
  <1> DEFINE t == SubSeq(s, c + 1, Len(s))
  <1>1. /\ t \in Seq(S) /\ Len(s) \in Nat /\ Len(t) = Len(s) - c
        /\ \A n \in 1..Len(t) : t[n] = s[n + c]
    <2>1. Len(s) \in Nat
      OBVIOUS
    <2>2. /\ t \in Seq(S)
          /\ Len(t) = IF c + 1 <= Len(s) THEN Len(s) - (c + 1) + 1 ELSE 0
          /\ \A n \in 1..(Len(s) - (c + 1) + 1) : t[n] = s[c + 1 + n - 1]
      BY <2>1, SubSeqProperties
    <2>3. Len(t) = Len(s) - c
      BY <2>1, <2>2
    <2>4. ASSUME NEW n \in 1..Len(t)
          PROVE  t[n] = s[n + c]
      <3>1. n \in 1..(Len(s) - (c + 1) + 1) /\ c + 1 + n - 1 = n + c
        BY <2>1, <2>3
      <3> HIDE DEF t
      <3> QED BY <2>2, <3>1
    <2> QED BY <2>1, <2>2, <2>3, <2>4
  <1> HIDE DEF t
  <1>2. Len(t) + c <= Len(s)
    BY <1>1
  <1>3. IsPart(t, s)
    BY <1>1, <1>2 DEF IsPart
  <1> QED BY <1>1, <1>3 DEF t

LEMMA TakePart ==
  ASSUME NEW S, NEW s \in Seq(S), NEW c \in Nat, c <= Len(s)
  PROVE  SubSeq(s, 1, c) \in Seq(S) /\ IsPart(SubSeq(s, 1, c), s)
  <1> DEFINE t == SubSeq(s, 1, c)
  <1>1. /\ t \in Seq(S) /\ Len(s) \in Nat /\ Len(t) = c
        /\ \A n \in 1..Len(t) : t[n] = s[n]
    OBVIOUS
  <1> HIDE DEF t
  <1>2. Len(t) + 0 <= Len(s) /\ 0 \in Nat /\ \A n \in 1..Len(t) : t[n] = s[n + 0]
    BY <1>1
  <1>3. IsPart(t, s)
    BY <1>2 DEF IsPart
  <1> QED BY <1>1, <1>3 DEF t

LEMMA EmptyList ==
  ASSUME NEW S, NEW s, s = << >>
  PROVE  s \in Seq(S) /\ Elems(s) = {} /\ Distinct(s) /\ Increasing(s)
  <1>1. s \in Seq(S) /\ 1..Len(s) = {}
    OBVIOUS
  <1>2. Elems(s) = {}
    BY <1>1 DEF Elems
  <1>3. Distinct(s)
    BY <1>1 DEF Distinct
  <1>4. Increasing(s)
    BY <1>1 DEF Increasing
  <1> QED BY <1>1, <1>2, <1>3, <1>4

LEMMA AppendElems ==
  ASSUME NEW S, NEW s \in Seq(S), NEW x \in S
  PROVE  /\ Append(s, x) \in Seq(S) /\ Elems(Append(s, x)) = Elems(s) \cup {x}
         /\ Distinct(s) /\ x \notin Elems(s) => Distinct(Append(s, x))
         /\ Increasing(s) /\ (\A y \in Elems(s) : y < x) => Increasing(Append(s, x))
  <1> DEFINE t == Append(s, x)
  <1>1. /\ t \in Seq(S) /\ Len(s) \in Nat /\ Len(t) = Len(s) + 1 /\ t[Len(s) + 1] = x
        /\ \A n \in 1..Len(s) : t[n] = s[n]
    OBVIOUS
  <1> HIDE DEF t
  <1>2. \A n \in 1..Len(t) : n \in 1..Len(s) \/ n = Len(s) + 1
    BY <1>1
  <1>3. 1..Len(s) \subseteq 1..Len(t) /\ Len(s) + 1 \in 1..Len(t) /\ Len(s) + 1 \notin 1..Len(s)
    BY <1>1
  <1>4. Elems(t) = Elems(s) \cup {x}
    BY <1>1, <1>2, <1>3 DEF Elems
  <1>5. ASSUME Distinct(s), x \notin Elems(s)
        PROVE  Distinct(t)
    <2> SUFFICES ASSUME NEW m \in 1..Len(t), NEW n \in 1..Len(t), t[m] = t[n]
                 PROVE  m = n
      BY DEF Distinct
    <2> QED BY <1>1, <1>2, <1>5 DEF Distinct, Elems
  <1>6. ASSUME Increasing(s), \A y \in Elems(s) : y < x
        PROVE  Increasing(t)
    <2> SUFFICES ASSUME NEW m \in 1..Len(t), NEW n \in 1..Len(t), m < n
                 PROVE  t[m] < t[n]
      BY DEF Increasing
    <2>1. m \in 1..Len(s)
      BY <1>1, <1>2
    <2> QED BY <1>1, <1>2, <1>6, <2>1 DEF Increasing, Elems
  <1> QED BY <1>1, <1>4, <1>5, <1>6 DEF t

LEMMA SeqWider ==
  ASSUME NEW S, NEW T, S \subseteq T, NEW s \in Seq(S)
  PROVE  s \in Seq(T)
  OBVIOUS

-----------------------------------------------------------------------------
(* Types.  A message has one data frame, its last; what has been begun has   *)
(* none.  The subscriber thread only calls for a message of two frames.     *)

TypeInv ==
  /\ TypeOK
  /\ \A i \in Interfaces : \A n \in 1..Len(open[i].frames) : open[i].frames[n].part = "topic"
  /\ \A i \in Interfaces :
       loop[i] = "calling" => hand[i] \in 1..Len(log) /\ Len(log[hand[i]].frames) = 2

Forwarded == [frames : Message, epoch : 0..MaxStops]

LEMMA HeadingTopic ==
  ASSUME NEW frames \in Message
  PROVE  Heading(frames) \in Topics
  <1>1. frames \in Seq(Frame) /\ frames # << >>
    BY DEF Message
  <1>2. frames[1] \in Frame
    BY <1>1
  <1>3. frames[1].of \in Publications
    BY <1>2 DEF Frame
  <1> QED BY <1>3, PublicationAssumption, TopicAssumption
        DEF Heading, PublicationAssumption, TopicAssumption

LEMMA BegunType ==
  ASSUME TypeInv, NEW i \in Interfaces, NEW p \in Publications, NEW part \in {"topic", "data"}
  PROVE  LET begun == Begun(i, [part |-> part, of |-> p])
         IN  /\ begun \in [frames : Seq(Frame), kept : BOOLEAN]
             /\ begun.frames = Append(open[i].frames, [part |-> part, of |-> p])
             /\ part = "data" => begun.frames \in Message
             /\ part = "topic" =>
                  \A n \in 1..Len(begun.frames) : begun.frames[n].part = "topic"
  <1> DEFINE frame == [part |-> part, of |-> p]
             old == open[i].frames
             new == Append(old, frame)
             begun == Begun(i, frame)
  <1>1. old \in Seq(Frame) /\ open[i].kept \in BOOLEAN /\ joined[i] \in BOOLEAN
        /\ \A n \in 1..Len(old) : old[n].part = "topic"
    BY DEF TypeInv, TypeOK
  <1>2. frame \in Frame /\ frame.part = part
    BY DEF Frame
  <1>3. begun.frames = new /\ begun = [frames |-> new, kept |-> begun.kept]
    BY DEF Begun
  <1>3a. begun.kept \in BOOLEAN
    BY <1>1 DEF Begun
  <1> HIDE DEF old, frame, begun
  <1>4. /\ new \in Seq(Frame) /\ Len(old) \in Nat /\ Len(new) = Len(old) + 1
        /\ new[Len(old) + 1] = frame /\ \A n \in 1..Len(old) : new[n] = old[n]
    BY <1>1, <1>2
  <1> HIDE DEF new
  <1>5. \A n \in 1..Len(new) : n \in 1..Len(old) \/ n = Len(old) + 1
    BY <1>4
  <1>6. new # << >>
    BY <1>4
  <1>7. ASSUME part = "data"
        PROVE  new \in Message
    <2>1. \A n \in 1..Len(new) : new[n].part = "data" <=> n = Len(new)
      BY <1>1, <1>2, <1>4, <1>5, <1>7
    <2> QED BY <1>4, <1>6, <2>1 DEF Message
  <1>8. ASSUME part = "topic"
        PROVE  \A n \in 1..Len(new) : new[n].part = "topic"
    BY <1>1, <1>2, <1>4, <1>5, <1>8
  <1>9. begun \in [frames : Seq(Frame), kept : BOOLEAN]
    BY <1>3, <1>3a, <1>4
  <1> QED BY <1>3, <1>7, <1>8, <1>9 DEF begun, frame, new, old

LEMMA PublishTopicType ==
  ASSUME TypeInv, NEW p \in Publications, PublishTopic(p)
  PROVE  TypeInv'
  <1> DEFINE i == From[p]
             begun == Begun(i, [part |-> "topic", of |-> p])
  <1>1. i \in Interfaces
    BY PublicationAssumption DEF PublicationAssumption
  <1>2. /\ begun \in [frames : Seq(Frame), kept : BOOLEAN]
        /\ \A n \in 1..Len(begun.frames) : begun.frames[n].part = "topic"
    BY <1>1, BegunType
  <1>3. open' = [open EXCEPT ![i] = begun] /\ pc' = [pc EXCEPT ![p] = "half"]
        /\ UNCHANGED <<joined, up, brokerVars, subscriberVars>>
    BY DEF PublishTopic
  <1> HIDE DEF begun, i
  <1>4. /\ open' \in [Interfaces -> [frames : Seq(Frame), kept : BOOLEAN]]
        /\ pc' \in [Publications -> {"idle", "half", "done"}]
    BY <1>1, <1>2, <1>3 DEF TypeInv, TypeOK
  <1>5. \A j \in Interfaces : \A n \in 1..Len(open'[j].frames) : open'[j].frames[n].part = "topic"
    BY <1>1, <1>2, <1>3 DEF TypeInv, TypeOK
  <1> QED BY <1>3, <1>4, <1>5 DEF TypeInv, TypeOK, brokerVars, subscriberVars

LEMMA PublishDataType ==
  ASSUME TypeInv, NEW p \in Publications, PublishData(p)
  PROVE  TypeInv'
  <1> DEFINE i == From[p]
             begun == Begun(i, [part |-> "data", of |-> p])
  <1>1. i \in Interfaces
    BY PublicationAssumption DEF PublicationAssumption
  <1>2. begun.frames \in Message
    BY <1>1, BegunType
  <1>3. /\ open' = [open EXCEPT ![i] = NoFrames] /\ pc' = [pc EXCEPT ![p] = "done"]
        /\ up' = IF begun.kept THEN [up EXCEPT ![i] = Append(@, begun.frames)] ELSE up
        /\ UNCHANGED <<joined, brokerVars, subscriberVars>>
    BY DEF PublishData
  <1> HIDE DEF begun, i
  <1>4. NoFrames \in [frames : Seq(Frame), kept : BOOLEAN] /\ NoFrames.frames = << >>
    BY DEF NoFrames
  <1>5. /\ open' \in [Interfaces -> [frames : Seq(Frame), kept : BOOLEAN]]
        /\ pc' \in [Publications -> {"idle", "half", "done"}]
    BY <1>1, <1>3, <1>4 DEF TypeInv, TypeOK
  <1>6. up' \in [Interfaces -> Seq(Message)]
    <2>1. up \in [Interfaces -> Seq(Message)]
      BY DEF TypeInv, TypeOK
    <2>2. Append(up[i], begun.frames) \in Seq(Message)
      BY <1>1, <1>2, <2>1, AppendElems
    <2> QED BY <1>1, <1>3, <2>1, <2>2
  <1>7. ASSUME NEW j \in Interfaces, NEW n \in 1..Len(open'[j].frames)
        PROVE  open'[j].frames[n].part = "topic"
    <2>1. CASE j = i
      BY <1>1, <1>3, <1>4, <2>1 DEF TypeInv, TypeOK
    <2>2. CASE j # i
      <3>1. open'[j] = open[j]
        BY <1>1, <1>3, <2>2 DEF TypeInv, TypeOK
      <3> QED BY <3>1 DEF TypeInv
    <2> QED BY <2>1, <2>2
  <1> QED BY <1>3, <1>5, <1>6, <1>7 DEF TypeInv, TypeOK, brokerVars, subscriberVars

LEMMA RouteType ==
  ASSUME TypeInv, NEW i \in Interfaces, Route(i)
  PROVE  TypeInv'
  <1> DEFINE frames == Head(up[i])
             entry == [frames |-> frames, epoch |-> stops]
  <1>1. /\ up \in [Interfaces -> Seq(Message)] /\ up[i] # << >> /\ log \in Seq(Forwarded)
        /\ down \in [Interfaces -> Seq(1..Len(log))]
        /\ hand \in [Interfaces -> 0..Len(log)] /\ at \in [Callbacks -> 0..Len(log)]
        /\ stops \in 0..MaxStops
    BY DEF TypeInv, TypeOK, Route, Forwarded
  <1>2. frames \in Message /\ Tail(up[i]) \in Seq(Message)
    BY <1>1, TailPart
  <1>3. /\ up' = [up EXCEPT ![i] = Tail(@)] /\ log' = Append(log, entry)
        /\ down' = [j \in Interfaces |->
                      IF Wanted(j, frames) THEN Append(down[j], Len(log) + 1) ELSE down[j]]
        /\ UNCHANGED <<pc, open, joined, broker, stops, known, subscriberVars>>
    BY DEF Route
  <1>4. entry \in Forwarded
    BY <1>1, <1>2 DEF Forwarded
  <1> HIDE DEF entry, frames
  <1>5. /\ log' \in Seq(Forwarded) /\ Len(log) \in Nat /\ Len(log') = Len(log) + 1
        /\ \A n \in 1..Len(log) : log'[n] = log[n]
    BY <1>1, <1>3, <1>4
  <1>6. /\ 1..Len(log) \subseteq 1..Len(log') /\ 0..Len(log) \subseteq 0..Len(log')
        /\ Len(log) + 1 \in 1..Len(log')
    BY <1>5
  <1>7. ASSUME NEW j \in Interfaces
        PROVE  down'[j] \in Seq(1..Len(log'))
    <2>1. down[j] \in Seq(1..Len(log'))
      <3>1. down[j] \in Seq(1..Len(log))
        BY <1>1
      <3> QED BY <1>6, <3>1, SeqWider
    <2>2. Append(down[j], Len(log) + 1) \in Seq(1..Len(log'))
      BY <1>6, <2>1, AppendElems
    <2> QED BY <1>3, <2>1, <2>2
  <1>8. down' \in [Interfaces -> Seq(1..Len(log'))]
    BY <1>3, <1>7
  <1>9. /\ up' \in [Interfaces -> Seq(Message)]
        /\ hand' \in [Interfaces -> 0..Len(log')] /\ at' \in [Callbacks -> 0..Len(log')]
    BY <1>1, <1>2, <1>3, <1>6 DEF subscriberVars
  <1>10. \A j \in Interfaces :
           loop'[j] = "calling" => hand'[j] \in 1..Len(log') /\ Len(log'[hand'[j]].frames) = 2
    BY <1>3, <1>5, <1>6 DEF TypeInv, subscriberVars
  <1> QED BY <1>3, <1>5, <1>8, <1>9, <1>10 DEF TypeInv, TypeOK, subscriberVars, Forwarded

LEMMA BrokerStopType ==
  ASSUME TypeInv, BrokerStop
  PROVE  TypeInv'
  <1>1. /\ broker' = "down" /\ stops' = stops + 1 /\ stops < MaxStops
        /\ known' = [i \in Interfaces |-> {}]
        /\ UNCHANGED <<pc, open, joined, log, subscriberVars>>
    BY DEF BrokerStop
  <1>2. stops' \in 0..MaxStops
    BY <1>1, StopAssumption DEF TypeInv, TypeOK, StopAssumption
  <1>3. up' \in [Interfaces -> Seq(Message)]
    <2>1. PICK lost \in [Interfaces -> 0..Cardinality(Publications)] :
            /\ \A i \in Interfaces : lost[i] <= Len(up[i])
            /\ up' = [i \in Interfaces |-> SubSeq(up[i], lost[i] + 1, Len(up[i]))]
      BY DEF BrokerStop
    <2>2. Cardinality(Publications) \in Nat
      BY PublicationAssumption, FS_CardinalityType DEF PublicationAssumption
    <2>3. ASSUME NEW i \in Interfaces
          PROVE  up'[i] \in Seq(Message)
      <3>1. lost[i] \in Nat /\ lost[i] <= Len(up[i]) /\ up[i] \in Seq(Message)
        BY <2>1, <2>2 DEF TypeInv, TypeOK
      <3> QED BY <2>1, <3>1, DropPart
    <2> QED BY <2>1, <2>3
  <1>4. down' \in [Interfaces -> Seq(1..Len(log))]
    <2>1. PICK kept \in [Interfaces -> 0..Len(log)] :
            /\ \A i \in Interfaces : kept[i] <= Len(down[i])
            /\ down' = [i \in Interfaces |-> SubSeq(down[i], 1, kept[i])]
      BY DEF BrokerStop
    <2>2. ASSUME NEW i \in Interfaces
          PROVE  down'[i] \in Seq(1..Len(log))
      <3>1. kept[i] \in Nat /\ kept[i] <= Len(down[i]) /\ down[i] \in Seq(1..Len(log))
        BY <2>1 DEF TypeInv, TypeOK
      <3> QED BY <2>1, <3>1, TakePart
    <2> QED BY <2>1, <2>2
  <1> QED BY <1>1, <1>2, <1>3, <1>4 DEF TypeInv, TypeOK, subscriberVars

LEMMA ReceiveType ==
  ASSUME TypeInv, NEW i \in Interfaces, Receive(i)
  PROVE  TypeInv'
  <1>1. down[i] \in Seq(1..Len(log)) /\ down[i] # << >>
    BY DEF Receive, TypeInv, TypeOK
  <1>2. Head(down[i]) \in 1..Len(log) /\ Tail(down[i]) \in Seq(1..Len(log))
    BY <1>1, TailPart
  <1>3. /\ down' = [down EXCEPT ![i] = Tail(@)] /\ hand' = [hand EXCEPT ![i] = Head(down[i])]
        /\ loop' = [loop EXCEPT ![i] =
                      IF Len(log[Head(down[i])].frames) = 2 THEN "calling" ELSE "ended"]
        /\ UNCHANGED <<publisherVars, broker, stops, log, known, state, sub, callbacks, next,
                       at, calls>>
    BY DEF Receive
  <1>4. /\ down' \in [Interfaces -> Seq(1..Len(log))] /\ hand' \in [Interfaces -> 0..Len(log)]
        /\ loop' \in [Interfaces -> {"top", "poll", "calling", "ended"}]
    BY <1>2, <1>3 DEF TypeInv, TypeOK
  <1>5. ASSUME NEW j \in Interfaces, loop'[j] = "calling"
        PROVE  hand'[j] \in 1..Len(log) /\ Len(log[hand'[j]].frames) = 2
    <2>1. CASE j = i
      BY <1>2, <1>3, <1>5, <2>1 DEF TypeInv, TypeOK
    <2>2. CASE j # i
      <3>1. loop'[j] = loop[j] /\ hand'[j] = hand[j]
        BY <1>3, <2>2 DEF TypeInv, TypeOK
      <3> QED BY <1>5, <3>1 DEF TypeInv
    <2> QED BY <2>1, <2>2
  <1>6. TypeOK'
    BY <1>3, <1>4 DEF TypeInv, TypeOK, publisherVars
  <1>7. UNCHANGED <<open, log>>
    BY <1>3 DEF publisherVars
  <1> QED BY <1>5, <1>6, <1>7 DEF TypeInv

(* What the loop calls when it is in a message.                             *)
LEMMA ListenersType ==
  ASSUME TypeInv, NEW i \in Interfaces, loop[i] = "calling"
  PROVE  /\ hand[i] \in 1..Len(log) /\ log[hand[i]].frames \in Message
         /\ Heading(log[hand[i]].frames) \in Topics
         /\ Listeners(i) = callbacks[<<i, Heading(log[hand[i]].frames)>>]
         /\ Listeners(i) \in Seq(Callbacks)
  <1>1. hand[i] \in 1..Len(log) /\ log \in Seq(Forwarded)
    BY DEF TypeInv, TypeOK, Forwarded
  <1>2. log[hand[i]] \in Forwarded
    BY <1>1
  <1>3. log[hand[i]].frames \in Message
    BY <1>2 DEF Forwarded
  <1>4. Heading(log[hand[i]].frames) \in Topics
    BY <1>3, HeadingTopic
  <1>5. callbacks[<<i, Heading(log[hand[i]].frames)>>] \in Seq(Callbacks)
    BY <1>4 DEF TypeInv, TypeOK
  <1> QED BY <1>1, <1>3, <1>4, <1>5 DEF Listeners

LEMMA CallType ==
  ASSUME TypeInv, NEW i \in Interfaces, Call(i)
  PROVE  TypeInv'
  <1> DEFINE k == Listeners(i)[next[i]]
  <1>1. /\ loop[i] = "calling" /\ next[i] <= Len(Listeners(i))
        /\ at' = [at EXCEPT ![k] = hand[i]] /\ calls' = [calls EXCEPT ![k] = @ + 1]
        /\ next' = [next EXCEPT ![i] = @ + 1]
        /\ UNCHANGED <<publisherVars, brokerVars, state, sub, callbacks, loop, hand>>
    BY DEF Call
  <1> HIDE DEF k
  <1>2. /\ at' \in [Callbacks -> 0..Len(log)] /\ calls' \in [Callbacks -> Nat]
        /\ next' \in [Interfaces -> Nat]
    <2>1. at' \in [Callbacks -> 0..Len(log)]
      <3>1. hand[i] \in 0..Len(log) /\ at \in [Callbacks -> 0..Len(log)]
        BY DEF TypeInv, TypeOK
      <3> QED BY <1>1, <3>1
    <2>2. calls' \in [Callbacks -> Nat]
      <3>1. calls \in [Callbacks -> Nat] /\ calls' = [calls EXCEPT ![k] = calls[k] + 1]
        BY <1>1 DEF TypeInv, TypeOK
      <3>2. k \in Callbacks => calls[k] + 1 \in Nat
        BY <3>1
      <3> QED BY <3>1, <3>2
    <2>3. next' \in [Interfaces -> Nat]
      <3>1. next \in [Interfaces -> Nat] /\ next' = [next EXCEPT ![i] = next[i] + 1]
        BY <1>1 DEF TypeInv, TypeOK
      <3> QED BY <3>1
    <2> QED BY <2>1, <2>2, <2>3
  <1> QED BY <1>1, <1>2 DEF TypeInv, TypeOK, publisherVars, brokerVars

LEMMA CloseSocketsType ==
  ASSUME TypeInv, NEW i \in Interfaces, CloseSockets(i)
  PROVE  TypeInv'
  <1>1. PICK n \in 0..Len(up[i]) : up' = [up EXCEPT ![i] = SubSeq(@, 1, n)]
    BY DEF CloseSockets
  <1>2. /\ state' = [state EXCEPT ![i] = "closed"]
        /\ open' = [open EXCEPT ![i] = NoFrames]
        /\ down' = [down EXCEPT ![i] = << >>] /\ known' = [known EXCEPT ![i] = {}]
        /\ UNCHANGED <<pc, joined, broker, stops, log, sub, callbacks, loop, hand, next, at, calls>>
    BY DEF CloseSockets
  <1>3. up' \in [Interfaces -> Seq(Message)]
    <2>1. n \in Nat /\ n <= Len(up[i]) /\ up[i] \in Seq(Message)
      BY DEF TypeInv, TypeOK
    <2>2. SubSeq(up[i], 1, n) \in Seq(Message)
      BY <2>1, TakePart
    <2> QED BY <1>1, <2>2 DEF TypeInv, TypeOK
  <1>4. NoFrames \in [frames : Seq(Frame), kept : BOOLEAN] /\ NoFrames.frames = << >>
    BY DEF NoFrames
  <1>5. open' \in [Interfaces -> [frames : Seq(Frame), kept : BOOLEAN]]
    BY <1>2, <1>4 DEF TypeInv, TypeOK
  <1>6. /\ down' \in [Interfaces -> Seq(1..Len(log))] /\ known' \in [Interfaces -> SUBSET Topics]
        /\ state' \in [Interfaces -> {"running", "stopping", "closed"}]
    <2>1. << >> \in Seq(1..Len(log))
      OBVIOUS
    <2> QED BY <1>2, <2>1 DEF TypeInv, TypeOK
  <1>7. ASSUME NEW j \in Interfaces, NEW m \in 1..Len(open'[j].frames)
        PROVE  open'[j].frames[m].part = "topic"
    <2>1. CASE j = i
      BY <1>2, <1>4, <2>1 DEF TypeInv, TypeOK
    <2>2. CASE j # i
      <3>1. open'[j] = open[j]
        BY <1>2, <2>2 DEF TypeInv, TypeOK
      <3> QED BY <3>1 DEF TypeInv
    <2> QED BY <2>1, <2>2
  <1> QED BY <1>2, <1>3, <1>5, <1>6, <1>7 DEF TypeInv, TypeOK

LEMMA TypeStays == TypeInv /\ [Next]_vars => TypeInv'
  <1> SUFFICES ASSUME TypeInv, [Next]_vars
               PROVE  TypeInv'
    OBVIOUS
  <1>1. ASSUME NEW i \in Interfaces, Join(i)
        PROVE  TypeInv'
    BY <1>1 DEF Join, TypeInv, TypeOK, brokerVars, subscriberVars
  <1>2. CASE BrokerStart
    BY <1>2 DEF BrokerStart, TypeInv, TypeOK, publisherVars, subscriberVars
  <1>3. ASSUME NEW i \in Interfaces, ThreadEnds(i)
        PROVE  TypeInv'
    <2>1. up[i] \in Seq(Message) /\ up[i] # << >>
      BY <1>3 DEF ThreadEnds, TypeInv, TypeOK
    <2>2. Tail(up[i]) \in Seq(Message)
      BY <2>1, TailPart
    <2>3. up' \in [Interfaces -> Seq(Message)]
      BY <1>3, <2>2 DEF ThreadEnds, TypeInv, TypeOK
    <2> QED BY <1>3, <2>3 DEF ThreadEnds, TypeInv, TypeOK, subscriberVars
  <1>4. ASSUME NEW k \in Callbacks, Learn(k)
        PROVE  TypeInv'
    <2>1. At[k] \in Interfaces /\ For[k] \in Topics
      BY CallbackAssumption DEF CallbackAssumption
    <2>2. known' \in [Interfaces -> SUBSET Topics]
      BY <1>4, <2>1 DEF Learn, TypeInv, TypeOK
    <2> QED BY <1>4, <2>2 DEF Learn, TypeInv, TypeOK, publisherVars, subscriberVars
  <1>5. ASSUME NEW k \in Callbacks, SetOption(k)
        PROVE  TypeInv'
    BY <1>5 DEF SetOption, TypeInv, TypeOK, publisherVars, brokerVars
  <1>6. ASSUME NEW k \in Callbacks, AddCallback(k)
        PROVE  TypeInv'
    <2>1. <<At[k], For[k]>> \in Interfaces \X Topics
      BY CallbackAssumption DEF CallbackAssumption
    <2>2. callbacks \in [Interfaces \X Topics -> Seq(Callbacks)]
      BY DEF TypeInv, TypeOK
    <2>3. Append(callbacks[<<At[k], For[k]>>], k) \in Seq(Callbacks)
      BY <2>1, <2>2, AppendElems
    <2>4. callbacks' \in [Interfaces \X Topics -> Seq(Callbacks)]
      BY <1>6, <2>1, <2>2, <2>3 DEF AddCallback
    <2> QED BY <1>6, <2>4 DEF AddCallback, TypeInv, TypeOK, publisherVars, brokerVars
  <1>7. ASSUME NEW i \in Interfaces, LoopTop(i) \/ PollTimeout(i)
        PROVE  TypeInv'
    <2>1. /\ UNCHANGED <<publisherVars, brokerVars, state, sub, callbacks, hand, next, at, calls>>
          /\ \E to \in {"top", "poll", "ended"} : loop' = [loop EXCEPT ![i] = to]
      BY <1>7 DEF LoopTop, PollTimeout
    <2>2. loop' \in [Interfaces -> {"top", "poll", "calling", "ended"}]
      BY <2>1 DEF TypeInv, TypeOK
    <2>3. \A j \in Interfaces : loop'[j] = "calling" => loop[j] = "calling"
      BY <2>1 DEF TypeInv, TypeOK
    <2> QED BY <2>1, <2>2, <2>3 DEF TypeInv, TypeOK, publisherVars, brokerVars
  <1>8. ASSUME NEW i \in Interfaces, CallsDone(i)
        PROVE  TypeInv'
    <2>1. /\ UNCHANGED <<publisherVars, brokerVars, state, sub, callbacks, at, calls>>
          /\ loop' = [loop EXCEPT ![i] = "top"] /\ hand' = [hand EXCEPT ![i] = 0]
          /\ next' = [next EXCEPT ![i] = 1]
      BY <1>8 DEF CallsDone
    <2>2. /\ loop' \in [Interfaces -> {"top", "poll", "calling", "ended"}]
          /\ hand' \in [Interfaces -> 0..Len(log)] /\ next' \in [Interfaces -> Nat]
      <3>1. 0 \in 0..Len(log)
        BY DEF TypeInv, TypeOK
      <3> QED BY <2>1, <3>1 DEF TypeInv, TypeOK
    <2>3. \A j \in Interfaces :
            loop'[j] = "calling" => loop[j] = "calling" /\ hand'[j] = hand[j]
      BY <2>1 DEF TypeInv, TypeOK
    <2>4. TypeOK'
      BY <2>1, <2>2 DEF TypeInv, TypeOK, publisherVars, brokerVars
    <2>5. UNCHANGED <<open, log>>
      BY <2>1 DEF publisherVars, brokerVars
    <2> QED BY <2>3, <2>4, <2>5 DEF TypeInv
  <1>9. ASSUME NEW i \in Interfaces, Stop(i)
        PROVE  TypeInv'
    BY <1>9 DEF Stop, TypeInv, TypeOK, publisherVars, brokerVars
  <1>10. CASE UNCHANGED vars
    BY <1>10 DEF vars, publisherVars, brokerVars, subscriberVars, TypeInv, TypeOK
  <1> QED BY <1>1, <1>2, <1>3, <1>4, <1>5, <1>6, <1>7, <1>8, <1>9, <1>10, PublishTopicType,
          PublishDataType, RouteType, BrokerStopType, ReceiveType, CallType, CloseSocketsType
        DEF Next, SubThread, Broker

LEMMA InitType == Init => TypeInv
  <1> SUFFICES ASSUME Init
               PROVE  TypeInv
    OBVIOUS
  <1>1. /\ NoFrames \in [frames : Seq(Frame), kept : BOOLEAN] /\ NoFrames.frames = << >>
        /\ Len(log) = 0 /\ log = << >>
    BY DEF NoFrames, Init
  <1>2. \A i \in Interfaces : open[i] = NoFrames /\ loop[i] = "top"
    BY DEF Init
  <1>3. MaxStops \in Nat
    BY StopAssumption DEF StopAssumption
  <1>4. TypeOK
    BY <1>1, <1>3 DEF Init, TypeOK
  <1> QED BY <1>1, <1>2, <1>4 DEF TypeInv

(* Frames, messages, subscriptions and lists of callbacks keep their types; *)
(* in particular a message ends with its first data frame.                  *)
THEOREM TypeCorrect == Spec => []TypeOK
  <1>1. TypeInv => TypeOK
    BY DEF TypeInv
  <1> QED BY <1>1, InitType, TypeStays, PTL DEF Spec

-----------------------------------------------------------------------------
(* Whole messages.                                                          *)

(* The publications of an interface are made by one thread.                 *)
OneThread == \A p, q \in Publications : From[p] = From[q] => Thread[p] = Thread[q]

Half(p) == <<[part |-> "topic", of |-> p]>>
Pair(p) == <<[part |-> "topic", of |-> p], [part |-> "data", of |-> p]>>
Sends(i, p) == From[p] = i /\ pc[p] = "done"
InLog == {log[n].frames : n \in 1..Len(log)}

(* A socket has begun at most the message of the one publication that is    *)
(* half sent; what is on its way and in the log are whole messages, each in *)
(* one place only.                                                          *)
WholeInv ==
  /\ \A p \in Publications :
       pc[p] = "half" /\ state[From[p]] # "closed" => open[From[p]].frames = Half(p)
  /\ \A i \in Interfaces :
       open[i].frames # << >> => \E p \in Publications : From[p] = i /\ pc[p] = "half"
  /\ \A i \in Interfaces : \A x \in Elems(up[i]) :
       /\ \E p \in Publications : x = Pair(p) /\ Sends(i, p)
       /\ x \notin InLog
  /\ \A i \in Interfaces : Distinct(up[i])
  /\ \A x \in InLog : \E p \in Publications : x = Pair(p) /\ pc[p] = "done"

LEMMA AppendOne ==
  ASSUME NEW x, NEW y
  PROVE  Append(<<x>>, y) = <<x, y>>
  <1>1. <<x>> \in Seq({x, y}) /\ Len(<<x>>) = 1
    OBVIOUS
  <1>2. /\ Append(<<x>>, y) \in Seq({x, y}) /\ Len(Append(<<x>>, y)) = 2
        /\ Append(<<x>>, y)[1] = x /\ Append(<<x>>, y)[2] = y
    BY <1>1
  <1>3. <<x, y>> \in Seq({x, y}) /\ Len(<<x, y>>) = 2 /\ <<x, y>>[1] = x /\ <<x, y>>[2] = y
    OBVIOUS
  <1>4. \A n \in 1..2 : n = 1 \/ n = 2
    OBVIOUS
  <1> QED BY <1>2, <1>3, <1>4, SeqEqual

LEMMA PairOf ==
  ASSUME NEW p, NEW q
  PROVE  /\ Pair(p) = Pair(q) => p = q
         /\ Len(Pair(p)) = 2 /\ Pair(p)[1].of = p /\ Pair(p)[2].of = p
         /\ Pair(p)[1].part = "topic" /\ Append(Half(p), [part |-> "data", of |-> p]) = Pair(p)
         /\ Half(p) # << >>
  <1>1. /\ Len(Pair(p)) = 2 /\ Pair(p)[1].of = p /\ Pair(p)[2].of = p
        /\ Pair(p)[1].part = "topic" /\ Pair(q)[1].of = q
    BY DEF Pair
  <1>2. Append(Half(p), [part |-> "data", of |-> p]) = Pair(p) /\ Half(p) # << >>
    <2>1. Append(Half(p), [part |-> "data", of |-> p]) = Pair(p)
      BY AppendOne DEF Pair, Half
    <2>2. Half(p) # << >>
      BY DEF Half
    <2> QED BY <2>1, <2>2
  <1> QED BY <1>1, <1>2

LEMMA PartSame ==
  ASSUME NEW S, NEW s \in Seq(S)
  PROVE  IsPart(s, s)
  <1>1. Len(s) \in Nat /\ 0 \in Nat /\ \A n \in 1..Len(s) : s[n + 0] = s[n]
    OBVIOUS
  <1>2. Len(s) + 0 <= Len(s)
    BY <1>1
  <1> QED BY <1>1, <1>2 DEF IsPart

(* Losing messages before the broker, and closing sockets, disturb nothing. *)
LEMMA FewerWhole ==
  ASSUME TypeInv, TypeInv', WholeInv, UNCHANGED <<pc, log>>,
         \A i \in Interfaces : IsPart(up'[i], up[i]),
         \A i \in Interfaces :
           \/ open'[i] = open[i] /\ (state[i] = "closed" => state'[i] = "closed")
           \/ open'[i].frames = << >> /\ state'[i] = "closed"
  PROVE  WholeInv'
  <1>1. \A p \in Publications : From[p] \in Interfaces
    BY PublicationAssumption DEF PublicationAssumption
  <1>2. \A i \in Interfaces : up[i] \in Seq(Message) /\ up'[i] \in Seq(Message)
    BY DEF TypeInv, TypeOK
  <1>3. ASSUME NEW i \in Interfaces
        PROVE  /\ Elems(up'[i]) \subseteq Elems(up[i]) /\ Distinct(up'[i])
               /\ Elems(up[i])' = Elems(up'[i]) /\ (Distinct(up[i]))' = Distinct(up'[i])
    <2>1. /\ Elems(up'[i]) \subseteq Elems(up[i])
          /\ Distinct(up[i]) => Distinct(up'[i])
      BY <1>2, PartKeeps
    <2>2. Distinct(up[i])
      BY DEF WholeInv
    <2> QED BY <2>1, <2>2 DEF Elems, Distinct
  <1>4. InLog' = InLog
    BY DEF InLog
  <1>5. \A p \in Publications :
          pc'[p] = "half" /\ state'[From[p]] # "closed" => open'[From[p]].frames = Half(p)
    BY <1>1 DEF WholeInv
  <1>6. \A i \in Interfaces :
          open'[i].frames # << >> => \E p \in Publications : From[p] = i /\ pc'[p] = "half"
    BY DEF WholeInv
  <1>7. ASSUME NEW i \in Interfaces, NEW x \in Elems(up'[i])
        PROVE  /\ \E p \in Publications : x = Pair(p) /\ Sends(i, p)'
               /\ x \notin InLog'
    BY <1>3, <1>4 DEF WholeInv, Sends
  <1>8. \A x \in InLog' : \E p \in Publications : x = Pair(p) /\ pc'[p] = "done"
    BY <1>4 DEF WholeInv
  <1> QED BY <1>3, <1>5, <1>6, <1>7, <1>8 DEF WholeInv

LEMMA PublishTopicWhole ==
  ASSUME OneThread, TypeInv, WholeInv, NEW p \in Publications, PublishTopic(p)
  PROVE  WholeInv'
  <1> DEFINE i == From[p]
  <1>1. i \in Interfaces /\ \A q \in Publications : From[q] \in Interfaces
    BY PublicationAssumption DEF PublicationAssumption
  <1>2. /\ pc[p] = "idle" /\ pc' = [pc EXCEPT ![p] = "half"]
        /\ \A q \in Publications : Thread[q] = Thread[p] => pc[q] # "half"
        /\ open' = [open EXCEPT ![i] = Begun(i, [part |-> "topic", of |-> p])]
        /\ UNCHANGED <<up, log, state>>
    BY DEF PublishTopic, brokerVars, subscriberVars
  <1>3. \A q \in Publications : From[q] = i => pc[q] # "half"
    BY <1>2 DEF OneThread
  <1>4. open[i].frames = << >>
    BY <1>1, <1>3 DEF WholeInv
  <1>5. open'[i].frames = Half(p)
    BY <1>1, <1>2, <1>4 DEF Begun, Half, TypeInv, TypeOK
  <1>6. \A j \in Interfaces : j # i => open'[j] = open[j]
    BY <1>1, <1>2 DEF TypeInv, TypeOK
  <1>7. /\ pc'[p] = "half"
        /\ \A q \in Publications : q # p => pc'[q] = pc[q]
    BY <1>2 DEF TypeInv, TypeOK
  <1>8. ASSUME NEW q \in Publications, pc'[q] = "half", state'[From[q]] # "closed"
        PROVE  open'[From[q]].frames = Half(q)
    <2>1. CASE q = p
      BY <1>5, <2>1
    <2>2. CASE q # p
      <3>1. pc[q] = "half" /\ From[q] # i
        BY <1>3, <1>7, <1>8, <2>2
      <3> QED BY <1>1, <1>2, <1>6, <1>8, <3>1 DEF WholeInv
    <2> QED BY <2>1, <2>2
  <1>9. ASSUME NEW j \in Interfaces, open'[j].frames # << >>
        PROVE  \E q \in Publications : From[q] = j /\ pc'[q] = "half"
    <2>1. CASE j = i
      BY <1>7, <2>1
    <2>2. CASE j # i
      <3>1. PICK q \in Publications : From[q] = j /\ pc[q] = "half"
        BY <1>6, <1>9, <2>2 DEF WholeInv
      <3> QED BY <1>2, <1>7, <3>1
    <2> QED BY <2>1, <2>2
  <1>10. \A j \in Interfaces : \A x \in Elems(up[j])' :
           /\ \E q \in Publications : x = Pair(q) /\ Sends(j, q)'
           /\ x \notin InLog'
    <2>1. InLog' = InLog /\ \A j \in Interfaces : Elems(up[j])' = Elems(up[j])
      BY <1>2 DEF InLog, Elems
    <2>2. \A q \in Publications : pc[q] = "done" => pc'[q] = "done"
      BY <1>2, <1>7
    <2>3. ASSUME NEW j \in Interfaces, NEW x \in Elems(up[j])
          PROVE  (\E q \in Publications : x = Pair(q) /\ Sends(j, q)') /\ x \notin InLog
      <3>1. PICK q \in Publications : x = Pair(q) /\ From[q] = j /\ pc[q] = "done"
        BY DEF WholeInv, Sends
      <3>2. x \notin InLog
        BY DEF WholeInv
      <3> QED BY <2>2, <3>1, <3>2 DEF Sends
    <2> QED BY <2>1, <2>3
  <1>11. \A j \in Interfaces : Distinct(up[j])'
    BY <1>2 DEF WholeInv, Distinct
  <1>12. \A x \in InLog' : \E q \in Publications : x = Pair(q) /\ pc'[q] = "done"
    <2>1. InLog' = InLog
      BY <1>2 DEF InLog
    <2>2. \A q \in Publications : pc[q] = "done" => pc'[q] = "done"
      BY <1>2, <1>7
    <2> QED BY <2>1, <2>2 DEF WholeInv
  <1> QED BY <1>8, <1>9, <1>10, <1>11, <1>12 DEF WholeInv

LEMMA PublishDataWhole ==
  ASSUME OneThread, TypeInv, WholeInv, NEW p \in Publications, PublishData(p)
  PROVE  WholeInv'
  <1> DEFINE i == From[p]
             begun == Begun(i, [part |-> "data", of |-> p])
  <1>1. i \in Interfaces /\ \A q \in Publications : From[q] \in Interfaces
    BY PublicationAssumption DEF PublicationAssumption
  <1>2. /\ pc[p] = "half" /\ state[i] # "closed" /\ pc' = [pc EXCEPT ![p] = "done"]
        /\ open' = [open EXCEPT ![i] = NoFrames]
        /\ up' = IF begun.kept THEN [up EXCEPT ![i] = Append(@, begun.frames)] ELSE up
        /\ UNCHANGED <<log, state>>
    BY DEF PublishData, brokerVars, subscriberVars
  <1>3. begun.frames = Pair(p) /\ begun.frames \in Message
    <2>1. open[i].frames = Half(p)
      BY <1>1, <1>2 DEF WholeInv
    <2>2. begun.frames = Append(open[i].frames, [part |-> "data", of |-> p])
      BY DEF Begun
    <2>3. begun.frames \in Message
      BY <1>1, BegunType
    <2> QED BY <2>1, <2>2, <2>3, PairOf
  <1>4. \A q \in Publications : q # p /\ From[q] = i => pc[q] # "half"
    <2> SUFFICES ASSUME NEW q \in Publications, q # p, From[q] = i, pc[q] = "half"
                 PROVE  FALSE
      OBVIOUS
    <2>1. open[i].frames = Half(p) /\ open[i].frames = Half(q)
      BY <1>1, <1>2 DEF WholeInv
    <2> QED BY <2>1 DEF Half
  <1> HIDE DEF begun
  <1>5. /\ open'[i].frames = << >>
        /\ \A j \in Interfaces : j # i => open'[j] = open[j]
    BY <1>1, <1>2 DEF NoFrames, TypeInv, TypeOK
  <1>6. /\ pc'[p] = "done" /\ \A q \in Publications : q # p => pc'[q] = pc[q]
    BY <1>2 DEF TypeInv, TypeOK
  <1>7. ASSUME NEW q \in Publications, pc'[q] = "half", state'[From[q]] # "closed"
        PROVE  open'[From[q]].frames = Half(q)
    <2>1. q # p /\ pc[q] = "half" /\ From[q] # i
      BY <1>4, <1>6, <1>7
    <2> QED BY <1>1, <1>2, <1>5, <1>7, <2>1 DEF WholeInv
  <1>8. ASSUME NEW j \in Interfaces, open'[j].frames # << >>
        PROVE  \E q \in Publications : From[q] = j /\ pc'[q] = "half"
    <2>1. j # i
      BY <1>5, <1>8
    <2>2. PICK q \in Publications : From[q] = j /\ pc[q] = "half"
      BY <1>5, <1>8, <2>1 DEF WholeInv
    <2> QED BY <1>6, <2>1, <2>2
  <1>9. InLog' = InLog
    BY <1>2 DEF InLog
  <1>10. \A x \in InLog' : \E q \in Publications : x = Pair(q) /\ pc'[q] = "done"
    BY <1>6, <1>9 DEF WholeInv
  <1>11. /\ Pair(p) \notin InLog
         /\ \A j \in Interfaces : Pair(p) \notin Elems(up[j])
    <2>1. Pair(p) \notin InLog
      <3> SUFFICES ASSUME Pair(p) \in InLog
                   PROVE  FALSE
        OBVIOUS
      <3>1. PICK q \in Publications : Pair(p) = Pair(q) /\ pc[q] = "done"
        BY DEF WholeInv
      <3> QED BY <1>2, <3>1, PairOf
    <2>2. ASSUME NEW j \in Interfaces, Pair(p) \in Elems(up[j])
          PROVE  FALSE
      <3>1. PICK q \in Publications : Pair(p) = Pair(q) /\ pc[q] = "done"
        BY <2>2 DEF WholeInv, Sends
      <3> QED BY <1>2, <3>1, PairOf
    <2> QED BY <2>1, <2>2
  <1>12. ASSUME NEW j \in Interfaces
         PROVE  /\ Elems(up'[j]) \subseteq Elems(up[j]) \cup (IF j = i THEN {Pair(p)} ELSE {})
                /\ Distinct(up'[j])
    <2>1. up[j] \in Seq(Message) /\ Distinct(up[j]) /\ up \in [Interfaces -> Seq(Message)]
      BY DEF TypeInv, TypeOK, WholeInv
    <2>2. CASE up'[j] = up[j]
      BY <2>1, <2>2
    <2>3. CASE j = i /\ up'[j] = Append(up[j], Pair(p))
      <3>1. Elems(Append(up[j], Pair(p))) = Elems(up[j]) \cup {Pair(p)}
        BY <1>3, <2>1, AppendElems
      <3>2. Distinct(Append(up[j], Pair(p)))
        BY <1>3, <1>11, <2>1, AppendElems
      <3> QED BY <2>3, <3>1, <3>2
    <2> QED BY <1>1, <1>2, <1>3, <2>1, <2>2, <2>3
  <1>13. ASSUME NEW j \in Interfaces, NEW x \in Elems(up'[j])
         PROVE  /\ \E q \in Publications : x = Pair(q) /\ Sends(j, q)'
                /\ x \notin InLog'
    <2>1. CASE x \in Elems(up[j])
      <3>1. PICK q \in Publications : x = Pair(q) /\ From[q] = j /\ pc[q] = "done"
        BY <2>1 DEF WholeInv, Sends
      <3>2. pc'[q] = "done"
        BY <1>2, <1>6, <3>1
      <3>3. x \notin InLog
        BY <2>1 DEF WholeInv
      <3> QED BY <1>9, <3>1, <3>2, <3>3 DEF Sends
    <2>2. CASE x = Pair(p) /\ j = i
      BY <1>6, <1>9, <1>11, <2>2 DEF Sends
    <2> QED BY <1>12, <2>1, <2>2
  <1>14. \A j \in Interfaces : Elems(up[j])' = Elems(up'[j]) /\ (Distinct(up[j]))' = Distinct(up'[j])
    BY DEF Elems, Distinct
  <1> QED BY <1>7, <1>8, <1>10, <1>12, <1>13, <1>14 DEF WholeInv

LEMMA RouteWhole ==
  ASSUME TypeInv, WholeInv, NEW i \in Interfaces, Route(i)
  PROVE  WholeInv'
  <1> DEFINE first == Head(up[i])
  <1>1. /\ up[i] \in Seq(Message) /\ up[i] # << >> /\ up \in [Interfaces -> Seq(Message)]
        /\ log \in Seq(Forwarded) /\ stops \in 0..MaxStops
    BY DEF TypeInv, TypeOK, Route, Forwarded
  <1>2. /\ up' = [up EXCEPT ![i] = Tail(@)]
        /\ log' = Append(log, [frames |-> first, epoch |-> stops])
        /\ UNCHANGED <<pc, open, state>>
    BY DEF Route, subscriberVars
  <1>3. /\ first \in Message /\ first \in Elems(up[i])
        /\ first \notin Elems(Tail(up[i])) /\ Distinct(Tail(up[i]))
        /\ Elems(Tail(up[i])) \subseteq Elems(up[i])
    <2>1. Distinct(up[i])
      BY DEF WholeInv
    <2>2. /\ first \in Message /\ first \in Elems(up[i]) /\ first \notin Elems(Tail(up[i]))
          /\ Tail(up[i]) \in Seq(Message) /\ IsPart(Tail(up[i]), up[i])
      BY <1>1, <2>1, TailPart
    <2> QED BY <1>1, <2>1, <2>2, PartKeeps
  <1> HIDE DEF first
  <1>4. InLog' = InLog \cup {first}
    <2> DEFINE entry == [frames |-> first, epoch |-> stops]
    <2>1. entry \in Forwarded /\ entry.frames = first
      BY <1>1, <1>3 DEF Forwarded
    <2> HIDE DEF entry
    <2>2. /\ Len(log) \in Nat /\ Len(log') = Len(log) + 1 /\ log'[Len(log) + 1] = entry
          /\ \A n \in 1..Len(log) : log'[n] = log[n]
      BY <1>1, <1>2, <2>1 DEF entry
    <2>3. \A n \in 1..Len(log') : n \in 1..Len(log) \/ n = Len(log) + 1
      BY <2>2
    <2>4. 1..Len(log) \subseteq 1..Len(log') /\ Len(log) + 1 \in 1..Len(log')
      BY <2>2
    <2> QED BY <2>1, <2>2, <2>3, <2>4 DEF InLog
  <1>5. PICK p \in Publications : first = Pair(p) /\ From[p] = i /\ pc[p] = "done"
    BY <1>3 DEF WholeInv, Sends
  <1>6. ASSUME NEW j \in Interfaces
        PROVE  /\ Elems(up'[j]) \subseteq Elems(up[j]) /\ Distinct(up'[j])
               /\ first \notin Elems(up'[j])
    <2>1. CASE j = i
      BY <1>1, <1>2, <1>3, <2>1
    <2>2. CASE j # i
      <3>1. up'[j] = up[j] /\ Distinct(up[j])
        BY <1>1, <1>2, <2>2 DEF WholeInv
      <3>2. ASSUME first \in Elems(up[j])
            PROVE  FALSE
        <4>1. PICK q \in Publications : first = Pair(q) /\ From[q] = j
          BY <3>2 DEF WholeInv, Sends
        <4>2. Pair(p) = Pair(q)
          BY <1>5, <4>1
        <4>3. p = q
          BY <4>2, PairOf
        <4> QED BY <1>5, <2>2, <4>1, <4>3
      <3> QED BY <3>1, <3>2
    <2> QED BY <2>1, <2>2
  <1>7. ASSUME NEW j \in Interfaces, NEW x \in Elems(up'[j])
        PROVE  /\ \E q \in Publications : x = Pair(q) /\ Sends(j, q)'
               /\ x \notin InLog'
    <2>1. x \in Elems(up[j]) /\ x # first
      BY <1>6
    <2>2. PICK q \in Publications : x = Pair(q) /\ From[q] = j /\ pc[q] = "done"
      BY <2>1 DEF WholeInv, Sends
    <2>3. x \notin InLog
      BY <2>1 DEF WholeInv
    <2> QED BY <1>2, <1>4, <2>1, <2>2, <2>3 DEF Sends
  <1>8. \A x \in InLog' : \E q \in Publications : x = Pair(q) /\ pc'[q] = "done"
    BY <1>2, <1>4, <1>5 DEF WholeInv
  <1>9. \A j \in Interfaces : Elems(up[j])' = Elems(up'[j]) /\ (Distinct(up[j]))' = Distinct(up'[j])
    BY DEF Elems, Distinct
  <1>10. /\ \A q \in Publications :
              pc'[q] = "half" /\ state'[From[q]] # "closed" => open'[From[q]].frames = Half(q)
         /\ \A j \in Interfaces :
              open'[j].frames # << >> => \E q \in Publications : From[q] = j /\ pc'[q] = "half"
    BY <1>2 DEF WholeInv
  <1> QED BY <1>6, <1>7, <1>8, <1>9, <1>10 DEF WholeInv

LEMMA WholeStays ==
  ASSUME OneThread, TypeInv, TypeInv', WholeInv, [Next]_vars
  PROVE  WholeInv'
  <1>1. ASSUME UNCHANGED <<pc, log, open, up, state>>
        PROVE  WholeInv'
    <2>1. \A i \in Interfaces : IsPart(up'[i], up[i])
      BY <1>1, PartSame DEF TypeInv, TypeOK
    <2> QED BY <1>1, <2>1, FewerWhole
  <1>2. ASSUME NEW k \in Callbacks, SetOption(k) \/ AddCallback(k) \/ Learn(k)
        PROVE  WholeInv'
    BY <1>1, <1>2 DEF SetOption, AddCallback, Learn, publisherVars, brokerVars, subscriberVars
  <1>3. ASSUME NEW i \in Interfaces, Join(i) \/ SubThread(i)
        PROVE  WholeInv'
    BY <1>1, <1>3 DEF Join, SubThread, LoopTop, PollTimeout, Receive, Call, CallsDone,
                      publisherVars, brokerVars, subscriberVars
  <1>4. ASSUME NEW i \in Interfaces, Stop(i)
        PROVE  WholeInv'
    <2>1. \A j \in Interfaces : IsPart(up'[j], up[j])
      BY <1>4, PartSame DEF Stop, publisherVars, TypeInv, TypeOK
    <2>2. \A j \in Interfaces : state[j] = "closed" => state'[j] = "closed"
      BY <1>4 DEF Stop, TypeInv, TypeOK
    <2> QED BY <1>4, <2>1, <2>2, FewerWhole DEF Stop, publisherVars, brokerVars
  <1>5. ASSUME NEW i \in Interfaces, CloseSockets(i)
        PROVE  WholeInv'
    <2>1. PICK n \in 0..Len(up[i]) : up' = [up EXCEPT ![i] = SubSeq(@, 1, n)]
      BY <1>5 DEF CloseSockets
    <2>2. /\ open' = [open EXCEPT ![i] = NoFrames] /\ state' = [state EXCEPT ![i] = "closed"]
          /\ UNCHANGED <<pc, log>>
      BY <1>5 DEF CloseSockets
    <2>3. ASSUME NEW j \in Interfaces
          PROVE  IsPart(up'[j], up[j])
      <3>1. up \in [Interfaces -> Seq(Message)]
        BY DEF TypeInv, TypeOK
      <3>2. n \in Nat /\ n <= Len(up[i])
        BY <3>1
      <3>3. IsPart(SubSeq(up[i], 1, n), up[i]) /\ IsPart(up[j], up[j])
        BY <3>1, <3>2, TakePart, PartSame
      <3> QED BY <2>1, <3>1, <3>3
    <2>4. NoFrames.frames = << >>
      BY DEF NoFrames
    <2>5. ASSUME NEW j \in Interfaces
          PROVE  \/ open'[j] = open[j] /\ state'[j] = state[j]
                 \/ open'[j].frames = << >> /\ state'[j] = "closed"
      BY <2>2, <2>4 DEF TypeInv, TypeOK
    <2> QED BY <2>2, <2>3, <2>5, FewerWhole
  <1>6. CASE BrokerStart
    BY <1>1, <1>6 DEF BrokerStart, publisherVars, subscriberVars
  <1>7. CASE BrokerStop
    <2>1. PICK lost \in [Interfaces -> 0..Cardinality(Publications)] :
            /\ \A i \in Interfaces : lost[i] <= Len(up[i])
            /\ up' = [i \in Interfaces |-> SubSeq(up[i], lost[i] + 1, Len(up[i]))]
      BY <1>7 DEF BrokerStop
    <2>2. Cardinality(Publications) \in Nat
      BY PublicationAssumption, FS_CardinalityType DEF PublicationAssumption
    <2>3. ASSUME NEW i \in Interfaces
          PROVE  IsPart(up'[i], up[i])
      <3>1. lost[i] \in Nat /\ lost[i] <= Len(up[i]) /\ up[i] \in Seq(Message)
        BY <2>1, <2>2 DEF TypeInv, TypeOK
      <3>2. IsPart(SubSeq(up[i], lost[i] + 1, Len(up[i])), up[i])
        BY <3>1, DropPart
      <3> QED BY <2>1, <3>2
    <2> QED BY <1>7, <2>3, FewerWhole DEF BrokerStop, subscriberVars
  <1>8. ASSUME NEW i \in Interfaces, ThreadEnds(i)
        PROVE  WholeInv'
    <2>1. up \in [Interfaces -> Seq(Message)] /\ up[i] # << >> /\ up' = [up EXCEPT ![i] = Tail(@)]
      BY <1>8 DEF ThreadEnds, TypeInv, TypeOK
    <2>2. ASSUME NEW j \in Interfaces
          PROVE  IsPart(up'[j], up[j])
      <3>1. IsPart(Tail(up[i]), up[i]) /\ IsPart(up[j], up[j])
        BY <2>1, TailPart, PartSame
      <3> QED BY <2>1, <3>1
    <2> QED BY <1>8, <2>2, FewerWhole DEF ThreadEnds, subscriberVars
  <1>9. CASE UNCHANGED vars
    BY <1>1, <1>9 DEF vars, publisherVars, brokerVars, subscriberVars
  <1> QED BY <1>2, <1>3, <1>4, <1>5, <1>6, <1>7, <1>8, <1>9, PublishTopicWhole,
          PublishDataWhole, RouteWhole DEF Next, Broker

-----------------------------------------------------------------------------
(* The order of calls.                                                      *)

(* A callback is in one list, its own, once; it is not called before.       *)
ListInv ==
  /\ \A i \in Interfaces, t \in Topics :
       /\ Distinct(callbacks[<<i, t>>])
       /\ \A k \in Elems(callbacks[<<i, t>>]) : At[k] = i /\ For[k] = t /\ sub[k] = "done"
  /\ \A k \in Callbacks : sub[k] # "done" => at[k] = 0
  /\ \A i \in Interfaces : next[i] >= 1

(* What is on its way to an interface is later in the log than what its     *)
(* subscriber thread has in hand and what its callbacks have heard.         *)
QueueOrder(i) ==
  /\ Increasing(down[i])
  /\ \A x \in Elems(down[i]) : hand[i] < x
  /\ \A x \in Elems(down[i]) : \A k \in Callbacks : At[k] = i => at[k] < x

(* The callbacks still to be called have not heard what is in hand.         *)
CallOrder(i) ==
  loop[i] = "calling" =>
    \A n \in 1..Len(Listeners(i)) : n >= next[i] => at[Listeners(i)[n]] < hand[i]

OrderInv ==
  /\ ListInv
  /\ \A i \in Interfaces : QueueOrder(i) /\ CallOrder(i)

(* The callback that a Call calls.                                          *)
LEMMA Called ==
  ASSUME TypeInv, ListInv, NEW i \in Interfaces, loop[i] = "calling",
         next[i] <= Len(Listeners(i))
  PROVE  LET k == Listeners(i)[next[i]]
         IN  /\ k \in Callbacks /\ At[k] = i /\ sub[k] = "done"
             /\ For[k] = Heading(log[hand[i]].frames)
             /\ hand[i] \in 1..Len(log) /\ next[i] \in 1..Len(Listeners(i))
             /\ \A n \in 1..Len(Listeners(i)) : Listeners(i)[n] = k => n = next[i]
  <1> DEFINE t == Heading(log[hand[i]].frames)
             k == Listeners(i)[next[i]]
  <1>1. /\ hand[i] \in 1..Len(log) /\ t \in Topics
        /\ Listeners(i) = callbacks[<<i, t>>] /\ Listeners(i) \in Seq(Callbacks)
    BY ListenersType
  <1>2. next[i] \in 1..Len(Listeners(i))
    <2>1. next[i] \in Nat /\ next[i] >= 1 /\ Len(Listeners(i)) \in Nat
      BY <1>1 DEF ListInv, TypeInv, TypeOK
    <2> QED BY <2>1
  <1> HIDE DEF t
  <1>3. k \in Callbacks /\ k \in Elems(Listeners(i))
    BY <1>1, <1>2 DEF Elems
  <1>4. At[k] = i /\ For[k] = t /\ sub[k] = "done"
    BY <1>1, <1>3 DEF ListInv
  <1>5. Distinct(Listeners(i))
    BY <1>1 DEF ListInv
  <1>6. \A n \in 1..Len(Listeners(i)) : Listeners(i)[n] = k => n = next[i]
    BY <1>2, <1>5 DEF Distinct
  <1> QED BY <1>1, <1>2, <1>3, <1>4, <1>6 DEF t

LEMMA ListStays ==
  ASSUME TypeInv, TypeInv', ListInv, [Next]_vars
  PROVE  ListInv'
  <1>1. ASSUME UNCHANGED <<sub, callbacks, next, at>>
        PROVE  ListInv'
    BY <1>1 DEF ListInv, Distinct, Elems
  <1>2. ASSUME NEW k \in Callbacks, SetOption(k)
        PROVE  ListInv'
    <2>1. sub[k] = "idle" /\ sub' = [sub EXCEPT ![k] = "set"] /\ UNCHANGED <<callbacks, next, at>>
      BY <1>2 DEF SetOption
    <2>2. \A l \in Callbacks : sub[l] = "done" <=> sub'[l] = "done"
      BY <2>1 DEF TypeInv, TypeOK
    <2>3. ASSUME NEW i \in Interfaces, NEW t \in Topics
          PROVE  /\ Distinct(callbacks[<<i, t>>])'
                 /\ \A l \in Elems(callbacks[<<i, t>>])' :
                      At[l] = i /\ For[l] = t /\ sub'[l] = "done"
      <3>1. Elems(callbacks[<<i, t>>]) \subseteq Callbacks
        <4>1. callbacks[<<i, t>>] \in Seq(Callbacks)
          BY DEF TypeInv, TypeOK
        <4> QED BY <4>1 DEF Elems
      <3>2. /\ Elems(callbacks[<<i, t>>])' = Elems(callbacks[<<i, t>>])
            /\ Distinct(callbacks[<<i, t>>])' = Distinct(callbacks[<<i, t>>])
        BY <2>1 DEF Elems, Distinct
      <3> QED BY <2>2, <3>1, <3>2 DEF ListInv
    <2> QED BY <2>1, <2>2, <2>3 DEF ListInv
  <1>3. ASSUME NEW k \in Callbacks, AddCallback(k)
        PROVE  ListInv'
    <2>1. /\ sub[k] = "set" /\ sub' = [sub EXCEPT ![k] = "done"] /\ UNCHANGED <<next, at>>
          /\ callbacks' = [callbacks EXCEPT ![<<At[k], For[k]>>] = Append(@, k)]
      BY <1>3 DEF AddCallback
    <2>2. /\ \A l \in Callbacks : sub[l] = "done" => sub'[l] = "done"
          /\ \A l \in Callbacks : sub'[l] # "done" => sub[l] # "done"
          /\ sub'[k] = "done"
      BY <2>1 DEF TypeInv, TypeOK
    <2>3. ASSUME NEW i \in Interfaces, NEW t \in Topics
          PROVE  /\ Distinct(callbacks'[<<i, t>>])
                 /\ \A l \in Elems(callbacks'[<<i, t>>]) :
                      At[l] = i /\ For[l] = t /\ sub'[l] = "done"
      <3> DEFINE s == callbacks[<<i, t>>]
      <3>1. callbacks \in [Interfaces \X Topics -> Seq(Callbacks)] /\ s \in Seq(Callbacks)
        BY DEF TypeInv, TypeOK
      <3>2. /\ Distinct(s)
            /\ \A l \in Elems(s) : At[l] = i /\ For[l] = t /\ sub[l] = "done"
        BY DEF ListInv
      <3>3. Elems(s) \subseteq Callbacks
        BY <3>1 DEF Elems
      <3>4. <<i, t>> \in Interfaces \X Topics
        OBVIOUS
      <3>5. callbacks'[<<i, t>>] = IF i = At[k] /\ t = For[k] THEN Append(s, k) ELSE s
        BY <2>1, <3>1, <3>4
      <3> HIDE DEF s
      <3>6. CASE i = At[k] /\ t = For[k]
        <4>1. k \notin Elems(s)
          BY <2>1, <3>2
        <4>2. Elems(Append(s, k)) = Elems(s) \cup {k} /\ Distinct(Append(s, k))
          BY <3>1, <3>2, <4>1, AppendElems
        <4> QED BY <2>2, <3>2, <3>3, <3>5, <3>6, <4>2
      <3>7. CASE ~(i = At[k] /\ t = For[k])
        BY <2>2, <3>2, <3>3, <3>5, <3>7
      <3> QED BY <3>6, <3>7
    <2>4. \A i \in Interfaces, t \in Topics :
            /\ Distinct(callbacks[<<i, t>>])' = Distinct(callbacks'[<<i, t>>])
            /\ Elems(callbacks[<<i, t>>])' = Elems(callbacks'[<<i, t>>])
      BY DEF Distinct, Elems
    <2> QED BY <2>1, <2>2, <2>3, <2>4 DEF ListInv
  <1>4. ASSUME NEW i \in Interfaces, Call(i)
        PROVE  ListInv'
    <2> DEFINE k == Listeners(i)[next[i]]
    <2>1. /\ loop[i] = "calling" /\ next[i] <= Len(Listeners(i))
          /\ at' = [at EXCEPT ![k] = hand[i]] /\ next' = [next EXCEPT ![i] = @ + 1]
          /\ UNCHANGED <<sub, callbacks>>
      BY <1>4 DEF Call
    <2>2. sub[k] = "done"
      BY <2>1, Called
    <2> HIDE DEF k
    <2>3. \A l \in Callbacks : sub'[l] # "done" => at'[l] = 0
      BY <2>1, <2>2 DEF ListInv, TypeInv, TypeOK
    <2>4. \A j \in Interfaces : next'[j] >= 1
      <3>1. next \in [Interfaces -> Nat] /\ \A j \in Interfaces : next[j] >= 1
        BY DEF ListInv, TypeInv, TypeOK
      <3> QED BY <2>1, <3>1
    <2>5. \A j \in Interfaces, t \in Topics :
            /\ Distinct(callbacks[<<j, t>>])' = Distinct(callbacks[<<j, t>>])
            /\ Elems(callbacks[<<j, t>>])' = Elems(callbacks[<<j, t>>])
      BY <2>1 DEF Distinct, Elems
    <2> QED BY <2>1, <2>3, <2>4, <2>5 DEF ListInv
  <1>5. ASSUME NEW i \in Interfaces, CallsDone(i)
        PROVE  ListInv'
    <2>1. next' = [next EXCEPT ![i] = 1] /\ UNCHANGED <<sub, callbacks, at>>
      BY <1>5 DEF CallsDone
    <2>2. \A j \in Interfaces : next'[j] >= 1
      BY <2>1 DEF ListInv, TypeInv, TypeOK
    <2> QED BY <2>1, <2>2 DEF ListInv, Distinct, Elems
  <1>6. ASSUME NEW i \in Interfaces,
               Join(i) \/ LoopTop(i) \/ PollTimeout(i) \/ Receive(i) \/ Stop(i)
                 \/ CloseSockets(i) \/ Route(i) \/ ThreadEnds(i)
        PROVE  ListInv'
    BY <1>1, <1>6 DEF Join, LoopTop, PollTimeout, Receive, Stop, CloseSockets, Route,
                      ThreadEnds, subscriberVars
  <1>7. ASSUME NEW p \in Publications, PublishTopic(p) \/ PublishData(p)
        PROVE  ListInv'
    BY <1>1, <1>7 DEF PublishTopic, PublishData, subscriberVars
  <1>8. ASSUME NEW k \in Callbacks, Learn(k)
        PROVE  ListInv'
    BY <1>1, <1>8 DEF Learn, subscriberVars
  <1>9. CASE BrokerStart \/ BrokerStop \/ UNCHANGED vars
    BY <1>1, <1>9 DEF BrokerStart, BrokerStop, vars, subscriberVars
  <1> QED BY <1>2, <1>3, <1>4, <1>5, <1>6, <1>7, <1>8, <1>9 DEF Next, SubThread, Broker

(* A step that takes from what is on its way to i, and does not call.       *)
LEMMA QueueStays ==
  ASSUME TypeInv, TypeInv', NEW i \in Interfaces, QueueOrder(i),
         IsPart(down'[i], down[i]), hand'[i] \in {0, hand[i]},
         \A k \in Callbacks : At[k] = i => at'[k] = at[k]
  PROVE  QueueOrder(i)'
  <1>1. /\ down[i] \in Seq(1..Len(log)) /\ down'[i] \in Seq(1..Len(log'))
        /\ Len(log) \in Nat /\ Len(log') \in Nat
    BY DEF TypeInv, TypeOK
  <1>2. down[i] \in Seq(Nat) /\ down'[i] \in Seq(Nat)
    BY <1>1, SeqWider
  <1>3. /\ Elems(down'[i]) \subseteq Elems(down[i])
        /\ Increasing(down[i]) => Increasing(down'[i])
    BY <1>2, PartKeeps
  <1>4. \A x \in Elems(down[i]) : x >= 1
    BY <1>1 DEF Elems
  <1>5. \A x \in Elems(down'[i]) :
          /\ hand'[i] < x
          /\ \A k \in Callbacks : At[k] = i => at'[k] < x
    <2>1. Elems(down[i]) \subseteq Nat
      BY <1>2 DEF Elems
    <2> QED BY <1>3, <1>4, <2>1 DEF QueueOrder
  <1>6. Increasing(down[i])' = Increasing(down'[i]) /\ Elems(down[i])' = Elems(down'[i])
    BY DEF Increasing, Elems
  <1> QED BY <1>3, <1>5, <1>6 DEF QueueOrder

(* A step that changes nothing of what i is calling.                        *)
LEMMA CallsStay ==
  ASSUME TypeInv, NEW i \in Interfaces, CallOrder(i),
         loop'[i] = "calling" =>
           /\ loop[i] = "calling" /\ hand'[i] = hand[i] /\ next'[i] = next[i]
           /\ log'[hand[i]] = log[hand[i]],
         \A t \in Topics : callbacks'[<<i, t>>] = callbacks[<<i, t>>],
         \A k \in Callbacks : At[k] = i => at'[k] = at[k],
         ListInv
  PROVE  CallOrder(i)'
  <1> SUFFICES ASSUME loop'[i] = "calling",
                      NEW n \in 1..Len(Listeners(i)'), n >= next'[i]
               PROVE  at'[Listeners(i)'[n]] < hand'[i]
    BY DEF CallOrder
  <1> DEFINE t == Heading(log[hand[i]].frames)
  <1>1. /\ loop[i] = "calling" /\ hand'[i] = hand[i] /\ next'[i] = next[i]
        /\ log'[hand[i]] = log[hand[i]]
    OBVIOUS
  <1>2. /\ hand[i] \in 1..Len(log) /\ t \in Topics
        /\ Listeners(i) = callbacks[<<i, t>>] /\ Listeners(i) \in Seq(Callbacks)
    BY <1>1, ListenersType
  <1>3. t' = t
    BY <1>1 DEF Heading
  <1>4. Listeners(i)' = Listeners(i)
    <2>1. Listeners(i)' = callbacks'[<<i, t'>>]
      BY DEF Listeners
    <2> QED BY <1>2, <1>3, <2>1
  <1>5. Listeners(i)[n] \in Elems(Listeners(i)) /\ Listeners(i)[n] \in Callbacks
    <2>1. n \in 1..Len(Listeners(i))
      BY <1>4
    <2>2. Listeners(i)[n] \in Callbacks
      BY <1>2, <2>1
    <2> QED BY <2>1, <2>2 DEF Elems
  <1> HIDE DEF t
  <1>6. At[Listeners(i)[n]] = i
    BY <1>2, <1>5 DEF ListInv
  <1> QED BY <1>1, <1>4, <1>5, <1>6 DEF CallOrder

(* A step that changes nothing that matters to i.                           *)
LEMMA OrderSame ==
  ASSUME TypeInv, TypeInv', ListInv, NEW i \in Interfaces, QueueOrder(i), CallOrder(i),
         IsPart(down'[i], down[i]), hand'[i] = hand[i], next'[i] = next[i],
         loop'[i] = "calling" => loop[i] = "calling", UNCHANGED log,
         \A t \in Topics : callbacks'[<<i, t>>] = callbacks[<<i, t>>],
         \A k \in Callbacks : At[k] = i => at'[k] = at[k]
  PROVE  QueueOrder(i)' /\ CallOrder(i)'
  <1>1. QueueOrder(i)'
    BY QueueStays
  <1>2. CallOrder(i)'
    BY CallsStay
  <1> QED BY <1>1, <1>2

LEMMA RouteOrder ==
  ASSUME TypeInv, TypeInv', OrderInv, NEW i \in Interfaces, NEW j \in Interfaces, Route(j)
  PROVE  QueueOrder(i)' /\ CallOrder(i)'
  <1>1. /\ down'[i] \in {down[i], Append(down[i], Len(log) + 1)}
        /\ UNCHANGED <<callbacks, hand, next, loop, at>>
    BY DEF Route, subscriberVars
  <1>2. /\ \A n \in 1..Len(log) : log'[n] = log[n]
        /\ Len(log) \in Nat
    <2>1. up[j] \in Seq(Message) /\ up[j] # << >>
      BY DEF Route, TypeInv, TypeOK
    <2>2. Head(up[j]) \in Message
      BY <2>1, TailPart
    <2> DEFINE entry == [frames |-> Head(up[j]), epoch |-> stops]
    <2>3. entry \in Forwarded /\ log \in Seq(Forwarded) /\ log' = Append(log, entry)
      BY <2>2 DEF Forwarded, Route, TypeInv, TypeOK
    <2> HIDE DEF entry
    <2> QED BY <2>3
  <1>3. /\ down[i] \in Seq(1..Len(log)) /\ hand[i] \in 0..Len(log)
        /\ \A k \in Callbacks : at[k] \in 0..Len(log)
    BY DEF TypeInv, TypeOK
  <1>4. QueueOrder(i)'
    <2>1. CASE down'[i] = down[i]
      BY <1>1, <2>1, PartSame, QueueStays DEF OrderInv, TypeInv, TypeOK
    <2>2. CASE down'[i] = Append(down[i], Len(log) + 1)
      <3> DEFINE new == Append(down[i], Len(log) + 1)
      <3>1. down[i] \in Seq(Nat) /\ Elems(down[i]) \subseteq 1..Len(log) /\ Len(log) + 1 \in Nat
        <4>1. down[i] \in Seq(Nat)
          BY <1>2, <1>3, SeqWider
        <4> QED BY <1>2, <1>3, <4>1 DEF Elems
      <3>2. \A y \in Elems(down[i]) : y < Len(log) + 1
        BY <1>2, <3>1
      <3>3. Elems(new) = Elems(down[i]) \cup {Len(log) + 1} /\ Increasing(new)
        BY <3>1, <3>2, AppendElems DEF OrderInv, QueueOrder
      <3> HIDE DEF new
      <3>4. \A x \in Elems(new) :
              hand[i] < x /\ \A k \in Callbacks : At[k] = i => at[k] < x
        <4>1. hand[i] < Len(log) + 1 /\ \A k \in Callbacks : at[k] < Len(log) + 1
          BY <1>2, <1>3
        <4> QED BY <3>3, <4>1 DEF OrderInv, QueueOrder
      <3>5. down'[i] = new
        BY <2>2 DEF new
      <3>6. Increasing(down[i])' = Increasing(down'[i]) /\ Elems(down[i])' = Elems(down'[i])
        BY DEF Increasing, Elems
      <3> QED BY <1>1, <3>3, <3>4, <3>5, <3>6 DEF QueueOrder
    <2> QED BY <1>1, <2>1, <2>2
  <1>5. CallOrder(i)'
    <2>1. loop[i] = "calling" => log'[hand[i]] = log[hand[i]]
      BY <1>2 DEF TypeInv
    <2> QED BY <1>1, <2>1, CallsStay DEF OrderInv
  <1> QED BY <1>4, <1>5

LEMMA ReceiveOrder ==
  ASSUME TypeInv, TypeInv', OrderInv, NEW i \in Interfaces, Receive(i)
  PROVE  QueueOrder(i)' /\ CallOrder(i)'
  <1>1. /\ down[i] # << >> /\ down[i] \in Seq(Nat) /\ down'[i] = Tail(down[i])
        /\ hand'[i] = Head(down[i]) /\ UNCHANGED <<log, callbacks, next, at>>
    <2>1. down[i] \in Seq(1..Len(log)) /\ Len(log) \in Nat
      BY DEF TypeInv, TypeOK
    <2>2. down[i] \in Seq(Nat)
      BY <2>1, SeqWider
    <2> QED BY <2>2 DEF Receive, TypeInv, TypeOK
  <1>2. /\ Tail(down[i]) \in Seq(Nat) /\ IsPart(Tail(down[i]), down[i])
        /\ Head(down[i]) \in Elems(down[i]) /\ Increasing(down[i])
        /\ \A x \in Elems(Tail(down[i])) : Head(down[i]) < x
    <2>1. Increasing(down[i])
      BY DEF OrderInv, QueueOrder
    <2> QED BY <1>1, <2>1, TailPart
  <1>3. Elems(Tail(down[i])) \subseteq Elems(down[i]) /\ Increasing(Tail(down[i]))
    BY <1>1, <1>2, PartKeeps
  <1>4. QueueOrder(i)'
    <2>1. Increasing(down[i])' = Increasing(down'[i]) /\ Elems(down[i])' = Elems(down'[i])
      BY DEF Increasing, Elems
    <2>2. \A x \in Elems(down'[i]) : \A k \in Callbacks : At[k] = i => at'[k] < x
      BY <1>1, <1>3 DEF OrderInv, QueueOrder
    <2> QED BY <1>1, <1>2, <1>3, <2>1, <2>2 DEF QueueOrder
  <1>5. CallOrder(i)'
    <2> SUFFICES ASSUME loop'[i] = "calling", NEW n \in 1..Len(Listeners(i)')
                 PROVE  at'[Listeners(i)'[n]] < hand'[i]
      BY DEF CallOrder
    <2> DEFINE t == Heading(log[hand'[i]].frames)
               s == callbacks[<<i, t>>]
    <2>1. hand'[i] \in 1..Len(log) /\ log \in Seq(Forwarded)
      BY <1>1 DEF TypeInv, TypeOK, Forwarded
    <2>2. log[hand'[i]] \in Forwarded
      BY <2>1
    <2>3. log[hand'[i]].frames \in Message
      BY <2>2 DEF Forwarded
    <2>4. t \in Topics
      BY <2>3, HeadingTopic
    <2>5. Listeners(i)' = s
      BY <1>1 DEF Listeners, Heading
    <2> HIDE DEF t
    <2>6. s \in Seq(Callbacks)
      BY <2>4 DEF TypeInv, TypeOK
    <2> HIDE DEF s
    <2>7. n \in 1..Len(s)
      BY <2>5
    <2>8. s[n] \in Elems(s) /\ s[n] \in Callbacks
      BY <2>6, <2>7 DEF Elems
    <2>9. At[s[n]] = i
      BY <2>4, <2>8 DEF OrderInv, ListInv, s
    <2>10. at[s[n]] < hand'[i]
      BY <1>1, <1>2, <2>8, <2>9 DEF OrderInv, QueueOrder
    <2> QED BY <1>1, <2>5, <2>10
  <1> QED BY <1>4, <1>5

LEMMA CallOrderStays ==
  ASSUME TypeInv, TypeInv', OrderInv, NEW i \in Interfaces, Call(i)
  PROVE  QueueOrder(i)' /\ CallOrder(i)'
  <1> DEFINE k == Listeners(i)[next[i]]
  <1>1. /\ loop[i] = "calling" /\ next[i] <= Len(Listeners(i))
        /\ at' = [at EXCEPT ![k] = hand[i]] /\ next' = [next EXCEPT ![i] = @ + 1]
        /\ UNCHANGED <<log, down, callbacks, loop, hand>>
    BY DEF Call, brokerVars
  <1>2. /\ k \in Callbacks /\ At[k] = i /\ next[i] \in 1..Len(Listeners(i))
        /\ \A n \in 1..Len(Listeners(i)) : Listeners(i)[n] = k => n = next[i]
    <2>1. ListInv
      BY Zenon DEF OrderInv
    <2>2. loop[i] = "calling" /\ next[i] <= Len(Listeners(i))
      BY Zenon DEF Call
    <2> QED BY Zenon, <2>1, <2>2, Called
  <1>3. Listeners(i)' = Listeners(i)
    BY <1>1 DEF Listeners, Heading
  <1>4. Listeners(i) \in Seq(Callbacks)
    BY <1>1, ListenersType
  <1> HIDE DEF k
  <1>5. /\ at'[k] = hand[i] /\ \A l \in Callbacks : l # k => at'[l] = at[l]
        /\ next'[i] = next[i] + 1
    BY <1>1, <1>2 DEF TypeInv, TypeOK
  <1>6. QueueOrder(i)'
    <2>1. Increasing(down[i])' = Increasing(down[i]) /\ Elems(down[i])' = Elems(down[i])
      BY <1>1 DEF Increasing, Elems
    <2>2. \A x \in Elems(down[i]) : \A l \in Callbacks : At[l] = i => at'[l] < x
      BY <1>5 DEF OrderInv, QueueOrder
    <2> QED BY <1>1, <2>1, <2>2 DEF OrderInv, QueueOrder
  <1>7. CallOrder(i)'
    <2> SUFFICES ASSUME NEW n \in 1..Len(Listeners(i)), n >= next[i] + 1
                 PROVE  at'[Listeners(i)[n]] < hand[i]
      BY <1>1, <1>3, <1>5 DEF CallOrder
    <2>1. Listeners(i)[n] \in Callbacks /\ Listeners(i)[n] # k
      BY <1>2, <1>4
    <2>2. at[Listeners(i)[n]] < hand[i]
      BY <1>1, <1>2 DEF OrderInv, CallOrder
    <2> QED BY <1>5, <2>1, <2>2
  <1> QED BY <1>6, <1>7

LEMMA AddCallbackOrder ==
  ASSUME TypeInv, TypeInv', OrderInv, NEW k \in Callbacks, NEW i \in Interfaces,
         i = At[k], AddCallback(k)
  PROVE  QueueOrder(i)' /\ CallOrder(i)'
  <1>1. /\ sub[k] = "set" /\ UNCHANGED <<log, down, loop, hand, next, at>>
        /\ callbacks' = [callbacks EXCEPT ![<<i, For[k]>>] = Append(@, k)]
    BY DEF AddCallback, brokerVars
  <1>2. QueueOrder(i)'
    BY <1>1, PartSame, QueueStays DEF OrderInv, TypeInv, TypeOK
  <1>3. CallOrder(i)'
    <2> SUFFICES ASSUME loop[i] = "calling", NEW n \in 1..Len(Listeners(i)'), n >= next[i]
                 PROVE  at[Listeners(i)'[n]] < hand[i]
      BY <1>1 DEF CallOrder
    <2> DEFINE t == Heading(log[hand[i]].frames)
               s == Listeners(i)
    <2>1. /\ hand[i] \in 1..Len(log) /\ t \in Topics /\ s = callbacks[<<i, t>>]
          /\ s \in Seq(Callbacks)
      BY ListenersType
    <2>2. Listeners(i)' = callbacks'[<<i, t>>]
      BY <1>1 DEF Listeners, Heading
    <2>3. callbacks'[<<i, t>>] \in {s, Append(s, k)}
      BY <1>1, <2>1 DEF TypeInv, TypeOK
    <2>4. \A m \in 1..Len(s) : m >= next[i] => at[s[m]] < hand[i]
      BY DEF OrderInv, CallOrder
    <2>5. at[k] < hand[i]
      BY <1>1, <2>1 DEF OrderInv, ListInv
    <2> HIDE DEF s, t
    <2>6. n \in 1..Len(callbacks'[<<i, t>>])
      BY <2>2
    <2>7. CASE callbacks'[<<i, t>>] = s
      BY <2>2, <2>4, <2>6, <2>7
    <2>8. CASE callbacks'[<<i, t>>] = Append(s, k)
      <3>1. /\ Len(s) \in Nat /\ Len(Append(s, k)) = Len(s) + 1
            /\ Append(s, k)[Len(s) + 1] = k
            /\ \A m \in 1..Len(s) : Append(s, k)[m] = s[m]
        BY <2>1
      <3>2. n \in 1..Len(s) \/ n = Len(s) + 1
        BY <2>6, <2>8, <3>1
      <3>3. at[Append(s, k)[n]] < hand[i]
        BY <2>4, <2>5, <3>1, <3>2
      <3> QED BY <2>2, <2>8, <3>3
    <2> QED BY <2>3, <2>7, <2>8
  <1> QED BY <1>2, <1>3

LEMMA OrderStays ==
  ASSUME TypeInv, TypeInv', OrderInv, [Next]_vars
  PROVE  OrderInv'
  <1>1. ListInv /\ ListInv'
    BY ListStays DEF OrderInv
  <1>2. ASSUME NEW i \in Interfaces
        PROVE  QueueOrder(i)' /\ CallOrder(i)'
    <2>1. /\ QueueOrder(i) /\ CallOrder(i) /\ down[i] \in Seq(1..Len(log))
          /\ IsPart(down[i], down[i])
      BY PartSame DEF OrderInv, TypeInv, TypeOK
    <2>2. ASSUME UNCHANGED <<log, callbacks, down, hand, next, at>>,
                 loop'[i] = "calling" => loop[i] = "calling"
          PROVE  QueueOrder(i)' /\ CallOrder(i)'
      BY <1>1, <2>1, <2>2, OrderSame
    <2>3. ASSUME NEW p \in Publications, PublishTopic(p) \/ PublishData(p)
          PROVE  QueueOrder(i)' /\ CallOrder(i)'
      BY <2>2, <2>3 DEF PublishTopic, PublishData, brokerVars, subscriberVars
    <2>4. ASSUME NEW k \in Callbacks, SetOption(k) \/ Learn(k)
          PROVE  QueueOrder(i)' /\ CallOrder(i)'
      BY <2>2, <2>4 DEF SetOption, Learn, brokerVars, subscriberVars
    <2>5. ASSUME NEW k \in Callbacks, AddCallback(k)
          PROVE  QueueOrder(i)' /\ CallOrder(i)'
      <3>1. CASE i = At[k]
        BY <2>5, <3>1, AddCallbackOrder
      <3>2. CASE i # At[k]
        <4>1. /\ UNCHANGED <<log, down, loop, hand, next, at>>
              /\ callbacks' = [callbacks EXCEPT ![<<At[k], For[k]>>] = Append(@, k)]
          BY <2>5 DEF AddCallback, brokerVars
        <4>2. \A t \in Topics : callbacks'[<<i, t>>] = callbacks[<<i, t>>]
          BY <3>2, <4>1 DEF TypeInv, TypeOK
        <4> QED BY <1>1, <2>1, <4>1, <4>2, OrderSame
      <3> QED BY <3>1, <3>2
    <2>6. ASSUME NEW j \in Interfaces, Join(j) \/ LoopTop(j) \/ PollTimeout(j) \/ Stop(j)
                                         \/ ThreadEnds(j)
          PROVE  QueueOrder(i)' /\ CallOrder(i)'
      <3>1. UNCHANGED <<log, callbacks, down, hand, next, at>>
        BY <2>6 DEF Join, LoopTop, PollTimeout, Stop, ThreadEnds, brokerVars, subscriberVars
      <3>2. loop' = loop \/ \E to \in {"top", "poll", "ended"} : loop' = [loop EXCEPT ![j] = to]
        BY <2>6 DEF Join, LoopTop, PollTimeout, Stop, ThreadEnds, subscriberVars
      <3>3. DOMAIN loop = Interfaces
        BY DEF TypeInv, TypeOK
      <3>4. loop'[i] = "calling" => loop[i] = "calling"
        BY <3>2, <3>3
      <3> QED BY <2>2, <3>1, <3>4
    <2>7. ASSUME NEW j \in Interfaces, Receive(j)
          PROVE  QueueOrder(i)' /\ CallOrder(i)'
      <3>1. CASE j = i
        BY <2>7, <3>1, ReceiveOrder
      <3>2. CASE j # i
        <4>1. /\ down'[i] = down[i] /\ hand'[i] = hand[i] /\ loop'[i] = loop[i]
              /\ UNCHANGED <<log, callbacks, next, at>>
          BY <2>7, <3>2 DEF Receive, TypeInv, TypeOK
        <4> QED BY <1>1, <2>1, <4>1, OrderSame
      <3> QED BY <3>1, <3>2
    <2>8. ASSUME NEW j \in Interfaces, Call(j)
          PROVE  QueueOrder(i)' /\ CallOrder(i)'
      <3>1. CASE j = i
        BY <2>8, <3>1, CallOrderStays
      <3>2. CASE j # i
        <4> DEFINE k == Listeners(j)[next[j]]
        <4>1. /\ loop[j] = "calling" /\ next[j] <= Len(Listeners(j))
              /\ at' = [at EXCEPT ![k] = hand[j]] /\ next' = [next EXCEPT ![j] = @ + 1]
              /\ UNCHANGED <<log, down, callbacks, loop, hand>>
          BY <2>8 DEF Call, brokerVars
        <4>2. At[k] = j
          BY <1>1, <4>1, Called
        <4> HIDE DEF k
        <4>3. DOMAIN at = Callbacks /\ DOMAIN next = Interfaces
          BY DEF TypeInv, TypeOK
        <4>4. \A l \in Callbacks : At[l] = i => at'[l] = at[l]
          BY <3>2, <4>1, <4>2, <4>3
        <4>5. next'[i] = next[i]
          BY <3>2, <4>1, <4>3
        <4> QED BY <1>1, <2>1, <4>1, <4>4, <4>5, OrderSame
      <3> QED BY <3>1, <3>2
    <2>9. ASSUME NEW j \in Interfaces, CallsDone(j)
          PROVE  QueueOrder(i)' /\ CallOrder(i)'
      <3>1. /\ hand' = [hand EXCEPT ![j] = 0] /\ loop' = [loop EXCEPT ![j] = "top"]
            /\ next' = [next EXCEPT ![j] = 1] /\ UNCHANGED <<log, down, callbacks, at>>
        BY <2>9 DEF CallsDone, brokerVars
      <3>2. /\ hand'[i] \in {0, hand[i]}
            /\ loop'[i] = "calling" =>
                 loop[i] = "calling" /\ hand'[i] = hand[i] /\ next'[i] = next[i]
        BY <3>1 DEF TypeInv, TypeOK
      <3>3. QueueOrder(i)'
        BY <2>1, <3>1, <3>2, QueueStays
      <3>4. CallOrder(i)'
        BY <1>1, <2>1, <3>1, <3>2, CallsStay
      <3> QED BY <3>3, <3>4
    <2>10. ASSUME NEW j \in Interfaces, CloseSockets(j)
           PROVE  QueueOrder(i)' /\ CallOrder(i)'
      <3>1. /\ down' = [down EXCEPT ![j] = << >>]
            /\ UNCHANGED <<log, callbacks, loop, hand, next, at>>
        BY <2>10 DEF CloseSockets
      <3>2. IsPart(down'[i], down[i])
        <4>1. CASE down'[i] = down[i]
          BY <2>1, <4>1
        <4>2. CASE down'[i] = << >>
          <5>1. Len(<< >>) = 0 /\ Len(down[i]) \in Nat /\ 0 \in Nat /\ 1..0 = {}
            BY <2>1
          <5> QED BY <4>2, <5>1 DEF IsPart
        <4> QED BY <3>1, <4>1, <4>2 DEF TypeInv, TypeOK
      <3> QED BY <1>1, <2>1, <3>1, <3>2, OrderSame
    <2>11. ASSUME NEW j \in Interfaces, Route(j)
           PROVE  QueueOrder(i)' /\ CallOrder(i)'
      BY <2>11, RouteOrder
    <2>12. CASE BrokerStop
      <3>1. PICK left \in [Interfaces -> 0..Len(log)] :
              /\ \A j \in Interfaces : left[j] <= Len(down[j])
              /\ down' = [j \in Interfaces |-> SubSeq(down[j], 1, left[j])]
        BY <2>12 DEF BrokerStop
      <3>2. left[i] \in Nat /\ left[i] <= Len(down[i])
        BY <3>1 DEF TypeInv, TypeOK
      <3>3. IsPart(down'[i], down[i])
        BY <2>1, <3>1, <3>2, TakePart
      <3>4. UNCHANGED <<log, callbacks, loop, hand, next, at>>
        BY <2>12 DEF BrokerStop, subscriberVars
      <3> QED BY <1>1, <2>1, <3>3, <3>4, OrderSame
    <2>13. CASE BrokerStart \/ UNCHANGED vars
      BY <2>2, <2>13 DEF BrokerStart, vars, brokerVars, subscriberVars
    <2> QED BY <2>3, <2>4, <2>5, <2>6, <2>7, <2>8, <2>9, <2>10, <2>11, <2>12, <2>13
        DEF Next, SubThread, Broker
  <1> QED BY <1>1, <1>2 DEF OrderInv

LEMMA InitOrder == Init => OrderInv
  <1> SUFFICES ASSUME Init
               PROVE  OrderInv
    OBVIOUS
  <1>1. /\ \A i \in Interfaces : down[i] = << >> /\ next[i] = 1 /\ loop[i] = "top"
        /\ \A x \in Interfaces \X Topics : callbacks[x] = << >>
        /\ \A k \in Callbacks : at[k] = 0
    BY DEF Init
  <1>2. \A s : s = << >> => Elems(s) = {} /\ Distinct(s) /\ Increasing(s)
    BY EmptyList
  <1>3. ListInv
    BY <1>1, <1>2 DEF ListInv
  <1>4. \A i \in Interfaces : QueueOrder(i) /\ CallOrder(i)
    BY <1>1, <1>2 DEF QueueOrder, CallOrder
  <1> QED BY <1>3, <1>4 DEF OrderInv

-----------------------------------------------------------------------------
(* Refinement.                                                              *)

Inv == TypeInv /\ WholeInv /\ OrderInv

LEMMA InvHolds ==
  ASSUME OneThread
  PROVE  Spec => []Inv
  <1>1. Init => Inv
    <2> SUFFICES ASSUME Init
                 PROVE  WholeInv
      BY InitType, InitOrder DEF Inv
    <2>1. /\ \A i \in Interfaces : up[i] = << >> /\ open[i] = NoFrames
          /\ log = << >> /\ 1..Len(log) = {} /\ NoFrames.frames = << >>
          /\ \A p \in Publications : pc[p] = "idle"
      BY DEF Init, NoFrames
    <2>2. \A s : s = << >> => Elems(s) = {} /\ Distinct(s)
      BY EmptyList
    <2>3. InLog = {}
      BY <2>1 DEF InLog
    <2> QED BY <2>1, <2>2, <2>3 DEF WholeInv
  <1>2. Inv /\ [Next]_vars => Inv'
    BY TypeStays, WholeStays, OrderStays DEF Inv
  <1> QED BY <1>1, <1>2, PTL DEF Spec

LEMMA WholeOf ==
  ASSUME Inv, NEW n \in 1..Len(log)
  PROVE  \E p \in Publications :
           /\ log[n].frames = Pair(p) /\ Whole(log[n]) = p
           /\ Heading(log[n].frames) = Topic[p]
  <1>1. log[n].frames \in InLog
    BY DEF InLog
  <1>2. PICK p \in Publications : log[n].frames = Pair(p)
    BY <1>1 DEF Inv, WholeInv
  <1>3. Len(Pair(p)) = 2 /\ Pair(p)[1].of = p /\ Pair(p)[2].of = p /\ Pair(p)[1].part = "topic"
    BY PairOf
  <1> QED BY <1>2, <1>3 DEF Whole, Heading

(* A message that the broker forwards is a publication nobody heard of yet. *)
LEMMA RoutePublishes ==
  ASSUME Inv, Inv', NEW i \in Interfaces, Route(i)
  PROVE  \E p \in Publications : F!Publish(p)
  <1> DEFINE first == Head(up[i])
             entry == [frames |-> first, epoch |-> stops]
  <1>1. /\ up[i] \in Seq(Message) /\ up[i] # << >> /\ log \in Seq(Forwarded)
        /\ log' = Append(log, entry) /\ UNCHANGED <<at, calls>> /\ stops \in 0..MaxStops
    BY DEF Route, subscriberVars, Inv, TypeInv, TypeOK, Forwarded
  <1>2. first \in Message /\ first \in Elems(up[i])
    BY <1>1, TailPart
  <1>3. PICK p \in Publications : first = Pair(p)
    BY <1>2 DEF Inv, WholeInv
  <1>4. first \notin InLog
    BY <1>2 DEF Inv, WholeInv
  <1>5. entry \in Forwarded /\ entry.frames = Pair(p)
    BY <1>1, <1>2, <1>3 DEF Forwarded
  <1> HIDE DEF entry, first
  <1>6. Whole(entry) = p
    BY <1>5, PairOf DEF Whole
  <1>7. /\ Len(log) \in Nat /\ Len(log') = Len(log) + 1 /\ log'[Len(log) + 1] = entry
        /\ \A n \in 1..Len(log) : log'[n] = log[n]
    BY <1>1, <1>5
  <1>8. \A n \in 1..Len(log) : Whole(log[n]) \in Publications /\ Whole(log[n]) # p
    <2> SUFFICES ASSUME NEW n \in 1..Len(log)
                 PROVE  Whole(log[n]) \in Publications /\ Whole(log[n]) # p
      OBVIOUS
    <2>1. PICK q \in Publications : log[n].frames = Pair(q) /\ Whole(log[n]) = q
      BY WholeOf
    <2>2. log[n].frames \in InLog
      BY DEF InLog
    <2> QED BY <1>3, <1>4, <2>1, <2>2
  <1> DEFINE old == [n \in 1..Len(log) |-> Whole(log[n])]
             new == [n \in 1..Len(log') |-> Whole(log'[n])]
  <1>9. old \in Seq(Publications) /\ Len(old) = Len(log)
    BY <1>7, <1>8
  <1>10. new = Append(old, p)
    <2>1. /\ Append(old, p) \in Seq(Publications) /\ Len(Append(old, p)) = Len(log) + 1
          /\ Append(old, p)[Len(log) + 1] = p
          /\ \A n \in 1..Len(log) : Append(old, p)[n] = old[n]
      <3> HIDE DEF old
      <3> QED BY <1>7, <1>9
    <2>2. \A n \in 1..Len(log') : n \in 1..Len(log) \/ n = Len(log) + 1
      BY <1>7
    <2>3. \A n \in 1..Len(log') :
            new[n] = (IF n = Len(log) + 1 THEN p ELSE Whole(log[n])) /\ new[n] \in Publications
      BY <1>6, <1>7, <1>8, <2>2
    <2>4. new \in Seq(Publications) /\ Len(new) = Len(log) + 1
      BY <1>7, <2>3
    <2>5. \A n \in 1..Len(new) : new[n] = Append(old, p)[n]
      <3>1. ASSUME NEW n \in 1..Len(log)
            PROVE  new[n] = Append(old, p)[n]
        <4>1. n \in 1..Len(log') /\ n # Len(log) + 1
          BY <1>7
        <4> QED BY <2>1, <2>3, <4>1
      <3>2. new[Len(log) + 1] = Append(old, p)[Len(log) + 1]
        <4>1. Len(log) + 1 \in 1..Len(log')
          BY <1>7
        <4> QED BY <2>1, <2>3, <4>1
      <3> QED BY <1>7, <2>2, <2>4, <3>1, <3>2
    <2> HIDE DEF old, new
    <2> QED BY <2>1, <2>4, <2>5, SeqEqual
  <1>11. \A n \in 1..Len(old) : old[n] # p
    BY <1>8, <1>9
  <1> QED BY <1>1, <1>10, <1>11 DEF F!Publish

(* A call hands a callback a later publication on its own topic.            *)
LEMMA CallHears ==
  ASSUME Inv, NEW i \in Interfaces, Call(i)
  PROVE  \E k \in Callbacks : F!Hear(k)
  <1> DEFINE k == Listeners(i)[next[i]]
  <1>1. /\ loop[i] = "calling" /\ next[i] <= Len(Listeners(i))
        /\ at' = [at EXCEPT ![k] = hand[i]] /\ calls' = [calls EXCEPT ![k] = @ + 1]
        /\ UNCHANGED log
    BY DEF Call, brokerVars
  <1>2. /\ k \in Callbacks /\ For[k] = Heading(log[hand[i]].frames)
        /\ hand[i] \in 1..Len(log) /\ next[i] \in 1..Len(Listeners(i))
    BY <1>1, Called DEF Inv, OrderInv
  <1>3. at[k] < hand[i]
    <2>1. next[i] >= next[i]
      BY DEF Inv, TypeInv, TypeOK
    <2> QED BY <1>1, <1>2, <2>1 DEF Inv, OrderInv, CallOrder
  <1> HIDE DEF k
  <1>4. Topic[Whole(log[hand[i]])] = For[k]
    BY <1>2, WholeOf
  <1> DEFINE feed == [n \in 1..Len(log) |-> Whole(log[n])]
  <1>5. feed[hand[i]] = Whole(log[hand[i]]) /\ Len(feed) = Len(log)
    <2>1. Len(log) \in Nat
      BY DEF Inv, TypeInv, TypeOK
    <2>2. \A n \in 1..Len(log) : Whole(log[n]) \in Publications
      BY WholeOf
    <2>3. feed \in Seq(Publications) /\ Len(feed) = Len(log)
      BY <2>1, <2>2
    <2> QED BY <1>2, <2>3
  <1>6. hand[i] \in (at[k] + 1)..Len(log)
    <2>1. at[k] \in Nat /\ Len(log) \in Nat /\ hand[i] \in Nat
      BY <1>2 DEF Inv, TypeInv, TypeOK
    <2> QED BY <1>2, <1>3, <2>1
  <1>7. feed' = feed
    BY <1>1
  <1> HIDE DEF feed
  <1>8. \E n \in (at[k] + 1)..Len(feed) :
          Topic[feed[n]] = For[k] /\ at' = [at EXCEPT ![k] = n]
    BY <1>1, <1>4, <1>5, <1>6
  <1> QED BY <1>1, <1>2, <1>7, <1>8 DEF F!Hear, feed

(* For any interfaces, publications, callbacks and topics, and any number   *)
(* of broker restarts: if the publications of an interface share a thread,  *)
(* callbacks are readers of one log of publications, each on its own topic  *)
(* and never back.                                                          *)
THEOREM FeedImplemented ==
  ASSUME OneThread
  PROVE  Spec => ImplementsFeed
  <1>1. Init => F!Init
    <2> SUFFICES ASSUME Init
                 PROVE  F!Init
      OBVIOUS
    <2>1. Len(log) = 0 /\ 1..Len(log) = {}
      BY DEF Init
    <2>2. [n \in 1..Len(log) |-> Whole(log[n])] = << >>
      BY <2>1
    <2> QED BY <2>2 DEF Init, F!Init
  <1>2. Inv /\ Inv' /\ [Next]_vars => [F!Next]_F!vars
    <2> SUFFICES ASSUME Inv, Inv', [Next]_vars
                 PROVE  [F!Next]_F!vars
      OBVIOUS
    <2>1. ASSUME UNCHANGED <<log, at, calls>>
          PROVE  UNCHANGED F!vars
      BY <2>1 DEF F!vars
    <2>2. ASSUME NEW i \in Interfaces, Route(i)
          PROVE  F!Next
      BY <2>2, RoutePublishes DEF F!Next
    <2>3. ASSUME NEW i \in Interfaces, Call(i)
          PROVE  F!Next
      BY <2>3, CallHears DEF F!Next
    <2>4. ASSUME NEW p \in Publications, PublishTopic(p) \/ PublishData(p)
          PROVE  UNCHANGED F!vars
      BY <2>1, <2>4 DEF PublishTopic, PublishData, brokerVars, subscriberVars
    <2>5. ASSUME NEW k \in Callbacks, SetOption(k) \/ AddCallback(k) \/ Learn(k)
          PROVE  UNCHANGED F!vars
      BY <2>1, <2>5 DEF SetOption, AddCallback, Learn, brokerVars, subscriberVars
    <2>6. ASSUME NEW i \in Interfaces,
                 Join(i) \/ LoopTop(i) \/ PollTimeout(i) \/ Receive(i) \/ CallsDone(i)
                   \/ Stop(i) \/ CloseSockets(i) \/ ThreadEnds(i)
          PROVE  UNCHANGED F!vars
      BY <2>1, <2>6 DEF Join, LoopTop, PollTimeout, Receive, CallsDone, Stop, CloseSockets,
                        ThreadEnds, brokerVars, subscriberVars
    <2>7. CASE BrokerStart \/ BrokerStop \/ UNCHANGED vars
      BY <2>1, <2>7 DEF BrokerStart, BrokerStop, vars, brokerVars, subscriberVars
    <2> QED BY <2>2, <2>3, <2>4, <2>5, <2>6, <2>7 DEF Next, SubThread, Broker
  <1>3. Spec => []Inv
    BY InvHolds
  <1> QED BY <1>1, <1>2, <1>3, PTL DEF Spec, ImplementsFeed, F!Spec

-----------------------------------------------------------------------------
(* What a callback was called with last was on its topic.                   *)

HeardInv == \A k \in Callbacks : at[k] # 0 => Heading(log[at[k]].frames) = For[k]

LEMMA HeardStays ==
  ASSUME TypeInv, OrderInv, HeardInv, [Next]_vars
  PROVE  HeardInv'
  <1>1. \A k \in Callbacks : at[k] # 0 => at[k] \in 1..Len(log)
    <2>1. Len(log) \in Nat /\ \A k \in Callbacks : at[k] \in 0..Len(log)
      BY DEF TypeInv, TypeOK
    <2> QED BY <2>1
  <1>2. ASSUME UNCHANGED <<log, at>>
        PROVE  HeardInv'
    BY <1>2 DEF HeardInv, Heading
  <1>3. ASSUME NEW i \in Interfaces, Route(i)
        PROVE  HeardInv'
    <2> DEFINE entry == [frames |-> Head(up[i]), epoch |-> stops]
    <2>1. up[i] \in Seq(Message) /\ up[i] # << >>
      BY <1>3 DEF Route, TypeInv, TypeOK
    <2>2. Head(up[i]) \in Message
      BY <2>1, TailPart
    <2>3. /\ entry \in Forwarded /\ log \in Seq(Forwarded) /\ log' = Append(log, entry)
          /\ at' = at
      BY <1>3, <2>2 DEF Forwarded, Route, subscriberVars, TypeInv, TypeOK
    <2> HIDE DEF entry
    <2>4. \A n \in 1..Len(log) : log'[n] = log[n]
      BY <2>3
    <2> QED BY <1>1, <2>3, <2>4 DEF HeardInv, Heading
  <1>4. ASSUME NEW i \in Interfaces, Call(i)
        PROVE  HeardInv'
    <2> DEFINE k == Listeners(i)[next[i]]
    <2>1. /\ loop[i] = "calling" /\ next[i] <= Len(Listeners(i))
          /\ at' = [at EXCEPT ![k] = hand[i]] /\ UNCHANGED log
      BY <1>4 DEF Call, brokerVars
    <2>2. k \in Callbacks /\ For[k] = Heading(log[hand[i]].frames)
      BY <2>1, Called DEF OrderInv
    <2> HIDE DEF k
    <2>3. at'[k] = hand[i] /\ \A l \in Callbacks : l # k => at'[l] = at[l]
      BY <2>1, <2>2 DEF TypeInv, TypeOK
    <2>4. ASSUME NEW l \in Callbacks, at'[l] # 0
          PROVE  Heading(log'[at'[l]].frames) = For[l]
      BY <2>1, <2>2, <2>3, <2>4 DEF HeardInv
    <2> QED BY <2>4 DEF HeardInv, Heading
  <1>5. ASSUME NEW p \in Publications, PublishTopic(p) \/ PublishData(p)
        PROVE  HeardInv'
    BY <1>2, <1>5 DEF PublishTopic, PublishData, brokerVars, subscriberVars
  <1>6. ASSUME NEW k \in Callbacks, SetOption(k) \/ AddCallback(k) \/ Learn(k)
        PROVE  HeardInv'
    BY <1>2, <1>6 DEF SetOption, AddCallback, Learn, brokerVars, subscriberVars
  <1>7. ASSUME NEW i \in Interfaces,
               Join(i) \/ LoopTop(i) \/ PollTimeout(i) \/ Receive(i) \/ CallsDone(i)
                 \/ Stop(i) \/ CloseSockets(i) \/ ThreadEnds(i)
        PROVE  HeardInv'
    BY <1>2, <1>7 DEF Join, LoopTop, PollTimeout, Receive, CallsDone, Stop, CloseSockets,
                      ThreadEnds, brokerVars, subscriberVars
  <1>8. CASE BrokerStart \/ BrokerStop \/ UNCHANGED vars
    BY <1>2, <1>8 DEF BrokerStart, BrokerStop, vars, brokerVars, subscriberVars
  <1> QED BY <1>3, <1>4, <1>5, <1>6, <1>7, <1>8 DEF Next, SubThread, Broker

(* If the publications of an interface share a thread, a callback is called *)
(* with the topic and the data of one publication, on its own topic.        *)
THEOREM DeliveryCorrect ==
  ASSUME OneThread
  PROVE  Spec => []DeliveredAsPublished
  <1>1. Init => HeardInv
    BY DEF Init, HeardInv
  <1>2. Inv /\ HeardInv /\ [Next]_vars => HeardInv'
    BY HeardStays DEF Inv
  <1>3. Inv /\ HeardInv => DeliveredAsPublished
    <2> SUFFICES ASSUME Inv, HeardInv, NEW k \in Callbacks, at[k] # 0
                 PROVE  LET frames == log[at[k]].frames
                        IN  Topic[frames[1].of] = For[k] /\ frames[2].of = frames[1].of
      BY DEF DeliveredAsPublished
    <2>1. at[k] \in 1..Len(log)
      <3>1. Len(log) \in Nat /\ at[k] \in 0..Len(log)
        BY DEF Inv, TypeInv, TypeOK
      <3> QED BY <3>1
    <2>2. PICK p \in Publications :
            log[at[k]].frames = Pair(p) /\ Heading(log[at[k]].frames) = Topic[p]
      BY <2>1, WholeOf
    <2>3. Topic[p] = For[k]
      BY <2>2 DEF HeardInv
    <2>4. Pair(p)[1].of = p /\ Pair(p)[2].of = p
      BY PairOf
    <2> QED BY <2>2, <2>3, <2>4
  <1> QED BY <1>1, <1>2, <1>3, InvHolds, PTL DEF Spec

-----------------------------------------------------------------------------
(* What a callback misses.                                                  *)

(* What an interface is still to work on, and that or what it has heard.    *)
Coming(i) == Elems(down[i]) \cup (IF loop[i] = "calling" THEN {hand[i]} ELSE {})

Met(i) == Coming(i) \cup ({at[k] : k \in {l \in Callbacks : At[l] = i}} \ {0})

(* The log is in the order of the runs of the broker.                       *)
LogInv ==
  /\ \A m, n \in 1..Len(log) : m < n => log[m].epoch <= log[n].epoch
  /\ \A n \in 1..Len(log) : log[n].epoch <= stops

(* A callback that subscribe has listed stays in its list.                  *)
ListedInv ==
  \A k \in Callbacks : sub[k] = "done" => k \in Elems(callbacks[<<At[k], For[k]>>])

(* The callbacks before the place next have heard what is in hand.          *)
PlaceInv(i) ==
  /\ loop[i] # "calling" => next[i] = 1
  /\ loop[i] = "calling" =>
       /\ next[i] <= Len(Listeners(i)) + 1
       /\ \A n \in 1..Len(Listeners(i)) : n < next[i] => at[Listeners(i)[n]] = hand[i]

ClosedInv(i) == state[i] = "closed" => known[i] = {} /\ down[i] = << >>

SideInv ==
  /\ LogInv /\ ListedInv
  /\ \A i \in Interfaces : PlaceInv(i) /\ ClosedInv(i)

Same(m, n) ==
  log[m].epoch = log[n].epoch /\ Heading(log[m].frames) = Heading(log[n].frames)

(* An interface that has met a message of this run of the broker has told   *)
(* this broker of a subscription that covers it.                            *)
Knows(i) ==
  state[i] # "closed" =>
    \A x \in Met(i) : log[x].epoch = stops => Wanted(i, log[x].frames)

(* The message n is lost, and with it all that the same run has after it.   *)
Cut(i, n) ==
  /\ log[n].epoch < stops \/ state[i] = "closed"
  /\ \A m \in Coming(i) : m > n => log[m].epoch # log[n].epoch

(* What an interface has met, on a topic and from a run of the broker, is   *)
(* followed by all there is on it, but for what was lost at the end.        *)
Gap(i) ==
  loop[i] # "ended" =>
    \A x \in Met(i) : \A n \in (x + 1)..Len(log) :
      Same(x, n) => n \in Coming(i) \/ Cut(i, n)

GapInv == SideInv /\ \A i \in Interfaces : Knows(i) /\ Gap(i)

LEMMA Appended ==
  ASSUME TypeInv, NEW i \in Interfaces, Route(i)
  PROVE  /\ Len(log) \in Nat /\ Len(log') = Len(log) + 1 /\ Head(up[i]) \in Message
         /\ \A n \in 1..Len(log) : log'[n] = log[n]
         /\ log'[Len(log) + 1].frames = Head(up[i]) /\ log'[Len(log) + 1].epoch = stops
         /\ \A n \in 1..Len(log') : n \in 1..Len(log) \/ n = Len(log) + 1
  <1> DEFINE entry == [frames |-> Head(up[i]), epoch |-> stops]
  <1>1. up[i] \in Seq(Message) /\ up[i] # << >>
    BY DEF Route, TypeInv, TypeOK
  <1>2. Head(up[i]) \in Message
    BY <1>1, TailPart
  <1>3. /\ entry \in Forwarded /\ log \in Seq(Forwarded) /\ log' = Append(log, entry)
        /\ entry.frames = Head(up[i]) /\ entry.epoch = stops
    BY <1>2 DEF Forwarded, Route, TypeInv, TypeOK
  <1> HIDE DEF entry
  <1>4. /\ Len(log) \in Nat /\ Len(log') = Len(log) + 1 /\ log'[Len(log) + 1] = entry
        /\ \A n \in 1..Len(log) : log'[n] = log[n]
    BY <1>3
  <1>5. \A n \in 1..Len(log') : n \in 1..Len(log) \/ n = Len(log) + 1
    BY <1>4
  <1> QED BY <1>2, <1>3, <1>4, <1>5

LEMMA EpochType ==
  ASSUME TypeInv
  PROVE  /\ Len(log) \in Nat /\ stops \in Nat
         /\ \A n \in 1..Len(log) : log[n].epoch \in Nat
  <1>1. MaxStops \in Nat
    BY StopAssumption DEF StopAssumption
  <1>2. log \in Seq(Forwarded) /\ stops \in 0..MaxStops
    BY DEF TypeInv, TypeOK, Forwarded
  <1>3. Len(log) \in Nat /\ stops \in Nat
    BY <1>1, <1>2
  <1>4. ASSUME NEW n \in 1..Len(log)
        PROVE  log[n].epoch \in Nat
    <2>1. log[n] \in Forwarded
      BY <1>2
    <2>2. log[n].epoch \in 0..MaxStops
      BY <2>1 DEF Forwarded
    <2> QED BY <1>1, <2>2
  <1> QED BY <1>3, <1>4

LEMMA MetType ==
  ASSUME TypeInv, NEW i \in Interfaces
  PROVE  /\ Coming(i) \subseteq 1..Len(log) /\ Met(i) \subseteq 1..Len(log)
         /\ Elems(down[i]) \subseteq 1..Len(log)
  <1>1. /\ Len(log) \in Nat /\ down[i] \in Seq(1..Len(log))
        /\ \A k \in Callbacks : at[k] \in 0..Len(log)
        /\ loop[i] = "calling" => hand[i] \in 1..Len(log)
    BY DEF TypeInv, TypeOK
  <1>2. Elems(down[i]) \subseteq 1..Len(log)
    BY <1>1 DEF Elems
  <1>3. Coming(i) \subseteq 1..Len(log)
    BY <1>1, <1>2 DEF Coming
  <1>4. \A k \in Callbacks : at[k] # 0 => at[k] \in 1..Len(log)
    BY <1>1
  <1> QED BY <1>2, <1>3, <1>4 DEF Met

LEMMA LogStays ==
  ASSUME TypeInv, LogInv, [Next]_vars
  PROVE  LogInv'
  <1>1. ASSUME UNCHANGED <<log, stops>>
        PROVE  LogInv'
    BY <1>1 DEF LogInv
  <1>2. ASSUME NEW i \in Interfaces, Route(i)
        PROVE  LogInv'
    <2> DEFINE N == Len(log) + 1
    <2>1. /\ Len(log) \in Nat /\ \A n \in 1..Len(log') : n \in 1..Len(log) \/ n = N
          /\ \A n \in 1..Len(log) : log'[n] = log[n]
          /\ log'[N].epoch = stops /\ N \notin 1..Len(log)
      BY <1>2, Appended
    <2>2. stops' = stops /\ stops \in Nat /\ \A n \in 1..Len(log) : n < N
      BY <1>2, EpochType DEF Route
    <2> HIDE DEF N
    <2>3. ASSUME NEW n \in 1..Len(log')
          PROVE  log'[n].epoch <= stops'
      BY <2>1, <2>2 DEF LogInv
    <2>4. ASSUME NEW m \in 1..Len(log'), NEW n \in 1..Len(log'), m < n
          PROVE  log'[m].epoch <= log'[n].epoch
      <3>1. CASE n = N
        BY <2>1, <2>2, <2>3, <3>1
      <3>2. CASE n \in 1..Len(log)
        <4>1. m \in 1..Len(log)
          BY <2>1, <2>4, <3>2
        <4> QED BY <2>1, <2>4, <3>2, <4>1 DEF LogInv
      <3> QED BY <2>1, <3>1, <3>2
    <2> QED BY <2>3, <2>4 DEF LogInv
  <1>3. CASE BrokerStop
    <2>1. stops' = stops + 1 /\ log' = log
      BY <1>3 DEF BrokerStop
    <2>2. ASSUME NEW n \in 1..Len(log)
          PROVE  log[n].epoch <= stops + 1
      BY EpochType DEF LogInv
    <2> QED BY <2>1, <2>2 DEF LogInv
  <1>4. ASSUME NEW p \in Publications, PublishTopic(p) \/ PublishData(p)
        PROVE  LogInv'
    BY <1>1, <1>4 DEF PublishTopic, PublishData, brokerVars
  <1>5. ASSUME NEW k \in Callbacks, SetOption(k) \/ AddCallback(k) \/ Learn(k)
        PROVE  LogInv'
    BY <1>1, <1>5 DEF SetOption, AddCallback, Learn, brokerVars
  <1>6. ASSUME NEW i \in Interfaces,
               Join(i) \/ LoopTop(i) \/ PollTimeout(i) \/ Receive(i) \/ Call(i) \/ CallsDone(i)
                 \/ Stop(i) \/ CloseSockets(i) \/ ThreadEnds(i)
        PROVE  LogInv'
    BY <1>1, <1>6 DEF Join, LoopTop, PollTimeout, Receive, Call, CallsDone, Stop, CloseSockets,
                      ThreadEnds, brokerVars
  <1>7. CASE BrokerStart \/ UNCHANGED vars
    BY <1>1, <1>7 DEF BrokerStart, vars, brokerVars
  <1> QED BY <1>2, <1>3, <1>4, <1>5, <1>6, <1>7 DEF Next, SubThread, Broker

LEMMA ListedStays ==
  ASSUME TypeInv, ListedInv, [Next]_vars
  PROVE  ListedInv'
  <1>1. ASSUME UNCHANGED <<sub, callbacks>>
        PROVE  ListedInv'
    BY <1>1 DEF ListedInv, Elems
  <1>2. ASSUME NEW k \in Callbacks, SetOption(k)
        PROVE  ListedInv'
    <2>1. sub' = [sub EXCEPT ![k] = "set"] /\ UNCHANGED callbacks
      BY <1>2 DEF SetOption
    <2>2. \A l \in Callbacks : sub'[l] = "done" => sub[l] = "done"
      BY <2>1 DEF TypeInv, TypeOK
    <2> QED BY <2>1, <2>2 DEF ListedInv, Elems
  <1>3. ASSUME NEW k \in Callbacks, AddCallback(k)
        PROVE  ListedInv'
    <2> DEFINE place(l) == <<At[l], For[l]>>
    <2>1. /\ sub' = [sub EXCEPT ![k] = "done"]
          /\ callbacks' = [callbacks EXCEPT ![place(k)] = Append(@, k)]
      BY <1>3 DEF AddCallback
    <2>2. ASSUME NEW l \in Callbacks
          PROVE  callbacks[place(l)] \in Seq(Callbacks) /\ place(l) \in Interfaces \X Topics
      BY CallbackAssumption DEF CallbackAssumption, TypeInv, TypeOK
    <2>3. /\ callbacks \in [Interfaces \X Topics -> Seq(Callbacks)]
          /\ sub \in [Callbacks -> {"idle", "set", "done"}]
      BY DEF TypeInv, TypeOK
    <2> HIDE DEF place
    <2>4. ASSUME NEW l \in Callbacks, sub'[l] = "done"
          PROVE  l \in Elems(callbacks'[place(l)])
      <3>1. sub[l] = "done" => l \in Elems(callbacks[place(l)])
        BY DEF ListedInv, place
      <3>2. CASE place(l) = place(k)
        <4>1. callbacks'[place(l)] = Append(callbacks[place(l)], k)
          BY <2>1, <2>2, <2>3, <3>2
        <4>2. Elems(Append(callbacks[place(l)], k)) = Elems(callbacks[place(l)]) \cup {k}
          BY <2>2, AppendElems
        <4>3. l = k \/ sub[l] = "done"
          BY <2>1, <2>3, <2>4
        <4> QED BY <3>1, <4>1, <4>2, <4>3
      <3>3. CASE place(l) # place(k)
        <4>1. callbacks'[place(l)] = callbacks[place(l)]
          BY <2>1, <2>2, <2>3, <3>3
        <4>2. l # k
          BY <3>3
        <4>3. sub[l] = "done"
          BY <2>1, <2>3, <2>4, <4>2
        <4> QED BY <3>1, <4>1, <4>3
      <3> QED BY <3>2, <3>3
    <2> QED BY <2>4 DEF ListedInv, Elems, place
  <1>4. ASSUME NEW p \in Publications, PublishTopic(p) \/ PublishData(p)
        PROVE  ListedInv'
    BY <1>1, <1>4 DEF PublishTopic, PublishData, subscriberVars
  <1>5. ASSUME NEW k \in Callbacks, Learn(k)
        PROVE  ListedInv'
    BY <1>1, <1>5 DEF Learn, subscriberVars
  <1>6. ASSUME NEW i \in Interfaces,
               Join(i) \/ LoopTop(i) \/ PollTimeout(i) \/ Receive(i) \/ Call(i) \/ CallsDone(i)
                 \/ Stop(i) \/ CloseSockets(i) \/ ThreadEnds(i) \/ Route(i)
        PROVE  ListedInv'
    BY <1>1, <1>6 DEF Join, LoopTop, PollTimeout, Receive, Call, CallsDone, Stop, CloseSockets,
                      ThreadEnds, Route, subscriberVars
  <1>7. CASE BrokerStart \/ BrokerStop \/ UNCHANGED vars
    BY <1>1, <1>7 DEF BrokerStart, BrokerStop, vars, subscriberVars
  <1> QED BY <1>2, <1>3, <1>4, <1>5, <1>6, <1>7 DEF Next, SubThread, Broker

(* A step that changes nothing of what i is calling.                        *)
LEMMA PlaceSame ==
  ASSUME TypeInv, ListInv, NEW i \in Interfaces, PlaceInv(i),
         loop'[i] = "calling" <=> loop[i] = "calling", next'[i] = next[i],
         loop[i] = "calling" => hand'[i] = hand[i] /\ log'[hand[i]] = log[hand[i]],
         \A t \in Topics : callbacks'[<<i, t>>] = callbacks[<<i, t>>],
         \A k \in Callbacks : At[k] = i => at'[k] = at[k]
  PROVE  PlaceInv(i)'
  <1>1. CASE loop[i] # "calling"
    BY <1>1 DEF PlaceInv
  <1>2. CASE loop[i] = "calling"
    <2> DEFINE t == Heading(log[hand[i]].frames)
               s == Listeners(i)
    <2>1. /\ hand[i] \in 1..Len(log) /\ t \in Topics /\ s = callbacks[<<i, t>>]
          /\ s \in Seq(Callbacks)
      BY <1>2, ListenersType
    <2>2. Listeners(i)' = callbacks'[<<i, t>>]
      BY <1>2 DEF Listeners, Heading
    <2>3. Listeners(i)' = s
      BY <2>1, <2>2
    <2>4. ASSUME NEW n \in 1..Len(s)
          PROVE  s[n] \in Callbacks /\ At[s[n]] = i
      <3>1. s[n] \in Callbacks
        BY <2>1
      <3>2. s[n] \in Elems(callbacks[<<i, t>>])
        BY <2>1 DEF Elems
      <3> HIDE DEF s, t
      <3> QED BY <2>1, <3>1, <3>2 DEF ListInv
    <2>5. /\ next[i] <= Len(s) + 1
          /\ \A n \in 1..Len(s) : n < next[i] => at[s[n]] = hand[i]
      BY <1>2 DEF PlaceInv
    <2> HIDE DEF s, t
    <2>6. \A n \in 1..Len(s) : n < next'[i] => at'[s[n]] = hand'[i]
      BY <1>2, <2>4, <2>5
    <2> QED BY <1>2, <2>3, <2>5, <2>6 DEF PlaceInv
  <1> QED BY <1>1, <1>2

LEMMA ReceivePlace ==
  ASSUME TypeInv, TypeInv', ListInv, NEW i \in Interfaces, PlaceInv(i), Receive(i)
  PROVE  PlaceInv(i)'
  <1>1. next'[i] = next[i] /\ loop[i] = "poll" /\ next[i] = 1
    BY DEF Receive, PlaceInv
  <1>2. ASSUME loop'[i] = "calling"
        PROVE  /\ next'[i] <= Len(Listeners(i)') + 1
               /\ \A n \in 1..Len(Listeners(i)') : n < next'[i] => at'[Listeners(i)'[n]] = hand'[i]
    <2> DEFINE t == Heading(log'[hand'[i]].frames)
    <2>1. log'[hand'[i]].frames \in Message
      <3>1. hand'[i] \in 1..Len(log') /\ log' \in Seq(Forwarded)
        BY <1>2 DEF TypeInv, TypeOK, Forwarded
      <3>2. log'[hand'[i]] \in Forwarded
        BY <3>1
      <3> QED BY <3>2 DEF Forwarded
    <2>2. t \in Topics
      BY <2>1, HeadingTopic
    <2> HIDE DEF t
    <2>3. callbacks'[<<i, t>>] \in Seq(Callbacks)
      BY <2>2 DEF TypeInv, TypeOK
    <2>4. Listeners(i)' = callbacks'[<<i, t>>]
      BY DEF Listeners, Heading, t
    <2>5. Len(Listeners(i)') \in Nat
      BY <2>3, <2>4
    <2> HIDE DEF Listeners
    <2> QED BY <1>1, <2>5
  <1> QED BY <1>1, <1>2 DEF PlaceInv

LEMMA CallPlace ==
  ASSUME TypeInv, ListInv, NEW i \in Interfaces, PlaceInv(i), Call(i)
  PROVE  PlaceInv(i)'
  <1> DEFINE s == Listeners(i)
             k == s[next[i]]
  <1>1. /\ loop[i] = "calling" /\ next[i] <= Len(s)
        /\ at' = [at EXCEPT ![k] = hand[i]] /\ next' = [next EXCEPT ![i] = @ + 1]
        /\ UNCHANGED <<log, callbacks, loop, hand>>
    BY DEF Call, brokerVars
  <1>2. k \in Callbacks /\ next[i] \in 1..Len(s)
    BY <1>1, Called
  <1>3. s \in Seq(Callbacks)
    BY <1>1, ListenersType
  <1>4. Listeners(i)' = s
    BY <1>1 DEF Listeners, Heading
  <1>5. \A n \in 1..Len(s) : n < next[i] => at[s[n]] = hand[i]
    BY <1>1 DEF PlaceInv
  <1> HIDE DEF s
  <1>6. /\ next'[i] = next[i] + 1 /\ at'[k] = hand[i]
        /\ \A l \in Callbacks : l # k => at'[l] = at[l]
    BY <1>1, <1>2 DEF TypeInv, TypeOK
  <1>7. ASSUME NEW n \in 1..Len(s), n < next'[i]
        PROVE  at'[s[n]] = hand[i]
    <2>1. s[n] \in Callbacks
      BY <1>3
    <2>2. CASE n = next[i]
      BY <1>6, <2>2
    <2>3. CASE n # next[i]
      <3>1. n < next[i]
        BY <1>2, <1>6, <1>7, <2>3
      <3> QED BY <1>5, <1>6, <2>1, <3>1
    <2> QED BY <2>2, <2>3
  <1>8. next'[i] <= Len(s) + 1
    BY <1>2, <1>3, <1>6
  <1> QED BY <1>1, <1>4, <1>7, <1>8 DEF PlaceInv

LEMMA AddCallbackPlace ==
  ASSUME TypeInv, ListInv, NEW k \in Callbacks, NEW i \in Interfaces, i = At[k], PlaceInv(i),
         AddCallback(k)
  PROVE  PlaceInv(i)'
  <1>1. /\ UNCHANGED <<log, loop, hand, next, at>>
        /\ callbacks' = [callbacks EXCEPT ![<<i, For[k]>>] = Append(@, k)]
    BY DEF AddCallback, brokerVars
  <1>2. CASE loop[i] # "calling"
    BY <1>1, <1>2 DEF PlaceInv
  <1>3. CASE loop[i] = "calling"
    <2> DEFINE t == Heading(log[hand[i]].frames)
               s == Listeners(i)
    <2>1. t \in Topics /\ s = callbacks[<<i, t>>] /\ s \in Seq(Callbacks)
      BY <1>3, ListenersType
    <2>2. Listeners(i)' = callbacks'[<<i, t>>]
      BY <1>1 DEF Listeners, Heading
    <2>3. callbacks'[<<i, t>>] \in {s, Append(s, k)}
      BY <1>1, <2>1 DEF TypeInv, TypeOK
    <2>4. /\ next[i] <= Len(s) + 1 /\ next[i] \in Nat
          /\ \A n \in 1..Len(s) : n < next[i] => at[s[n]] = hand[i]
      BY <1>3 DEF PlaceInv, TypeInv, TypeOK
    <2> HIDE DEF s, t
    <2>5. /\ Len(s) \in Nat /\ Len(Append(s, k)) = Len(s) + 1
          /\ \A n \in 1..Len(s) : Append(s, k)[n] = s[n]
      BY <2>1
    <2>6. CASE Listeners(i)' = s
      BY <1>1, <2>4, <2>6 DEF PlaceInv
    <2>7. CASE Listeners(i)' = Append(s, k)
      <3>1. ASSUME NEW n \in 1..(Len(s) + 1), n < next[i]
            PROVE  at[Append(s, k)[n]] = hand[i]
        <4>1. n \in 1..Len(s)
          BY <2>4, <2>5, <3>1
        <4> QED BY <2>4, <2>5, <3>1, <4>1
      <3>2. next[i] <= Len(s) + 1 + 1
        BY <2>4, <2>5
      <3> QED BY <1>1, <1>3, <2>5, <2>7, <3>1, <3>2 DEF PlaceInv
    <2> QED BY <2>2, <2>3, <2>6, <2>7
  <1> QED BY <1>2, <1>3

LEMMA PlaceStays ==
  ASSUME TypeInv, TypeInv', ListInv, NEW i \in Interfaces, PlaceInv(i), [Next]_vars
  PROVE  PlaceInv(i)'
  <1>1. ASSUME UNCHANGED <<log, callbacks, hand, next, at>>,
               loop'[i] = "calling" <=> loop[i] = "calling"
        PROVE  PlaceInv(i)'
    BY <1>1, PlaceSame
  <1>2. ASSUME NEW p \in Publications, PublishTopic(p) \/ PublishData(p)
        PROVE  PlaceInv(i)'
    BY <1>1, <1>2 DEF PublishTopic, PublishData, brokerVars, subscriberVars
  <1>3. ASSUME NEW k \in Callbacks, SetOption(k) \/ Learn(k)
        PROVE  PlaceInv(i)'
    BY <1>1, <1>3 DEF SetOption, Learn, brokerVars, subscriberVars
  <1>4. ASSUME NEW k \in Callbacks, AddCallback(k)
        PROVE  PlaceInv(i)'
    <2>1. CASE i = At[k]
      BY <1>4, <2>1, AddCallbackPlace
    <2>2. CASE i # At[k]
      <3>1. /\ UNCHANGED <<log, loop, hand, next, at>>
            /\ callbacks' = [callbacks EXCEPT ![<<At[k], For[k]>>] = Append(@, k)]
        BY <1>4 DEF AddCallback, brokerVars
      <3>2. \A t \in Topics : callbacks'[<<i, t>>] = callbacks[<<i, t>>]
        BY <2>2, <3>1 DEF TypeInv, TypeOK
      <3> QED BY <3>1, <3>2, PlaceSame
    <2> QED BY <2>1, <2>2
  <1>5. ASSUME NEW j \in Interfaces, Join(j) \/ LoopTop(j) \/ PollTimeout(j) \/ Stop(j)
                                       \/ ThreadEnds(j) \/ CloseSockets(j)
        PROVE  PlaceInv(i)'
    <2>1. UNCHANGED <<log, callbacks, hand, next, at>>
      BY <1>5 DEF Join, LoopTop, PollTimeout, Stop, ThreadEnds, CloseSockets, brokerVars,
                  subscriberVars
    <2>2. \/ loop' = loop
          \/ /\ loop[j] \in {"top", "poll"}
             /\ \E to \in {"top", "poll", "ended"} : loop' = [loop EXCEPT ![j] = to]
      BY <1>5 DEF Join, LoopTop, PollTimeout, Stop, ThreadEnds, CloseSockets, subscriberVars
    <2>3. loop'[i] = "calling" <=> loop[i] = "calling"
      <3>1. loop \in [Interfaces -> {"top", "poll", "calling", "ended"}]
        BY DEF TypeInv, TypeOK
      <3>2. CASE loop' = loop
        BY <3>2
      <3>3. ASSUME NEW to \in {"top", "poll", "ended"}, loop[j] \in {"top", "poll"},
                   loop' = [loop EXCEPT ![j] = to]
            PROVE  loop'[i] = "calling" <=> loop[i] = "calling"
        BY <3>1, <3>3
      <3> QED BY <2>2, <3>2, <3>3
    <2> QED BY <1>1, <2>1, <2>3
  <1>6. ASSUME NEW j \in Interfaces, Receive(j)
        PROVE  PlaceInv(i)'
    <2>1. CASE j = i
      BY <1>6, <2>1, ReceivePlace
    <2>2. CASE j # i
      <3>1. /\ hand'[i] = hand[i] /\ loop'[i] = loop[i]
            /\ UNCHANGED <<log, callbacks, next, at>>
        BY <1>6, <2>2 DEF Receive, TypeInv, TypeOK
      <3> QED BY <3>1, PlaceSame
    <2> QED BY <2>1, <2>2
  <1>7. ASSUME NEW j \in Interfaces, Call(j)
        PROVE  PlaceInv(i)'
    <2>1. CASE j = i
      BY <1>7, <2>1, CallPlace
    <2>2. CASE j # i
      <3> DEFINE k == Listeners(j)[next[j]]
      <3>1. /\ loop[j] = "calling" /\ next[j] <= Len(Listeners(j))
            /\ at' = [at EXCEPT ![k] = hand[j]] /\ next' = [next EXCEPT ![j] = @ + 1]
            /\ UNCHANGED <<log, callbacks, loop, hand>>
        BY <1>7 DEF Call, brokerVars
      <3>2. At[k] = j
        BY <3>1, Called
      <3> HIDE DEF k
      <3>3. DOMAIN at = Callbacks /\ DOMAIN next = Interfaces
        BY DEF TypeInv, TypeOK
      <3>4. /\ next'[i] = next[i] /\ \A l \in Callbacks : At[l] = i => at'[l] = at[l]
        BY <2>2, <3>1, <3>2, <3>3
      <3> QED BY <3>1, <3>4, PlaceSame
    <2> QED BY <2>1, <2>2
  <1>8. ASSUME NEW j \in Interfaces, CallsDone(j)
        PROVE  PlaceInv(i)'
    <2>1. /\ hand' = [hand EXCEPT ![j] = 0] /\ loop' = [loop EXCEPT ![j] = "top"]
          /\ next' = [next EXCEPT ![j] = 1] /\ UNCHANGED <<log, callbacks, at>>
      BY <1>8 DEF CallsDone, brokerVars
    <2>2. CASE j = i
      <3>1. loop'[i] = "top" /\ next'[i] = 1
        BY <2>1, <2>2 DEF TypeInv, TypeOK
      <3> QED BY <3>1 DEF PlaceInv
    <2>3. CASE j # i
      <3>1. hand'[i] = hand[i] /\ loop'[i] = loop[i] /\ next'[i] = next[i]
        BY <2>1, <2>3 DEF TypeInv, TypeOK
      <3> QED BY <2>1, <3>1, PlaceSame
    <2> QED BY <2>2, <2>3
  <1>9. ASSUME NEW j \in Interfaces, Route(j)
        PROVE  PlaceInv(i)'
    <2>1. UNCHANGED <<callbacks, hand, next, loop, at>> /\ \A n \in 1..Len(log) : log'[n] = log[n]
      BY <1>9, Appended DEF Route, subscriberVars
    <2>2. loop[i] = "calling" => log'[hand[i]] = log[hand[i]]
      BY <2>1 DEF TypeInv
    <2> QED BY <2>1, <2>2, PlaceSame
  <1>10. CASE BrokerStart \/ BrokerStop \/ UNCHANGED vars
    BY <1>1, <1>10 DEF BrokerStart, BrokerStop, vars, brokerVars, subscriberVars
  <1> QED BY <1>2, <1>3, <1>4, <1>5, <1>6, <1>7, <1>8, <1>9, <1>10 DEF Next, SubThread, Broker

LEMMA ClosedStays ==
  ASSUME TypeInv, NEW i \in Interfaces, ClosedInv(i), [Next]_vars
  PROVE  ClosedInv(i)' /\ (state[i] = "closed" => state'[i] = "closed")
  <1>1. ASSUME state' = state, known'[i] = known[i], down'[i] = down[i]
        PROVE  ClosedInv(i)' /\ (state[i] = "closed" => state'[i] = "closed")
    BY <1>1 DEF ClosedInv
  <1>2. ASSUME NEW p \in Publications, PublishTopic(p) \/ PublishData(p)
        PROVE  ClosedInv(i)' /\ (state[i] = "closed" => state'[i] = "closed")
    BY <1>1, <1>2 DEF PublishTopic, PublishData, brokerVars, subscriberVars
  <1>3. ASSUME NEW k \in Callbacks, SetOption(k) \/ AddCallback(k)
        PROVE  ClosedInv(i)' /\ (state[i] = "closed" => state'[i] = "closed")
    BY <1>1, <1>3 DEF SetOption, AddCallback, brokerVars
  <1>4. ASSUME NEW k \in Callbacks, Learn(k)
        PROVE  ClosedInv(i)' /\ (state[i] = "closed" => state'[i] = "closed")
    BY <1>4 DEF Learn, subscriberVars, ClosedInv, TypeInv, TypeOK
  <1>5. ASSUME NEW j \in Interfaces, Join(j) \/ LoopTop(j) \/ PollTimeout(j) \/ Call(j)
                                       \/ CallsDone(j) \/ ThreadEnds(j)
        PROVE  ClosedInv(i)' /\ (state[i] = "closed" => state'[i] = "closed")
    BY <1>1, <1>5 DEF Join, LoopTop, PollTimeout, Call, CallsDone, ThreadEnds, brokerVars,
                      subscriberVars
  <1>6. ASSUME NEW j \in Interfaces, Receive(j) \/ Stop(j) \/ CloseSockets(j)
        PROVE  ClosedInv(i)' /\ (state[i] = "closed" => state'[i] = "closed")
    <2>1. CASE Receive(j)
      BY <2>1 DEF Receive, brokerVars, ClosedInv, TypeInv, TypeOK
    <2>2. CASE Stop(j)
      BY <2>2 DEF Stop, brokerVars, ClosedInv, TypeInv, TypeOK
    <2>3. CASE CloseSockets(j)
      BY <2>3 DEF CloseSockets, brokerVars, ClosedInv, TypeInv, TypeOK
    <2> QED BY <1>6, <2>1, <2>2, <2>3
  <1>7. ASSUME NEW j \in Interfaces, Route(j)
        PROVE  ClosedInv(i)' /\ (state[i] = "closed" => state'[i] = "closed")
    BY <1>7 DEF Route, subscriberVars, ClosedInv, Wanted, TypeInv, TypeOK
  <1>8. CASE BrokerStop
    <2>1. PICK left \in [Interfaces -> 0..Len(log)] :
            /\ \A j \in Interfaces : left[j] <= Len(down[j])
            /\ down' = [j \in Interfaces |-> SubSeq(down[j], 1, left[j])]
      BY <1>8 DEF BrokerStop
    <2>2. state' = state /\ known'[i] = {}
      BY <1>8 DEF BrokerStop, subscriberVars
    <2>3. ASSUME down[i] = << >>
          PROVE  down'[i] = << >>
      <3>1. left[i] = 0
        BY <2>1, <2>3
      <3> QED BY <2>1, <2>3, <3>1
    <2> QED BY <2>2, <2>3 DEF ClosedInv
  <1>9. CASE BrokerStart \/ UNCHANGED vars
    BY <1>1, <1>9 DEF BrokerStart, vars, brokerVars, subscriberVars
  <1> QED BY <1>2, <1>3, <1>4, <1>5, <1>6, <1>7, <1>8, <1>9 DEF Next, SubThread, Broker

LEMMA SideStays ==
  ASSUME TypeInv, TypeInv', OrderInv, SideInv, [Next]_vars
  PROVE  SideInv'
  <1>1. LogInv' /\ ListedInv'
    BY LogStays, ListedStays DEF SideInv
  <1>2. \A i \in Interfaces : PlaceInv(i)' /\ ClosedInv(i)'
    BY PlaceStays, ClosedStays DEF SideInv, OrderInv
  <1> QED BY <1>1, <1>2 DEF SideInv

LEMMA TakeOrder ==
  ASSUME NEW S, NEW s \in Seq(S), NEW c \in Nat, c <= Len(s), Increasing(s), S \subseteq Nat,
         NEW m \in Elems(SubSeq(s, 1, c)), NEW n \in Elems(s), n \notin Elems(SubSeq(s, 1, c))
  PROVE  m < n
  <1> DEFINE t == SubSeq(s, 1, c)
  <1>1. /\ Len(s) \in Nat /\ Len(t) = c /\ \A b \in 1..c : t[b] = s[b]
    OBVIOUS
  <1> HIDE DEF t
  <1>2. PICK b \in 1..c : m = s[b]
    BY <1>1 DEF Elems, t
  <1>3. PICK a \in 1..Len(s) : n = s[a]
    BY DEF Elems
  <1>4. ~(a <= c)
    <2> SUFFICES ASSUME a <= c
                 PROVE  FALSE
      OBVIOUS
    <2>1. a \in 1..Len(t) /\ n = t[a]
      BY <1>1, <1>3
    <2> QED BY <2>1 DEF Elems, t
  <1>5. b < a /\ b \in 1..Len(s)
    BY <1>1, <1>4
  <1> QED BY <1>2, <1>3, <1>5 DEF Increasing

LEMMA HeadOrTail ==
  ASSUME NEW S, NEW s \in Seq(S), s # << >>
  PROVE  Elems(s) = Elems(Tail(s)) \cup {Head(s)}
  <1>1. /\ Len(s) \in Nat /\ Len(s) >= 1 /\ Len(Tail(s)) = Len(s) - 1 /\ Head(s) = s[1]
        /\ \A n \in 1..Len(Tail(s)) : Tail(s)[n] = s[n + 1]
    OBVIOUS
  <1>2. ASSUME NEW x \in Elems(s)
        PROVE  x \in Elems(Tail(s)) \cup {Head(s)}
    <2>1. PICK n \in 1..Len(s) : x = s[n]
      BY DEF Elems
    <2>2. CASE n = 1
      BY <1>1, <2>1, <2>2
    <2>3. CASE n # 1
      <3>1. n - 1 \in 1..Len(Tail(s)) /\ (n - 1) + 1 = n
        BY <1>1, <2>3
      <3>2. Tail(s)[n - 1] = x
        BY <1>1, <2>1, <3>1
      <3> QED BY <3>1, <3>2 DEF Elems
    <2> QED BY <2>2, <2>3
  <1>3. Elems(Tail(s)) \subseteq Elems(s) /\ Head(s) \in Elems(s)
    <2>1. Tail(s) \in Seq(S) /\ IsPart(Tail(s), s) /\ Head(s) \in Elems(s)
      BY TailPart
    <2> QED BY <2>1, PartKeeps
  <1> QED BY <1>2, <1>3

(* A step that adds nothing to what i has met.                              *)
LEMMA MetStays ==
  ASSUME NEW i \in Interfaces, Elems(down'[i]) \subseteq Elems(down[i]),
         loop'[i] = "calling" => loop[i] = "calling" /\ hand'[i] = hand[i],
         \A k \in Callbacks : At[k] = i => at'[k] = at[k]
  PROVE  Coming(i)' \subseteq Coming(i) /\ Met(i)' \subseteq Met(i)
  <1>1. Elems(down[i])' = Elems(down'[i])
    BY DEF Elems
  <1>2. Coming(i)' \subseteq Coming(i)
    BY <1>1 DEF Coming
  <1> QED BY <1>2 DEF Met

LEMMA KnowsStays ==
  ASSUME TypeInv, NEW i \in Interfaces, Knows(i), Met(i)' \subseteq Met(i),
         UNCHANGED <<log, stops>>, known[i] \subseteq known'[i],
         state[i] = "closed" => state'[i] = "closed"
  PROVE  Knows(i)'
  BY DEF Knows, Wanted, Heading

(* What i no longer has before it is cut off, or goes on nothing it has met. *)
LEMMA GapShrinks ==
  ASSUME TypeInv, NEW i \in Interfaces, Gap(i), UNCHANGED log, stops' \in Nat, stops <= stops',
         loop'[i] # "ended" => loop[i] # "ended",
         state[i] = "closed" => state'[i] = "closed",
         Coming(i)' \subseteq Coming(i), Met(i)' \subseteq Met(i),
         \A n \in Coming(i) :
           \/ n \in Coming(i)' \/ Cut(i, n)'
           \/ \A x \in Met(i)' : x < n => ~Same(x, n)
  PROVE  Gap(i)'
  <1> SUFFICES ASSUME loop'[i] # "ended", NEW x \in Met(i)', NEW n \in (x + 1)..Len(log),
                      Same(x, n)
               PROVE  n \in Coming(i)' \/ Cut(i, n)'
    BY DEF Gap, Same, Heading
  <1>1. x \in 1..Len(log) /\ Len(log) \in Nat
    BY MetType, EpochType
  <1>2. x < n /\ n \in 1..Len(log)
    BY <1>1
  <1>3. n \in Coming(i) \/ Cut(i, n)
    BY DEF Gap
  <1>4. CASE n \in Coming(i)
    BY <1>2, <1>4
  <1>5. CASE Cut(i, n)
    <2>1. log[n].epoch \in Nat /\ stops \in Nat
      BY <1>2, EpochType
    <2>2. log[n].epoch < stops' \/ state'[i] = "closed"
      BY <1>5, <2>1 DEF Cut
    <2>3. \A m \in Coming(i)' : m > n => log'[m].epoch # log'[n].epoch
      BY <1>5 DEF Cut
    <2> QED BY <2>2, <2>3 DEF Cut
  <1> QED BY <1>3, <1>4, <1>5

(* A step that changes nothing that matters to i.                           *)
LEMMA GapSame ==
  ASSUME TypeInv, NEW i \in Interfaces, Knows(i), Gap(i),
         UNCHANGED <<log, stops>>, down'[i] = down[i], hand'[i] = hand[i],
         known[i] \subseteq known'[i], state[i] = "closed" => state'[i] = "closed",
         loop'[i] # "ended" => loop[i] # "ended",
         loop'[i] = "calling" <=> loop[i] = "calling",
         \A k \in Callbacks : At[k] = i => at'[k] = at[k]
  PROVE  Knows(i)' /\ Gap(i)'
  <1>1. Coming(i)' \subseteq Coming(i) /\ Met(i)' \subseteq Met(i)
    BY MetStays
  <1>2. Coming(i)' = Coming(i)
    <2>1. Elems(down[i])' = Elems(down[i])
      BY DEF Elems
    <2> QED BY <2>1 DEF Coming
  <1>3. Knows(i)'
    BY <1>1, KnowsStays
  <1>4. stops' \in Nat /\ stops <= stops'
    BY EpochType
  <1>5. Gap(i)'
    BY <1>1, <1>2, <1>4, GapShrinks
  <1> QED BY <1>3, <1>5

LEMMA RouteGap ==
  ASSUME TypeInv, SideInv, NEW i \in Interfaces, Knows(i), Gap(i), NEW j \in Interfaces, Route(j)
  PROVE  Knows(i)' /\ Gap(i)'
  <1> DEFINE N == Len(log) + 1
             frames == Head(up[j])
             new == IF Wanted(i, frames) THEN {N} ELSE {}
  <1>1. /\ Len(log) \in Nat /\ Len(log') = N /\ \A n \in 1..Len(log) : log'[n] = log[n]
        /\ log'[N].frames = frames /\ log'[N].epoch = stops
        /\ \A n \in 1..N : n \in 1..Len(log) \/ n = N
    BY Appended
  <1>2. /\ down'[i] = IF Wanted(i, frames) THEN Append(down[i], N) ELSE down[i]
        /\ UNCHANGED <<stops, known, state, loop, hand, at>>
    BY DEF Route, subscriberVars
  <1>3. Elems(down[i])' = Elems(down[i]) \cup new
    <2>1. down[i] \in Seq(Nat) /\ N \in Nat
      <3>1. down[i] \in Seq(1..Len(log))
        BY DEF TypeInv, TypeOK
      <3> QED BY <1>1, <3>1, SeqWider
    <2>2. Elems(Append(down[i], N)) = Elems(down[i]) \cup {N}
      BY <2>1, AppendElems
    <2>3. Elems(down[i])' = Elems(down'[i])
      BY DEF Elems
    <2> QED BY <1>2, <2>2, <2>3
  <1>4. Coming(i)' = Coming(i) \cup new
    BY <1>2, <1>3 DEF Coming
  <1>5. Met(i)' = Met(i) \cup new
    BY <1>1, <1>2, <1>4 DEF Met
  <1>6. Coming(i) \subseteq 1..Len(log) /\ Met(i) \subseteq 1..Len(log)
    BY MetType
  <1>7. state[i] = "closed" => ~Wanted(i, frames)
    BY DEF SideInv, ClosedInv, Wanted
  <1> HIDE DEF N, frames
  <1>8. Knows(i)'
    <2> SUFFICES ASSUME state[i] # "closed", NEW x \in Met(i)', log'[x].epoch = stops
                 PROVE  \E t \in known[i] : <<t, Heading(log'[x].frames)>> \in Covers
      BY <1>2 DEF Knows, Wanted, Heading
    <2>1. CASE x \in Met(i)
      <3>1. log'[x] = log[x]
        BY <1>1, <1>6, <2>1
      <3>2. Wanted(i, log[x].frames)
        BY <2>1, <3>1 DEF Knows
      <3> QED BY <3>1, <3>2 DEF Wanted
    <2>2. CASE x \in new
      <3>1. x = N /\ Wanted(i, frames)
        BY <2>2
      <3> QED BY <1>1, <3>1 DEF Wanted
    <2> QED BY <1>5, <2>1, <2>2
  <1>9. Gap(i)'
    <2> SUFFICES ASSUME loop[i] # "ended", NEW x \in Met(i)', NEW n \in (x + 1)..N,
                        Same(x, n)'
                 PROVE  n \in Coming(i)' \/ Cut(i, n)'
      BY <1>1, <1>2 DEF Gap
    <2>1. x \in 1..Len(log) /\ x \in Met(i) /\ n \in 1..N
      <3>1. N = Len(log) + 1
        BY DEF N
      <3>2. x \in 1..N
        BY <1>1, <1>5, <1>6, <3>1
      <3>3. x # N /\ n \in 1..N
        BY <1>1, <3>1, <3>2
      <3> QED BY <1>1, <1>5, <3>2, <3>3
    <2>2. log'[x] = log[x]
      BY <1>1, <2>1
    <2>3. CASE n \in 1..Len(log)
      <3>1. log'[n] = log[n]
        BY <1>1, <2>3
      <3>2. Same(x, n) /\ n \in (x + 1)..Len(log)
        BY <1>1, <2>1, <2>2, <2>3, <3>1 DEF Same, Heading
      <3>3. n \in Coming(i) \/ Cut(i, n)
        BY <2>1, <3>2 DEF Gap
      <3>4. ASSUME Cut(i, n)
            PROVE  Cut(i, n)'
        <4> SUFFICES ASSUME NEW m \in Coming(i)', m > n
                     PROVE  log'[m].epoch # log'[n].epoch
          BY <1>2, <3>1, <3>4 DEF Cut
        <4>1. CASE m \in Coming(i)
          BY <1>1, <1>6, <3>1, <3>4, <4>1 DEF Cut
        <4>2. CASE m \in new
          <5>1. m = N /\ log[n].epoch < stops
            BY <1>7, <3>4, <4>2 DEF Cut
          <5>2. log[n].epoch \in Nat /\ stops \in Nat
            BY <2>3, EpochType
          <5> QED BY <1>1, <3>1, <5>1, <5>2
        <4> QED BY <1>4, <4>1, <4>2
      <3> QED BY <1>4, <3>3, <3>4
    <2>4. CASE n = N
      <3>1. log[x].epoch = stops /\ Heading(log[x].frames) = Heading(frames)
        BY <1>1, <2>2, <2>4 DEF Same, Heading
      <3>2. CASE state[i] # "closed"
        <4>1. Wanted(i, log[x].frames)
          BY <2>1, <3>1, <3>2 DEF Knows
        <4>2. Wanted(i, frames)
          BY <3>1, <4>1 DEF Wanted
        <4> QED BY <1>4, <2>4, <4>2
      <3>3. CASE state[i] = "closed"
        <4>1. \A m \in Coming(i)' : ~(m > N)
          <5>1. N = Len(log) + 1
            BY DEF N
          <5> QED BY <1>1, <1>4, <1>6, <5>1
        <4> QED BY <1>2, <2>4, <3>3, <4>1 DEF Cut
      <3> QED BY <3>2, <3>3
    <2> QED BY <1>1, <2>1, <2>3, <2>4
  <1> QED BY <1>8, <1>9

LEMMA ReceiveGap ==
  ASSUME TypeInv, NEW i \in Interfaces, Knows(i), Gap(i), Receive(i)
  PROVE  Knows(i)' /\ Gap(i)'
  <1>1. /\ loop[i] = "poll" /\ down[i] # << >> /\ down[i] \in Seq(1..Len(log))
        /\ down'[i] = Tail(down[i]) /\ hand'[i] = Head(down[i])
        /\ loop'[i] \in {"calling", "ended"}
        /\ UNCHANGED <<log, stops, known, state, at>>
    BY DEF Receive, TypeInv, TypeOK
  <1>2. Elems(down[i]) = Elems(down[i])' \cup {hand'[i]}
    <2>1. Elems(down[i])' = Elems(Tail(down[i]))
      BY <1>1 DEF Elems
    <2> QED BY <1>1, <2>1, HeadOrTail
  <1>3. /\ Coming(i)' \subseteq Coming(i)
        /\ loop'[i] = "calling" => Coming(i)' = Coming(i)
    BY <1>1, <1>2 DEF Coming
  <1>4. Met(i)' \subseteq Met(i)
    BY <1>1, <1>3 DEF Met
  <1>5. Knows(i)'
    BY <1>1, <1>4, KnowsStays
  <1>6. Gap(i)'
    <2>1. CASE loop'[i] = "ended"
      BY <2>1 DEF Gap
    <2>2. CASE loop'[i] = "calling"
      <3>1. stops' \in Nat /\ stops <= stops' /\ loop[i] # "ended" /\ Coming(i)' = Coming(i)
        BY <1>1, <1>3, <2>2, EpochType
      <3> QED BY <1>1, <1>4, <3>1, GapShrinks
    <2> QED BY <1>1, <2>1, <2>2
  <1> QED BY <1>5, <1>6

LEMMA CallGap ==
  ASSUME TypeInv, OrderInv, NEW i \in Interfaces, Knows(i), Gap(i), Call(i)
  PROVE  Knows(i)' /\ Gap(i)'
  <1> DEFINE k == Listeners(i)[next[i]]
  <1>1. /\ loop[i] = "calling" /\ next[i] <= Len(Listeners(i)) /\ at' = [at EXCEPT ![k] = hand[i]]
        /\ UNCHANGED <<log, stops, down, known, state, loop, hand>>
    BY DEF Call, brokerVars
  <1>2. k \in Callbacks
    BY <1>1, Called DEF OrderInv
  <1> HIDE DEF k
  <1>3. \A l \in Callbacks : at'[l] = hand[i] \/ at'[l] = at[l]
    BY <1>1, <1>2 DEF TypeInv, TypeOK
  <1>4. Coming(i)' = Coming(i) /\ hand[i] \in Coming(i)
    <2>1. Elems(down[i])' = Elems(down[i])
      BY <1>1 DEF Elems
    <2> QED BY <1>1, <2>1 DEF Coming
  <1>5. Met(i)' \subseteq Met(i)
    BY <1>3, <1>4 DEF Met
  <1>6. Knows(i)'
    BY <1>1, <1>5, KnowsStays
  <1>7. stops' \in Nat /\ stops <= stops'
    BY <1>1, EpochType
  <1>8. Gap(i)'
    BY <1>1, <1>4, <1>5, <1>7, GapShrinks
  <1> QED BY <1>6, <1>8

(* Every callback that has heard an earlier message on the topic has been   *)
(* called with the one in hand.                                             *)
LEMMA CallsDoneGap ==
  ASSUME TypeInv, OrderInv, HeardInv, SideInv, NEW i \in Interfaces, Knows(i), Gap(i),
         CallsDone(i)
  PROVE  Knows(i)' /\ Gap(i)'
  <1>1. /\ loop[i] = "calling" /\ next[i] > Len(Listeners(i)) /\ loop'[i] = "top"
        /\ UNCHANGED <<log, stops, down, known, state, at>>
    BY DEF CallsDone, brokerVars, TypeInv, TypeOK
  <1>2. Coming(i)' \subseteq Coming(i) /\ Met(i)' \subseteq Met(i)
    <2>1. Elems(down'[i]) \subseteq Elems(down[i])
      BY <1>1
    <2> QED BY <1>1, <2>1, MetStays
  <1>3. Coming(i)' = Elems(down[i])
    <2>1. Elems(down[i])' = Elems(down[i])
      BY <1>1 DEF Elems
    <2> QED BY <1>1, <2>1 DEF Coming
  <1>4. ASSUME NEW x \in Met(i)', x < hand[i], Same(x, hand[i])
        PROVE  FALSE
    <2>1. /\ hand[i] \in 1..Len(log) /\ Len(log) \in Nat /\ Listeners(i) \in Seq(Callbacks)
          /\ Listeners(i) = callbacks[<<i, Heading(log[hand[i]].frames)>>]
      BY <1>1, ListenersType, EpochType
    <2>2. CASE x \in Elems(down[i])
      <3>1. hand[i] < x /\ x \in 1..Len(log)
        BY <2>2, MetType DEF OrderInv, QueueOrder
      <3> QED BY <1>4, <2>1, <3>1
    <2>3. ASSUME NEW k \in Callbacks, At[k] = i, x = at[k], at[k] # 0
          PROVE  FALSE
      <3>1. For[k] = Heading(log[hand[i]].frames)
        BY <1>4, <2>3 DEF HeardInv, Same
      <3>2. sub[k] = "done"
        BY <2>3 DEF OrderInv, ListInv
      <3>3. k \in Elems(callbacks[<<At[k], For[k]>>])
        BY <3>2 DEF SideInv, ListedInv
      <3>4. k \in Elems(Listeners(i))
        BY <2>1, <2>3, <3>1, <3>3
      <3> HIDE DEF Listeners
      <3>5. PICK n \in 1..Len(Listeners(i)) : k = Listeners(i)[n]
        BY <3>4 DEF Elems
      <3>6. n < next[i]
        <4>1. next[i] \in Nat /\ Len(Listeners(i)) \in Nat
          BY <2>1 DEF TypeInv, TypeOK
        <4> QED BY <1>1, <4>1
      <3>7. PlaceInv(i)
        BY DEF SideInv
      <3>8. at[k] = hand[i]
        BY <1>1, <3>5, <3>6, <3>7 DEF PlaceInv
      <3> QED BY <1>4, <2>1, <2>3, <3>8
    <2> QED BY <1>1, <1>3, <2>2, <2>3 DEF Met
  <1>5. Knows(i)'
    BY <1>1, <1>2, KnowsStays
  <1>6. Gap(i)'
    <2>1. stops' \in Nat /\ stops <= stops'
      BY <1>1, EpochType
    <2>2. \A n \in Coming(i) : n \in Coming(i)' \/ n = hand[i]
      BY <1>3 DEF Coming
    <2>3. \A n \in Coming(i) :
            n \in Coming(i)' \/ Cut(i, n)' \/ \A x \in Met(i)' : x < n => ~Same(x, n)
      BY <1>4, <2>2
    <2> QED BY <1>1, <1>2, <2>1, <2>3, GapShrinks
  <1> QED BY <1>5, <1>6

LEMMA CloseSocketsGap ==
  ASSUME TypeInv, OrderInv, NEW i \in Interfaces, Knows(i), Gap(i), CloseSockets(i)
  PROVE  Knows(i)' /\ Gap(i)'
  <1>1. /\ state'[i] = "closed" /\ down'[i] = << >> /\ UNCHANGED <<log, stops, loop, hand, at>>
    BY DEF CloseSockets, TypeInv, TypeOK
  <1>2. Elems(down'[i]) = {} /\ Elems(down[i])' = {}
    BY <1>1, EmptyList DEF Elems
  <1>3. Coming(i)' \subseteq Coming(i) /\ Met(i)' \subseteq Met(i)
    BY <1>1, <1>2, MetStays
  <1>4. ASSUME NEW n \in Coming(i), n \notin Coming(i)'
        PROVE  Cut(i, n)'
    <2>1. n \in Elems(down[i]) /\ Coming(i)' \subseteq {hand[i]}
      BY <1>1, <1>2, <1>4 DEF Coming
    <2>2. n \in 1..Len(log) /\ hand[i] \in 0..Len(log) /\ Len(log) \in Nat
      BY MetType, EpochType DEF TypeInv, TypeOK
    <2>3. hand[i] < n
      BY <2>1 DEF OrderInv, QueueOrder
    <2>4. \A m \in Coming(i)' : ~(m > n)
      BY <2>1, <2>2, <2>3
    <2> QED BY <1>1, <2>4 DEF Cut
  <1>5. Knows(i)'
    BY <1>1 DEF Knows
  <1>6. stops' \in Nat /\ stops <= stops'
    BY <1>1, EpochType
  <1>7. Gap(i)'
    BY <1>1, <1>3, <1>4, <1>6, GapShrinks
  <1> QED BY <1>5, <1>7

LEMMA BrokerStopGap ==
  ASSUME TypeInv, OrderInv, SideInv, NEW i \in Interfaces, Knows(i), Gap(i), BrokerStop
  PROVE  Knows(i)' /\ Gap(i)'
  <1>1. PICK left \in [Interfaces -> 0..Len(log)] :
          /\ \A j \in Interfaces : left[j] <= Len(down[j])
          /\ down' = [j \in Interfaces |-> SubSeq(down[j], 1, left[j])]
    BY DEF BrokerStop
  <1>2. stops' = stops + 1 /\ UNCHANGED <<log, state, loop, hand, at>>
    BY DEF BrokerStop, subscriberVars
  <1>3. /\ down[i] \in Seq(1..Len(log)) /\ left[i] \in Nat /\ left[i] <= Len(down[i])
        /\ down'[i] = SubSeq(down[i], 1, left[i]) /\ 1..Len(log) \subseteq Nat
        /\ Increasing(down[i])
    BY <1>1 DEF TypeInv, TypeOK, OrderInv, QueueOrder
  <1>4. Elems(down'[i]) \subseteq Elems(down[i])
    <2>1. down'[i] \in Seq(1..Len(log)) /\ IsPart(down'[i], down[i])
      BY <1>3, TakePart
    <2> QED BY <1>3, <2>1, PartKeeps
  <1>5. Coming(i)' \subseteq Coming(i) /\ Met(i)' \subseteq Met(i)
    BY <1>2, <1>4, MetStays
  <1>6. \A n \in 1..Len(log) : log[n].epoch \in Nat /\ log[n].epoch < stops'
    BY <1>2, EpochType DEF SideInv, LogInv
  <1>7. stops' \in Nat /\ stops <= stops'
    BY <1>2, EpochType
  <1>8. Knows(i)'
    <2>1. \A x \in Met(i)' : log[x].epoch # stops'
      BY <1>5, <1>6, <1>7, MetType
    <2> QED BY <1>2, <2>1 DEF Knows
  <1>9. ASSUME NEW n \in Coming(i), n \notin Coming(i)'
        PROVE  Cut(i, n)'
    <2>1. Elems(down[i])' = Elems(down'[i])
      BY DEF Elems
    <2>2. n \in Elems(down[i]) /\ n \notin Elems(down'[i]) /\ n \in 1..Len(log)
      BY <1>2, <1>9, <2>1, MetType DEF Coming
    <2>3. ASSUME NEW m \in Coming(i)'
          PROVE  m < n
      <3>1. CASE m \in Elems(down'[i])
        BY <1>3, <2>2, <3>1, TakeOrder
      <3>2. CASE m = hand[i]
        BY <2>2, <3>2 DEF OrderInv, QueueOrder
      <3> QED BY <1>2, <2>1, <3>1, <3>2 DEF Coming
    <2>4. \A m \in Coming(i)' : ~(m > n)
      <3>1. Len(log) \in Nat /\ Coming(i)' \subseteq 1..Len(log)
        BY <1>5, MetType, EpochType
      <3> QED BY <2>2, <2>3, <3>1
    <2> QED BY <1>2, <1>6, <2>2, <2>4 DEF Cut
  <1>10. Gap(i)'
    BY <1>2, <1>5, <1>7, <1>9, GapShrinks
  <1> QED BY <1>8, <1>10

LEMMA GapStays ==
  ASSUME TypeInv, OrderInv, HeardInv, SideInv, NEW i \in Interfaces, Knows(i), Gap(i), [Next]_vars
  PROVE  Knows(i)' /\ Gap(i)'
  <1>1. ASSUME UNCHANGED <<log, stops, down, hand, known, state, at>>,
               loop'[i] # "ended" => loop[i] # "ended",
               loop'[i] = "calling" <=> loop[i] = "calling"
        PROVE  Knows(i)' /\ Gap(i)'
    BY <1>1, GapSame
  <1>2. ASSUME NEW p \in Publications, PublishTopic(p) \/ PublishData(p)
        PROVE  Knows(i)' /\ Gap(i)'
    BY <1>1, <1>2 DEF PublishTopic, PublishData, brokerVars, subscriberVars
  <1>3. ASSUME NEW k \in Callbacks, SetOption(k) \/ AddCallback(k)
        PROVE  Knows(i)' /\ Gap(i)'
    BY <1>1, <1>3 DEF SetOption, AddCallback, brokerVars
  <1>4. ASSUME NEW k \in Callbacks, Learn(k)
        PROVE  Knows(i)' /\ Gap(i)'
    <2>1. /\ known' = [known EXCEPT ![At[k]] = @ \cup {For[k]}]
          /\ UNCHANGED <<log, stops, down, state, loop, hand, at>>
      BY <1>4 DEF Learn, subscriberVars
    <2>2. known[i] \subseteq known'[i]
      BY <2>1 DEF TypeInv, TypeOK
    <2> QED BY <2>1, <2>2, GapSame
  <1>5. ASSUME NEW j \in Interfaces, Join(j) \/ ThreadEnds(j)
        PROVE  Knows(i)' /\ Gap(i)'
    BY <1>1, <1>5 DEF Join, ThreadEnds, brokerVars, subscriberVars
  <1>6. ASSUME NEW j \in Interfaces, LoopTop(j) \/ PollTimeout(j)
        PROVE  Knows(i)' /\ Gap(i)'
    <2>1. UNCHANGED <<log, stops, down, hand, known, state, at>>
      BY <1>6 DEF LoopTop, PollTimeout, brokerVars
    <2>2. /\ loop[j] \in {"top", "poll"}
          /\ \E to \in {"top", "poll", "ended"} : loop' = [loop EXCEPT ![j] = to]
      BY <1>6 DEF LoopTop, PollTimeout
    <2>3. loop \in [Interfaces -> {"top", "poll", "calling", "ended"}]
      BY DEF TypeInv, TypeOK
    <2>4. /\ loop'[i] # "ended" => loop[i] # "ended"
          /\ loop'[i] = "calling" <=> loop[i] = "calling"
      BY <2>2, <2>3
    <2> QED BY <1>1, <2>1, <2>4
  <1>7. ASSUME NEW j \in Interfaces, Stop(j)
        PROVE  Knows(i)' /\ Gap(i)'
    <2>1. /\ state[j] = "running" /\ state' = [state EXCEPT ![j] = "stopping"]
          /\ UNCHANGED <<log, stops, down, known, loop, hand, at>>
      BY <1>7 DEF Stop, brokerVars
    <2>2. state[i] = "closed" => state'[i] = "closed"
      BY <2>1 DEF TypeInv, TypeOK
    <2> QED BY <2>1, <2>2, GapSame
  <1>8. ASSUME NEW j \in Interfaces, Receive(j)
        PROVE  Knows(i)' /\ Gap(i)'
    <2>1. CASE j = i
      BY <1>8, <2>1, ReceiveGap
    <2>2. CASE j # i
      <3>1. /\ down'[i] = down[i] /\ hand'[i] = hand[i] /\ loop'[i] = loop[i]
            /\ UNCHANGED <<log, stops, known, state, at>>
        BY <1>8, <2>2 DEF Receive, TypeInv, TypeOK
      <3> QED BY <3>1, GapSame
    <2> QED BY <2>1, <2>2
  <1>9. ASSUME NEW j \in Interfaces, Call(j)
        PROVE  Knows(i)' /\ Gap(i)'
    <2>1. CASE j = i
      BY <1>9, <2>1, CallGap
    <2>2. CASE j # i
      <3> DEFINE k == Listeners(j)[next[j]]
      <3>1. /\ loop[j] = "calling" /\ next[j] <= Len(Listeners(j))
            /\ at' = [at EXCEPT ![k] = hand[j]]
            /\ UNCHANGED <<log, stops, down, known, state, loop, hand>>
        BY <1>9 DEF Call, brokerVars
      <3>2. At[k] = j
        BY <3>1, Called DEF OrderInv
      <3> HIDE DEF k
      <3>3. \A l \in Callbacks : At[l] = i => at'[l] = at[l]
        BY <2>2, <3>1, <3>2 DEF TypeInv, TypeOK
      <3> QED BY <3>1, <3>3, GapSame
    <2> QED BY <2>1, <2>2
  <1>10. ASSUME NEW j \in Interfaces, CallsDone(j)
         PROVE  Knows(i)' /\ Gap(i)'
    <2>1. CASE j = i
      BY <1>10, <2>1, CallsDoneGap
    <2>2. CASE j # i
      <3>1. /\ hand'[i] = hand[i] /\ loop'[i] = loop[i]
            /\ UNCHANGED <<log, stops, down, known, state, at>>
        BY <1>10, <2>2 DEF CallsDone, brokerVars, TypeInv, TypeOK
      <3> QED BY <3>1, GapSame
    <2> QED BY <2>1, <2>2
  <1>11. ASSUME NEW j \in Interfaces, CloseSockets(j)
         PROVE  Knows(i)' /\ Gap(i)'
    <2>1. CASE j = i
      BY <1>11, <2>1, CloseSocketsGap
    <2>2. CASE j # i
      <3>1. /\ state'[i] = state[i] /\ down'[i] = down[i] /\ known'[i] = known[i]
            /\ UNCHANGED <<log, stops, loop, hand, at>>
        BY <1>11, <2>2 DEF CloseSockets, TypeInv, TypeOK
      <3> QED BY <3>1, GapSame
    <2> QED BY <2>1, <2>2
  <1>12. ASSUME NEW j \in Interfaces, Route(j)
         PROVE  Knows(i)' /\ Gap(i)'
    BY <1>12, RouteGap
  <1>13. CASE BrokerStop
    BY <1>13, BrokerStopGap
  <1>14. CASE BrokerStart \/ UNCHANGED vars
    BY <1>1, <1>14 DEF BrokerStart, vars, brokerVars, subscriberVars
  <1> QED BY <1>2, <1>3, <1>4, <1>5, <1>6, <1>7, <1>8, <1>9, <1>10, <1>11, <1>12, <1>13, <1>14
      DEF Next, SubThread, Broker

LEMMA InitGap == Init => HeardInv /\ GapInv
  <1> SUFFICES ASSUME Init
               PROVE  HeardInv /\ GapInv
    OBVIOUS
  <1>1. /\ log = << >> /\ 1..Len(log) = {}
        /\ \A i \in Interfaces : /\ down[i] = << >> /\ next[i] = 1 /\ loop[i] = "top"
                                 /\ state[i] = "running"
        /\ \A k \in Callbacks : at[k] = 0 /\ sub[k] = "idle"
    BY DEF Init
  <1>2. \A i \in Interfaces : Elems(down[i]) = {}
    BY <1>1, EmptyList
  <1>3. \A i \in Interfaces : Met(i) = {}
    BY <1>1, <1>2 DEF Met, Coming
  <1>4. SideInv
    BY <1>1 DEF SideInv, LogInv, ListedInv, PlaceInv, ClosedInv
  <1>5. \A i \in Interfaces : Knows(i) /\ Gap(i)
    BY <1>3 DEF Knows, Gap
  <1> QED BY <1>1, <1>4, <1>5 DEF HeardInv, GapInv

(* A callback that is called has been called for every message on its topic *)
(* since the one it heard before, unless the broker restarted in between:   *)
(* neither the filter, nor the queues, nor the loop over the list drop one. *)
THEOREM GapsCorrect == Spec => NoGaps
  <1> DEFINE HearingInv == TypeInv /\ OrderInv /\ HeardInv /\ GapInv
  <1>1. Init => HearingInv
    BY InitType, InitOrder, InitGap
  <1>2. HearingInv /\ [Next]_vars => HearingInv'
    <2> SUFFICES ASSUME HearingInv, [Next]_vars
                 PROVE  HearingInv'
      OBVIOUS
    <2>1. TypeInv'
      BY TypeStays
    <2>2. OrderInv' /\ HeardInv'
      BY <2>1, OrderStays, HeardStays
    <2>3. SideInv'
      BY <2>1, SideStays DEF GapInv
    <2>4. \A i \in Interfaces : Knows(i)' /\ Gap(i)'
      BY GapStays DEF GapInv
    <2> QED BY <2>1, <2>2, <2>3, <2>4 DEF GapInv
  <1>3. HearingInv /\ [Next]_vars =>
          [\A k \in Callbacks :
             at[k] \notin {0, at'[k]} /\ log[at[k]].epoch = log[at'[k]].epoch =>
               \A n \in (at[k] + 1)..(at'[k] - 1) : Heading(log[n].frames) # For[k]]_vars
    <2> SUFFICES ASSUME HearingInv, [Next]_vars, NEW k \in Callbacks,
                        at[k] \notin {0, at'[k]}, log[at[k]].epoch = log[at'[k]].epoch,
                        NEW n \in (at[k] + 1)..(at'[k] - 1), Heading(log[n].frames) = For[k]
                 PROVE  FALSE
      OBVIOUS
    <2>1. PICK i \in Interfaces : Call(i)
      <3>1. at' # at
        OBVIOUS
      <3> QED BY <3>1 DEF Next, SubThread, Broker, PublishTopic, PublishData, SetOption,
                 AddCallback, Learn, Join, LoopTop, PollTimeout, Receive, CallsDone, Stop, CloseSockets, Route,
                 ThreadEnds, BrokerStart, BrokerStop, vars, subscriberVars
    <2> DEFINE l == Listeners(i)[next[i]]
    <2>2. /\ loop[i] = "calling" /\ next[i] <= Len(Listeners(i))
          /\ at' = [at EXCEPT ![l] = hand[i]]
      BY <2>1 DEF Call
    <2>3. At[l] = i
      BY <2>2, Called DEF OrderInv
    <2> HIDE DEF l
    <2>4. k = l /\ at'[k] = hand[i] /\ At[k] = i
      BY <2>2, <2>3 DEF TypeInv, TypeOK
    <2>5. /\ Len(log) \in Nat /\ at[k] \in 1..Len(log) /\ hand[i] \in 1..Len(log)
          /\ at[k] \in Met(i) /\ hand[i] \in Coming(i)
      <3>1. Len(log) \in Nat /\ at[k] \in 0..Len(log) /\ at[k] # 0
        BY EpochType DEF TypeInv, TypeOK
      <3>2. hand[i] \in 1..Len(log)
        BY <2>2 DEF TypeInv
      <3> QED BY <2>2, <2>4, <3>1, <3>2 DEF Met, Coming
    <2>6. n \in (at[k] + 1)..Len(log) /\ n \in 1..Len(log) /\ at[k] < n /\ n < hand[i]
      BY <2>4, <2>5
    <2>7. Same(at[k], n) /\ log[n].epoch = log[hand[i]].epoch
      <3>1. log[at[k]].epoch <= log[n].epoch /\ log[n].epoch <= log[hand[i]].epoch
        BY <2>5, <2>6 DEF GapInv, SideInv, LogInv
      <3>2. log[at[k]].epoch = log[hand[i]].epoch
        BY <2>4
      <3>3. log[n].epoch = log[at[k]].epoch
        BY <2>5, <2>6, <3>1, <3>2, EpochType
      <3>4. Heading(log[at[k]].frames) = For[k]
        BY DEF HeardInv
      <3> QED BY <3>2, <3>3, <3>4 DEF Same
    <2>8. n \in Coming(i) \/ Cut(i, n)
      BY <2>2, <2>5, <2>6, <2>7 DEF GapInv, Gap
    <2>9. n \notin Coming(i)
      <3>1. \A x \in Elems(down[i]) : hand[i] < x
        BY DEF OrderInv, QueueOrder
      <3>2. n # hand[i] /\ ~(hand[i] < n)
        BY <2>5, <2>6
      <3> QED BY <3>1, <3>2 DEF Coming
    <2>10. ~Cut(i, n)
      <3>1. hand[i] > n
        BY <2>5, <2>6
      <3> QED BY <2>5, <2>7, <3>1 DEF Cut
    <2> QED BY <2>8, <2>9, <2>10
  <1> QED BY <1>1, <1>2, <1>3, PTL DEF Spec, NoGaps
=============================================================================
