--------------------------- MODULE EnvelopeProofs ---------------------------
(***************************************************************************)
(* Envelope, for every set of names, of nodes and of times to live: what   *)
(* with_hop and the wire may do to an envelope, however often and in       *)
(* whatever order they are called.                                         *)
(***************************************************************************)
EXTENDS Envelope, TLAPS

LEMMA MadeIsTyped == Made \subseteq Envelopes
<1> SUFFICES ASSUME NEW s \in Texts, NEW p \in Payloads, NEW n \in Nodes, NEW ttl \in Ttls,
                    NEW x \in MadeFrom(s, p, n, ttl)
             PROVE  x \in Envelopes
  BY DEF Made
<1>1. ttl \in Int /\ None \in Texts /\ << >> \in Seq(Nodes)
  BY EnvelopeAssumption DEF Texts
<1>2. ASSUME NEW type \in Types, NEW t \in Texts, NEW tp \in Texts,
             NEW c \in Texts \cup {Uuid}, NEW p2 \in Payloads, NEW n2 \in Nodes \cup {None}
      PROVE  Make(type, s, t, tp, c, p2, <<n, n2>>, ttl) \in Envelopes
  <2>1. <<n, n2>>[1] = n /\ <<n, n2>>[2] = n2
    OBVIOUS
  <2> QED BY <1>1, <2>1 DEF Make, Envelopes, Times
<1>3. /\ \A c \in Texts : Or(c, Uuid) \in Texts \cup {Uuid}
      /\ Or(p, "plain") \in Payloads
  BY DEF Or, Payloads
<1>4. {"event", "request", "reply", "error", "system", "heartbeat"} \subseteq Types
  BY DEF Types
<1> HIDE DEF Make, Texts, Payloads, Types, Envelopes
<1>5. CASE \E t \in Texts : x = Make("event", s, None, t, None, p, <<n, None>>, ttl)
  BY <1>1, <1>2, <1>4, <1>5
<1>6. CASE \E t \in Texts, c \in Texts, n2 \in Nodes \cup {None} :
             x = Make("request", s, t, None, Or(c, Uuid), p, <<n, n2>>, ttl)
  BY <1>1, <1>2, <1>3, <1>4, <1>6
<1>7. CASE \E t \in Texts, c \in Texts, n2 \in Nodes \cup {None} :
             x = Make("reply", s, t, None, c, p, <<n, n2>>, ttl)
  BY <1>1, <1>2, <1>4, <1>7
<1>8. CASE \E type \in {"error", "system"}, t \in Texts, c \in Texts :
             x = Make(type, s, t, None, c, p, <<n, None>>, ttl)
  BY <1>1, <1>2, <1>4, <1>8
<1>9. CASE x = Make("heartbeat", s, None, None, None, Or(p, "plain"), <<n, None>>, ttl)
  BY <1>1, <1>2, <1>3, <1>4, <1>9
<1> QED BY <1>5, <1>6, <1>7, <1>8, <1>9 DEF MadeFrom

(* The two envelopes differ at most in what a hop or the wire may change.   *)
SameIdentity(e, r) ==
  /\ r.message_id = e.message_id /\ r.correlation_id = e.correlation_id
  /\ r.sender = e.sender /\ r.target = e.target /\ r.topic = e.topic
  /\ r.message_type = e.message_type /\ r.timestamp = e.timestamp
  /\ r.source_node = e.source_node /\ r.target_node = e.target_node

(* What to_dict writes for e, with another hop path, time to live, payload. *)
Written(e, data, path, ttl, payload) ==
  /\ data.messageId = e.message_id /\ data.correlationId = e.correlation_id
  /\ data.sender = e.sender /\ data.target = e.target /\ data.topic = e.topic
  /\ data.messageType = e.message_type /\ data.timestamp = e.timestamp
  /\ data.sourceNode = e.source_node /\ data.targetNode = e.target_node
  /\ data.hopPath = path /\ data.ttl = ttl /\ data.payload = payload
  /\ {"messageId", "correlationId", "sender", "target", "topic", "messageType", "timestamp",
      "sourceNode", "targetNode", "ttl", "hopPath", "payload"} \subseteq DOMAIN data

(* from_dict reads back what to_dict has written, whatever the fields hold. *)
LEMMA ReadsBack ==
  ASSUME NEW e \in Envelopes, NEW data, NEW path \in Seq(Nodes), NEW ttl \in Int,
         NEW payload \in Payloads, Written(e, data, path, ttl, payload)
  PROVE  /\ FromDict(data) \in Envelopes
         /\ SameIdentity(e, FromDict(data))
         /\ FromDict(data).hop_path = path /\ FromDict(data).ttl = ttl
         /\ FromDict(data).payload = payload
<1> DEFINE r == FromDict(data)
<1>3. r = [message_id |-> e.message_id, correlation_id |-> e.correlation_id,
           sender |-> e.sender, target |-> e.target, topic |-> e.topic,
           message_type |-> e.message_type, timestamp |-> e.timestamp,
           source_node |-> e.source_node, target_node |-> e.target_node,
           ttl |-> ttl, hop_path |-> path, payload |-> payload]
  BY DEF Written, FromDict, Get
<1> HIDE DEF r
<1>4. SameIdentity(e, r) /\ r.hop_path = path /\ r.ttl = ttl /\ r.payload = payload
  BY <1>3 DEF SameIdentity
<1>5. /\ e.message_id \in {Uuid, Empty} /\ e.correlation_id \in Texts \cup {Uuid}
      /\ e.sender \in Texts /\ e.target \in Texts /\ e.topic \in Texts
      /\ e.message_type \in Types /\ e.timestamp \in Times
      /\ e.source_node \in Nodes /\ e.target_node \in Nodes \cup {None}
  BY DEF Envelopes
<1>6. r \in Envelopes
  BY <1>3, <1>5 DEF Envelopes
<1> QED BY <1>4, <1>6 DEF r

(* What with_hop and the wire make of an envelope: nothing but one hop, and *)
(* nothing but what JSON does to the payload.                               *)
LEMMA HopCopies ==
  ASSUME TypeOK, NEW n \in Nodes
  PROVE  /\ Hop(n) \in Envelopes /\ SameIdentity(envelope, Hop(n))
         /\ Hop(n).hop_path = Append(envelope.hop_path, n)
         /\ Hop(n).ttl = envelope.ttl - 1 /\ Hop(n).payload = envelope.payload
<1> DEFINE P == Append(envelope.hop_path, n)
           T == envelope.ttl - 1
           data == [ToDict(envelope) EXCEPT !.hopPath = Append(@, n), !.ttl = @ - 1]
<1>1. /\ envelope \in Envelopes /\ envelope.hop_path \in Seq(Nodes)
      /\ envelope.ttl \in Int /\ envelope.payload \in Payloads
  BY DEF TypeOK, Envelopes
<1>2. P \in Seq(Nodes) /\ T \in Int
  BY <1>1
<1>3. Written(envelope, data, P, T, envelope.payload)
  BY DEF ToDict, Written
<1>4. Hop(n) = FromDict(data)
  BY DEF Hop
<1> HIDE DEF P, T, data
<1>5. /\ FromDict(data) \in Envelopes /\ SameIdentity(envelope, FromDict(data))
      /\ FromDict(data).hop_path = P /\ FromDict(data).ttl = T
      /\ FromDict(data).payload = envelope.payload
  BY <1>1, <1>2, <1>3, ReadsBack
<1> QED BY <1>4, <1>5 DEF P, T

LEMMA WireCopies ==
  ASSUME TypeOK
  PROVE  LET back == FromDict(Json(ToDict(envelope)))
         IN  /\ back \in Envelopes /\ SameIdentity(envelope, back)
             /\ back.hop_path = envelope.hop_path /\ back.ttl = envelope.ttl
             /\ back.payload = Encoded(envelope.payload)
<1> DEFINE Q == Encoded(envelope.payload)
           data == Json(ToDict(envelope))
<1>1. /\ envelope \in Envelopes /\ envelope.hop_path \in Seq(Nodes)
      /\ envelope.ttl \in Int /\ Q \in Payloads
  BY DEF TypeOK, Envelopes, Encoded, Payloads
<1>2. Written(envelope, data, envelope.hop_path, envelope.ttl, Q)
  BY DEF Json, ToDict, Written
<1> HIDE DEF Q, data
<1>3. /\ FromDict(data) \in Envelopes /\ SameIdentity(envelope, FromDict(data))
      /\ FromDict(data).hop_path = envelope.hop_path /\ FromDict(data).ttl = envelope.ttl
      /\ FromDict(data).payload = Q
  BY <1>1, <1>2, ReadsBack
<1> QED BY <1>3 DEF Q, data

Inv == TypeOK /\ HopsConserved /\ CarriedWhole

LEMMA InitInv == Init => Inv
<1> SUFFICES ASSUME Init PROVE Inv
  OBVIOUS
<1>1. envelope \in Envelopes /\ Valid(envelope)
  BY MadeIsTyped DEF Init
<1>2. envelope.hop_path = << >>
  <2>1. PICK s \in Texts, p \in Payloads, n \in Nodes, ttl \in Ttls :
          envelope \in MadeFrom(s, p, n, ttl)
    BY DEF Init, Made
  <2> QED BY <2>1 DEF MadeFrom, Make
<1>3. envelope.ttl \in Int /\ envelope.ttl >= 0
  BY <1>1 DEF Envelopes, Valid
<1>4. origin = envelope /\ hops = << >> /\ wired = FALSE /\ raised = FALSE
  BY DEF Init
<1>5. TypeOK
  <2>1. hops \in Seq(Nodes) /\ origin \in Envelopes /\ Valid(origin)
    BY <1>1, <1>4
  <2> QED BY <1>1, <1>4, <2>1 DEF TypeOK
<1>6. Len(hops) = 0
  BY <1>4
<1>7. HopsConserved
  BY <1>2, <1>3, <1>4, <1>6 DEF HopsConserved
<1> QED BY <1>4, <1>5, <1>7 DEF Inv, CarriedWhole

(* A copy with one hop more is valid unless the time to live is used up.    *)
LEMMA HopIsValid ==
  ASSUME TypeOK, NEW n \in Nodes
  PROVE  Valid(Hop(n)) <=> envelope.ttl # 0
<1>1. envelope.ttl \in Int /\ envelope.ttl >= 0
  BY DEF TypeOK, Envelopes, Valid
<1>2. envelope.ttl - 1 >= 0 <=> envelope.ttl # 0
  BY <1>1
<1> HIDE DEF Given
<1> QED BY <1>2, HopCopies DEF SameIdentity, TypeOK, Valid

LEMMA HopKeeps ==
  ASSUME Inv, NEW n \in Nodes, WithHop(n)
  PROVE  Inv' /\ (raised' <=> envelope.ttl = 0) /\ (raised' => envelope' = envelope)
<1> DEFINE copy == Hop(n)
<1>1. copy \in Envelopes /\ (Valid(copy) <=> envelope.ttl # 0)
  BY HopCopies, HopIsValid DEF Inv
<1>3. /\ copy.hop_path = Append(envelope.hop_path, n) /\ copy.ttl = envelope.ttl - 1
      /\ copy.payload = envelope.payload
      /\ \A field \in Identity : copy[field] = envelope[field]
  BY HopCopies DEF SameIdentity, Inv, Identity
<1>4. /\ raised' = ~Valid(copy)
      /\ envelope' = IF Valid(copy) THEN copy ELSE envelope
      /\ hops' = IF Valid(copy) THEN Append(hops, n) ELSE hops
      /\ origin' = origin /\ wired' = wired
  BY DEF WithHop, Becomes
<1>5. hops' \in Seq(Nodes) /\ Len(hops') = IF Valid(copy) THEN Len(hops) + 1 ELSE Len(hops)
  BY <1>4 DEF Inv, TypeOK
<1> HIDE DEF copy
<1>6. TypeOK'
  BY <1>1, <1>4, <1>5 DEF Inv, TypeOK, Valid
<1>7. HopsConserved'
  <2>1. envelope.ttl \in Int /\ origin.ttl \in Int /\ Len(hops) \in Nat /\ envelope.ttl >= 0
    BY DEF Inv, TypeOK, Envelopes, Valid
  <2>2. CASE Valid(copy)
    <3>1. /\ envelope'.hop_path = Append(hops, n) /\ hops' = Append(hops, n)
          /\ origin' = origin
      BY <1>3, <1>4, <2>2 DEF Inv, HopsConserved
    <3>2. /\ envelope'.ttl = envelope.ttl - 1 /\ envelope.ttl >= 1
          /\ Len(hops') = Len(hops) + 1
      BY <1>1, <1>3, <1>4, <1>5, <2>1, <2>2
    <3>3. envelope.ttl + Len(hops) = origin.ttl
      BY DEF Inv, HopsConserved
    <3>4. origin'.ttl = origin.ttl
      BY <3>1
    <3>5. envelope'.ttl + Len(hops') = origin.ttl /\ Len(hops') <= origin.ttl
      BY <2>1, <3>2, <3>3
    <3> QED BY <3>1, <3>4, <3>5 DEF HopsConserved
  <2>3. CASE ~Valid(copy)
    BY <1>4, <2>3 DEF Inv, HopsConserved
  <2> QED BY <2>2, <2>3
<1>8. CarriedWhole'
  BY <1>3, <1>4 DEF Inv, CarriedWhole
<1> QED BY <1>1, <1>4, <1>6, <1>7, <1>8 DEF Inv

LEMMA WireKeeps ==
  ASSUME Inv, Wire
  PROVE  Inv'
<1> DEFINE back == FromDict(Json(ToDict(envelope)))
<1>1. back \in Envelopes
  BY WireCopies DEF Inv
<1>2. /\ back.hop_path = envelope.hop_path /\ back.ttl = envelope.ttl
      /\ \A field \in Identity : back[field] = envelope[field]
  BY WireCopies DEF SameIdentity, Inv, Identity
<1>3. back.payload = Encoded(envelope.payload)
  BY WireCopies DEF Inv
<1>7. Valid(back)
  <2>1. back.payload # "text"
    BY <1>3 DEF Encoded, Inv, TypeOK, Valid
  <2> HIDE DEF Given
  <2> QED BY <2>1, WireCopies DEF SameIdentity, Inv, TypeOK, Valid
<1>4. hops' = hops /\ origin' = origin
  BY DEF Wire, Becomes
<1>5. CASE envelope.payload = "opaque"
  BY <1>4, <1>5 DEF Wire, Inv, TypeOK, HopsConserved, CarriedWhole
<1>6. CASE envelope.payload # "opaque"
  <2>1. envelope' = back /\ raised' = FALSE /\ wired' = TRUE
    BY <1>6, <1>7 DEF Wire, Becomes
  <2>2. /\ back.payload = Encoded(origin.payload)
        /\ origin.payload # "opaque"
    BY <1>3, <1>6 DEF Encoded, Inv, CarriedWhole
  <2> HIDE DEF back
  <2>3. CarriedWhole'
    BY <1>2, <1>4, <2>1, <2>2 DEF Inv, CarriedWhole
  <2> QED BY <1>1, <1>2, <1>4, <1>7, <2>1, <2>3 DEF Inv, TypeOK, HopsConserved
<1> QED BY <1>5, <1>6

LEMMA InvStays == Inv /\ [Next]_vars => Inv'
BY HopKeeps, WireKeeps DEF Next, vars, Inv, TypeOK, HopsConserved, CarriedWhole

LEMMA InvHolds == Spec => []Inv
BY InitInv, InvStays, PTL DEF Spec

(* Every envelope that a user of MessageEnvelope can hold passes validate.  *)
THEOREM EnvelopeTypeCorrect == Spec => []TypeOK
<1>1. Inv => TypeOK
  BY DEF Inv
<1> QED BY <1>1, InvHolds, PTL

(* The hop path lists exactly the nodes of the with_hop calls that were     *)
(* accepted, and their number and the time to live add up to the time to    *)
(* live of the start: hops are bounded.                                     *)
THEOREM HopsCorrect == Spec => []HopsConserved
<1>1. Inv => HopsConserved
  BY DEF Inv
<1> QED BY <1>1, InvHolds, PTL

(* with_hop raises for want of time to live and for nothing else, and a     *)
(* call that raises leaves the envelope it was called on as it was.         *)
THEOREM HopFailureCorrect == Spec => HopFailsAtZero
<1>1. Inv => \A n \in Nodes : WithHop(n) =>
               /\ raised' <=> envelope.ttl = 0
               /\ raised' => envelope' = envelope
  BY HopKeeps
<1> QED BY <1>1, InvHolds, PTL DEF HopFailsAtZero

(* to_dict and from_dict lose and confuse no field: whatever number of hops *)
(* and of trips over the wire, an envelope is what its factory made, but    *)
(* for its hops and for what JSON makes of its payload.                     *)
THEOREM WireCorrect == Spec => []CarriedWhole
<1>1. Inv => CarriedWhole
  BY DEF Inv
<1> QED BY <1>1, InvHolds, PTL
=============================================================================
