------------------------------ MODULE Envelope ------------------------------
(***************************************************************************)
(* MessageEnvelope: the factories and their validation, with_hop, and the  *)
(* way to the wire and back, as the calls a user of the class can make on  *)
(* one envelope.  No broker of this release uses it.                       *)
(*                                                                         *)
(* An envelope is a record of the twelve fields of the dataclass; what     *)
(* to_dict returns is a record with the keys of the wire format.  A call   *)
(* that raises leaves the envelope as it was.                              *)
(***************************************************************************)
EXTENDS Integers, Sequences

CONSTANTS
  Names,        (* texts that are not empty                                  *)
  Nodes,        (* ids of nodes, DEFAULT_NODE_ID among them                  *)
  DefaultNode,  (* DEFAULT_NODE_ID                                           *)
  DefaultTtl,   (* DEFAULT_TTL                                               *)
  Empty, None,  (* the empty text, and no text                               *)
  Uuid,         (* what uuid4 returns                                        *)
  Ttls          (* values of ttl that callers pass                           *)

ASSUME EnvelopeAssumption ==
  /\ Uuid \notin {Empty, None} /\ Names \cap {Empty, None} = {}
  /\ DefaultNode \in Nodes
  /\ Ttls \subseteq Int /\ DefaultTtl \in Int

VARIABLES
  envelope,     (* the envelope at hand                                      *)
  origin,       (* history: the envelope as the factory made it              *)
  hops,         (* history: the nodes that with_hop was called for           *)
  wired,        (* history: whether it came from JSON                        *)
  raised        (* history: whether the last call raised                     *)

vars == <<envelope, origin, hops, wired, raised>>

Types == {"event", "request", "reply", "error", "system", "heartbeat"}
Texts == Names \cup {Empty, None}
Given(text) == text \notin {Empty, None}

(* Payloads: "plain" is what JSON can carry, "keyed" has keys that are no   *)
(* strings, "opaque" has values JSON refuses, "text" is no dictionary.      *)
Payloads == {"plain", "empty", "keyed", "opaque", "text"}

(* When an envelope is stamped: by its factory, or by from_dict.            *)
Times == {"made", "read"}

Envelopes ==
  [message_id : {Uuid, Empty}, correlation_id : Texts \cup {Uuid}, sender : Texts,
   target : Texts, topic : Texts, message_type : Types, timestamp : Times,
   source_node : Nodes, target_node : Nodes \cup {None}, ttl : Int,
   hop_path : Seq(Nodes), payload : Payloads]

(* A factory passes on what it was given and takes the defaults for the rest.*)
Make(type, s, t, tp, c, p, nodes, ttl) ==
  [message_id |-> Uuid, correlation_id |-> c, sender |-> s, target |-> t, topic |-> tp,
   message_type |-> type, timestamp |-> "made", source_node |-> nodes[1],
   target_node |-> nodes[2], ttl |-> ttl, hop_path |-> << >>, payload |-> p]

(* validate.                                                                *)
Valid(e) ==
  /\ Given(e.message_id) /\ Given(e.sender) /\ e.payload # "text"
  /\ e.message_type \in Types /\ e.ttl >= 0
  /\ e.message_type = "event" => Given(e.topic)
  /\ e.message_type = "request" => Given(e.target)
  /\ e.message_type = "reply" => Given(e.target) /\ Given(e.correlation_id)

-----------------------------------------------------------------------------
(* The factories.  Only requests and replies take a target node.            *)

Or(value, default) == IF value \in {Empty, None, "empty"} THEN default ELSE value

MadeFrom(s, p, n, ttl) ==
  {Make("event", s, None, t, None, p, <<n, None>>, ttl) : t \in Texts}
    \cup {Make("request", s, t, None, Or(c, Uuid), p, <<n, n2>>, ttl) :
            t \in Texts, c \in Texts, n2 \in Nodes \cup {None}}
    \cup {Make("reply", s, t, None, c, p, <<n, n2>>, ttl) :
            t \in Texts, c \in Texts, n2 \in Nodes \cup {None}}
    \cup {Make(type, s, t, None, c, p, <<n, None>>, ttl) :
            type \in {"error", "system"}, t \in Texts, c \in Texts}
    \cup {Make("heartbeat", s, None, None, None, Or(p, "plain"), <<n, None>>, ttl)}

Made == UNION {MadeFrom(s, p, n, ttl) :
                 s \in Texts, p \in Payloads, n \in Nodes, ttl \in Ttls}

Init ==
  /\ envelope \in {e \in Made : Valid(e)}
  /\ origin = envelope /\ hops = << >> /\ wired = FALSE /\ raised = FALSE

-----------------------------------------------------------------------------
(* The wire format.                                                         *)

(* Mutant: the target node was forgotten.                                   *)
ToDictNoTargetNode(e) ==
  [messageId |-> e.message_id, correlationId |-> e.correlation_id, sender |-> e.sender,
   target |-> e.target, topic |-> e.topic, messageType |-> e.message_type,
   timestamp |-> e.timestamp, sourceNode |-> e.source_node, ttl |-> e.ttl,
   hopPath |-> e.hop_path, payload |-> e.payload]

(* to_dict.                                                                 *)
ToDict(e) ==
  [messageId |-> e.message_id, correlationId |-> e.correlation_id, sender |-> e.sender,
   target |-> e.target, topic |-> e.topic, messageType |-> e.message_type,
   timestamp |-> e.timestamp, sourceNode |-> e.source_node, targetNode |-> e.target_node,
   ttl |-> e.ttl, hopPath |-> e.hop_path, payload |-> e.payload]

(* dict.get: a key that is missing gives the default.                       *)
Get(data, key, default) == IF key \in DOMAIN data THEN data[key] ELSE default

(* from_dict.                                                               *)
FromDict(data) ==
  [message_id     |-> Get(data, "messageId", Empty),
   correlation_id |-> Get(data, "correlationId", None),
   sender         |-> Get(data, "sender", Empty),
   target         |-> Get(data, "target", None),
   topic          |-> Get(data, "topic", None),
   message_type   |-> Get(data, "messageType", None),
   timestamp      |-> Get(data, "timestamp", "read"),
   source_node    |-> Get(data, "sourceNode", DefaultNode),
   target_node    |-> Get(data, "targetNode", None),
   ttl            |-> Get(data, "ttl", DefaultTtl),
   hop_path       |-> Get(data, "hopPath", << >>),
   payload        |-> Get(data, "payload", "empty")]

(* What JSON makes of a payload it accepts: keys become strings.            *)
Encoded(payload) == IF payload = "keyed" THEN "plain" ELSE payload

(* json.dumps and json.loads of such a dictionary.                          *)
Json(data) == [data EXCEPT !.payload = Encoded(@)]

-----------------------------------------------------------------------------
(* Mutant: the copy is made without __post_init__.                          *)
BecomesUnchecked(e) ==
  raised' = FALSE /\ envelope' = e /\ UNCHANGED origin

(* from_dict makes an envelope, and its __post_init__ validates it.         *)
Becomes(e) ==
  /\ raised' = ~Valid(e)
  /\ envelope' = IF Valid(e) THEN e ELSE envelope
  /\ UNCHANGED origin

Hop(n) ==
  FromDict([ToDict(envelope) EXCEPT !.hopPath = Append(@, n), !.ttl = @ - 1])

(* Mutant: the hop is appended and the time to live stays.                  *)
WithHopForFree(n) ==
  /\ Becomes(FromDict([ToDict(envelope) EXCEPT !.hopPath = Append(@, n)]))
  /\ hops' = Append(hops, n)
  /\ UNCHANGED wired

(* Mutant: the hop is appended to the envelope's own list, not to a copy.   *)
WithHopInPlace(n) ==
  /\ raised' = ~Valid(Hop(n))
  /\ envelope' = IF Valid(Hop(n)) THEN Hop(n)
                 ELSE [envelope EXCEPT !.hop_path = Append(@, n)]
  /\ hops' = IF Valid(Hop(n)) THEN Append(hops, n) ELSE hops
  /\ UNCHANGED <<origin, wired>>

(* with_hop: to_dict, two keys changed, from_dict.                          *)
WithHop(n) ==
  /\ Becomes(Hop(n))
  /\ hops' = IF Valid(Hop(n)) THEN Append(hops, n) ELSE hops
  /\ UNCHANGED wired

(* to_json and from_json.                                                   *)
Wire ==
  /\ IF envelope.payload = "opaque"
     THEN raised' = TRUE /\ UNCHANGED <<envelope, origin, wired>>
     ELSE Becomes(FromDict(Json(ToDict(envelope)))) /\ wired' = TRUE
  /\ UNCHANGED hops

Next == Wire \/ \E n \in Nodes : WithHop(n)

Spec == Init /\ [][Next]_vars

-----------------------------------------------------------------------------
(* Every envelope a user can hold passes validate.                          *)
TypeOK ==
  /\ envelope \in Envelopes /\ Valid(envelope)
  /\ origin \in Envelopes /\ Valid(origin)
  /\ hops \in Seq(Nodes) /\ wired \in BOOLEAN /\ raised \in BOOLEAN

(* Whatever way an envelope takes, over the wire or not, its hop path is    *)
(* the nodes it passed, each of which took one off its time to live: no     *)
(* loop of nodes forwards it for ever.                                      *)
HopsConserved ==
  /\ envelope.hop_path = hops
  /\ envelope.ttl + Len(hops) = origin.ttl
  /\ Len(hops) <= origin.ttl

(* with_hop raises for an envelope exactly when its time to live is used    *)
(* up, and a call that raises leaves the envelope and its hop path alone: an*)
(* envelope that was accepted once is never refused on its way.             *)
HopFailsAtZero ==
  [][\A n \in Nodes : WithHop(n) =>
       /\ raised' <=> envelope.ttl = 0
       /\ raised' => envelope' = envelope]_vars

(* Every hop and every trip over the wire takes an envelope apart into the  *)
(* keys of the wire format and puts it together again: after any number of  *)
(* them it is still the envelope the factory made, field by field, but for  *)
(* its hops and for what JSON, once, makes of its payload; and what JSON    *)
(* refuses never got there.                                                 *)
Identity == {"message_id", "correlation_id", "sender", "target", "topic",
             "message_type", "timestamp", "source_node", "target_node"}

CarriedWhole ==
  /\ \A field \in Identity : envelope[field] = origin[field]
  /\ envelope.payload = IF wired THEN Encoded(origin.payload) ELSE origin.payload
  /\ wired => origin.payload # "opaque"
=============================================================================
