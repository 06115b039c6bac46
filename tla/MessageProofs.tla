---------------------------- MODULE MessageProofs ----------------------------
(***************************************************************************)
(* What travels through the queues of RequestReply: where each message     *)
(* comes from and that there is one per call.  From that follow that a     *)
(* request is handled at most once and that a call takes no other call's   *)
(* reply, for every set of modules and calls: as long as the peers of older *)
(* releases keep to LegacyRoles, which RepliesAreRecognised needs.  Without *)
(* it a late reply of an older handler is dispatched (RepliesNotDispatched).*)
(***************************************************************************)
EXTENDS RequestReplyProofs

Contents(s) == {s[i] : i \in 1..Len(s)}

NoRepeats(s) == \A i, j \in 1..Len(s) : s[i].cid = s[j].cid => i = j

(* The messages in all queues.                                              *)
Held == UNION {Contents(chan[p]) : p \in Places}

QueuesDistinct ==
  /\ \A p \in Places : NoRepeats(chan[p])
  /\ \A p, q \in Places : p # q =>
       \A x \in Contents(chan[p]), y \in Contents(chan[q]) : x.cid # y.cid

(* A message is in a queue of its sender until the broker has routed it,    *)
(* and in a queue of its target from then on.                               *)
Mail(p) ==
  {msg \in Message :
     p[2] = IF p[1] \in {"tx", "dealer", "routerIn"} THEN msg.src ELSE msg.dst}

Located == \A p \in Places : chan[p] \in Seq(Mail(p))

(* It is the request of a call that no handler has begun to work on, or the *)
(* reply to a call that its target's handler has dealt with.                *)
Genuine(msg) ==
  /\ pc[msg.cid] # "idle"
  /\ \/ msg = Request(msg.cid) /\ handled[msg.cid] = 0
     \/ /\ msg = Reply(To[msg.cid], Request(msg.cid))
        /\ handled[msg.cid] = 1
        /\ To[msg.cid] \in Handlers

InHand ==
  \A m \in Modules : current[m] # None =>
    /\ current[m] = Request(current[m].cid)
    /\ To[current[m].cid] = m
    /\ m \in Handlers
    /\ pc[current[m].cid] # "idle"
    /\ handled[current[m].cid] = 1
    /\ \A x \in Held : x.cid # current[m].cid

HandledCount ==
  \A c \in Calls : handled[c] \in {0, 1} /\ (pc[c] = "idle" => handled[c] = 0)

(* A call to its own module that has taken its echo has no message left; so  *)
(* no handler will see it.                                                  *)
Echoes ==
  \A c \in Calls \ RemoteCalls : slot[c] # None =>
    \/ /\ slot[c] = Request(c) /\ handled[c] = 0
       /\ \A x \in Held : x.cid # c
    \/ slot[c] = Reply(To[c], Request(c)) /\ handled[c] = 1

MessageInv ==
  /\ Located
  /\ QueuesDistinct
  /\ \A msg \in Held : Genuine(msg)
  /\ InHand
  /\ HandledCount
  /\ ReplyIntegrity
  /\ Echoes

-----------------------------------------------------------------------------
(* Sequences of messages.                                                   *)

LEMMA TailContents ==
  ASSUME NEW s \in Seq(Message), s # << >>
  PROVE  /\ Head(s) \in Contents(s)
         /\ Contents(Tail(s)) \subseteq Contents(s)
         /\ NoRepeats(s) => /\ NoRepeats(Tail(s))
                            /\ \A x \in Contents(Tail(s)) : x.cid # Head(s).cid
<1>1. /\ Len(s) \in Nat \ {0} /\ Head(s) = s[1]
      /\ Tail(s) \in Seq(Message) /\ Len(Tail(s)) = Len(s) - 1
      /\ \A i \in 1..(Len(s) - 1) : Tail(s)[i] = s[i + 1]
  OBVIOUS
<1>2. Head(s) \in Contents(s)
  BY <1>1 DEF Contents
<1>3. Contents(Tail(s)) \subseteq Contents(s)
  <2> SUFFICES ASSUME NEW i \in 1..(Len(s) - 1) PROVE s[i + 1] \in Contents(s)
    BY <1>1 DEF Contents
  <2> QED BY <1>1 DEF Contents
<1>4. ASSUME NoRepeats(s)
      PROVE  NoRepeats(Tail(s)) /\ \A x \in Contents(Tail(s)) : x.cid # Head(s).cid
  <2>1. ASSUME NEW i \in 1..(Len(s) - 1), NEW j \in 1..(Len(s) - 1), s[i + 1].cid = s[j + 1].cid
        PROVE  i = j
    BY <1>1, <1>4, <2>1 DEF NoRepeats
  <2>2. ASSUME NEW i \in 1..(Len(s) - 1) PROVE s[i + 1].cid # s[1].cid
    BY <1>1, <1>4 DEF NoRepeats
  <2>3. NoRepeats(Tail(s))
    BY <1>1, <2>1 DEF NoRepeats
  <2>4. \A x \in Contents(Tail(s)) : x.cid # Head(s).cid
    BY <1>1, <2>2 DEF Contents
  <2> QED BY <2>3, <2>4
<1> QED BY <1>2, <1>3, <1>4

LEMMA AppendContents ==
  ASSUME NEW s \in Seq(Message), NEW msg \in Message
  PROVE  /\ Contents(Append(s, msg)) = Contents(s) \cup {msg}
         /\ (NoRepeats(s) /\ \A x \in Contents(s) : x.cid # msg.cid)
              => NoRepeats(Append(s, msg))
<1>1. /\ Len(s) \in Nat
      /\ Append(s, msg) \in Seq(Message) /\ Len(Append(s, msg)) = Len(s) + 1
      /\ \A i \in 1..Len(s) : Append(s, msg)[i] = s[i]
      /\ Append(s, msg)[Len(s) + 1] = msg
  OBVIOUS
<1>2. \A i : i \in 1..(Len(s) + 1) <=> (i \in 1..Len(s) \/ i = Len(s) + 1)
  BY <1>1
<1>3. Contents(Append(s, msg)) = Contents(s) \cup {msg}
  BY <1>1, <1>2 DEF Contents
<1>4. ASSUME NoRepeats(s), \A x \in Contents(s) : x.cid # msg.cid
      PROVE  NoRepeats(Append(s, msg))
  BY <1>1, <1>2, <1>4 DEF NoRepeats, Contents
<1> QED BY <1>3, <1>4

LEMMA EmptyContents == Contents(<< >>) = {} /\ NoRepeats(<< >>)
BY DEF Contents, NoRepeats

-----------------------------------------------------------------------------
(* What the steps do to the queues as a whole.                              *)

LEMMA TakeEffect ==
  ASSUME NEW stage \in Stages, NEW m \in Modules, Queues, Located, QueuesDistinct,
         chan[<<stage, m>>] # << >>, Take(stage, m)
  PROVE  /\ Located' /\ QueuesDistinct' /\ Held' \subseteq Held
         /\ Head(chan[<<stage, m>>]) \in Held \cap Mail(<<stage, m>>)
         /\ \A x \in Held' : x.cid # Head(chan[<<stage, m>>]).cid
<1> DEFINE p == <<stage, m>>
           h == Head(chan[p])
<1>1. /\ p \in Places /\ chan[p] \in Seq(Message) /\ chan[p] # << >>
      /\ chan[p] \in Seq(Mail(p))
  BY PlaceIsPair DEF Queues, Located
<1>2. /\ \A q \in Places \ {p} : chan'[q] = chan[q]
      /\ chan'[p] = Tail(chan[p])
  BY <1>1 DEF Queues, Take
<1>3. Located'
  <2>1. Tail(chan[p]) \in Seq(Mail(p))
    BY <1>1
  <2> QED BY <1>2, <2>1 DEF Located, Mail
<1>4. /\ h \in Contents(chan[p])
      /\ Contents(chan'[p]) \subseteq Contents(chan[p])
      /\ NoRepeats(chan'[p])
      /\ \A x \in Contents(chan'[p]) : x.cid # h.cid
  BY <1>1, <1>2, TailContents DEF QueuesDistinct
<1>5. \A q \in Places : Contents(chan'[q]) \subseteq Contents(chan[q]) /\ NoRepeats(chan'[q])
  BY <1>2, <1>4 DEF QueuesDistinct
<1>6. QueuesDistinct'
  BY <1>5 DEF QueuesDistinct
<1>7. Held' \subseteq Held
  BY <1>5 DEF Held
<1>8. h \in Held \cap Mail(p)
  BY <1>1, <1>4 DEF Held
<1>9. \A q \in Places : \A x \in Contents(chan'[q]) : x.cid # h.cid
  BY <1>1, <1>2, <1>4 DEF QueuesDistinct
<1>10. \A x \in Held' : x.cid # h.cid
  BY <1>9 DEF Held
<1> QED BY <1>3, <1>6, <1>7, <1>8, <1>10

LEMMA MoveEffect ==
  ASSUME NEW stage \in Stages, NEW m \in Modules, NEW stage2 \in Stages,
         NEW m2 \in Modules, stage # stage2, Queues, Located, QueuesDistinct,
         chan[<<stage, m>>] # << >>, Move(stage, m, stage2, m2),
         Head(chan[<<stage, m>>]) \in Mail(<<stage2, m2>>)
  PROVE  Located' /\ QueuesDistinct' /\ Held' \subseteq Held
<1> DEFINE p == <<stage, m>>
           r == <<stage2, m2>>
           h == Head(chan[p])
<1>1. /\ p \in Places /\ chan[p] \in Seq(Message) /\ chan[p] # << >>
      /\ chan[p] \in Seq(Mail(p)) /\ h \in Message
      /\ r \in Places /\ chan[r] \in Seq(Message) /\ chan[r] \in Seq(Mail(r)) /\ p # r
  BY PlaceIsPair, HeadIsMessage DEF Queues, Located
<1>2. /\ \A q \in Places \ {p, r} : chan'[q] = chan[q]
      /\ chan'[p] = Tail(chan[p])
      /\ chan'[r] = Append(chan[r], h)
  BY <1>1 DEF Queues, Move
<1>3. Located'
  <2>1. Tail(chan[p]) \in Seq(Mail(p)) /\ Append(chan[r], h) \in Seq(Mail(r))
    BY <1>1
  <2>2. \A q \in Places : chan'[q] \in Seq(Mail(q))
    BY <1>2, <2>1 DEF Located
  <2> QED BY <2>2 DEF Located, Mail
<1>4. /\ h \in Contents(chan[p])
      /\ Contents(chan'[p]) \subseteq Contents(chan[p])
      /\ NoRepeats(chan'[p])
      /\ \A x \in Contents(chan'[p]) : x.cid # h.cid
  <2>1. NoRepeats(chan[p])
    BY <1>1 DEF QueuesDistinct
  <2> HIDE DEF p, r, h
  <2>2. /\ Head(chan[p]) \in Contents(chan[p])
        /\ Contents(Tail(chan[p])) \subseteq Contents(chan[p])
        /\ NoRepeats(Tail(chan[p]))
        /\ \A x \in Contents(Tail(chan[p])) : x.cid # Head(chan[p]).cid
    BY <1>1, <2>1, TailContents
  <2> QED BY <1>2, <2>2 DEF h
<1>5. \A q \in Places \ {p} : \A x \in Contents(chan[q]) : x.cid # h.cid
  BY <1>1, <1>4 DEF QueuesDistinct
<1>6. Contents(chan'[r]) = Contents(chan[r]) \cup {h} /\ NoRepeats(chan'[r])
  BY <1>1, <1>2, <1>5, AppendContents DEF QueuesDistinct
<1>7. /\ \A q \in Places \ {r} : Contents(chan'[q]) \subseteq Contents(chan[q])
      /\ \A q \in Places \ {r} : \A x \in Contents(chan'[q]) : x.cid # h.cid
      /\ \A q \in Places : NoRepeats(chan'[q])
  BY <1>1, <1>2, <1>4, <1>5, <1>6 DEF QueuesDistinct
<1>8. QueuesDistinct'
  <2> SUFFICES ASSUME NEW q1 \in Places, NEW q2 \in Places, q1 # q2,
                      NEW x \in Contents(chan'[q1]), NEW y \in Contents(chan'[q2])
               PROVE  x.cid # y.cid
    BY <1>7 DEF QueuesDistinct
  <2>1. CASE q1 # r /\ q2 # r
    BY <1>7, <2>1 DEF QueuesDistinct
  <2>2. CASE q1 = r
    BY <1>6, <1>7, <2>2 DEF QueuesDistinct
  <2>3. CASE q2 = r
    BY <1>6, <1>7, <2>3 DEF QueuesDistinct
  <2> QED BY <2>1, <2>2, <2>3
<1>9. Held' \subseteq Held
  <2>1. \A q \in Places : Contents(chan'[q]) \subseteq Held
    BY <1>1, <1>4, <1>6, <1>7 DEF Held
  <2> QED BY <2>1 DEF Held
<1> QED BY <1>3, <1>8, <1>9

LEMMA PutEffect ==
  ASSUME NEW stage \in Stages, NEW m \in Modules, NEW msg \in Mail(<<stage, m>>),
         Queues, Located, QueuesDistinct, Put(stage, m, msg),
         \A x \in Held : x.cid # msg.cid
  PROVE  Located' /\ QueuesDistinct' /\ Held' \subseteq Held \cup {msg}
<1> DEFINE r == <<stage, m>>
<1>1. r \in Places /\ chan[r] \in Seq(Message) /\ chan[r] \in Seq(Mail(r)) /\ msg \in Message
  BY PlaceIsPair DEF Queues, Located, Mail
<1>2. /\ \A q \in Places \ {r} : chan'[q] = chan[q]
      /\ chan'[r] = Append(chan[r], msg)
  BY <1>1 DEF Queues, Put
<1>3. Located'
  <2>1. Append(chan[r], msg) \in Seq(Mail(r))
    BY <1>1
  <2> QED BY <1>2, <2>1 DEF Located, Mail
<1>4. \A q \in Places : \A x \in Contents(chan[q]) : x.cid # msg.cid
  BY DEF Held
<1>5. Contents(chan'[r]) = Contents(chan[r]) \cup {msg} /\ NoRepeats(chan'[r])
  BY <1>1, <1>2, <1>4, AppendContents DEF QueuesDistinct
<1>6. QueuesDistinct'
  <2> SUFFICES ASSUME NEW q1 \in Places, NEW q2 \in Places, q1 # q2,
                      NEW x \in Contents(chan'[q1]), NEW y \in Contents(chan'[q2])
               PROVE  x.cid # y.cid
    BY <1>2, <1>5 DEF QueuesDistinct
  <2>1. CASE q1 # r /\ q2 # r
    BY <1>2, <2>1 DEF QueuesDistinct
  <2>2. CASE q1 = r
    BY <1>1, <1>2, <1>4, <1>5, <2>2 DEF QueuesDistinct
  <2>3. CASE q2 = r
    BY <1>1, <1>2, <1>4, <1>5, <2>3 DEF QueuesDistinct
  <2> QED BY <2>1, <2>2, <2>3
<1>7. Held' \subseteq Held \cup {msg}
  <2>1. \A q \in Places : Contents(chan'[q]) \subseteq Held \cup {msg}
    BY <1>1, <1>2, <1>5 DEF Held
  <2> QED BY <2>1 DEF Held
<1> QED BY <1>3, <1>6, <1>7

(* Sockets that close and a broker that stops only empty queues.            *)
LEMMA ClearEffect ==
  ASSUME Queues, Located, QueuesDistinct,
         \A p \in Places : chan'[p] = chan[p] \/ chan'[p] = << >>
  PROVE  Located' /\ QueuesDistinct' /\ Held' \subseteq Held
<1>1. \A p \in Places : chan'[p] \in Seq(Mail(p))
  <2> SUFFICES ASSUME NEW p \in Places PROVE chan'[p] \in Seq(Mail(p))
    OBVIOUS
  <2>1. chan[p] \in Seq(Mail(p))
    BY DEF Located
  <2>2. << >> \in Seq(Mail(p))
    OBVIOUS
  <2>3. chan'[p] = chan[p] \/ chan'[p] = << >>
    OBVIOUS
  <2> QED BY <2>1, <2>2, <2>3
<1>2. \A p \in Places : Contents(chan'[p]) \subseteq Contents(chan[p]) /\ NoRepeats(chan'[p])
  BY EmptyContents DEF QueuesDistinct
<1>3. Located'
  BY <1>1 DEF Located, Mail
<1>4. Held' \subseteq Held
  BY <1>2 DEF Held
<1>5. QueuesDistinct'
  BY <1>2 DEF QueuesDistinct
<1> QED BY <1>3, <1>4, <1>5

LEMMA HeadIsMail ==
  ASSUME NEW p \in Places, Located, chan[p] # << >>
  PROVE  Head(chan[p]) \in Mail(p)
BY DEF Located

LEMMA HeldAreMessages ==
  ASSUME Queues
  PROVE  Held \subseteq Message
<1>1. \A p \in Places : Contents(chan[p]) \subseteq Message
  BY DEF Queues, Contents
<1> QED BY <1>1 DEF Held

-----------------------------------------------------------------------------
(* Steps that start no call, take up no request and accept no reply: they   *)
(* pass messages on, lose them, or forget a reply.                          *)
LEMMA FramePreserved ==
  ASSUME TypeOK, MessageInv,
         Located', QueuesDistinct', Held' \subseteq Held,
         handled' = handled,
         \A m \in Modules : current'[m] = current[m] \/ current'[m] = None,
         \A c \in Calls : pc'[c] = "idle" <=> pc[c] = "idle",
         \A c \in Calls : slot'[c] = slot[c] \/ slot'[c] = None
  PROVE  MessageInv'
<1>1. \A msg \in Held' : Genuine(msg)'
  <2> SUFFICES ASSUME NEW msg \in Held' PROVE Genuine(msg)'
    OBVIOUS
  <2>1. msg \in Held /\ msg.cid \in Calls
    BY HeldAreMessages DEF TypeOK, Queues, Message
  <2> QED BY <2>1 DEF MessageInv, Genuine
<1>2. InHand'
  <2> SUFFICES ASSUME NEW m \in Modules, current'[m] # None
               PROVE  /\ current'[m] = Request(current'[m].cid)
                      /\ To[current'[m].cid] = m
                      /\ m \in Handlers
                      /\ pc'[current'[m].cid] # "idle"
                      /\ handled'[current'[m].cid] = 1
                      /\ \A x \in Held' : x.cid # current'[m].cid
    BY DEF InHand
  <2>1. current'[m] = current[m] /\ current[m].cid \in Calls
    BY DEF TypeOK, Message
  <2> QED BY <2>1 DEF MessageInv, InHand
<1>3. HandledCount'
  BY DEF MessageInv, HandledCount
<1>4. ReplyIntegrity'
  BY DEF MessageInv, ReplyIntegrity, RemoteCalls
<1>5. Echoes'
  BY DEF MessageInv, Echoes, RemoteCalls
<1> QED BY <1>1, <1>2, <1>3, <1>4, <1>5 DEF MessageInv

LEMMA MessagesInitially == Init => MessageInv
<1> SUFFICES ASSUME Init PROVE MessageInv
  OBVIOUS
<1>1. \A p \in Places : chan[p] = << >>
  BY DEF Init
<1>2. Held = {}
  BY <1>1, EmptyContents DEF Held
<1>3. Located
  <2>1. \A p \in Places : << >> \in Seq(Mail(p))
    OBVIOUS
  <2> QED BY <1>1, <2>1 DEF Located
<1>4. QueuesDistinct
  BY <1>1, EmptyContents DEF QueuesDistinct
<1>5. InHand /\ HandledCount /\ ReplyIntegrity /\ Echoes
  BY DEF Init, InHand, HandledCount, ReplyIntegrity, Echoes, RemoteCalls
<1> QED BY <1>2, <1>3, <1>4, <1>5 DEF MessageInv

(* A new call has no message in the system yet.                             *)
LEMMA SendRequestPreserved ==
  ASSUME TypeOK, PendingConsistent, MessageInv, NEW c \in Calls, SendRequest(c)
  PROVE  MessageInv'
<1> DEFINE m == From[c]
<1>1. /\ m \in Modules /\ pc[c] = "idle" /\ pc' = [pc EXCEPT ![c] = "queued"]
      /\ Put("tx", m, Request(c))
      /\ slot' = slot /\ current' = current /\ handled' = handled
  BY CallAssumption DEF SendRequest, threadVars
<1>2. \A x \in Held : x.cid \in Calls /\ x.cid # c
  BY <1>1, HeldAreMessages DEF MessageInv, Genuine, TypeOK, Queues, Message
<1>3. Request(c) \in Mail(<<"tx", m>>) /\ Request(c).cid = c
  BY RequestIsMessage DEF Mail, Request
<1>4. Located' /\ QueuesDistinct' /\ Held' \subseteq Held \cup {Request(c)}
  <2>1. \A x \in Held : x.cid # Request(c).cid
    BY <1>2, <1>3
  <2> QED BY <1>1, <1>3, <2>1, PutEffect DEF MessageInv, TypeOK, Queues, Stages
<1>5. handled[c] = 0
  BY <1>1 DEF MessageInv, HandledCount
<1>6. pc'[c] = "queued" /\ \A d \in Calls \ {c} : pc'[d] = pc[d]
  BY <1>1 DEF TypeOK
<1>7. \A msg \in Held' : Genuine(msg)'
  <2> SUFFICES ASSUME NEW msg \in Held' PROVE Genuine(msg)'
    OBVIOUS
  <2>1. CASE msg = Request(c)
    BY <1>1, <1>3, <1>5, <1>6, <2>1 DEF Genuine
  <2>2. CASE msg \in Held
    BY <1>1, <1>2, <1>6, <2>2 DEF Genuine, MessageInv
  <2> QED BY <1>4, <2>1, <2>2
<1>8. InHand'
  <2> SUFFICES ASSUME NEW m2 \in Modules, current[m2] # None
               PROVE  /\ current[m2] = Request(current[m2].cid)
                      /\ To[current[m2].cid] = m2
                      /\ m2 \in Handlers
                      /\ pc'[current[m2].cid] # "idle"
                      /\ handled[current[m2].cid] = 1
                      /\ \A x \in Held' : x.cid # current[m2].cid
    BY <1>1 DEF InHand
  <2>1. current[m2].cid \in Calls /\ current[m2].cid # c
    BY <1>1 DEF TypeOK, Message, MessageInv, InHand
  <2> QED BY <1>3, <1>4, <1>6, <2>1 DEF MessageInv, InHand
<1>9. HandledCount' /\ ReplyIntegrity'
  BY <1>1, <1>6 DEF MessageInv, HandledCount, ReplyIntegrity, RemoteCalls
<1>10. Echoes'
  <2>1. slot[c] = None
    BY <1>1 DEF PendingConsistent
  <2> QED BY <1>1, <1>3, <1>4, <2>1 DEF MessageInv, Echoes, RemoteCalls
<1> QED BY <1>4, <1>7, <1>8, <1>9, <1>10 DEF MessageInv

(* A message whose correlation id is pending is the reply, unless the call  *)
(* is one to its own module.                                                *)
LEMMA AcceptReplyPreserved ==
  ASSUME TypeOK, PendingConsistent, MessageInv, NEW m \in Modules, AcceptReply(m)
  PROVE  MessageInv'
<1> DEFINE h == Head(chan[<<"rx", m>>])
<1>1. /\ chan[<<"rx", m>>] # << >> /\ Take("rx", m)
      /\ h.cid \in pending[m] /\ slot' = [slot EXCEPT ![h.cid] = h]
      /\ pc' = pc /\ current' = current /\ handled' = handled
  BY DEF AcceptReply, Awaited
<1>2. /\ Located' /\ QueuesDistinct' /\ Held' \subseteq Held
      /\ h \in Held /\ h \in Mail(<<"rx", m>>)
  BY <1>1, TakeEffect DEF MessageInv, TypeOK, Queues, Stages
<1>3. h.cid \in Calls /\ From[h.cid] = m
  BY <1>1 DEF PendingConsistent, TypeOK
<1>4. h.dst = m
  BY <1>2 DEF Mail
<1>5. \A msg \in Held' : Genuine(msg)'
  BY <1>1, <1>2 DEF MessageInv, Genuine
<1>6. InHand' /\ HandledCount'
  BY <1>1, <1>2 DEF MessageInv, InHand, HandledCount
<1>7. ReplyIntegrity'
  <2> SUFFICES ASSUME NEW c \in RemoteCalls, slot'[c] # None
               PROVE  slot'[c] = Reply(To[c], Request(c)) /\ handled[c] = 1
    BY <1>1 DEF ReplyIntegrity
  <2>1. CASE c = h.cid
    <3>1. slot'[c] = h /\ Genuine(h)
      BY <1>1, <1>2, <1>3, <2>1 DEF TypeOK, MessageInv
    <3>2. h # Request(c)
      BY <1>3, <1>4, <2>1 DEF RemoteCalls, Request
    <3> QED BY <2>1, <3>1, <3>2 DEF Genuine
  <2>2. CASE c # h.cid
    BY <1>1, <2>2 DEF MessageInv, ReplyIntegrity, RemoteCalls, TypeOK
  <2> QED BY <2>1, <2>2
<1>8. Echoes'
  <2> SUFFICES ASSUME NEW c \in Calls \ RemoteCalls, slot'[c] # None
               PROVE  \/ /\ slot'[c] = Request(c) /\ handled[c] = 0
                         /\ \A x \in Held' : x.cid # c
                      \/ slot'[c] = Reply(To[c], Request(c)) /\ handled[c] = 1
    BY <1>1 DEF Echoes, RemoteCalls
  <2>1. CASE c = h.cid
    <3>1. slot'[c] = h /\ Genuine(h)
      BY <1>1, <1>2, <1>3, <2>1 DEF TypeOK, MessageInv
    <3>2. \A x \in Held' : x.cid # c
      BY <1>1, <2>1, TakeEffect DEF MessageInv, TypeOK, Queues, Stages
    <3> QED BY <2>1, <3>1, <3>2 DEF Genuine
  <2>2. CASE c # h.cid
    BY <1>1, <1>2, <2>2 DEF MessageInv, Echoes, RemoteCalls, TypeOK
  <2> QED BY <2>1, <2>2
<1> QED BY <1>2, <1>5, <1>6, <1>7, <1>8 DEF MessageInv

(* Only a request looks like one: the reply of a handler is typed, or comes *)
(* from the node.                                                           *)
LEMMA RepliesAreRecognised ==
  ASSUME LegacyRoles, NEW msg, Genuine(msg), LooksLikeRequest(msg), msg.cid \in Calls
  PROVE  msg = Request(msg.cid) /\ handled[msg.cid] = 0
<1> SUFFICES ASSUME msg = Reply(To[msg.cid], Request(msg.cid)), To[msg.cid] \in Handlers
             PROVE  FALSE
  BY DEF Genuine
<1>1. msg.src = To[msg.cid] /\ msg.type = TypeOf(To[msg.cid], "reply")
  BY DEF Reply
<1> QED BY <1>1 DEF LegacyRoles, LooksLikeRequest, TypeOf

LEMMA DispatchPreserved ==
  ASSUME LegacyRoles, TypeOK, MessageInv, NEW m \in Modules, Dispatch(m)
  PROVE  MessageInv'
<1> DEFINE h == Head(chan[<<"rx", m>>])
<1>1. /\ chan[<<"rx", m>>] # << >> /\ Take("rx", m) /\ m \in Handlers
      /\ LooksLikeRequest(h)
      /\ current' = [current EXCEPT ![m] = h]
      /\ handled' = [handled EXCEPT ![h.cid] = IF @ < 2 THEN @ + 1 ELSE 2]
      /\ pc' = pc /\ slot' = slot
  BY DEF Dispatch, threadVars
<1>2. /\ Located' /\ QueuesDistinct' /\ Held' \subseteq Held
      /\ h \in Held /\ h \in Mail(<<"rx", m>>)
      /\ \A x \in Held' : x.cid # h.cid
  BY <1>1, TakeEffect DEF MessageInv, TypeOK, Queues, Stages
<1>3. h.cid \in Calls /\ \A x \in Held' : x.cid \in Calls
  BY <1>2, HeldAreMessages DEF TypeOK, Queues, Message
<1>4. /\ h = Request(h.cid) /\ handled[h.cid] = 0 /\ pc[h.cid] # "idle"
  BY <1>1, <1>2, <1>3, RepliesAreRecognised DEF MessageInv, Genuine
<1>5. To[h.cid] = m
  BY <1>2, <1>4 DEF Mail, Request
<1>6. handled'[h.cid] = 1 /\ \A c \in Calls \ {h.cid} : handled'[c] = handled[c]
  BY <1>1, <1>3, <1>4 DEF TypeOK
<1>7. \A msg \in Held' : Genuine(msg)'
  BY <1>1, <1>2, <1>3, <1>6 DEF MessageInv, Genuine
<1>8. InHand'
  <2> SUFFICES ASSUME NEW m2 \in Modules, current'[m2] # None
               PROVE  /\ current'[m2] = Request(current'[m2].cid)
                      /\ To[current'[m2].cid] = m2
                      /\ m2 \in Handlers
                      /\ pc'[current'[m2].cid] # "idle"
                      /\ handled'[current'[m2].cid] = 1
                      /\ \A x \in Held' : x.cid # current'[m2].cid
    BY DEF InHand
  <2>1. CASE m2 = m
    <3>1. current'[m2] = h
      BY <1>1, <2>1 DEF TypeOK
    <3> QED BY <1>1, <1>2, <1>4, <1>5, <1>6, <2>1, <3>1
  <2>2. CASE m2 # m
    <3>1. current'[m2] = current[m2] /\ current[m2].cid \in Calls
      BY <1>1, <2>2 DEF TypeOK, Message
    <3>2. current[m2].cid # h.cid
      BY <1>5, <2>2, <3>1 DEF MessageInv, InHand
    <3> QED BY <1>1, <1>2, <1>6, <3>1, <3>2 DEF MessageInv, InHand
  <2> QED BY <2>1, <2>2
<1>9. HandledCount'
  BY <1>1, <1>4, <1>6 DEF MessageInv, HandledCount
<1>10. ReplyIntegrity'
  BY <1>1, <1>4, <1>6 DEF MessageInv, ReplyIntegrity, RemoteCalls
<1>11. Echoes'
  <2>1. h.cid \in Calls \ RemoteCalls => slot[h.cid] = None
    BY <1>2, <1>4 DEF MessageInv, Echoes
  <2> QED BY <1>1, <1>2, <1>6, <2>1 DEF MessageInv, Echoes, RemoteCalls
<1> QED BY <1>2, <1>7, <1>8, <1>9, <1>10, <1>11 DEF MessageInv

LEMMA HandlerReturnsPreserved ==
  ASSUME TypeOK, HandlerInv, MessageInv, NEW m \in Modules, HandlerReturns(m)
  PROVE  MessageInv'
<1> DEFINE c == current[m].cid
           r == Reply(m, current[m])
<1>1. /\ current[m] # None /\ Put("tx", m, r)
      /\ current' = [current EXCEPT ![m] = None]
      /\ pc' = pc /\ slot' = slot /\ handled' = handled
  BY DEF HandlerReturns, HandlerInv, threadVars
<1>2. current[m] \in Message /\ c \in Calls
  BY <1>1 DEF TypeOK, Message
<1>3. /\ current[m] = Request(c) /\ To[c] = m /\ m \in Handlers
      /\ pc[c] # "idle" /\ handled[c] = 1 /\ \A x \in Held : x.cid # c
  BY <1>1 DEF MessageInv, InHand
<1>4. r \in Mail(<<"tx", m>>) /\ r.cid = c /\ r = Reply(To[c], Request(c))
  BY <1>2, <1>3, ReplyIsMessage DEF Mail, Reply
<1>5. Located' /\ QueuesDistinct' /\ Held' \subseteq Held \cup {r}
  <2>1. \A x \in Held : x.cid # r.cid
    BY <1>3, <1>4
  <2> HIDE DEF r
  <2> QED BY <1>1, <1>4, <2>1, PutEffect DEF MessageInv, TypeOK, Queues, Stages
<1>6. \A msg \in Held' : Genuine(msg)'
  BY <1>1, <1>3, <1>4, <1>5 DEF MessageInv, Genuine
<1>7. InHand'
  <2> SUFFICES ASSUME NEW m2 \in Modules, current'[m2] # None
               PROVE  /\ current'[m2] = Request(current'[m2].cid)
                      /\ To[current'[m2].cid] = m2
                      /\ m2 \in Handlers
                      /\ pc'[current'[m2].cid] # "idle"
                      /\ handled'[current'[m2].cid] = 1
                      /\ \A x \in Held' : x.cid # current'[m2].cid
    BY DEF InHand
  <2>1. m2 # m /\ current'[m2] = current[m2]
    BY <1>1 DEF TypeOK
  <2>2. current[m2].cid # c
    BY <1>3, <2>1 DEF MessageInv, InHand
  <2> QED BY <1>1, <1>4, <1>5, <2>1, <2>2 DEF MessageInv, InHand
<1>8. HandledCount' /\ ReplyIntegrity'
  BY <1>1 DEF MessageInv, HandledCount, ReplyIntegrity
<1>9. Echoes'
  BY <1>1, <1>3, <1>4, <1>5 DEF MessageInv, Echoes, RemoteCalls
<1> QED BY <1>5, <1>6, <1>7, <1>8, <1>9 DEF MessageInv

-----------------------------------------------------------------------------
LEMMA MessagesPreserved ==
  ASSUME LegacyRoles, TypeOK, HandlerInv, PendingConsistent, MessageInv, [Next]_vars
  PROVE  MessageInv'
<1> DEFINE Frame ==
      /\ Located' /\ QueuesDistinct' /\ Held' \subseteq Held
      /\ handled' = handled
      /\ \A m \in Modules : current'[m] = current[m] \/ current'[m] = None
      /\ \A c \in Calls : pc'[c] = "idle" <=> pc[c] = "idle"
      /\ \A c \in Calls : slot'[c] = slot[c] \/ slot'[c] = None
<1>0. Frame => MessageInv'
  BY FramePreserved
<1> USE DEF threadVars, ioVars
<1>1. ASSUME chan' = chan
      PROVE  Located' /\ QueuesDistinct' /\ Held' \subseteq Held
  BY <1>1 DEF MessageInv, Located, Mail, QueuesDistinct, Held
<1>2. CASE UNCHANGED vars
  BY <1>0, <1>1, <1>2 DEF vars
<1>3. ASSUME NEW c \in Calls, CallThread(c) PROVE MessageInv'
  <2>1. chan' = chan /\ handled' = handled /\ current' = current
    BY <1>3
    DEF CallThread, RegisterPending, WaitDone, WaitTimeout, PopReply, LatencyRaises, PopExpired
  <2>2. \A d \in Calls : pc'[d] = "idle" <=> pc[d] = "idle"
    BY <1>3
    DEF TypeOK, CallThread, RegisterPending, WaitDone, WaitTimeout, PopReply, LatencyRaises,
        PopExpired, Outcome
  <2>3. \A d \in Calls : slot'[d] = slot[d] \/ slot'[d] = None
    BY <1>3
    DEF TypeOK, CallThread, RegisterPending, WaitDone, WaitTimeout, PopReply, LatencyRaises,
        PopExpired, Outcome
  <2> QED BY <1>0, <1>1, <2>1, <2>2, <2>3
<1>4. ASSUME NEW m \in Modules,
             \/ IoDrained(m) \/ IoPollTimeout(m) \/ HandlerBreaks(m)
             \/ StopLoop(m) \/ Connect(m)
      PROVE  MessageInv'
  <2>1. chan' = chan /\ handled' = handled /\ pc' = pc /\ slot' = slot
    BY <1>4 DEF IoDrained, IoPollTimeout, HandlerBreaks, StopLoop, Connect
  <2>2. \A m2 \in Modules : current'[m2] = current[m2] \/ current'[m2] = None
    BY <1>4 DEF TypeOK, IoDrained, IoPollTimeout, HandlerBreaks, StopLoop, Connect
  <2> QED BY <1>0, <1>1, <2>1, <2>2
<1>5. ASSUME NEW m \in Modules, IoSend(m) PROVE MessageInv'
  <2>1. Head(chan[<<"tx", m>>]) \in Mail(<<"dealer", m>>)
    <3>1. <<"tx", m>> \in Places /\ chan[<<"tx", m>>] # << >> /\ Located
      BY <1>5, PlaceIsPair DEF IoSend, Stages, MessageInv
    <3>2. Head(chan[<<"tx", m>>]) \in Mail(<<"tx", m>>)
      BY <3>1, HeadIsMail
    <3> QED BY <3>2 DEF Mail
  <2>2. Located' /\ QueuesDistinct' /\ Held' \subseteq Held
    BY <1>5, <2>1, MoveEffect DEF IoSend, MessageInv, TypeOK, Queues, Stages
  <2> QED BY <1>0, <1>5, <2>2 DEF IoSend
<1>6. ASSUME NEW m \in Modules, Transmit(m) PROVE MessageInv'
  <2>1. Head(chan[<<"dealer", m>>]) \in Mail(<<"routerIn", m>>)
    <3>1. <<"dealer", m>> \in Places /\ chan[<<"dealer", m>>] # << >> /\ Located
      BY <1>6, PlaceIsPair DEF Transmit, Stages, MessageInv
    <3>2. Head(chan[<<"dealer", m>>]) \in Mail(<<"dealer", m>>)
      BY <3>1, HeadIsMail
    <3> QED BY <3>2 DEF Mail
  <2>2. Located' /\ QueuesDistinct' /\ Held' \subseteq Held
    BY <1>6, <2>1, MoveEffect DEF Transmit, MessageInv, TypeOK, Queues, Stages
  <2> QED BY <1>0, <1>6, <2>2 DEF Transmit
<1>7. ASSUME NEW m \in Modules, Deliver(m) PROVE MessageInv'
  <2>1. Head(chan[<<"routerOut", m>>]) \in Mail(<<"rx", m>>)
    <3>1. <<"routerOut", m>> \in Places /\ chan[<<"routerOut", m>>] # << >> /\ Located
      BY <1>7, PlaceIsPair DEF Deliver, Stages, MessageInv
    <3>2. Head(chan[<<"routerOut", m>>]) \in Mail(<<"routerOut", m>>)
      BY <3>1, HeadIsMail
    <3> QED BY <3>2 DEF Mail
  <2>2. Located' /\ QueuesDistinct' /\ Held' \subseteq Held
    BY <1>7, <2>1, MoveEffect DEF Deliver, MessageInv, TypeOK, Queues, Stages
  <2> QED BY <1>0, <1>7, <2>2 DEF Deliver
<1>8. ASSUME NEW m \in Modules, Route(m) PROVE MessageInv'
  <2> DEFINE h == Head(chan[<<"routerIn", m>>])
  <2>1. "routerIn" \in Stages /\ "routerOut" \in Stages /\ chan[<<"routerIn", m>>] # << >>
    BY <1>8 DEF Route, Received, Stages
  <2>2. h \in Message /\ h.dst \in Modules /\ h \in Mail(<<"routerOut", h.dst>>)
    BY <2>1, HeadIsMessage DEF TypeOK, Queues, Message, Mail
  <2>3. Move("routerIn", m, "routerOut", h.dst) \/ Take("routerIn", m)
    BY <1>8 DEF Route
  <2>4. Located' /\ QueuesDistinct' /\ Held' \subseteq Held
    BY <2>1, <2>2, <2>3, MoveEffect, TakeEffect DEF MessageInv, TypeOK, Queues
  <2> QED BY <1>0, <1>8, <2>4 DEF Route
<1>9. ASSUME NEW m \in Modules, DropMessage(m) PROVE MessageInv'
  <2>1. Located' /\ QueuesDistinct' /\ Held' \subseteq Held
    BY <1>9, TakeEffect DEF DropMessage, MessageInv, TypeOK, Queues, Stages
  <2> QED BY <1>0, <1>9, <2>1 DEF DropMessage
<1>10. ASSUME NEW m \in Modules, CloseSockets(m) \/ Disconnect(m) PROVE MessageInv'
  <2>1. \A p \in Places : chan'[p] = chan[p] \/ chan'[p] = << >>
    BY <1>10 DEF CloseSockets, Disconnect, TypeOK
  <2>2. Located' /\ QueuesDistinct' /\ Held' \subseteq Held
    BY <2>1, ClearEffect DEF MessageInv, TypeOK, Queues
  <2>3. handled' = handled /\ current' = current /\ pc' = pc /\ slot' = slot
    BY <1>10 DEF CloseSockets, Disconnect
  <2> QED BY <1>0, <2>2, <2>3
<1>11. CASE BrokerStart
  BY <1>0, <1>1, <1>11 DEF BrokerStart
<1>12. CASE BrokerStop
  <2>1. \A p \in Places : chan'[p] = chan[p] \/ chan'[p] = << >>
    BY <1>12 DEF BrokerStop
  <2>2. Located' /\ QueuesDistinct' /\ Held' \subseteq Held
    BY <2>1, ClearEffect DEF MessageInv, TypeOK, Queues
  <2> QED BY <1>0, <1>12, <2>2 DEF BrokerStop
<1>13. ASSUME NEW m \in Modules, RouteBreaks(m) PROVE MessageInv'
  <2>1. Located' /\ QueuesDistinct' /\ Held' \subseteq Held
    BY <1>13, TakeEffect DEF RouteBreaks, Received, MessageInv, TypeOK, Queues, Stages
  <2> QED BY <1>0, <1>13, <2>1 DEF RouteBreaks
<1> QED
  BY <1>2, <1>3, <1>4, <1>5, <1>6, <1>7, <1>8, <1>9, <1>10, <1>11, <1>12, <1>13,
     SendRequestPreserved, AcceptReplyPreserved, DispatchPreserved, HandlerReturnsPreserved
  DEF Next, IoThread, HandleFrames

LEMMA MessagesConsistent ==
  ASSUME LegacyRoles
  PROVE  Spec => []MessageInv
<1>1. TypeOK /\ HandlerInv /\ PendingConsistent /\ MessageInv /\ [Next]_vars => MessageInv'
  BY MessagesPreserved
<1> QED BY <1>1, MessagesInitially, ThreadsConsistent, PendingCorrect, PTL DEF Spec

-----------------------------------------------------------------------------
(* What a call to another module takes as its reply is the reply that its   *)
(* target's handler made to this very request.                              *)
THEOREM RepliesCorrect ==
  ASSUME LegacyRoles
  PROVE  Spec => []ReplyIntegrity
<1>1. MessageInv => ReplyIntegrity
  BY DEF MessageInv
<1> QED BY <1>1, MessagesConsistent, PTL

(* A call to its own module is answered by its echo and seen by no handler, *)
(* or handled once and answered by the handler's reply; never both.         *)
THEOREM EchoesCorrect ==
  ASSUME LegacyRoles
  PROVE  Spec => []EchoOrHandled
<1>1. MessageInv => EchoOrHandled
  BY DEF MessageInv, Echoes, EchoOrHandled
<1> QED BY <1>1, MessagesConsistent, PTL

(* Whatever is delayed, lost or late, and however often the broker stops, a *)
(* request is handled at most once and no reply is handled as a request, if *)
(* older peers are clients without a handler, or a node that sends none.    *)
THEOREM AtMostOnce ==
  ASSUME LegacyRoles
  PROVE  Spec => []HandledAtMostOnce
<1>1. MessageInv => HandledAtMostOnce
  BY DEF MessageInv, HandledAtMostOnce, HandledCount, InHand
<1> QED BY <1>1, MessagesConsistent, PTL

(* Each call has at most one message anywhere in the system, a request      *)
(* being handled included.                                                  *)
OneMessagePerCall ==
  /\ \A p, q \in Places : \A i \in DOMAIN chan[p], j \in DOMAIN chan[q] :
       chan[p][i].cid = chan[q][j].cid => p = q /\ i = j
  /\ \A m \in Modules : current[m] # None =>
       /\ \A p \in Places : \A i \in DOMAIN chan[p] : chan[p][i].cid # current[m].cid
       /\ \A m2 \in Modules \ {m} : current[m2] # None => current[m2].cid # current[m].cid

(* No step multiplies messages, so that what is on the bus is bounded by    *)
(* the calls made.  (That the one message is not answered for ever is       *)
(* BusSettles.)                                                             *)
THEOREM MessagesDoNotMultiply ==
  ASSUME LegacyRoles
  PROVE  Spec => []OneMessagePerCall
<1>1. TypeOK /\ MessageInv => OneMessagePerCall
  <2> SUFFICES ASSUME TypeOK, MessageInv PROVE OneMessagePerCall
    OBVIOUS
  <2>1. \A p \in Places : DOMAIN chan[p] = 1..Len(chan[p])
    BY DEF TypeOK
  <2>2. \A p, q \in Places : \A i \in DOMAIN chan[p], j \in DOMAIN chan[q] :
          chan[p][i].cid = chan[q][j].cid => p = q /\ i = j
    BY <2>1 DEF MessageInv, QueuesDistinct, NoRepeats, Contents
  <2>3. \A p \in Places : \A i \in DOMAIN chan[p] : chan[p][i] \in Held
    BY <2>1 DEF Held, Contents
  <2>4. ASSUME NEW m \in Modules, current[m] # None
        PROVE  /\ \A p \in Places : \A i \in DOMAIN chan[p] : chan[p][i].cid # current[m].cid
               /\ \A m2 \in Modules \ {m} : current[m2] # None => current[m2].cid # current[m].cid
    BY <2>3, <2>4 DEF MessageInv, InHand
  <2> QED BY <2>2, <2>4 DEF OneMessagePerCall
<1> QED BY <1>1, TypeCorrect, MessagesConsistent, PTL

-----------------------------------------------------------------------------
(* RequestReply implements AtMostOnceCall, for every set of modules and    *)
(* calls.                                                                  *)

LEMMA PromisedInitially == Init => Promise!Init
BY DEF Init, Promise!Init, Promised, RemoteCalls

(* Calls that keep their place and their count take no part in a step.      *)
Aside(c) == Promised(c)' = Promised(c) /\ handled'[c] = handled[c]

LEMMA StutterIsPromised ==
  ASSUME \A c \in RemoteCalls : Aside(c)
  PROVE  UNCHANGED Promise!vars
BY DEF Aside, Promise!vars

LEMMA StepIsPromised ==
  ASSUME LegacyRoles, TypeOK, PendingConsistent, MessageInv, [Next]_vars
  PROVE  Promise!Next \/ UNCHANGED Promise!vars
<1> USE DEF threadVars, ioVars
<1>1. CASE UNCHANGED vars
  BY <1>1, StutterIsPromised DEF vars, Aside, Promised
<1>2. ASSUME NEW c \in Calls, SendRequest(c)
      PROVE  Promise!Next \/ UNCHANGED Promise!vars
  <2>1. /\ Promised(c) = "idle" /\ Promised(c)' = "open"
        /\ \A d \in Calls \ {c} : Promised(d)' = Promised(d)
        /\ handled' = handled
    BY <1>2 DEF SendRequest, Promised, TypeOK
  <2>2. CASE c \in RemoteCalls
    <3>1. Promise!Start(c)
      BY <2>1, <2>2 DEF Promise!Start, RemoteCalls
    <3> QED BY <2>2, <3>1 DEF Promise!Next
  <2>3. CASE c \notin RemoteCalls
    BY <2>1, <2>3, StutterIsPromised DEF Aside, RemoteCalls
  <2> QED BY <2>2, <2>3
<1>3. ASSUME NEW c \in Calls, RegisterPending(c) \/ WaitDone(c) \/ WaitTimeout(c)
      PROVE  UNCHANGED Promise!vars
  <2>1. handled' = handled /\ \A d \in Calls : Promised(d)' = Promised(d)
    BY <1>3 DEF RegisterPending, WaitDone, WaitTimeout, Promised, TypeOK
  <2> QED BY <2>1, StutterIsPromised DEF Aside, RemoteCalls
<1>4. ASSUME NEW c \in Calls, PopReply(c)
      PROVE  Promise!Next \/ UNCHANGED Promise!vars
  <2>1. /\ Promised(c) = "open" /\ Promised(c)' = "answered"
        /\ \A d \in Calls \ {c} : Promised(d)' = Promised(d)
        /\ handled' = handled
    BY <1>4 DEF PopReply, Promised, TypeOK
  <2>2. CASE c \in RemoteCalls
    <3>1. handled[c] = 1
      BY <1>4, <2>2 DEF PopReply, PendingConsistent, MessageInv, ReplyIntegrity
    <3>2. Promise!Answer(c)
      BY <2>1, <2>2, <3>1 DEF Promise!Answer, RemoteCalls
    <3> QED BY <2>2, <3>2 DEF Promise!Next
  <2>3. CASE c \notin RemoteCalls
    BY <2>1, <2>3, StutterIsPromised DEF Aside, RemoteCalls
  <2> QED BY <2>2, <2>3
<1>5. ASSUME NEW c \in Calls, LatencyRaises(c) \/ PopExpired(c)
      PROVE  Promise!Next \/ UNCHANGED Promise!vars
  <2>1. /\ Promised(c) = "open"
        /\ \/ Promised(c)' = "timedout"
           \/ Promised(c)' = "failed" /\ Raises(c)
        /\ \A d \in Calls \ {c} : Promised(d)' = Promised(d)
        /\ handled' = handled
    BY <1>5 DEF LatencyRaises, PopExpired, Outcome, Promised, TypeOK
  <2>2. CASE c \in RemoteCalls
    <3>1. Promise!GiveUp(c) \/ Promise!Fail(c)
      BY <2>1, <2>2 DEF Promise!GiveUp, Promise!Fail, RemoteCalls
    <3> QED BY <2>2, <3>1 DEF Promise!Next
  <2>3. CASE c \notin RemoteCalls
    BY <2>1, <2>3, StutterIsPromised DEF Aside, RemoteCalls
  <2> QED BY <2>2, <2>3
<1>6. ASSUME NEW m \in Modules, Dispatch(m)
      PROVE  Promise!Next \/ UNCHANGED Promise!vars
  <2> DEFINE h == Head(chan[<<"rx", m>>])
  <2>1. h \in Held /\ h.cid \in Calls
    <3>1. "rx" \in Stages /\ chan[<<"rx", m>>] # << >> /\ Take("rx", m)
      BY <1>6 DEF Dispatch, Stages
    <3>2. h \in Message
      BY <3>1, HeadIsMessage DEF TypeOK, Queues
    <3> QED BY <3>1, <3>2, TakeEffect DEF MessageInv, TypeOK, Queues, Message
  <2>2. pc[h.cid] # "idle" /\ handled[h.cid] = 0
    BY <1>6, <2>1, RepliesAreRecognised DEF Dispatch, MessageInv, Genuine
  <2>3. /\ handled'[h.cid] = 1 /\ \A d \in Calls \ {h.cid} : handled'[d] = handled[d]
        /\ pc' = pc
    BY <1>6, <2>1, <2>2 DEF Dispatch, TypeOK
  <2>4. CASE h.cid \in RemoteCalls
    <3>1. Promised(h.cid) # "idle" /\ \A d \in Calls : Promised(d)' = Promised(d)
      BY <2>1, <2>2, <2>3 DEF Promised, TypeOK
    <3>2. PICK d \in RemoteCalls : d = h.cid
      BY <2>4
    <3>3. Promise!Execute(d)
      BY <2>2, <2>3, <3>1, <3>2 DEF Promise!Execute, RemoteCalls
    <3> QED BY <3>3 DEF Promise!Next
  <2>5. CASE h.cid \notin RemoteCalls
    <3>1. \A d \in RemoteCalls : Promised(d)' = Promised(d)
      BY <2>3 DEF Promised
    <3>2. \A d \in RemoteCalls : handled'[d] = handled[d]
      BY <2>3, <2>5 DEF RemoteCalls
    <3> QED BY <3>1, <3>2, StutterIsPromised DEF Aside
  <2> QED BY <2>4, <2>5
<1>7. ASSUME NEW m \in Modules,
             \/ IoThread(m) /\ ~Dispatch(m)
             \/ HandlerBreaks(m) \/ StopLoop(m) \/ CloseSockets(m)
             \/ Connect(m) \/ Disconnect(m) \/ Transmit(m) \/ Deliver(m)
             \/ Route(m) \/ RouteBreaks(m)
      PROVE pc' = pc /\ handled' = handled
  BY <1>7
  DEF IoThread, IoSend, IoDrained, IoPollTimeout, HandleFrames, AcceptReply, DropMessage,
      HandlerReturns, HandlerBreaks, StopLoop, CloseSockets, Connect, Disconnect,
      Transmit, Deliver, Route, RouteBreaks
<1>8. BrokerStart \/ BrokerStop => pc' = pc /\ handled' = handled
  BY DEF BrokerStart, BrokerStop
<1>9. pc' = pc /\ handled' = handled => UNCHANGED Promise!vars
  BY StutterIsPromised DEF Aside, Promised
<1> QED
  BY <1>1, <1>2, <1>3, <1>4, <1>5, <1>6, <1>7, <1>8, <1>9 DEF Next, CallThread

(* A call to another module is executed at most once, and answered only     *)
(* after it was: threads, queues and restarts add nothing to what           *)
(* AtMostOnceCall allows.                                                   *)
THEOREM Refinement ==
  ASSUME LegacyRoles
  PROVE  Spec => ImplementsAtMostOnceCall
<1>1. TypeOK /\ PendingConsistent /\ MessageInv /\ [Next]_vars => [Promise!Next]_(Promise!vars)
  BY StepIsPromised
<1> QED
  BY <1>1, PromisedInitially, TypeCorrect, PendingCorrect, MessagesConsistent, PTL
  DEF Spec, ImplementsAtMostOnceCall, Promise!Spec
=============================================================================
