------------------------------ MODULE MCPubSub ------------------------------
(***************************************************************************)
(* Small instances of PubSub for TLC.                                      *)
(***************************************************************************)
EXTENDS PubSub, TLC

CONSTANTS a, b, t, tu, any, p1, p2, p3, p4, p5, k1, k2, k3, main, other

(* The topic tu begins with t; the empty topic any covers everything.       *)
Prefixes == {<<x, x>> : x \in Topics} \cup {<<t, tu>>, <<any, t>>, <<any, tu>>, <<any, Json>>}

(* a publishes on t, on tu, and a command that cannot be hashed; b listens  *)
(* to t with two callbacks, and to tu, which it gets for two subscriptions. *)
ThreadOf == [p \in Publications |-> a]
FromOf   == [p \in Publications |-> a]
TopicOf  == p1 :> t @@ p2 :> t @@ p3 :> t @@ p4 :> tu @@ p5 :> t
Work     == {{p1}, {p1, p2}, {p1, p2, p3}, {p4}, {p4, p5}}
AtOf     == [k \in Callbacks |-> b]
ForOf    == k1 :> t @@ k2 :> t @@ k3 :> tu

(* Two threads of a publish on one socket; a itself listens.               *)
SharedThread == p1 :> main @@ p2 :> other @@ p3 :> main
SharedFrom   == p1 :> a @@ p2 :> a @@ p3 :> a
SharedTopic  == p1 :> t @@ p2 :> t @@ p3 :> tu
SharedWork   == {{p1}, {p1, p2}, {p1, p2, p3}}
SharedAt     == k1 :> a
SharedFor    == k1 :> tu
=============================================================================
