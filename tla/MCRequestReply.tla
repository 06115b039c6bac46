--------------------------- MODULE MCRequestReply ---------------------------
(***************************************************************************)
(* Small instances of RequestReply for TLC: who calls whom.               *)
(***************************************************************************)
EXTENDS RequestReply, TLC

CONSTANTS a, b, node, c1, c2, n2, n3, self

(* Two threads of a call a node of an older release, or one of them does   *)
(* while a calls itself.                                                    *)
ThreadsFrom == c1 :> a @@ c2 :> a @@ self :> a
ThreadsTo   == c1 :> node @@ c2 :> node @@ self :> a
ThreadsWork == {{c1, c2}, {self, c1}}

(* a calls b, whose handler calls a (n2), whose handler calls b (n3); or    *)
(* two threads of a call b.                                                 *)
NestFrom == c1 :> a @@ c2 :> a @@ n2 :> b @@ n3 :> a
NestTo   == c1 :> b @@ c2 :> b @@ n2 :> a @@ n3 :> b
NestWork == {{c1, n2, n3}, {c1, c2}}

(* Two threads of a call b at the same time. *)
PairFrom == c1 :> a @@ c2 :> a
PairTo   == c1 :> b @@ c2 :> b
PairWork == {{c1, c2}}

(* The heartbeat of the node's own interface: a call to itself. *)
SelfFrom == c1 :> node
SelfTo   == c1 :> node
SelfWork == {{c1}}
=============================================================================
