------------------------------ MODULE MCStats ------------------------------
(***************************************************************************)
(* Small instances of Stats for TLC: who calls whom.                       *)
(***************************************************************************)
EXTENDS Stats, TLC

CONSTANTS a, b, node, c1, c2, c3, c4, c5

(* a calls b: alone with a call back that has a command of the node (c2),   *)
(* with a call to the node (c3), or with a call back that an interface of   *)
(* an older release answers (c4).  Or the node calls b (c5) besides c4.     *)
MixedFrom == c1 :> a @@ c2 :> b @@ c3 :> a @@ c4 :> b @@ c5 :> node
MixedTo   == c1 :> b @@ c2 :> a @@ c3 :> node @@ c4 :> a @@ c5 :> b
MixedWork == {{c1, c2}, {c1, c3}, {c1, c4}, {c4, c5}}

(* One call. *)
SingleFrom == c1 :> a
SingleTo   == c1 :> b
SingleWork == {{c1}}
=============================================================================
