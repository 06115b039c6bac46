-------------------------------- MODULE Feed --------------------------------
(***************************************************************************)
(* What publish/subscribe promises, with no sockets, threads or broker in  *)
(* sight.  There is one log of publications.  A callback is a reader of    *)
(* that log: each call hands it a publication on its own topic, further on *)
(* in the log than the one before.  So a callback hears nothing twice,     *)
(* nothing that was not published, and any two callbacks hear what they    *)
(* both hear in the same order.  It may miss publications.                 *)
(***************************************************************************)
EXTENDS Naturals, Sequences

CONSTANTS
  Publications,     (* the invocations of publish   *)
  Callbacks,        (* the invocations of subscribe *)
  Topic,            (* of a publication             *)
  For               (* the topic of a callback      *)

VARIABLES
  log,        (* the publications that took place *)
  at,         (* how far a callback has come      *)
  calls       (* how often it was called          *)

vars == <<log, at, calls>>

Init ==
  /\ log = << >>
  /\ at = [k \in Callbacks |-> 0]
  /\ calls = [k \in Callbacks |-> 0]

Publish(p) ==
  /\ \A n \in 1..Len(log) : log[n] # p
  /\ log' = Append(log, p)
  /\ UNCHANGED <<at, calls>>

Hear(k) ==
  /\ \E n \in (at[k] + 1)..Len(log) :
       Topic[log[n]] = For[k] /\ at' = [at EXCEPT ![k] = n]
  /\ calls' = [calls EXCEPT ![k] = @ + 1]
  /\ UNCHANGED log

Next ==
  \/ \E p \in Publications : Publish(p)
  \/ \E k \in Callbacks : Hear(k)

Spec == Init /\ [][Next]_vars
=============================================================================
