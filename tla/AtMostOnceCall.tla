--------------------------- MODULE AtMostOnceCall ---------------------------
(***************************************************************************)
(* What BusInterface.send_request promises its caller, with no queues,     *)
(* threads or broker in sight.  A call is open until it returns, with the  *)
(* answer of a handler or with {"error": "timeout"}, or raises, which only *)
(* calls do whose command the caller's statistics cannot read.  The        *)
(* request is executed by the target at most once; an answer implies that  *)
(* it was executed; a timeout or an exception implies nothing, and does    *)
(* not prevent the request from being executed afterwards.                 *)
(***************************************************************************)
EXTENDS Naturals

CONSTANTS
  Calls,      (* the invocations of send_request   *)
  MayFail     (* those that may raise              *)

VARIABLES
  status,     (* "idle", "open", "answered", "timedout" or "failed"   *)
  executed    (* how often a handler has begun to work on a call      *)

vars == <<status, executed>>

Init ==
  /\ status = [c \in Calls |-> "idle"]
  /\ executed = [c \in Calls |-> 0]

Start(c) ==
  /\ status[c] = "idle"
  /\ status' = [status EXCEPT ![c] = "open"]
  /\ UNCHANGED executed

Execute(c) ==
  /\ status[c] # "idle" /\ executed[c] = 0
  /\ executed' = [executed EXCEPT ![c] = 1]
  /\ UNCHANGED status

Answer(c) ==
  /\ status[c] = "open" /\ executed[c] = 1
  /\ status' = [status EXCEPT ![c] = "answered"]
  /\ UNCHANGED executed

GiveUp(c) ==
  /\ status[c] = "open"
  /\ status' = [status EXCEPT ![c] = "timedout"]
  /\ UNCHANGED executed

Fail(c) ==
  /\ status[c] = "open" /\ c \in MayFail
  /\ status' = [status EXCEPT ![c] = "failed"]
  /\ UNCHANGED executed

Next == \E c \in Calls : Start(c) \/ Execute(c) \/ Answer(c) \/ GiveUp(c) \/ Fail(c)

Spec == Init /\ [][Next]_vars
=============================================================================
