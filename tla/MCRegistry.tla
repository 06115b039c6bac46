----------------------------- MODULE MCRegistry -----------------------------
(***************************************************************************)
(* Small instances of Registry for TLC: one name on the bus, several       *)
(* incarnations of it.  Entries of different names share nothing but the   *)
(* node, so one name shows every behaviour an entry can have.              *)
(***************************************************************************)
EXTENDS Registry

=============================================================================
