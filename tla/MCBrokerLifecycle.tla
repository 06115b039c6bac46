-------------------------- MODULE MCBrokerLifecycle --------------------------
(***************************************************************************)
(* A small instance of BrokerLifecycle for TLC: the two brokers, started   *)
(* in the order of CommunicationNode.start.                                *)
(***************************************************************************)
EXTENDS BrokerLifecycle, TLC

BothBrokers == {"topic", "central"}
NodeOrder   == <<"topic", "central">>
Binds       == "topic" :> <<"sub", "pub">> @@ "central" :> <<"rep">>
==============================================================================
