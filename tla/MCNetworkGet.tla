---------------------------- MODULE MCNetworkGet ----------------------------
(* A get whose block may be in the store, that meets a provider in the DHT   *)
(* and two of IPNI, or, for the hang, one of IPNI only.                      *)
EXTENDS NetworkGet

CONSTANTS k1, g1

MCCidOfGet == [g \in Gets |-> k1]
MCProviders == [g \in Gets |-> [dht |-> 1, ipni |-> 2]]
MCIpniOnly == [g \in Gets |-> [dht |-> 0, ipni |-> 1]]
=============================================================================
