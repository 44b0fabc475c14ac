------------------------------ MODULE MCServing ------------------------------
(* One peer, one stream this node may open to it and one the peer may open.  *)
EXTENDS Serving

CONSTANTS p1, o1, i1, t1

MCPeerOf == [t \in Sends |-> p1]
MCRemoteOf == [s \in Streams |-> p1]
=============================================================================
