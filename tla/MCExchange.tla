----------------------------- MODULE MCExchange -----------------------------
(* One want and one peer, which may connect, be identified and be lost again *)
(* and again; two streams this node may open to it and one the peer may open. *)
EXTENDS Exchange

CONSTANTS p1, w1

MCOutbound == {1, 2}
MCRemoteOf == [s \in Streams |-> p1]
MCSends == Wants \X Peers \X {"broadcast", "connect"}
MCPeerOf == [t \in Sends |-> t[2]]
=============================================================================
