------------------------------ MODULE MCWants ------------------------------
(* A small instance of Wants: three calls for one CID, the last two sharing  *)
(* a signal as the IPNI stage's calls do, and two concurrent messages.       *)
EXTENDS Wants

CONSTANTS k1, c1, c2, c3, s1, s2, h1, h2

MCCidOf == [c \in Calls |-> k1]
MCSignalOf == [c \in Calls |-> IF c = c1 THEN s1 ELSE s2]
=============================================================================
