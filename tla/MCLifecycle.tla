---------------------------- MODULE MCLifecycle ----------------------------
(* Three bootstrap addresses, one of them without a peer ID.                  *)
EXTENDS Lifecycle

CONSTANTS p1, p2

MCBootstrap == <<p1, NoPeer, p2>>
=============================================================================
