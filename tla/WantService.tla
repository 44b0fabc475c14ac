---------------------------- MODULE WantService ----------------------------
(***************************************************************************)
(* What SimpleBitswap.want() promises its callers, and nothing about how:  *)
(* a call waits, and then every call that waits for the same CID through   *)
(* the same request ends once, either with the block, which has then       *)
(* arrived from the network, or with an error.  Wants.tla implements this. *)
(***************************************************************************)

CONSTANTS
  Calls,    \* invocations of want()
  Cids,     \* the CIDs they ask for
  CidOf     \* [Calls -> Cids]

VARIABLES
  outcome,  \* [Calls -> {"idle", "waiting", "block", "error"}]
  arrived   \* the CIDs for which a peer has sent the block

vars == <<outcome, arrived>>

Outcomes == {"idle", "waiting", "block", "error"}

Init ==
  /\ outcome = [c \in Calls |-> "idle"]
  /\ arrived = {}

Waiting == {c \in Calls : outcome[c] = "waiting"}

Conclude(S, result) ==
  outcome' = [c \in Calls |-> IF c \in S THEN result ELSE outcome[c]]

Ask(c) ==
  /\ outcome[c] = "idle"
  /\ Conclude({c}, "waiting")
  /\ UNCHANGED arrived

Arrive(k) ==
  /\ arrived' = arrived \cup {k}
  /\ UNCHANGED outcome

Deliver(k, S) ==
  /\ k \in arrived
  /\ \A c \in S : CidOf[c] = k
  /\ Conclude(S, "block")
  /\ UNCHANGED arrived

GiveUp(S) ==
  /\ Conclude(S, "error")
  /\ UNCHANGED arrived

Next ==
  \/ \E c \in Calls : Ask(c)
  \/ \E k \in Cids : Arrive(k)
  \/ \E k \in Cids, S \in SUBSET Waiting : Deliver(k, S)
  \/ \E S \in SUBSET Waiting : GiveUp(S)

Spec == Init /\ [][Next]_vars
=============================================================================
