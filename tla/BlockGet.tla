------------------------------ MODULE BlockGet ------------------------------
(***************************************************************************)
(* What a block store promises the readers of blocks: a get runs, and ends *)
(* once, with the block, provided somebody had it, with "not found", or    *)
(* with the store's own error.  NetworkGet.tla implements this.            *)
(***************************************************************************)

CONSTANTS
  Gets,       \* calls of get(cid)
  Cids,
  CidOfGet    \* [Gets -> Cids]

VARIABLES
  answer,     \* [Gets -> {"none", "running", "block", "notfound", "error"}]
  obtained    \* CIDs whose block the local store, a peer or the gateway gave

vars == <<answer, obtained>>

Init ==
  /\ answer = [g \in Gets |-> "none"]
  /\ obtained \in SUBSET Cids

Begin(g) ==
  /\ answer[g] = "none"
  /\ answer' = [answer EXCEPT ![g] = "running"]
  /\ UNCHANGED obtained

Obtain(k) ==
  /\ obtained' = obtained \cup {k}
  /\ UNCHANGED answer

Finish(g, result) ==
  /\ answer[g] = "running"
  /\ result = "block" => CidOfGet[g] \in obtained
  /\ answer' = [answer EXCEPT ![g] = result]
  /\ UNCHANGED obtained

Next ==
  \/ \E g \in Gets : Begin(g)
  \/ \E k \in Cids : Obtain(k)
  \/ \E g \in Gets, result \in {"block", "notfound", "error"} : Finish(g, result)

Spec == Init /\ [][Next]_vars
=============================================================================
