----------------------------- MODULE NetworkGet -----------------------------
(***************************************************************************)
(* NetworkAwareBlockstore.get (src/src/blockstore-network.ts) on top of    *)
(* the wants of SimpleBitswap: the local store, then a race of a bitswap   *)
(* want against a DHT lookup, then the providers IPNI names, then a public *)
(* gateway.  The two contestants of the race are tasks of their own: the   *)
(* loser goes on after the race is decided.                                *)
(*                                                                         *)
(* A get makes at most one want in tryBitswap, and one per provider in     *)
(* tryDHTRetrieval and in the IPNI stage; each is a call of Wants, named   *)
(* <<get, stage, provider>>.  All the IPNI wants of a get share the signal *)
(* of its controller; every other want has a timeout of its own.           *)
(***************************************************************************)
EXTENDS Naturals

CONSTANTS
  Gets,          \* calls of get(cid)
  Cids,
  CidOfGet,      \* [Gets -> Cids]
  Providers,     \* bound: providers the lookups of a get yield, [Gets -> [dht, ipni]]
  Handlers, MaxBlocks, NoCall

Calls == UNION {{<<g, "bitswap", 0>>}
                 \cup {<<g, "dht", n>> : n \in 1..Providers[g].dht}
                 \cup {<<g, "ipni", n>> : n \in 1..Providers[g].ipni} : g \in Gets}
CidOf == [c \in Calls |-> CidOfGet[c[1]]]
IpniSignal(g) == <<g, "ipni", 0>>
\* Mutant: both contestants of the race share one timeout.
SharedSignalOf == [c \in Calls |-> IF c[2] = "ipni" THEN IpniSignal(c[1])
                                  ELSE <<c[1], "bitswap", 0>>]

\* The IPNI wants of a get share the signal of its controller.
SignalOf == [c \in Calls |-> IF c[2] = "ipni" THEN IpniSignal(c[1]) ELSE c]
Signals == {SignalOf[c] : c \in Calls}

ASSUME NetworkGetAssumption ==
  /\ CidOfGet \in [Gets -> Cids]
  /\ Providers \in [Gets -> [dht : Nat, ipni : Nat]]
  /\ NoCall \notin Calls
  /\ MaxBlocks \in Nat

VARIABLES
  pc,        \* where the generator of a get is
  bitswap,   \* tryBitswap: "none", "want", and then its result
  dht,       \* tryDHTRetrieval: "none", "find", "want", and then its result
  race,      \* Promise.race: "open", and then the first result
  provider,  \* providers used so far, [Gets -> [dht, ipni]]
  armed,     \* gets whose ipniTimer is set
  refused,   \* history: gets whose own put of the block failed
  given      \* history: CIDs whose block the store had at first, or the gateway gave

VARIABLES pending, stopped, owner, deferred, listening, aborted,
          phase, todo, holding, stored, putFailed, arrived

W == INSTANCE Wants

getVars  == <<pc, bitswap, dht, race, provider, armed, refused, given>>
wantVars == <<pending, stopped, owner, deferred, listening, aborted,
              phase, todo, holding, stored, putFailed, arrived>>
vars == <<getVars, wantVars>>

Stages == {"idle", "s3", "race", "put", "ipni_fetch", "ipni_dial", "ipni_want",
           "ipni_put", "gateway", "gateway_put", "done", "notfound", "error"}
Ended(g) == pc[g] \in {"done", "notfound", "error"}

Init ==
  /\ \E blocks \in SUBSET Cids : W!StartOver(blocks)
  /\ pc = [g \in Gets |-> "idle"]
  /\ bitswap = [g \in Gets |-> "none"]
  /\ dht = [g \in Gets |-> "none"]
  /\ race = [g \in Gets |-> "open"]
  /\ provider = [g \in Gets |-> [dht |-> 0, ipni |-> 0]]
  /\ armed = {}
  /\ refused = {}
  /\ given = stored

-----------------------------------------------------------------------------
Goto(g, stage) == pc' = [pc EXCEPT ![g] = stage]

\* What the promise a call awaits has come to, "live" while it has not.
Outcome(c) == deferred[owner[c]]

\* One of the contestants has a result; the first one decides the race.
Contend(g, result) ==
  race' = [race EXCEPT ![g] = IF @ = "open" THEN result ELSE @]

\* s3Blockstore.put of the block, effective or failed and swallowed.
Persist(g, ok) ==
  /\ stored' = IF ok THEN stored \cup {CidOfGet[g]} ELSE stored
  /\ refused' = IF ok THEN refused ELSE refused \cup {g}
  /\ UNCHANGED <<pending, stopped, owner, deferred, listening, aborted,
                 phase, todo, holding, putFailed, arrived>>

-----------------------------------------------------------------------------
(* Stage 1: the local store.                                               *)

\* A get may begin after bitswap has stopped: its client has left.
Begin(g) ==
  /\ pc[g] = "idle"
  /\ Goto(g, "s3")
  /\ UNCHANGED <<bitswap, dht, race, provider, armed, refused, given, wantVars>>

LocalHit(g) ==
  /\ pc[g] = "s3"
  /\ CidOfGet[g] \in stored
  /\ Goto(g, "done")
  /\ UNCHANGED <<bitswap, dht, race, provider, armed, refused, given, wantVars>>

\* Any failure that is not a miss is passed on.
LocalError(g) ==
  /\ pc[g] = "s3"
  /\ Goto(g, "error")
  /\ UNCHANGED <<bitswap, dht, race, provider, armed, refused, given, wantVars>>

\* A miss, which a failed read of a block that is there also counts as, starts
\* both contestants; tryBitswap makes its want at once.
LocalMiss(g) ==
  /\ pc[g] = "s3"
  /\ Goto(g, "race")
  /\ W!Want(<<g, "bitswap", 0>>)
  /\ bitswap' = [bitswap EXCEPT ![g] = "want"]
  /\ dht' = [dht EXCEPT ![g] = "find"]
  /\ UNCHANGED <<race, provider, armed, refused, given>>

-----------------------------------------------------------------------------
(* Stages 2 and 3: the contestants, and the race.                          *)

\* Mutant: the rejection of the want gets out of tryBitswap.
BitswapThrows(g) ==
  LET outcome == Outcome(<<g, "bitswap", 0>>) IN
  /\ bitswap[g] = "want"
  /\ outcome # "live"
  /\ bitswap' = [bitswap EXCEPT ![g] = outcome]
  /\ Contend(g, outcome)
  /\ UNCHANGED <<pc, dht, provider, armed, refused, given, wantVars>>

BitswapEnds(g) ==
  LET outcome == Outcome(<<g, "bitswap", 0>>)
      result == IF outcome = "resolved" THEN "block" ELSE "null"
  IN
  /\ bitswap[g] = "want"
  /\ outcome # "live"
  /\ bitswap' = [bitswap EXCEPT ![g] = result]
  /\ Contend(g, result)
  /\ UNCHANGED <<pc, dht, provider, armed, refused, given, wantVars>>

\* The lookup yields a provider; its addresses are dialled, with or without
\* success, and the block is wanted again.
DhtProvider(g) ==
  /\ dht[g] = "find"
  /\ provider[g].dht < Providers[g].dht
  /\ provider' = [provider EXCEPT ![g].dht = @ + 1]
  /\ W!Want(<<g, "dht", provider[g].dht + 1>>)
  /\ dht' = [dht EXCEPT ![g] = "want"]
  /\ UNCHANGED <<pc, bitswap, race, armed, refused, given>>

DhtWantResolved(g) ==
  /\ dht[g] = "want"
  /\ Outcome(<<g, "dht", provider[g].dht>>) = "resolved"
  /\ dht' = [dht EXCEPT ![g] = "block"]
  /\ Contend(g, "block")
  /\ UNCHANGED <<pc, bitswap, provider, armed, refused, given, wantVars>>

DhtWantRejected(g) ==
  /\ dht[g] = "want"
  /\ Outcome(<<g, "dht", provider[g].dht>>) = "rejected"
  /\ dht' = [dht EXCEPT ![g] = "find"]
  /\ UNCHANGED <<pc, bitswap, race, provider, armed, refused, given, wantVars>>

\* The lookup is exhausted, fails or times out.
DhtEnds(g) ==
  /\ dht[g] = "find"
  /\ dht' = [dht EXCEPT ![g] = "null"]
  /\ Contend(g, "null")
  /\ UNCHANGED <<pc, bitswap, provider, armed, refused, given, wantVars>>

\* Mutant: a null is taken for a block.
RaceEnds(g) ==
  /\ pc[g] = "race"
  /\ race[g] # "open"
  /\ Goto(g, "put")
  /\ UNCHANGED <<bitswap, dht, race, provider, armed, refused, given, wantVars>>

\* Mutant: no second put, because bitswap has put the block already.
RaceWonNoPut(g) ==
  /\ pc[g] = "race"
  /\ race[g] = "block"
  /\ Goto(g, "done")
  /\ UNCHANGED <<bitswap, dht, race, provider, armed, refused, given, wantVars>>

RaceWon(g) ==
  /\ pc[g] = "race"
  /\ race[g] = "block"
  /\ Goto(g, "put")
  /\ UNCHANGED <<bitswap, dht, race, provider, armed, refused, given, wantVars>>

PutRaceBlock(g, ok) ==
  /\ pc[g] = "put"
  /\ Persist(g, ok)
  /\ Goto(g, "done")
  /\ UNCHANGED <<bitswap, dht, race, provider, armed, given>>

-----------------------------------------------------------------------------
(* Stage 4: IPNI, under one controller and one timer.                      *)

RaceLost(g) ==
  /\ pc[g] = "race"
  /\ race[g] = "null"
  /\ Goto(g, "ipni_fetch")
  /\ armed' = armed \cup {g}
  /\ UNCHANGED <<bitswap, dht, race, provider, refused, given, wantVars>>

\* Mutant: the timer is cleared once the provider list is there.
IpniProviderUntimed(g) ==
  /\ IpniSignal(g) \notin aborted
  /\ provider[g].ipni < Providers[g].ipni
  /\ provider' = [provider EXCEPT ![g].ipni = @ + 1]
  /\ Goto(g, "ipni_dial")
  /\ armed' = armed \ {g}
  /\ UNCHANGED <<bitswap, dht, race, refused, given, wantVars>>

\* The loop head: there is another provider and the budget is not used up.
IpniProvider(g) ==
  /\ IpniSignal(g) \notin aborted
  /\ provider[g].ipni < Providers[g].ipni
  /\ provider' = [provider EXCEPT ![g].ipni = @ + 1]
  /\ Goto(g, "ipni_dial")
  /\ UNCHANGED <<bitswap, dht, race, armed, refused, given, wantVars>>

\* The stage is left for the gateway; finally clears the timer.
IpniGivesUp(g) ==
  /\ Goto(g, "gateway")
  /\ armed' = armed \ {g}
  /\ UNCHANGED <<bitswap, dht, race, provider, refused, given, wantVars>>

\* The provider list arrives; or it does not, or it is empty.
IpniFetch(g) ==
  /\ pc[g] = "ipni_fetch"
  /\ IpniProvider(g) \/ IpniGivesUp(g)

\* The dialling is over, however long it took.  The signal is not looked at
\* again before the want.
IpniWant(g) ==
  /\ pc[g] = "ipni_dial"
  /\ W!Want(<<g, "ipni", provider[g].ipni>>)
  /\ Goto(g, "ipni_want")
  /\ UNCHANGED <<bitswap, dht, race, provider, armed, refused, given>>

IpniWantResolved(g) ==
  /\ pc[g] = "ipni_want"
  /\ Outcome(<<g, "ipni", provider[g].ipni>>) = "resolved"
  /\ Goto(g, "ipni_put")
  /\ UNCHANGED <<bitswap, dht, race, provider, armed, refused, given, wantVars>>

\* Mutant: the loop is left only towards another provider.
IpniWantRetried(g) ==
  /\ pc[g] = "ipni_want"
  /\ Outcome(<<g, "ipni", provider[g].ipni>>) = "rejected"
  /\ IpniProvider(g)

IpniWantRejected(g) ==
  /\ pc[g] = "ipni_want"
  /\ Outcome(<<g, "ipni", provider[g].ipni>>) = "rejected"
  /\ IpniProvider(g) \/ IpniGivesUp(g)

PutIpniBlock(g, ok) ==
  /\ pc[g] = "ipni_put"
  /\ Persist(g, ok)
  /\ armed' = armed \ {g}
  /\ Goto(g, "done")
  /\ UNCHANGED <<bitswap, dht, race, provider, given>>

-----------------------------------------------------------------------------
(* The gateway, under a timeout of its own.                                *)

GatewayHit(g) ==
  /\ pc[g] = "gateway"
  /\ Goto(g, "gateway_put")
  /\ given' = given \cup {CidOfGet[g]}
  /\ UNCHANGED <<bitswap, dht, race, provider, armed, refused, wantVars>>

PutGatewayBlock(g, ok) ==
  /\ pc[g] = "gateway_put"
  /\ Persist(g, ok)
  /\ Goto(g, "done")
  /\ UNCHANGED <<bitswap, dht, race, provider, armed, given>>

GatewayMiss(g) ==
  /\ pc[g] = "gateway"
  /\ Goto(g, "notfound")
  /\ UNCHANGED <<bitswap, dht, race, provider, armed, refused, given, wantVars>>

-----------------------------------------------------------------------------
(* The surroundings: timers, messages, shutdown.                           *)

\* AbortSignal.timeout() runs from the call of want() on; the controller of
\* the IPNI stage is aborted by its timer only.
SignalStarted(s) ==
  IF s[2] = "ipni" THEN s[1] \in armed ELSE owner[s] # NoCall

Timeout(s) ==
  /\ SignalStarted(s)
  /\ W!Abort(s)
  /\ UNCHANGED getVars

Message(h, blocks) ==
  /\ W!ReceiveMessage(h, blocks)
  /\ UNCHANGED getVars

HandlerStep(h) ==
  /\ W!HandlerStep(h)
  /\ UNCHANGED getVars

\* The node stops once the API server has closed: no client waits for a get,
\* but the gets of clients that have left go on until the process exits.
Stop ==
  /\ W!Stop
  /\ UNCHANGED getVars

-----------------------------------------------------------------------------
BitswapTask(g) == BitswapEnds(g)
DhtTask(g) == DhtProvider(g) \/ DhtWantResolved(g) \/ DhtWantRejected(g) \/ DhtEnds(g)
GetStep(g) ==
  \/ LocalHit(g) \/ LocalError(g) \/ LocalMiss(g)
  \/ RaceWon(g) \/ RaceLost(g)
  \/ IpniFetch(g) \/ IpniWant(g) \/ IpniWantResolved(g) \/ IpniWantRejected(g)
  \/ GatewayHit(g) \/ GatewayMiss(g)
  \/ \E ok \in BOOLEAN : PutRaceBlock(g, ok) \/ PutIpniBlock(g, ok) \/ PutGatewayBlock(g, ok)

Next ==
  \/ \E g \in Gets : Begin(g) \/ GetStep(g) \/ BitswapTask(g) \/ DhtTask(g)
  \/ \E s \in Signals : Timeout(s)
  \/ \E h \in Handlers, blocks \in W!Messages : Message(h, blocks)
  \/ \E h \in Handlers : HandlerStep(h)
  \/ Stop

Spec == Init /\ [][Next]_vars

\* Every await but that of a want has a bound of its own: the store and fetch
\* answer or fail, a dial and a lookup time out, timers fire.
Fairness ==
  /\ \A g \in Gets : WF_vars(GetStep(g)) /\ WF_vars(BitswapTask(g)) /\ WF_vars(DhtTask(g))
  /\ \A s \in Signals : WF_vars(Timeout(s))
  /\ \A h \in Handlers : WF_vars(HandlerStep(h))

FairSpec == Spec /\ Fairness

-----------------------------------------------------------------------------
(* Properties.                                                             *)

TypeOK ==
  /\ W!TypeOK
  /\ pc \in [Gets -> Stages]
  /\ bitswap \in [Gets -> {"none", "want", "block", "null"}]
  /\ dht \in [Gets -> {"none", "find", "want", "block", "null"}]
  /\ race \in [Gets -> {"open", "block", "null"}]
  /\ provider \in [Gets -> [dht : Nat, ipni : Nat]]
  /\ \A g \in Gets : /\ provider[g].dht <= Providers[g].dht
                     /\ provider[g].ipni <= Providers[g].ipni
  /\ armed \subseteq Gets
  /\ refused \subseteq Gets
  /\ given \subseteq Cids

\* A want that no timeout can end: it was made under a signal already fired.
Hung(c) == deferred[c] = "live" /\ c \notin listening

\* Only the IPNI stage, whose one signal covers several steps, makes such wants.
HungOnlyFromIpni == \A c \in Calls : Hung(c) => c[2] = "ipni"

\* A block that was found anywhere is in the local store when the get returns
\* it, or the store refused that very get's put.
FoundBlocksPersist ==
  \A g \in Gets : pc[g] = "done" => CidOfGet[g] \in stored \/ g \in refused

\* No entry stays in pendingWants because the task that made it was abandoned:
\* losing contestants and finished gets still let go of their wants.
EntriesLeave ==
  \A c \in Calls : pending[CidOf[c]] = c /\ c \in listening ~> pending[CidOf[c]] # c

\* If wants that cannot time out do not stay around, every get ends.
GetsEndUnlessHung ==
  (<>[](\A c \in Calls : ~Hung(c))) => \A g \in Gets : pc[g] = "s3" ~> Ended(g)

\* Documented: "Each step has error handling and timeout protection", so that a
\* get ends unless the node is stopped first.
\* A want under a fired signal breaks it: see the run that checks it.
GetsEnd == \A g \in Gets : pc[g] = "s3" ~> Ended(g) \/ stopped

-----------------------------------------------------------------------------
AnswerOf(g) ==
  CASE pc[g] = "idle" -> "none"
    [] pc[g] = "done" -> "block"
    [] pc[g] = "notfound" -> "notfound"
    [] pc[g] = "error" -> "error"
    [] OTHER -> "running"

Get == INSTANCE BlockGet WITH
         answer <- [g \in Gets |-> AnswerOf(g)],
         obtained <- arrived \cup given

GetSpec == Get!Spec
=============================================================================
