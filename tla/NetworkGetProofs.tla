--------------------------- MODULE NetworkGetProofs ---------------------------
(***************************************************************************)
(* Proofs about NetworkGet, for any number of gets, providers, message     *)
(* handlers and blocks.  The wants below the gets take steps of Wants, so  *)
(* the lemmas of WantsProofs are used for them; what they do not know is   *)
(* that a get also puts blocks into the store itself.                      *)
(***************************************************************************)
EXTENDS NetworkGet, Sequences, TLAPS

WP == INSTANCE WantsProofs

\* The parts of the name of a call.
LEMMA CallNames ==
  ASSUME NEW c \in Calls
  PROVE  /\ c[1] \in Gets /\ c[2] \in {"bitswap", "dht", "ipni"}
         /\ CidOf[c] = CidOfGet[c[1]] /\ CidOf[c] \in Cids
         /\ SignalOf[c] \in Signals
         /\ c[2] # "ipni" => SignalOf[c] = c
  <1>1. PICK g \in Gets : \/ c = <<g, "bitswap", 0>>
                          \/ \E n \in 1..Providers[g].dht : c = <<g, "dht", n>>
                          \/ \E n \in 1..Providers[g].ipni : c = <<g, "ipni", n>>
    BY DEF Calls
  <1>2. c[1] = g /\ c[2] \in {"bitswap", "dht", "ipni"}
    BY <1>1
  <1>3. CidOf[c] = CidOfGet[c[1]] /\ CidOf[c] \in Cids
    BY <1>2, NetworkGetAssumption DEF CidOf
  <1>4. SignalOf[c] \in Signals /\ (c[2] # "ipni" => SignalOf[c] = c)
    BY DEF SignalOf, Signals
  <1> QED
    BY <1>2, <1>3, <1>4

\* The gets instantiate Wants as it asks to be.
LEMMA WantsAssumed ==
  /\ CidOf \in [Calls -> Cids]
  /\ SignalOf \in [Calls -> Signals]
  /\ NoCall \notin Calls
  /\ MaxBlocks \in Nat
  <1>1. CidOf \in [Calls -> Cids]
    BY CallNames DEF CidOf
  <1>2. SignalOf \in [Calls -> Signals]
    BY CallNames DEF SignalOf
  <1> QED
    BY <1>1, <1>2, NetworkGetAssumption

\* The steps of Wants that gets, timers, messages and stop() take.
WantsStep ==
  \/ \E c \in Calls : W!Want(c)
  \/ \E s \in Signals : W!Abort(s)
  \/ \E h \in Handlers, blocks \in W!Messages : W!ReceiveMessage(h, blocks)
  \/ \E h \in Handlers : W!HandlerStep(h)
  \/ W!Stop
  \/ UNCHANGED wantVars

\* They are steps of the instance that WantsProofs is about.
LEMMA WantsStepIsNext ==
  ASSUME WantsStep
  PROVE  [WP!Next]_(WP!vars)
  <1>1. ASSUME NEW c \in Calls, W!Want(c)
        PROVE  WP!Want(c)
    BY <1>1 DEF W!Want, WP!Want, W!Coalesce, WP!Coalesce, W!Register, WP!Register,
         W!bitswapVars, WP!bitswapVars, W!handlerVars, WP!handlerVars, W!storeVars, WP!storeVars
  <1>2. ASSUME NEW s \in Signals, W!Abort(s)
        PROVE  WP!Abort(s)
    BY <1>2 DEF W!Abort, WP!Abort, W!Forget, WP!Forget, W!Settle, WP!Settle,
         W!handlerVars, WP!handlerVars, W!storeVars, WP!storeVars
  <1>3. ASSUME NEW h \in Handlers, NEW blocks \in W!Messages, W!ReceiveMessage(h, blocks)
        PROVE  blocks \in WP!Messages /\ WP!ReceiveMessage(h, blocks)
    BY <1>3 DEF W!ReceiveMessage, WP!ReceiveMessage, W!Messages, WP!Messages,
         W!bitswapVars, WP!bitswapVars, W!callVars, WP!callVars, W!storeVars, WP!storeVars
  <1>4. ASSUME NEW h \in Handlers, W!HandlerStep(h)
        PROVE  WP!HandlerStep(h)
    BY <1>4 DEF W!HandlerStep, WP!HandlerStep, W!TakeWanted, WP!TakeWanted,
         W!SkipUnwanted, WP!SkipUnwanted, W!Put, WP!Put, W!Resolve, WP!Resolve,
         W!NextBlock, WP!NextBlock, W!Forget, WP!Forget, W!Settle, WP!Settle,
         W!bitswapVars, WP!bitswapVars, W!callVars, WP!callVars, W!storeVars, WP!storeVars
  <1>5. ASSUME W!Stop
        PROVE  WP!Stop
    BY <1>5 DEF W!Stop, WP!Stop, W!Forget, WP!Forget, W!Settle, WP!Settle,
         W!handlerVars, WP!handlerVars, W!storeVars, WP!storeVars
  <1>6. ASSUME UNCHANGED wantVars
        PROVE  UNCHANGED WP!vars
    BY <1>6 DEF wantVars, WP!vars, WP!bitswapVars, WP!callVars, WP!handlerVars, WP!storeVars
  <1> QED
    BY <1>1, <1>2, <1>3, <1>4, <1>5, <1>6 DEF WantsStep, WP!Next

-----------------------------------------------------------------------------
(* Part 2: every step of the gets as the wants see it.                     *)

\* A get puts a block it has found; the wants do not notice.
Persisting ==
  \E g \in Gets, ok \in BOOLEAN :
    pc[g] \in {"put", "ipni_put", "gateway_put"} /\ Persist(g, ok)

\* The calls that a get awaits have been made, and name a provider.
CallsOf(g) ==
  /\ bitswap[g] = "want" => owner[<<g, "bitswap", 0>>] # NoCall
  /\ dht[g] = "want" => provider[g].dht >= 1 /\ owner[<<g, "dht", provider[g].dht>>] # NoCall
  /\ pc[g] \in {"ipni_dial", "ipni_want"} => provider[g].ipni >= 1
  /\ pc[g] = "ipni_want" => owner[<<g, "ipni", provider[g].ipni>>] # NoCall

CallsMade == \A g \in Gets : CallsOf(g)

\* How many providers there are, and have been used.
LEMMA ProviderCounts ==
  ASSUME NEW g \in Gets, TypeOK
  PROVE  /\ provider[g].dht \in Nat /\ provider[g].ipni \in Nat
         /\ Providers[g].dht \in Nat /\ Providers[g].ipni \in Nat
         /\ provider[g].dht <= Providers[g].dht /\ provider[g].ipni <= Providers[g].ipni
  BY NetworkGetAssumption DEF TypeOK

\* A provider that is counted has a call of its own.
LEMMA ProviderCalls ==
  ASSUME NEW g \in Gets
  PROVE  /\ <<g, "bitswap", 0>> \in Calls
         /\ \A n \in 1..Providers[g].dht : <<g, "dht", n>> \in Calls
         /\ \A n \in 1..Providers[g].ipni : <<g, "ipni", n>> \in Calls
  BY DEF Calls

\* For the wants, every step of the gets is one of Wants or such a put.
LEMMA StepKinds ==
  ASSUME TypeOK, CallsMade, [Next]_vars
  PROVE  WantsStep \/ Persisting
  <1>1. ASSUME NEW g \in Gets, Begin(g)
        PROVE  WantsStep \/ Persisting
    BY <1>1 DEF Begin, WantsStep
  <1>2. ASSUME NEW g \in Gets, LocalHit(g)
        PROVE  WantsStep \/ Persisting
    BY <1>2 DEF LocalHit, WantsStep
  <1>3. ASSUME NEW g \in Gets, LocalError(g)
        PROVE  WantsStep \/ Persisting
    BY <1>3 DEF LocalError, WantsStep
  <1>4. ASSUME NEW g \in Gets, LocalMiss(g)
        PROVE  WantsStep \/ Persisting
    <2>1. <<g, "bitswap", 0>> \in Calls
      BY ProviderCalls, <1>4 DEF LocalMiss, CallsMade
    <2> QED
      BY <1>4, <2>1 DEF LocalMiss, WantsStep
  <1>5. ASSUME NEW g \in Gets, BitswapEnds(g)
        PROVE  WantsStep \/ Persisting
    BY <1>5 DEF BitswapEnds, WantsStep
  <1>6. ASSUME NEW g \in Gets, DhtProvider(g)
        PROVE  WantsStep \/ Persisting
    <2>0. provider[g].dht + 1 \in 1..Providers[g].dht
      BY ProviderCounts, <1>6 DEF DhtProvider, CallsMade
    <2>1. <<g, "dht", provider[g].dht + 1>> \in Calls
      BY <2>0, ProviderCalls
    <2> QED
      BY <1>6, <2>1 DEF DhtProvider, WantsStep
  <1>7. ASSUME NEW g \in Gets, DhtWantResolved(g)
        PROVE  WantsStep \/ Persisting
    BY <1>7 DEF DhtWantResolved, WantsStep
  <1>8. ASSUME NEW g \in Gets, DhtWantRejected(g)
        PROVE  WantsStep \/ Persisting
    BY <1>8 DEF DhtWantRejected, WantsStep
  <1>9. ASSUME NEW g \in Gets, DhtEnds(g)
        PROVE  WantsStep \/ Persisting
    BY <1>9 DEF DhtEnds, WantsStep
  <1>10. ASSUME NEW g \in Gets, RaceWon(g)
        PROVE  WantsStep \/ Persisting
    BY <1>10 DEF RaceWon, WantsStep
  <1>11. ASSUME NEW g \in Gets, RaceLost(g)
        PROVE  WantsStep \/ Persisting
    BY <1>11 DEF RaceLost, WantsStep
  <1>12. ASSUME NEW g \in Gets, IpniFetch(g)
        PROVE  WantsStep \/ Persisting
    BY <1>12 DEF IpniFetch, IpniProvider, IpniGivesUp, WantsStep
  <1>13. ASSUME NEW g \in Gets, IpniWant(g)
        PROVE  WantsStep \/ Persisting
    <2>0. provider[g].ipni >= 1
      BY <1>13 DEF IpniWant, CallsMade, CallsOf
    <2>00. provider[g].ipni \in 1..Providers[g].ipni
      BY <2>0, ProviderCounts
    <2>1. <<g, "ipni", provider[g].ipni>> \in Calls
      BY <2>00, ProviderCalls
    <2> QED
      BY <1>13, <2>1 DEF IpniWant, WantsStep
  <1>14. ASSUME NEW g \in Gets, IpniWantResolved(g)
        PROVE  WantsStep \/ Persisting
    BY <1>14 DEF IpniWantResolved, WantsStep
  <1>15. ASSUME NEW g \in Gets, IpniWantRejected(g)
        PROVE  WantsStep \/ Persisting
    BY <1>15 DEF IpniWantRejected, IpniProvider, IpniGivesUp, WantsStep
  <1>16. ASSUME NEW g \in Gets, GatewayHit(g)
        PROVE  WantsStep \/ Persisting
    BY <1>16 DEF GatewayHit, WantsStep
  <1>17. ASSUME NEW g \in Gets, GatewayMiss(g)
        PROVE  WantsStep \/ Persisting
    BY <1>17 DEF GatewayMiss, WantsStep
  <1>18. ASSUME NEW g \in Gets, NEW ok \in BOOLEAN, PutRaceBlock(g, ok)
        PROVE  WantsStep \/ Persisting
    BY <1>18 DEF PutRaceBlock, Persisting
  <1>19. ASSUME NEW g \in Gets, NEW ok \in BOOLEAN, PutIpniBlock(g, ok)
        PROVE  WantsStep \/ Persisting
    BY <1>19 DEF PutIpniBlock, Persisting
  <1>20. ASSUME NEW g \in Gets, NEW ok \in BOOLEAN, PutGatewayBlock(g, ok)
        PROVE  WantsStep \/ Persisting
    BY <1>20 DEF PutGatewayBlock, Persisting
  <1>21. ASSUME NEW s \in Signals, Timeout(s)
        PROVE  WantsStep \/ Persisting
    BY <1>21 DEF Timeout, WantsStep
  <1>22. ASSUME NEW h \in Handlers, NEW blocks \in W!Messages, Message(h, blocks)
        PROVE  WantsStep \/ Persisting
    BY <1>22 DEF Message, WantsStep
  <1>23. ASSUME NEW h \in Handlers, HandlerStep(h)
        PROVE  WantsStep \/ Persisting
    BY <1>23 DEF HandlerStep, WantsStep
  <1>24. ASSUME Stop
        PROVE  WantsStep \/ Persisting
    BY <1>24 DEF Stop, WantsStep
  <1>25. ASSUME UNCHANGED vars
        PROVE  WantsStep \/ Persisting
    BY <1>25 DEF vars, WantsStep
  <1> QED
    BY <1>1, <1>2, <1>3, <1>4, <1>5, <1>6, <1>7, <1>8, <1>9, <1>10, <1>11, <1>12, <1>13,
       <1>14, <1>15, <1>16, <1>17, <1>18, <1>19, <1>20, <1>21, <1>22, <1>23, <1>24, <1>25
       DEF Next, GetStep, BitswapTask, DhtTask

\* The invariants of the wants survive all of them.
LEMMA WantsInductive ==
  ASSUME WP!IInv, WantsStep \/ Persisting
  PROVE  WP!IInv'
  <1>1. CASE WantsStep
    <2>1. [WP!Next]_(WP!vars)
      BY <1>1, WantsStepIsNext
    <2> QED
      BY <2>1, WantsAssumed, WP!TypeInductive, WP!PendingInductive, WP!AnswererInductive,
         WP!OwnersInductive, WP!ActivationsInductive, WP!AbortInductive, WP!OrphanInductive,
         WP!StoredInductive DEF WP!IInv
  <1>2. CASE Persisting
    <2>1. PICK g \in Gets, ok \in BOOLEAN : Persist(g, ok)
      BY <1>2 DEF Persisting
    <2>2. stored \subseteq stored' /\ (stored \subseteq Cids => stored' \subseteq Cids)
      BY <2>1, NetworkGetAssumption DEF Persist
    <2>3. UNCHANGED <<pending, stopped, owner, deferred, listening, aborted,
                      phase, todo, holding, putFailed, arrived>>
      BY <2>1 DEF Persist
    <2>4. WP!TypeOK'
      BY <2>2, <2>3 DEF WP!IInv, WP!TypeOK
    <2>5. (WP!PendingIsLive /\ WP!OneAnswerer /\ WP!AbortIsFinal /\ WP!OrphanedByAbort)'
      BY <2>3 DEF WP!IInv, WP!PendingIsLive, WP!OneAnswerer, WP!AbortIsFinal,
                  WP!OrphanedByAbort, WP!Orphan, WP!Held
    <2>6. (WP!OwnersOK /\ WP!CreatorsOK /\ WP!ListenersOK)'
      BY <2>3 DEF WP!IInv, WP!OwnersOK, WP!CreatorsOK, WP!ListenersOK
    <2>7. (WP!ActivationsOK /\ WP!StoredBeforeResolved)'
      BY <2>2, <2>3 DEF WP!IInv, WP!ActivationsOK, WP!Answering, WP!StoredBeforeResolved
    <2> QED
      BY <2>4, <2>5, <2>6, <2>7 DEF WP!IInv
  <1> QED
    BY <1>1, <1>2

-----------------------------------------------------------------------------
(* Part 3: what the gets may rely on.                                      *)

\* What the wants may do to the store, to promises and to signals in a step.
WantsEffects ==
  /\ stored \subseteq stored' /\ arrived \subseteq arrived'
  /\ stored' \subseteq stored \cup arrived
  /\ \A c \in Calls : owner[c] # NoCall => owner'[c] # NoCall
  /\ \A c \in Calls : deferred'[c] = "resolved" => deferred[c] = "resolved" \/ CidOf[c] \in arrived
  /\ \A c \in Calls : Hung(c)' => Hung(c) \/ (owner[c] = NoCall /\ SignalOf[c] \in aborted)

LEMMA WantsHaveEffects ==
  ASSUME WP!IInv, WantsStep
  PROVE  WantsEffects
  <1> USE WantsAssumed DEF W!bitswapVars, W!callVars, W!handlerVars, W!storeVars, Hung, WantsEffects
  <1>0. WP!TypeOK /\ WP!ActivationsOK
    BY DEF WP!IInv
  <1>1. ASSUME NEW c \in Calls, W!Coalesce(c)
        PROVE  WantsEffects
    BY <1>0, <1>1 DEF WP!TypeOK, W!Coalesce
  <1>2. ASSUME NEW c \in Calls, W!Register(c)
        PROVE  WantsEffects
    BY <1>0, <1>2 DEF WP!TypeOK, W!Register
  <1>3. ASSUME NEW s \in Signals, W!Abort(s)
        PROVE  WantsEffects
    BY <1>0, <1>3 DEF WP!TypeOK, W!Abort, W!Forget, W!Settle
  <1>4. ASSUME NEW h \in Handlers, NEW m \in W!Messages, W!ReceiveMessage(h, m)
        PROVE  WantsEffects
    BY <1>0, <1>4 DEF WP!TypeOK, W!ReceiveMessage
  <1>5. ASSUME NEW h \in Handlers, W!TakeWanted(h)
        PROVE  WantsEffects
    BY <1>0, <1>5 DEF WP!TypeOK, W!TakeWanted
  <1>6. ASSUME NEW h \in Handlers, W!SkipUnwanted(h)
        PROVE  WantsEffects
    BY <1>0, <1>6 DEF WP!TypeOK, W!SkipUnwanted
  <1>7. ASSUME NEW h \in Handlers, NEW ok \in BOOLEAN, W!Put(h, ok)
        PROVE  WantsEffects
    BY <1>0, <1>7 DEF WP!TypeOK, WP!ActivationsOK, WP!Answering, W!Put
  <1>8. ASSUME NEW h \in Handlers, W!Resolve(h)
        PROVE  WantsEffects
    <2>1. CidOf[holding[h]] \in arrived
      BY <1>0, <1>8 DEF WP!ActivationsOK, WP!Answering, W!Resolve
    <2> QED
      BY <1>0, <1>8, <2>1 DEF WP!TypeOK, W!Resolve, W!Settle
  <1>9. CASE W!Stop
    BY <1>0, <1>9 DEF WP!TypeOK, W!Stop, W!Settle
  <1>10. CASE UNCHANGED wantVars
    BY <1>0, <1>10 DEF WP!TypeOK, wantVars
  <1> QED
    BY <1>1, <1>2, <1>3, <1>4, <1>5, <1>6, <1>7, <1>8, <1>9, <1>10
       DEF WantsStep, W!Want, W!HandlerStep

\* A call that is made has an owner.
LEMMA WantOwns ==
  ASSUME WP!IInv, NEW c \in Calls, W!Want(c)
  PROVE  owner'[c] # NoCall
  BY WantsAssumed DEF W!Want, W!Coalesce, W!Register, WP!IInv, WP!TypeOK,
       W!bitswapVars, W!handlerVars, W!storeVars

\* Timeouts other than those of IPNI start with a want.
SignalsStarted ==
  \A c \in Calls : c[2] # "ipni" /\ c \in aborted => owner[c] # NoCall

\* A block in the store, or in the hands of a get, came from a peer or from
\* the gateway, and a promise is resolved with a block that came.
Grounded ==
  /\ stored \subseteq arrived \cup given
  /\ \A c \in Calls : deferred[c] = "resolved" => CidOf[c] \in arrived
  /\ \A g \in Gets :
       race[g] = "block" \/ pc[g] \in {"put", "ipni_put", "gateway_put"} =>
         CidOfGet[g] \in arrived \cup given

IInv ==
  /\ TypeOK
  /\ WP!IInv
  /\ CallsMade
  /\ SignalsStarted
  /\ HungOnlyFromIpni
  /\ Grounded
  /\ FoundBlocksPersist

\* Either kind of step has those effects, but for what a get puts itself.
LEMMA StepEffects ==
  ASSUME IInv, [Next]_vars
  PROVE  /\ WantsStep \/ Persisting
         /\ stored \subseteq stored' /\ arrived \subseteq arrived'
         /\ stored' \subseteq arrived \cup given
         /\ \A c \in Calls : owner[c] # NoCall => owner'[c] # NoCall
         /\ \A c \in Calls : deferred'[c] = "resolved" => deferred[c] = "resolved" \/ CidOf[c] \in arrived
         /\ \A c \in Calls : Hung(c)' => Hung(c) \/ (owner[c] = NoCall /\ SignalOf[c] \in aborted)
  <1>1. WantsStep \/ Persisting
    BY StepKinds DEF IInv
  <1>2. CASE WantsStep
    BY <1>1, <1>2, WantsHaveEffects DEF IInv, WantsEffects, Grounded
  <1>3. CASE Persisting
    <2>1. stored \subseteq stored' /\ stored' \subseteq arrived \cup given
      BY <1>3 DEF Persisting, Persist, IInv, Grounded
    <2> QED
      BY <1>1, <1>3, <2>1 DEF Persisting, Persist, Hung, IInv, Grounded
  <1> QED
    BY <1>1, <1>2, <1>3

\* Wants that no timeout can end are made under an IPNI signal only.
LEMMA HungInductive ==
  ASSUME IInv, [Next]_vars
  PROVE  HungOnlyFromIpni'
  <1> SUFFICES ASSUME NEW c \in Calls, Hung(c)'
               PROVE  c[2] = "ipni"
    BY DEF HungOnlyFromIpni
  <1>1. CASE Hung(c)
    BY <1>1 DEF IInv, HungOnlyFromIpni
  <1>2. CASE owner[c] = NoCall /\ SignalOf[c] \in aborted
    BY <1>2, CallNames DEF IInv, SignalsStarted
  <1> QED
    BY <1>1, <1>2, StepEffects

-----------------------------------------------------------------------------
(* Part 4: the other parts of the invariant, action by action.             *)

\* The state of the gets has its type; that of the wants is Wants' business.
GetTypes ==
  /\ pc \in [Gets -> Stages]
  /\ bitswap \in [Gets -> {"none", "want", "block", "null"}]
  /\ dht \in [Gets -> {"none", "find", "want", "block", "null"}]
  /\ race \in [Gets -> {"open", "block", "null"}]
  /\ provider \in [Gets -> [dht : Nat, ipni : Nat]]
  /\ \A g \in Gets : provider[g].dht <= Providers[g].dht /\ provider[g].ipni <= Providers[g].ipni
  /\ armed \subseteq Gets
  /\ refused \subseteq Gets
  /\ given \subseteq Cids

LEMMA GetTypesInductive ==
  ASSUME IInv, [Next]_vars
  PROVE  GetTypes'
  <1> USE NetworkGetAssumption DEF Goto, Contend, Stages
  <1>0. GetTypes
    BY DEF IInv, TypeOK, GetTypes
  <1>a. ASSUME NEW g \in Gets, IpniProvider(g)
        PROVE  GetTypes'
    <2> DEFINE q == [provider[g] EXCEPT !.ipni = @ + 1]
    <2>1. provider' = [provider EXCEPT ![g] = q]
      BY <1>a DEF IpniProvider
    <2>2. /\ q \in [dht : Nat, ipni : Nat]
          /\ q.dht <= Providers[g].dht /\ q.ipni <= Providers[g].ipni
      BY <1>0, <1>a, ProviderCounts DEF IpniProvider, GetTypes, IInv
    <2>3. /\ provider' \in [Gets -> [dht : Nat, ipni : Nat]]
          /\ \A h \in Gets : /\ provider'[h].dht <= Providers[h].dht
                             /\ provider'[h].ipni <= Providers[h].ipni
      BY <1>0, <2>1, <2>2 DEF GetTypes
    <2>4. pc' \in [Gets -> Stages]
      BY <1>0, <1>a DEF IpniProvider, GetTypes
    <2> QED
      BY <1>0, <1>a, <2>3, <2>4 DEF IpniProvider, GetTypes
  <1>1. ASSUME NEW g \in Gets, Begin(g)
        PROVE  GetTypes'
    BY <1>0, <1>1 DEF Begin, GetTypes
  <1>2. ASSUME NEW g \in Gets, LocalHit(g)
        PROVE  GetTypes'
    BY <1>0, <1>2 DEF LocalHit, GetTypes
  <1>3. ASSUME NEW g \in Gets, LocalError(g)
        PROVE  GetTypes'
    BY <1>0, <1>3 DEF LocalError, GetTypes
  <1>4. ASSUME NEW g \in Gets, LocalMiss(g)
        PROVE  GetTypes'
    BY <1>0, <1>4 DEF LocalMiss, GetTypes
  <1>5. ASSUME NEW g \in Gets, BitswapEnds(g)
        PROVE  GetTypes'
    BY <1>0, <1>5 DEF BitswapEnds, GetTypes
  <1>6. ASSUME NEW g \in Gets, DhtProvider(g)
        PROVE  GetTypes'
    BY <1>0, <1>6 DEF DhtProvider, GetTypes
  <1>7. ASSUME NEW g \in Gets, DhtWantResolved(g)
        PROVE  GetTypes'
    BY <1>0, <1>7 DEF DhtWantResolved, GetTypes
  <1>8. ASSUME NEW g \in Gets, DhtWantRejected(g)
        PROVE  GetTypes'
    BY <1>0, <1>8 DEF DhtWantRejected, GetTypes
  <1>9. ASSUME NEW g \in Gets, DhtEnds(g)
        PROVE  GetTypes'
    BY <1>0, <1>9 DEF DhtEnds, GetTypes
  <1>10. ASSUME NEW g \in Gets, RaceWon(g)
        PROVE  GetTypes'
    BY <1>0, <1>10 DEF RaceWon, GetTypes
  <1>11. ASSUME NEW g \in Gets, RaceLost(g)
        PROVE  GetTypes'
    BY <1>0, <1>11 DEF RaceLost, GetTypes
  <1>12. ASSUME NEW g \in Gets, IpniFetch(g)
        PROVE  GetTypes'
    <2>1. CASE IpniProvider(g)
      BY <1>0, <1>a, <2>1
    <2>2. CASE IpniGivesUp(g)
      BY <1>0, <2>2 DEF IpniGivesUp, GetTypes
    <2> QED
      BY <1>12, <2>1, <2>2 DEF IpniFetch
  <1>13. ASSUME NEW g \in Gets, IpniWant(g)
        PROVE  GetTypes'
    BY <1>0, <1>13 DEF IpniWant, GetTypes
  <1>14. ASSUME NEW g \in Gets, IpniWantResolved(g)
        PROVE  GetTypes'
    BY <1>0, <1>14 DEF IpniWantResolved, GetTypes
  <1>15. ASSUME NEW g \in Gets, IpniWantRejected(g)
        PROVE  GetTypes'
    <2>1. CASE IpniProvider(g)
      BY <1>0, <1>a, <2>1
    <2>2. CASE IpniGivesUp(g)
      BY <1>0, <2>2 DEF IpniGivesUp, GetTypes
    <2> QED
      BY <1>15, <2>1, <2>2 DEF IpniWantRejected
  <1>16. ASSUME NEW g \in Gets, GatewayHit(g)
        PROVE  GetTypes'
    BY <1>0, <1>16 DEF GatewayHit, GetTypes
  <1>17. ASSUME NEW g \in Gets, GatewayMiss(g)
        PROVE  GetTypes'
    BY <1>0, <1>17 DEF GatewayMiss, GetTypes
  <1>18. ASSUME NEW g \in Gets, NEW ok \in BOOLEAN, PutRaceBlock(g, ok)
        PROVE  GetTypes'
    BY <1>0, <1>18 DEF PutRaceBlock, Persist, GetTypes
  <1>19. ASSUME NEW g \in Gets, NEW ok \in BOOLEAN, PutIpniBlock(g, ok)
        PROVE  GetTypes'
    BY <1>0, <1>19 DEF PutIpniBlock, Persist, GetTypes
  <1>20. ASSUME NEW g \in Gets, NEW ok \in BOOLEAN, PutGatewayBlock(g, ok)
        PROVE  GetTypes'
    BY <1>0, <1>20 DEF PutGatewayBlock, Persist, GetTypes
  <1>21. ASSUME NEW s \in Signals, Timeout(s)
        PROVE  GetTypes'
    BY <1>0, <1>21 DEF Timeout, getVars, GetTypes
  <1>22. ASSUME NEW h \in Handlers, NEW blocks \in W!Messages, Message(h, blocks)
        PROVE  GetTypes'
    BY <1>0, <1>22 DEF Message, getVars, GetTypes
  <1>23. ASSUME NEW h \in Handlers, HandlerStep(h)
        PROVE  GetTypes'
    BY <1>0, <1>23 DEF HandlerStep, getVars, GetTypes
  <1>24. ASSUME Stop
        PROVE  GetTypes'
    BY <1>0, <1>24 DEF Stop, getVars, GetTypes
  <1>25. ASSUME UNCHANGED vars
        PROVE  GetTypes'
    BY <1>0, <1>25 DEF vars, getVars, wantVars, GetTypes
  <1> QED
    BY <1>1, <1>2, <1>3, <1>4, <1>5, <1>6, <1>7, <1>8, <1>9, <1>10, <1>11, <1>12, <1>13,
       <1>14, <1>15, <1>16, <1>17, <1>18, <1>19, <1>20, <1>21, <1>22, <1>23, <1>24, <1>25
       DEF Next, GetStep, BitswapTask, DhtTask

\* The calls awaited are calls.
LEMMA AwaitedCalls ==
  ASSUME IInv, NEW g \in Gets
  PROVE  /\ bitswap[g] = "want" => <<g, "bitswap", 0>> \in Calls
         /\ dht[g] = "want" => <<g, "dht", provider[g].dht>> \in Calls
         /\ pc[g] \in {"ipni_dial", "ipni_want"} => <<g, "ipni", provider[g].ipni>> \in Calls
  <1>0. CallsOf(g) /\ TypeOK
    BY DEF IInv, CallsMade
  <1>1. dht[g] = "want" => provider[g].dht >= 1
    BY <1>0 DEF CallsOf
  <1>2. dht[g] = "want" => provider[g].dht \in 1..Providers[g].dht
    BY <1>0, <1>1, ProviderCounts
  <1>3. pc[g] \in {"ipni_dial", "ipni_want"} => provider[g].ipni >= 1
    BY <1>0 DEF CallsOf
  <1>4. pc[g] \in {"ipni_dial", "ipni_want"} => provider[g].ipni \in 1..Providers[g].ipni
    BY <1>0, <1>3, ProviderCounts
  <1> QED
    BY <1>2, <1>4, ProviderCalls

\* Awaited calls stay made.
LEMMA CallsInductive ==
  ASSUME IInv, [Next]_vars
  PROVE  CallsMade'
  <1> USE DEF Goto, Contend
  <1>0. CallsMade /\ GetTypes /\ TypeOK /\ WP!IInv
    BY DEF IInv, TypeOK, GetTypes
  <1>a. \A c \in Calls : owner[c] # NoCall => owner'[c] # NoCall
    BY StepEffects
  \* A get that makes no call and takes no provider.
  <1>b. ASSUME NEW g \in Gets, provider'[g] = provider[g],
               bitswap'[g] = "want" => bitswap[g] = "want",
               dht'[g] = "want" => dht[g] = "want",
               pc'[g] \in {"ipni_dial", "ipni_want"} => pc'[g] = pc[g]
        PROVE  CallsOf(g)'
    BY <1>0, <1>a, <1>b, AwaitedCalls DEF CallsMade, CallsOf
  \* A get that takes a provider of IPNI.
  <1>c. ASSUME NEW g \in Gets, IpniProvider(g)
        PROVE  CallsOf(g)'
    <2>1. /\ provider'[g].dht = provider[g].dht /\ provider'[g].ipni = provider[g].ipni + 1
          /\ pc'[g] = "ipni_dial" /\ bitswap' = bitswap /\ dht' = dht
      BY <1>0, <1>c DEF IpniProvider, GetTypes
    <2>2. provider'[g].ipni >= 1
      BY <1>0, <2>1, ProviderCounts
    <2> QED
      BY <1>0, <1>a, <2>1, <2>2, AwaitedCalls DEF CallsMade, CallsOf
  <1>1. ASSUME NEW g \in Gets, Begin(g)
        PROVE  CallsMade'
    BY <1>0, <1>b, <1>1 DEF Begin, CallsMade, GetTypes
  <1>2. ASSUME NEW g \in Gets, LocalHit(g)
        PROVE  CallsMade'
    BY <1>0, <1>b, <1>2 DEF LocalHit, CallsMade, GetTypes
  <1>3. ASSUME NEW g \in Gets, LocalError(g)
        PROVE  CallsMade'
    BY <1>0, <1>b, <1>3 DEF LocalError, CallsMade, GetTypes
  <1>4. ASSUME NEW g \in Gets, LocalMiss(g)
        PROVE  CallsMade'
    <2>1. owner'[<<g, "bitswap", 0>>] # NoCall
      BY <1>0, <1>4, WantOwns, ProviderCalls, AwaitedCalls DEF LocalMiss
    <2>2. CallsOf(g)'
      BY <1>0, <1>a, <1>4, <2>1, AwaitedCalls DEF LocalMiss, GetTypes, CallsMade, CallsOf
    <2> QED
      BY <1>0, <1>b, <1>4, <2>2 DEF LocalMiss, CallsMade, GetTypes
  <1>5. ASSUME NEW g \in Gets, BitswapEnds(g)
        PROVE  CallsMade'
    BY <1>0, <1>b, <1>5 DEF BitswapEnds, CallsMade, GetTypes
  <1>6. ASSUME NEW g \in Gets, DhtProvider(g)
        PROVE  CallsMade'
    <2>0. provider[g].dht + 1 \in 1..Providers[g].dht
      BY <1>0, <1>6, ProviderCounts DEF DhtProvider
    <2>1. owner'[<<g, "dht", provider[g].dht + 1>>] # NoCall
      BY <1>0, <1>6, <2>0, WantOwns, ProviderCalls, AwaitedCalls DEF DhtProvider
    <2>2. CallsOf(g)'
      <3>1. /\ provider'[g].dht = provider[g].dht + 1 /\ provider'[g].ipni = provider[g].ipni
            /\ pc' = pc /\ bitswap' = bitswap
        BY <1>0, <1>6 DEF DhtProvider, GetTypes
      <3>2. provider'[g].dht >= 1
        BY <1>0, <3>1, ProviderCounts
      <3> QED
        BY <1>0, <1>a, <2>1, <3>1, <3>2, AwaitedCalls DEF CallsMade, CallsOf
    <2> QED
      BY <1>0, <1>b, <1>6, <2>2 DEF DhtProvider, CallsMade, GetTypes
  <1>7. ASSUME NEW g \in Gets, DhtWantResolved(g)
        PROVE  CallsMade'
    BY <1>0, <1>b, <1>7 DEF DhtWantResolved, CallsMade, GetTypes
  <1>8. ASSUME NEW g \in Gets, DhtWantRejected(g)
        PROVE  CallsMade'
    BY <1>0, <1>b, <1>8 DEF DhtWantRejected, CallsMade, GetTypes
  <1>9. ASSUME NEW g \in Gets, DhtEnds(g)
        PROVE  CallsMade'
    BY <1>0, <1>b, <1>9 DEF DhtEnds, CallsMade, GetTypes
  <1>10. ASSUME NEW g \in Gets, RaceWon(g)
        PROVE  CallsMade'
    BY <1>0, <1>b, <1>10 DEF RaceWon, CallsMade, GetTypes
  <1>11. ASSUME NEW g \in Gets, RaceLost(g)
        PROVE  CallsMade'
    BY <1>0, <1>b, <1>11 DEF RaceLost, CallsMade, GetTypes
  <1>12. ASSUME NEW g \in Gets, IpniFetch(g)
        PROVE  CallsMade'
    <2>1. CallsOf(g)'
      BY <1>0, <1>b, <1>c, <1>12 DEF IpniFetch, IpniGivesUp, GetTypes
    <2> QED
      BY <1>0, <1>b, <1>12, <2>1 DEF IpniFetch, IpniProvider, IpniGivesUp, CallsMade, GetTypes
  <1>13. ASSUME NEW g \in Gets, IpniWant(g)
        PROVE  CallsMade'
    <2>1. owner'[<<g, "ipni", provider[g].ipni>>] # NoCall
      BY <1>0, <1>13, WantOwns, ProviderCalls, AwaitedCalls DEF IpniWant
    <2>2. CallsOf(g)'
      BY <1>0, <1>a, <1>13, <2>1, AwaitedCalls DEF IpniWant, GetTypes, CallsMade, CallsOf
    <2> QED
      BY <1>0, <1>b, <1>13, <2>2 DEF IpniWant, CallsMade, GetTypes
  <1>14. ASSUME NEW g \in Gets, IpniWantResolved(g)
        PROVE  CallsMade'
    BY <1>0, <1>b, <1>14 DEF IpniWantResolved, CallsMade, GetTypes
  <1>15. ASSUME NEW g \in Gets, IpniWantRejected(g)
        PROVE  CallsMade'
    <2>1. CallsOf(g)'
      BY <1>0, <1>b, <1>c, <1>15 DEF IpniWantRejected, IpniGivesUp, GetTypes
    <2> QED
      BY <1>0, <1>b, <1>15, <2>1 DEF IpniWantRejected, IpniProvider, IpniGivesUp, CallsMade, GetTypes
  <1>16. ASSUME NEW g \in Gets, GatewayHit(g)
        PROVE  CallsMade'
    BY <1>0, <1>b, <1>16 DEF GatewayHit, CallsMade, GetTypes
  <1>17. ASSUME NEW g \in Gets, GatewayMiss(g)
        PROVE  CallsMade'
    BY <1>0, <1>b, <1>17 DEF GatewayMiss, CallsMade, GetTypes
  <1>18. ASSUME NEW g \in Gets, NEW ok \in BOOLEAN, PutRaceBlock(g, ok)
        PROVE  CallsMade'
    BY <1>0, <1>b, <1>18 DEF PutRaceBlock, Persist, CallsMade, GetTypes
  <1>19. ASSUME NEW g \in Gets, NEW ok \in BOOLEAN, PutIpniBlock(g, ok)
        PROVE  CallsMade'
    BY <1>0, <1>b, <1>19 DEF PutIpniBlock, Persist, CallsMade, GetTypes
  <1>20. ASSUME NEW g \in Gets, NEW ok \in BOOLEAN, PutGatewayBlock(g, ok)
        PROVE  CallsMade'
    BY <1>0, <1>b, <1>20 DEF PutGatewayBlock, Persist, CallsMade, GetTypes
  <1>21. ASSUME NEW s \in Signals, Timeout(s)
        PROVE  CallsMade'
    BY <1>0, <1>b, <1>21 DEF Timeout, getVars, CallsMade, GetTypes
  <1>22. ASSUME NEW h \in Handlers, NEW blocks \in W!Messages, Message(h, blocks)
        PROVE  CallsMade'
    BY <1>0, <1>b, <1>22 DEF Message, getVars, CallsMade, GetTypes
  <1>23. ASSUME NEW h \in Handlers, HandlerStep(h)
        PROVE  CallsMade'
    BY <1>0, <1>b, <1>23 DEF HandlerStep, getVars, CallsMade, GetTypes
  <1>24. ASSUME Stop
        PROVE  CallsMade'
    BY <1>0, <1>b, <1>24 DEF Stop, getVars, CallsMade, GetTypes
  <1>25. ASSUME UNCHANGED vars
        PROVE  CallsMade'
    BY <1>0, <1>b, <1>25 DEF vars, getVars, wantVars, CallsMade, GetTypes
  <1> QED
    BY <1>1, <1>2, <1>3, <1>4, <1>5, <1>6, <1>7, <1>8, <1>9, <1>10, <1>11, <1>12, <1>13,
       <1>14, <1>15, <1>16, <1>17, <1>18, <1>19, <1>20, <1>21, <1>22, <1>23, <1>24, <1>25
       DEF Next, GetStep, BitswapTask, DhtTask

\* Signals fire by their timeouts only.
LEMMA AbortsAreTimeouts ==
  ASSUME [Next]_vars
  PROVE  aborted' = aborted \/ \E s \in Signals : Timeout(s)
  <1>1. ASSUME NEW g \in Gets, Begin(g)
        PROVE  aborted' = aborted \/ \E s \in Signals : Timeout(s)
    BY <1>1 DEF Begin, wantVars
  <1>2. ASSUME NEW g \in Gets, LocalHit(g)
        PROVE  aborted' = aborted \/ \E s \in Signals : Timeout(s)
    BY <1>2 DEF LocalHit, wantVars
  <1>3. ASSUME NEW g \in Gets, LocalError(g)
        PROVE  aborted' = aborted \/ \E s \in Signals : Timeout(s)
    BY <1>3 DEF LocalError, wantVars
  <1>4. ASSUME NEW g \in Gets, LocalMiss(g)
        PROVE  aborted' = aborted \/ \E s \in Signals : Timeout(s)
    BY <1>4 DEF LocalMiss, W!Want, W!Coalesce, W!Register, wantVars
  <1>5. ASSUME NEW g \in Gets, BitswapEnds(g)
        PROVE  aborted' = aborted \/ \E s \in Signals : Timeout(s)
    BY <1>5 DEF BitswapEnds, wantVars
  <1>6. ASSUME NEW g \in Gets, DhtProvider(g)
        PROVE  aborted' = aborted \/ \E s \in Signals : Timeout(s)
    BY <1>6 DEF DhtProvider, W!Want, W!Coalesce, W!Register, wantVars
  <1>7. ASSUME NEW g \in Gets, DhtWantResolved(g)
        PROVE  aborted' = aborted \/ \E s \in Signals : Timeout(s)
    BY <1>7 DEF DhtWantResolved, wantVars
  <1>8. ASSUME NEW g \in Gets, DhtWantRejected(g)
        PROVE  aborted' = aborted \/ \E s \in Signals : Timeout(s)
    BY <1>8 DEF DhtWantRejected, wantVars
  <1>9. ASSUME NEW g \in Gets, DhtEnds(g)
        PROVE  aborted' = aborted \/ \E s \in Signals : Timeout(s)
    BY <1>9 DEF DhtEnds, wantVars
  <1>10. ASSUME NEW g \in Gets, RaceWon(g)
        PROVE  aborted' = aborted \/ \E s \in Signals : Timeout(s)
    BY <1>10 DEF RaceWon, wantVars
  <1>11. ASSUME NEW g \in Gets, RaceLost(g)
        PROVE  aborted' = aborted \/ \E s \in Signals : Timeout(s)
    BY <1>11 DEF RaceLost, wantVars
  <1>12. ASSUME NEW g \in Gets, IpniFetch(g)
        PROVE  aborted' = aborted \/ \E s \in Signals : Timeout(s)
    BY <1>12 DEF IpniFetch, IpniProvider, IpniGivesUp, wantVars
  <1>13. ASSUME NEW g \in Gets, IpniWant(g)
        PROVE  aborted' = aborted \/ \E s \in Signals : Timeout(s)
    BY <1>13 DEF IpniWant, W!Want, W!Coalesce, W!Register, wantVars
  <1>14. ASSUME NEW g \in Gets, IpniWantResolved(g)
        PROVE  aborted' = aborted \/ \E s \in Signals : Timeout(s)
    BY <1>14 DEF IpniWantResolved, wantVars
  <1>15. ASSUME NEW g \in Gets, IpniWantRejected(g)
        PROVE  aborted' = aborted \/ \E s \in Signals : Timeout(s)
    BY <1>15 DEF IpniWantRejected, IpniProvider, IpniGivesUp, wantVars
  <1>16. ASSUME NEW g \in Gets, GatewayHit(g)
        PROVE  aborted' = aborted \/ \E s \in Signals : Timeout(s)
    BY <1>16 DEF GatewayHit, wantVars
  <1>17. ASSUME NEW g \in Gets, GatewayMiss(g)
        PROVE  aborted' = aborted \/ \E s \in Signals : Timeout(s)
    BY <1>17 DEF GatewayMiss, wantVars
  <1>18. ASSUME NEW g \in Gets, NEW ok \in BOOLEAN, PutRaceBlock(g, ok)
        PROVE  aborted' = aborted \/ \E s \in Signals : Timeout(s)
    BY <1>18 DEF PutRaceBlock, Persist, wantVars
  <1>19. ASSUME NEW g \in Gets, NEW ok \in BOOLEAN, PutIpniBlock(g, ok)
        PROVE  aborted' = aborted \/ \E s \in Signals : Timeout(s)
    BY <1>19 DEF PutIpniBlock, Persist, wantVars
  <1>20. ASSUME NEW g \in Gets, NEW ok \in BOOLEAN, PutGatewayBlock(g, ok)
        PROVE  aborted' = aborted \/ \E s \in Signals : Timeout(s)
    BY <1>20 DEF PutGatewayBlock, Persist, wantVars
  <1>21. ASSUME NEW u \in Signals, Timeout(u)
        PROVE  aborted' = aborted \/ \E s \in Signals : Timeout(s)
    BY <1>21
  <1>22. ASSUME NEW h \in Handlers, NEW blocks \in W!Messages, Message(h, blocks)
        PROVE  aborted' = aborted \/ \E s \in Signals : Timeout(s)
    BY <1>22 DEF Message, W!ReceiveMessage, W!callVars
  <1>23. ASSUME NEW h \in Handlers, HandlerStep(h)
        PROVE  aborted' = aborted \/ \E s \in Signals : Timeout(s)
    BY <1>23 DEF HandlerStep, W!HandlerStep, W!TakeWanted, W!SkipUnwanted, W!Put, W!Resolve, W!callVars
  <1>24. ASSUME Stop
        PROVE  aborted' = aborted \/ \E s \in Signals : Timeout(s)
    BY <1>24 DEF Stop, W!Stop
  <1>25. ASSUME UNCHANGED vars
        PROVE  aborted' = aborted \/ \E s \in Signals : Timeout(s)
    BY <1>25 DEF vars, getVars, wantVars
  <1> QED
    BY <1>1, <1>2, <1>3, <1>4, <1>5, <1>6, <1>7, <1>8, <1>9, <1>10, <1>11, <1>12, <1>13,
       <1>14, <1>15, <1>16, <1>17, <1>18, <1>19, <1>20, <1>21, <1>22, <1>23, <1>24, <1>25
       DEF Next, GetStep, BitswapTask, DhtTask

\* A timeout fires only for a call that is made.
LEMMA SignalsInductive ==
  ASSUME IInv, [Next]_vars
  PROVE  SignalsStarted'
  <1>0. SignalsStarted /\ \A c \in Calls : owner[c] # NoCall => owner'[c] # NoCall
    BY StepEffects DEF IInv
  <1>1. ASSUME NEW s \in Signals, Timeout(s)
        PROVE  SignalsStarted'
    BY <1>0, <1>1 DEF Timeout, SignalStarted, W!Abort, SignalsStarted
  <1>2. CASE aborted' = aborted
    BY <1>0, <1>2 DEF SignalsStarted
  <1>3. aborted' = aborted \/ \E s \in Signals : Timeout(s)
    BY AbortsAreTimeouts
  <1> QED
    BY <1>1, <1>2, <1>3

\* A promise resolved for a call has its block.
LEMMA OutcomeGrounded ==
  ASSUME IInv, NEW c \in Calls, owner[c] # NoCall, Outcome(c) = "resolved"
  PROVE  CidOfGet[c[1]] \in arrived
  <1>1. owner[c] \in Calls /\ CidOf[owner[c]] = CidOf[c]
    BY DEF IInv, WP!IInv, WP!TypeOK, WP!OwnersOK
  <1> QED
    BY <1>1, CallNames DEF IInv, Grounded, Outcome

LEMMA AwaitedBlocks ==
  ASSUME IInv, NEW g \in Gets
  PROVE  /\ bitswap[g] = "want" /\ Outcome(<<g, "bitswap", 0>>) = "resolved" =>
              CidOfGet[g] \in arrived
         /\ dht[g] = "want" /\ Outcome(<<g, "dht", provider[g].dht>>) = "resolved" =>
              CidOfGet[g] \in arrived
         /\ pc[g] = "ipni_want" /\ Outcome(<<g, "ipni", provider[g].ipni>>) = "resolved" =>
              CidOfGet[g] \in arrived
  <1>1. ASSUME bitswap[g] = "want", Outcome(<<g, "bitswap", 0>>) = "resolved"
        PROVE  CidOfGet[<<g, "bitswap", 0>>[1]] \in arrived
    BY <1>1, AwaitedCalls, OutcomeGrounded DEF IInv, CallsMade, CallsOf
  <1>2. ASSUME dht[g] = "want", Outcome(<<g, "dht", provider[g].dht>>) = "resolved"
        PROVE  CidOfGet[<<g, "dht", provider[g].dht>>[1]] \in arrived
    BY <1>2, AwaitedCalls, OutcomeGrounded DEF IInv, CallsMade, CallsOf
  <1>3. ASSUME pc[g] = "ipni_want", Outcome(<<g, "ipni", provider[g].ipni>>) = "resolved"
        PROVE  CidOfGet[<<g, "ipni", provider[g].ipni>>[1]] \in arrived
    BY <1>3, AwaitedCalls, OutcomeGrounded DEF IInv, CallsMade, CallsOf
  <1> QED
    BY <1>1, <1>2, <1>3

\* What gets hold has come from somewhere.
LEMMA GroundedInductive ==
  ASSUME IInv, [Next]_vars
  PROVE  Grounded'
  <1> USE DEF Goto, Contend
  <1> DEFINE Resolved(c) == deferred[c] = "resolved" => CidOf[c] \in arrived
  <1>0. /\ GetTypes /\ GetTypes'
        /\ arrived \subseteq arrived'
        /\ \A g \in Gets : race[g] = "block" \/ pc[g] \in {"put", "ipni_put", "gateway_put"} =>
             CidOfGet[g] \in arrived \cup given
    BY StepEffects, GetTypesInductive DEF IInv, TypeOK, GetTypes, Grounded
  <1>a. stored' \subseteq arrived' \cup given
    BY StepEffects
  <1>b. (\A c \in Calls : Resolved(c))'
    BY StepEffects DEF IInv, Grounded
  <1>c. ASSUME given \subseteq given',
               \A g \in Gets :
                 race'[g] = "block" \/ pc'[g] \in {"put", "ipni_put", "gateway_put"} =>
                   \/ race[g] = "block" \/ pc[g] \in {"put", "ipni_put", "gateway_put"}
                   \/ CidOfGet[g] \in arrived \cup given'
        PROVE  Grounded'
    BY <1>0, <1>a, <1>b, <1>c DEF Grounded
  <1>1. ASSUME NEW g \in Gets, Begin(g)
        PROVE  Grounded'
    BY <1>0, <1>c, <1>1 DEF Begin, GetTypes
  <1>2. ASSUME NEW g \in Gets, LocalHit(g)
        PROVE  Grounded'
    BY <1>0, <1>c, <1>2 DEF LocalHit, GetTypes
  <1>3. ASSUME NEW g \in Gets, LocalError(g)
        PROVE  Grounded'
    BY <1>0, <1>c, <1>3 DEF LocalError, GetTypes
  <1>4. ASSUME NEW g \in Gets, LocalMiss(g)
        PROVE  Grounded'
    BY <1>0, <1>c, <1>4 DEF LocalMiss, GetTypes
  <1>5. ASSUME NEW g \in Gets, BitswapEnds(g)
        PROVE  Grounded'
    BY <1>0, <1>c, <1>5, AwaitedBlocks DEF BitswapEnds, GetTypes
  <1>6. ASSUME NEW g \in Gets, DhtProvider(g)
        PROVE  Grounded'
    BY <1>0, <1>c, <1>6 DEF DhtProvider, GetTypes
  <1>7. ASSUME NEW g \in Gets, DhtWantResolved(g)
        PROVE  Grounded'
    BY <1>0, <1>c, <1>7, AwaitedBlocks DEF DhtWantResolved, GetTypes
  <1>8. ASSUME NEW g \in Gets, DhtWantRejected(g)
        PROVE  Grounded'
    BY <1>0, <1>c, <1>8 DEF DhtWantRejected, GetTypes
  <1>9. ASSUME NEW g \in Gets, DhtEnds(g)
        PROVE  Grounded'
    BY <1>0, <1>c, <1>9 DEF DhtEnds, GetTypes
  <1>10. ASSUME NEW g \in Gets, RaceWon(g)
        PROVE  Grounded'
    BY <1>0, <1>c, <1>10 DEF RaceWon, GetTypes
  <1>11. ASSUME NEW g \in Gets, RaceLost(g)
        PROVE  Grounded'
    BY <1>0, <1>c, <1>11 DEF RaceLost, GetTypes
  <1>12. ASSUME NEW g \in Gets, IpniFetch(g)
        PROVE  Grounded'
    BY <1>0, <1>c, <1>12 DEF IpniFetch, IpniProvider, IpniGivesUp, GetTypes
  <1>13. ASSUME NEW g \in Gets, IpniWant(g)
        PROVE  Grounded'
    BY <1>0, <1>c, <1>13 DEF IpniWant, GetTypes
  <1>14. ASSUME NEW g \in Gets, IpniWantResolved(g)
        PROVE  Grounded'
    BY <1>0, <1>c, <1>14, AwaitedBlocks DEF IpniWantResolved, GetTypes
  <1>15. ASSUME NEW g \in Gets, IpniWantRejected(g)
        PROVE  Grounded'
    BY <1>0, <1>c, <1>15 DEF IpniWantRejected, IpniProvider, IpniGivesUp, GetTypes
  <1>16. ASSUME NEW g \in Gets, GatewayHit(g)
        PROVE  Grounded'
    BY <1>0, <1>c, <1>16 DEF GatewayHit, GetTypes
  <1>17. ASSUME NEW g \in Gets, GatewayMiss(g)
        PROVE  Grounded'
    BY <1>0, <1>c, <1>17 DEF GatewayMiss, GetTypes
  <1>18. ASSUME NEW g \in Gets, NEW ok \in BOOLEAN, PutRaceBlock(g, ok)
        PROVE  Grounded'
    BY <1>0, <1>c, <1>18 DEF PutRaceBlock, Persist, GetTypes
  <1>19. ASSUME NEW g \in Gets, NEW ok \in BOOLEAN, PutIpniBlock(g, ok)
        PROVE  Grounded'
    BY <1>0, <1>c, <1>19 DEF PutIpniBlock, Persist, GetTypes
  <1>20. ASSUME NEW g \in Gets, NEW ok \in BOOLEAN, PutGatewayBlock(g, ok)
        PROVE  Grounded'
    BY <1>0, <1>c, <1>20 DEF PutGatewayBlock, Persist, GetTypes
  <1>21. ASSUME NEW s \in Signals, Timeout(s)
        PROVE  Grounded'
    BY <1>0, <1>c, <1>21 DEF Timeout, getVars, GetTypes
  <1>22. ASSUME NEW h \in Handlers, NEW blocks \in W!Messages, Message(h, blocks)
        PROVE  Grounded'
    BY <1>0, <1>c, <1>22 DEF Message, getVars, GetTypes
  <1>23. ASSUME NEW h \in Handlers, HandlerStep(h)
        PROVE  Grounded'
    BY <1>0, <1>c, <1>23 DEF HandlerStep, getVars, GetTypes
  <1>24. ASSUME Stop
        PROVE  Grounded'
    BY <1>0, <1>c, <1>24 DEF Stop, getVars, GetTypes
  <1>25. ASSUME UNCHANGED vars
        PROVE  Grounded'
    BY <1>0, <1>c, <1>25 DEF vars, getVars, wantVars, GetTypes
  <1> QED
    BY <1>1, <1>2, <1>3, <1>4, <1>5, <1>6, <1>7, <1>8, <1>9, <1>10, <1>11, <1>12, <1>13,
       <1>14, <1>15, <1>16, <1>17, <1>18, <1>19, <1>20, <1>21, <1>22, <1>23, <1>24, <1>25
       DEF Next, GetStep, BitswapTask, DhtTask

\* Found blocks persist.
LEMMA PersistInductive ==
  ASSUME IInv, [Next]_vars
  PROVE  FoundBlocksPersist'
  <1> USE DEF Goto, Contend
  <1>0. /\ FoundBlocksPersist
        /\ GetTypes
        /\ stored \subseteq stored'
    BY StepEffects DEF IInv, TypeOK, GetTypes
  <1>1. ASSUME NEW g \in Gets, Begin(g)
        PROVE  FoundBlocksPersist'
    BY <1>0, <1>1 DEF Begin, FoundBlocksPersist, GetTypes
  <1>2. ASSUME NEW g \in Gets, LocalHit(g)
        PROVE  FoundBlocksPersist'
    BY <1>0, <1>2 DEF LocalHit, FoundBlocksPersist, GetTypes
  <1>3. ASSUME NEW g \in Gets, LocalError(g)
        PROVE  FoundBlocksPersist'
    BY <1>0, <1>3 DEF LocalError, FoundBlocksPersist, GetTypes
  <1>4. ASSUME NEW g \in Gets, LocalMiss(g)
        PROVE  FoundBlocksPersist'
    BY <1>0, <1>4 DEF LocalMiss, FoundBlocksPersist, GetTypes
  <1>5. ASSUME NEW g \in Gets, BitswapEnds(g)
        PROVE  FoundBlocksPersist'
    BY <1>0, <1>5 DEF BitswapEnds, FoundBlocksPersist, GetTypes
  <1>6. ASSUME NEW g \in Gets, DhtProvider(g)
        PROVE  FoundBlocksPersist'
    BY <1>0, <1>6 DEF DhtProvider, FoundBlocksPersist, GetTypes
  <1>7. ASSUME NEW g \in Gets, DhtWantResolved(g)
        PROVE  FoundBlocksPersist'
    BY <1>0, <1>7 DEF DhtWantResolved, FoundBlocksPersist, GetTypes
  <1>8. ASSUME NEW g \in Gets, DhtWantRejected(g)
        PROVE  FoundBlocksPersist'
    BY <1>0, <1>8 DEF DhtWantRejected, FoundBlocksPersist, GetTypes
  <1>9. ASSUME NEW g \in Gets, DhtEnds(g)
        PROVE  FoundBlocksPersist'
    BY <1>0, <1>9 DEF DhtEnds, FoundBlocksPersist, GetTypes
  <1>10. ASSUME NEW g \in Gets, RaceWon(g)
        PROVE  FoundBlocksPersist'
    BY <1>0, <1>10 DEF RaceWon, FoundBlocksPersist, GetTypes
  <1>11. ASSUME NEW g \in Gets, RaceLost(g)
        PROVE  FoundBlocksPersist'
    BY <1>0, <1>11 DEF RaceLost, FoundBlocksPersist, GetTypes
  <1>12. ASSUME NEW g \in Gets, IpniFetch(g)
        PROVE  FoundBlocksPersist'
    BY <1>0, <1>12 DEF IpniFetch, IpniProvider, IpniGivesUp, FoundBlocksPersist, GetTypes
  <1>13. ASSUME NEW g \in Gets, IpniWant(g)
        PROVE  FoundBlocksPersist'
    BY <1>0, <1>13 DEF IpniWant, FoundBlocksPersist, GetTypes
  <1>14. ASSUME NEW g \in Gets, IpniWantResolved(g)
        PROVE  FoundBlocksPersist'
    BY <1>0, <1>14 DEF IpniWantResolved, FoundBlocksPersist, GetTypes
  <1>15. ASSUME NEW g \in Gets, IpniWantRejected(g)
        PROVE  FoundBlocksPersist'
    BY <1>0, <1>15 DEF IpniWantRejected, IpniProvider, IpniGivesUp, FoundBlocksPersist, GetTypes
  <1>16. ASSUME NEW g \in Gets, GatewayHit(g)
        PROVE  FoundBlocksPersist'
    BY <1>0, <1>16 DEF GatewayHit, FoundBlocksPersist, GetTypes
  <1>17. ASSUME NEW g \in Gets, GatewayMiss(g)
        PROVE  FoundBlocksPersist'
    BY <1>0, <1>17 DEF GatewayMiss, FoundBlocksPersist, GetTypes
  <1>18. ASSUME NEW g \in Gets, NEW ok \in BOOLEAN, PutRaceBlock(g, ok)
        PROVE  FoundBlocksPersist'
    BY <1>0, <1>18 DEF PutRaceBlock, Persist, FoundBlocksPersist, GetTypes
  <1>19. ASSUME NEW g \in Gets, NEW ok \in BOOLEAN, PutIpniBlock(g, ok)
        PROVE  FoundBlocksPersist'
    BY <1>0, <1>19 DEF PutIpniBlock, Persist, FoundBlocksPersist, GetTypes
  <1>20. ASSUME NEW g \in Gets, NEW ok \in BOOLEAN, PutGatewayBlock(g, ok)
        PROVE  FoundBlocksPersist'
    BY <1>0, <1>20 DEF PutGatewayBlock, Persist, FoundBlocksPersist, GetTypes
  <1>21. ASSUME NEW s \in Signals, Timeout(s)
        PROVE  FoundBlocksPersist'
    BY <1>0, <1>21 DEF Timeout, getVars, FoundBlocksPersist, GetTypes
  <1>22. ASSUME NEW h \in Handlers, NEW blocks \in W!Messages, Message(h, blocks)
        PROVE  FoundBlocksPersist'
    BY <1>0, <1>22 DEF Message, getVars, FoundBlocksPersist, GetTypes
  <1>23. ASSUME NEW h \in Handlers, HandlerStep(h)
        PROVE  FoundBlocksPersist'
    BY <1>0, <1>23 DEF HandlerStep, getVars, FoundBlocksPersist, GetTypes
  <1>24. ASSUME Stop
        PROVE  FoundBlocksPersist'
    BY <1>0, <1>24 DEF Stop, getVars, FoundBlocksPersist, GetTypes
  <1>25. ASSUME UNCHANGED vars
        PROVE  FoundBlocksPersist'
    BY <1>0, <1>25 DEF vars, getVars, wantVars, FoundBlocksPersist, GetTypes
  <1> QED
    BY <1>1, <1>2, <1>3, <1>4, <1>5, <1>6, <1>7, <1>8, <1>9, <1>10, <1>11, <1>12, <1>13,
       <1>14, <1>15, <1>16, <1>17, <1>18, <1>19, <1>20, <1>21, <1>22, <1>23, <1>24, <1>25
       DEF Next, GetStep, BitswapTask, DhtTask


-----------------------------------------------------------------------------
(* Part 5: the theorems.                                                   *)

LEMMA InvariantHolds == Spec => []IInv
  <1>1. Init => IInv
    <2> SUFFICES ASSUME Init
                 PROVE  IInv
      OBVIOUS
    <2> USE NetworkGetAssumption, WantsAssumed DEF Init
    <2>0. <<>> \in Seq(Cids)
      OBVIOUS
    <2>a. PICK blocks \in SUBSET Cids : W!StartOver(blocks)
      OBVIOUS
    <2> USE <2>a DEF W!StartOver
    <2>1. WP!TypeOK
      BY <2>0 DEF WP!TypeOK, WP!DeferredStates, WP!Phases
    <2>b. WP!PendingIsLive /\ WP!OneAnswerer /\ WP!ActivationsOK
      BY DEF WP!PendingIsLive, WP!OneAnswerer, WP!ActivationsOK, WP!Answering
    <2>2. WP!IInv
      BY <2>1, <2>b DEF WP!IInv, WP!OwnersOK, WP!CreatorsOK, WP!ListenersOK, WP!AbortIsFinal,
         WP!OrphanedByAbort, WP!Orphan, WP!StoredBeforeResolved
    <2>3. GetTypes
      BY DEF GetTypes, Stages
    <2>4. TypeOK
      BY <2>2, <2>3 DEF WP!IInv, WP!TypeOK, WP!DeferredStates, WP!Phases, TypeOK, GetTypes,
         W!TypeOK, W!DeferredStates, W!Phases
    <2>5. CallsMade /\ SignalsStarted /\ HungOnlyFromIpni /\ Grounded /\ FoundBlocksPersist
      BY DEF CallsMade, CallsOf, SignalsStarted, HungOnlyFromIpni, Hung, Grounded,
         FoundBlocksPersist
    <2> QED
      BY <2>2, <2>4, <2>5 DEF IInv
  <1>2. IInv /\ [Next]_vars => IInv'
    <2> SUFFICES ASSUME IInv, [Next]_vars
                 PROVE  IInv'
      OBVIOUS
    <2>1. WP!IInv'
      BY StepEffects, WantsInductive DEF IInv
    <2>2. GetTypes'
      BY GetTypesInductive
    <2>3. TypeOK'
      BY <2>1, <2>2 DEF WP!IInv, WP!TypeOK, WP!DeferredStates, WP!Phases, TypeOK, GetTypes,
         W!TypeOK, W!DeferredStates, W!Phases
    <2> QED
      BY <2>1, <2>3, CallsInductive, SignalsInductive, HungInductive, GroundedInductive,
         PersistInductive DEF IInv
  <1> QED
    BY <1>1, <1>2, PTL DEF Spec

\* Every variable of the gets and of the wants below them keeps its type.
THEOREM TypeCorrect == Spec => []TypeOK
  <1>1. IInv => TypeOK
    BY DEF IInv
  <1> QED
    BY <1>1, InvariantHolds, PTL

\* A get that answers with a block found anywhere leaves it in the local store,
\* or its own put failed: abandoned contestants of the race do not matter.
THEOREM FoundBlocksStay == Spec => []FoundBlocksPersist
  <1>1. IInv => FoundBlocksPersist
    BY DEF IInv
  <1> QED
    BY <1>1, InvariantHolds, PTL

\* The one place that makes wants no timeout can end is the IPNI stage.
THEOREM OnlyIpniHangs == Spec => []HungOnlyFromIpni
  <1>1. IInv => HungOnlyFromIpni
    BY DEF IInv
  <1> QED
    BY <1>1, InvariantHolds, PTL

\* The guarantees of the wants hold under the gets, which put blocks of their
\* own: open entries, single answerers, final timeouts, store before answer.
THEOREM WantsStaySound ==
  Spec => [](W!PendingIsLive /\ W!OneAnswerer /\ W!AbortIsFinal /\ W!StoredBeforeResolved)
  <1>1. IInv => W!PendingIsLive /\ W!OneAnswerer /\ W!AbortIsFinal /\ W!StoredBeforeResolved
    BY DEF IInv, WP!IInv, W!PendingIsLive, WP!PendingIsLive, W!OneAnswerer, WP!OneAnswerer,
       W!AbortIsFinal, WP!AbortIsFinal, W!StoredBeforeResolved, WP!StoredBeforeResolved
  <1> QED
    BY <1>1, InvariantHolds, PTL

-----------------------------------------------------------------------------
(* Why gets end: their wants are timed and their stages are few.           *)

IpniStages == {"ipni_fetch", "ipni_dial", "ipni_want", "ipni_put"}

\* The steps a get may still take with the providers it has, by stage; and those
\* of its DHT lookup.
StagesLeft == [done |-> 0, notfound |-> 0, error |-> 0, put |-> 1, ipni_put |-> 1,
               gateway_put |-> 1, gateway |-> 2, ipni_want |-> 3, ipni_fetch |-> 3,
               ipni_dial |-> 4, race |-> 4, s3 |-> 5, idle |-> 6]
LookupsLeft == [block |-> 0, null |-> 0, find |-> 1, want |-> 2, none |-> 3]

\* What a step may do with the stage of a get.
SameIpni(g) == provider'[g].ipni = provider[g].ipni
SameTimer(g) == g \in armed' <=> g \in armed
WantOver(g) == pc[g] = "ipni_want" => Outcome(<<g, "ipni", provider[g].ipni>>) # "live"

StageStep(g) ==
  \/ pc'[g] = pc[g] /\ SameIpni(g) /\ SameTimer(g)
  \/ /\ {pc[g], pc'[g]} \cap IpniStages = {} /\ SameIpni(g)
     /\ StagesLeft[pc'[g]] < StagesLeft[pc[g]]
  \/ pc[g] = "race" /\ pc'[g] = "ipni_fetch" /\ SameIpni(g) /\ g \in armed'
  \/ /\ pc[g] \in {"ipni_fetch", "ipni_want"} /\ pc'[g] = "ipni_dial"
     /\ provider'[g].ipni = provider[g].ipni + 1
     /\ SameTimer(g) /\ WantOver(g)
  \/ pc[g] = "ipni_dial" /\ pc'[g] = "ipni_want" /\ SameIpni(g) /\ SameTimer(g)
  \/ pc[g] = "ipni_want" /\ pc'[g] = "ipni_put" /\ SameIpni(g) /\ SameTimer(g) /\ WantOver(g)
  \/ /\ pc[g] \in {"ipni_fetch", "ipni_want", "ipni_put"} /\ pc'[g] \in {"gateway", "done"}
     /\ StagesLeft[pc'[g]] < StagesLeft[pc[g]] /\ SameIpni(g) /\ WantOver(g)

LEMMA StageSteps ==
  ASSUME IInv, [Next]_vars, NEW g \in Gets
  PROVE  StageStep(g)
  <1> USE DEF Goto, SameIpni, SameTimer, WantOver, IpniStages, StagesLeft
  <1>0. GetTypes
    BY DEF IInv, TypeOK, GetTypes
  <1>1. ASSUME NEW x \in Gets, Begin(x) \/ LocalHit(x) \/ LocalError(x) \/ LocalMiss(x)
        PROVE  StageStep(g)
    BY <1>0, <1>1 DEF Begin, LocalHit, LocalError, LocalMiss, GetTypes, StageStep
  <1>2. ASSUME NEW x \in Gets,
               BitswapTask(x) \/ DhtWantResolved(x) \/ DhtWantRejected(x) \/ DhtEnds(x)
        PROVE  StageStep(g)
    BY <1>2 DEF BitswapTask, BitswapEnds, DhtWantResolved, DhtWantRejected, DhtEnds, StageStep
  <1>3. ASSUME NEW x \in Gets, DhtProvider(x)
        PROVE  StageStep(g)
    BY <1>0, <1>3 DEF DhtProvider, GetTypes, StageStep
  <1>4. ASSUME NEW x \in Gets, RaceWon(x) \/ RaceLost(x)
        PROVE  StageStep(g)
    BY <1>0, <1>4 DEF RaceWon, RaceLost, GetTypes, StageStep
  <1>5. ASSUME NEW x \in Gets, IpniProvider(x), WantOver(x), pc[x] \in {"ipni_fetch", "ipni_want"}
        PROVE  StageStep(g)
    BY <1>0, <1>5 DEF IpniProvider, GetTypes, StageStep
  <1>6. ASSUME NEW x \in Gets, IpniGivesUp(x), WantOver(x), pc[x] \in {"ipni_fetch", "ipni_want"}
        PROVE  StageStep(g)
    BY <1>0, <1>6 DEF IpniGivesUp, GetTypes, StageStep
  <1>7. ASSUME NEW x \in Gets, IpniFetch(x) \/ IpniWantRejected(x)
        PROVE  StageStep(g)
    BY <1>5, <1>6, <1>7 DEF IpniFetch, IpniWantRejected
  <1>8. ASSUME NEW x \in Gets, IpniWant(x) \/ IpniWantResolved(x)
        PROVE  StageStep(g)
    BY <1>0, <1>8 DEF IpniWant, IpniWantResolved, GetTypes, StageStep
  <1>9. ASSUME NEW x \in Gets, GatewayHit(x) \/ GatewayMiss(x)
        PROVE  StageStep(g)
    BY <1>0, <1>9 DEF GatewayHit, GatewayMiss, GetTypes, StageStep
  <1>10. ASSUME NEW x \in Gets, NEW ok \in BOOLEAN,
                PutRaceBlock(x, ok) \/ PutIpniBlock(x, ok) \/ PutGatewayBlock(x, ok)
        PROVE  StageStep(g)
    BY <1>0, <1>10 DEF PutRaceBlock, PutIpniBlock, PutGatewayBlock, GetTypes, StageStep
  <1>11. ASSUME UNCHANGED getVars
        PROVE  StageStep(g)
    BY <1>11 DEF getVars, StageStep
  <1> QED
    BY <1>1, <1>2, <1>3, <1>4, <1>7, <1>8, <1>9, <1>10, <1>11
       DEF Next, GetStep, DhtTask, Timeout, Message, HandlerStep, Stop, vars

\* The only IPNI wants that open are those of IpniWant.
LEMMA WantsOpened ==
  ASSUME IInv, [Next]_vars, NEW c \in Calls, c[2] = "ipni", deferred'[c] = "live"
  PROVE  \/ deferred[c] = "live"
         \/ /\ c = <<c[1], "ipni", provider[c[1]].ipni>>
            /\ pc[c[1]] = "ipni_dial" /\ pc'[c[1]] = "ipni_want" /\ SameIpni(c[1])
  <1> USE DEF Goto, SameIpni
  <1>0. GetTypes /\ WP!TypeOK
    BY DEF IInv, TypeOK, GetTypes, WP!IInv
  <1>w. ASSUME NEW d \in Calls, W!Want(d), d # c
        PROVE  deferred[c] = "live"
    BY <1>0, <1>w DEF W!Want, W!Coalesce, W!Register, WP!TypeOK
  <1>1. ASSUME NEW g \in Gets, LocalMiss(g)
        PROVE  deferred[c] = "live"
    BY <1>1, <1>w, ProviderCalls DEF LocalMiss
  <1>2. ASSUME NEW g \in Gets, DhtProvider(g)
        PROVE  deferred[c] = "live"
    <2>1. provider[g].dht + 1 \in 1 .. Providers[g].dht
      BY <1>2, ProviderCounts DEF DhtProvider, IInv
    <2> DEFINE d == <<g, "dht", provider[g].dht + 1>>
    <2>2. d \in Calls /\ d[2] = "dht"
      BY <2>1, ProviderCalls
    <2>3. W!Want(d)
      BY <1>2 DEF DhtProvider
    <2> HIDE DEF d
    <2> QED
      BY <1>w, <2>2, <2>3
  <1>3. ASSUME NEW g \in Gets, IpniWant(g), deferred[c] # "live"
        PROVE  /\ c = <<c[1], "ipni", provider[c[1]].ipni>>
               /\ pc[c[1]] = "ipni_dial" /\ pc'[c[1]] = "ipni_want" /\ SameIpni(c[1])
    <2>1. <<g, "ipni", provider[g].ipni>> \in Calls
      BY <1>3, AwaitedCalls DEF IpniWant
    <2>2. c = <<g, "ipni", provider[g].ipni>>
      BY <1>3, <1>w, <2>1 DEF IpniWant
    <2> QED
      BY <1>0, <1>3, <2>2 DEF IpniWant, GetTypes
  <1>4. ASSUME NEW s \in Signals, Timeout(s)
        PROVE  deferred[c] = "live"
    BY <1>4 DEF Timeout, W!Abort, W!Settle
  <1>5. ASSUME NEW h \in Handlers, NEW m \in W!Messages, Message(h, m)
        PROVE  deferred' = deferred
    BY <1>5 DEF Message, W!ReceiveMessage, W!callVars
  <1>6. ASSUME NEW h \in Handlers, HandlerStep(h)
        PROVE  deferred[c] = "live"
    BY <1>6 DEF HandlerStep, W!HandlerStep, W!TakeWanted, W!SkipUnwanted, W!Put, W!Resolve,
                W!Settle, W!callVars
  <1>7. ASSUME Stop
        PROVE  deferred[c] = "live"
    BY <1>7 DEF Stop, W!Stop, W!Settle
  <1>8. ASSUME NEW g \in Gets,
               \/ Begin(g) \/ LocalHit(g) \/ LocalError(g) \/ RaceWon(g) \/ RaceLost(g)
               \/ BitswapTask(g) \/ DhtWantResolved(g) \/ DhtWantRejected(g) \/ DhtEnds(g)
        PROVE  deferred' = deferred
    BY <1>8 DEF Begin, LocalHit, LocalError, RaceWon, RaceLost, BitswapTask, BitswapEnds,
                DhtWantResolved, DhtWantRejected, DhtEnds, wantVars
  <1>9. ASSUME NEW g \in Gets,
               \/ IpniFetch(g) \/ IpniWantResolved(g) \/ IpniWantRejected(g)
               \/ GatewayHit(g) \/ GatewayMiss(g)
        PROVE  deferred' = deferred
    BY <1>9 DEF IpniFetch, IpniWantResolved, IpniWantRejected, IpniProvider, IpniGivesUp,
                GatewayHit, GatewayMiss, wantVars
  <1>10. ASSUME NEW g \in Gets, NEW ok \in BOOLEAN,
                PutRaceBlock(g, ok) \/ PutIpniBlock(g, ok) \/ PutGatewayBlock(g, ok)
        PROVE  deferred' = deferred
    BY <1>10 DEF PutRaceBlock, PutIpniBlock, PutGatewayBlock, Persist
  <1>11. ASSUME UNCHANGED vars
        PROVE  deferred' = deferred
    BY <1>11 DEF vars, wantVars
  <1> QED
    BY <1>1, <1>2, <1>3, <1>4, <1>5, <1>6, <1>7, <1>8, <1>9, <1>10, <1>11
       DEF Next, GetStep, DhtTask

\* In the IPNI stage the timer of the get runs, and only the call that the get
\* awaits has an open want.
TimerRuns ==
  /\ \A g \in Gets : pc[g] \in IpniStages => g \in armed
  /\ \A c \in Calls : c[2] = "ipni" /\ deferred[c] = "live" =>
       pc[c[1]] = "ipni_want" /\ c = <<c[1], "ipni", provider[c[1]].ipni>>

LEMMA TimerInductive ==
  ASSUME IInv, TimerRuns, [Next]_vars
  PROVE  TimerRuns'
  <1>1. ASSUME NEW g \in Gets, pc'[g] \in IpniStages
        PROVE  g \in armed'
    BY <1>1, StageSteps DEF StageStep, TimerRuns, IpniStages, SameTimer
  <1>2. ASSUME NEW c \in Calls, c[2] = "ipni", deferred'[c] = "live"
        PROVE  pc'[c[1]] = "ipni_want" /\ c = <<c[1], "ipni", provider'[c[1]].ipni>>
    <2>1. c[1] \in Gets
      BY CallNames
    <2>2. CASE deferred[c] = "live"
      <3>1. pc[c[1]] = "ipni_want" /\ c = <<c[1], "ipni", provider[c[1]].ipni>>
        BY <1>2, <2>2 DEF TimerRuns
      <3>2. Outcome(<<c[1], "ipni", provider[c[1]].ipni>>) = "live"
        BY <2>2, <3>1 DEF IInv, WP!IInv, WP!CreatorsOK, Outcome
      <3>3. pc'[c[1]] = "ipni_want" /\ SameIpni(c[1])
        BY <2>1, <3>1, <3>2, StageSteps DEF StageStep, WantOver, IpniStages
      <3> QED
        BY <3>1, <3>3 DEF SameIpni
    <2> QED
      BY <1>2, <2>2, WantsOpened DEF SameIpni
  <1> QED
    BY <1>1, <1>2 DEF TimerRuns

\* An open want whose listener is attached has a timer that runs: its own, or that
\* of the IPNI stage of the get that made it.
OpenWantsAreTimed ==
  \A c \in Calls : deferred[c] = "live" /\ c \in listening =>
    SignalStarted(SignalOf[c]) /\ SignalOf[c] \notin aborted

\* No get clears a timer that another get is waiting for: gets that are coalesced
\* onto a want of an IPNI stage have its timer until the want is settled.
THEOREM WantsAreTimed == Spec => []OpenWantsAreTimed
  <1>1. Init => TimerRuns
    BY DEF Init, W!StartOver, TimerRuns, IpniStages
  <1>2. IInv /\ TimerRuns => OpenWantsAreTimed
    <2> SUFFICES ASSUME IInv, TimerRuns, NEW c \in Calls, deferred[c] = "live", c \in listening
                 PROVE  SignalStarted(SignalOf[c]) /\ SignalOf[c] \notin aborted
      BY DEF OpenWantsAreTimed
    <2>1. SignalOf[c] \notin aborted
      BY DEF IInv, WP!IInv, WP!AbortIsFinal
    <2>2. owner[c] = c /\ c # NoCall
      BY NetworkGetAssumption DEF IInv, WP!IInv, WP!CreatorsOK
    <2>3. CASE c[2] = "ipni"
      <3>1. c[1] \in armed
        BY <2>3, CallNames DEF TimerRuns, IpniStages
      <3> QED
        BY <2>1, <2>3, <3>1 DEF SignalStarted, SignalOf, IpniSignal
    <2>4. CASE c[2] # "ipni"
      BY <2>1, <2>2, <2>4, CallNames DEF SignalStarted
    <2> QED
      BY <2>3, <2>4
  <1>3. IInv /\ TimerRuns /\ [Next]_vars => TimerRuns'
    BY TimerInductive
  <1> QED
    BY <1>1, <1>2, <1>3, InvariantHolds, PTL DEF Spec

\* How many steps a get and its DHT lookup may still take.
StepsLeft(g) == 4 * (Providers[g].ipni - provider[g].ipni) + StagesLeft[pc[g]]
LookupLeft(g) == 2 * (Providers[g].dht - provider[g].dht) + LookupsLeft[dht[g]]

\* Whatever the wants, the store and the other gets do, a get that moves comes
\* nearer to its end, in its stages and in its lookup: no provider is asked twice
\* and no stage entered again.  With OpenWantsAreTimed this is, short of fairness,
\* what makes GetsEndUnlessHung true.
GetsGoForward ==
  [][\A g \in Gets :
       /\ pc'[g] # pc[g] \/ provider'[g].ipni # provider[g].ipni => StepsLeft(g)' < StepsLeft(g)
       /\ dht'[g] # dht[g] \/ provider'[g].dht # provider[g].dht => LookupLeft(g)' < LookupLeft(g)
    ]_vars

LEMMA StagesAdvance ==
  ASSUME IInv, IInv', [Next]_vars, NEW g \in Gets,
         pc'[g] # pc[g] \/ provider'[g].ipni # provider[g].ipni
  PROVE  StepsLeft(g)' < StepsLeft(g)
  <1>1. /\ provider[g].ipni \in Nat /\ Providers[g].ipni \in Nat
        /\ provider[g].ipni <= Providers[g].ipni
    BY ProviderCounts DEF IInv
  <1>2. pc[g] \in Stages /\ pc'[g] \in Stages
    BY DEF IInv, TypeOK
  <1>3. StageStep(g)
    BY StageSteps
  <1>4. \A s \in Stages : StagesLeft[s] \in Nat
    BY DEF Stages, StagesLeft
  <1>5. CASE SameIpni(g)
    <2>1. StagesLeft[pc'[g]] < StagesLeft[pc[g]]
      BY <1>1, <1>3, <1>5 DEF StageStep, SameIpni, StagesLeft
    <2> QED
      BY <1>1, <1>2, <1>4, <1>5, <2>1 DEF StepsLeft, SameIpni
  <1>6. CASE ~SameIpni(g)
    <2>1. /\ pc[g] \in {"ipni_fetch", "ipni_want"} /\ pc'[g] = "ipni_dial"
          /\ provider'[g].ipni = provider[g].ipni + 1
      BY <1>3, <1>6 DEF StageStep
    <2>2. StagesLeft[pc[g]] = 3 /\ StagesLeft[pc'[g]] = 4
      BY <2>1 DEF StagesLeft
    <2> QED
      BY <1>1, <2>1, <2>2 DEF StepsLeft
  <1> QED
    BY <1>5, <1>6

\* The lookup begins with the race.
LookupsBegin == \A g \in Gets : pc[g] \in {"idle", "s3"} => dht[g] = "none"

\* What a step may do with the lookup of a get.
LookupStep(g) ==
  \/ dht'[g] = dht[g] /\ provider'[g].dht = provider[g].dht
  \/ /\ provider'[g].dht = provider[g].dht /\ LookupsLeft[dht'[g]] < LookupsLeft[dht[g]]
     /\ dht[g] = "none" => pc'[g] = "race"
  \/ /\ dht[g] = "find" /\ dht'[g] = "want"
     /\ provider'[g].dht = provider[g].dht + 1

LEMMA LookupSteps ==
  ASSUME IInv, LookupsBegin, [Next]_vars, NEW g \in Gets
  PROVE  LookupStep(g)
  <1> USE DEF LookupsLeft
  <1>0. GetTypes
    BY DEF IInv, TypeOK, GetTypes
  <1>1. ASSUME NEW x \in Gets, LocalMiss(x)
        PROVE  LookupStep(g)
    <2>1. dht[x] = "none"
      BY <1>1 DEF LocalMiss, LookupsBegin
    <2> QED
      BY <1>0, <1>1, <2>1 DEF LocalMiss, Goto, GetTypes, LookupStep
  <1>2. ASSUME NEW x \in Gets,
               DhtProvider(x) \/ DhtWantResolved(x) \/ DhtWantRejected(x) \/ DhtEnds(x)
        PROVE  LookupStep(g)
    BY <1>0, <1>2 DEF DhtProvider, DhtWantResolved, DhtWantRejected, DhtEnds, GetTypes, LookupStep
  <1>3. ASSUME NEW x \in Gets, Begin(x) \/ LocalHit(x) \/ LocalError(x) \/ RaceWon(x) \/ RaceLost(x)
        PROVE  LookupStep(g)
    BY <1>3 DEF Begin, LocalHit, LocalError, RaceWon, RaceLost, LookupStep
  <1>4. ASSUME NEW x \in Gets, BitswapTask(x) \/ GatewayHit(x) \/ GatewayMiss(x)
        PROVE  LookupStep(g)
    BY <1>4 DEF BitswapTask, BitswapEnds, GatewayHit, GatewayMiss, LookupStep
  <1>5. ASSUME NEW x \in Gets, IpniProvider(x)
        PROVE  LookupStep(g)
    BY <1>0, <1>5 DEF IpniProvider, GetTypes, LookupStep
  <1>6. ASSUME NEW x \in Gets,
               IpniFetch(x) \/ IpniWant(x) \/ IpniWantResolved(x) \/ IpniWantRejected(x)
        PROVE  LookupStep(g)
    BY <1>5, <1>6 DEF IpniFetch, IpniWant, IpniWantResolved, IpniWantRejected, IpniGivesUp, LookupStep
  <1>7. ASSUME NEW x \in Gets, NEW ok \in BOOLEAN,
               PutRaceBlock(x, ok) \/ PutIpniBlock(x, ok) \/ PutGatewayBlock(x, ok)
        PROVE  LookupStep(g)
    BY <1>7 DEF PutRaceBlock, PutIpniBlock, PutGatewayBlock, LookupStep
  <1>8. ASSUME UNCHANGED getVars
        PROVE  LookupStep(g)
    BY <1>8 DEF getVars, LookupStep
  <1> QED
    BY <1>1, <1>2, <1>3, <1>4, <1>6, <1>7, <1>8
       DEF Next, GetStep, DhtTask, Timeout, Message, HandlerStep, Stop, vars

LEMMA LookupsInductive ==
  ASSUME IInv, LookupsBegin, [Next]_vars
  PROVE  LookupsBegin'
  <1> SUFFICES ASSUME NEW g \in Gets, pc'[g] \in {"idle", "s3"} PROVE dht'[g] = "none"
    BY DEF LookupsBegin
  <1>0. GetTypes
    BY DEF IInv, TypeOK, GetTypes
  <1>1. pc[g] \in {"idle", "s3"}
    BY <1>0, StageSteps DEF StageStep, IpniStages, StagesLeft, GetTypes, Stages
  <1>2. dht[g] = "none"
    BY <1>1 DEF LookupsBegin
  <1>3. LookupStep(g)
    BY LookupSteps
  <1> QED
    BY <1>2, <1>3 DEF LookupStep

LEMMA LookupsAdvance ==
  ASSUME IInv, IInv', LookupsBegin, [Next]_vars, NEW g \in Gets,
         dht'[g] # dht[g] \/ provider'[g].dht # provider[g].dht
  PROVE  LookupLeft(g)' < LookupLeft(g)
  <1>1. /\ provider[g].dht \in Nat /\ Providers[g].dht \in Nat
        /\ provider[g].dht <= Providers[g].dht
    BY ProviderCounts DEF IInv
  <1>2. LookupsLeft[dht[g]] \in Nat /\ LookupsLeft[dht'[g]] \in Nat
    BY DEF IInv, TypeOK, LookupsLeft
  <1>3. LookupStep(g)
    BY LookupSteps
  <1>4. CASE provider'[g].dht = provider[g].dht
    <2>1. LookupsLeft[dht'[g]] < LookupsLeft[dht[g]]
      BY <1>1, <1>3, <1>4 DEF LookupStep
    <2> QED
      BY <1>1, <1>2, <1>4, <2>1 DEF LookupLeft
  <1>5. CASE provider'[g].dht # provider[g].dht
    <2>1. /\ provider'[g].dht = provider[g].dht + 1
          /\ LookupsLeft[dht[g]] = 1 /\ LookupsLeft[dht'[g]] = 2
      BY <1>3, <1>5 DEF LookupStep, LookupsLeft
    <2> QED
      BY <1>1, <2>1 DEF LookupLeft
  <1> QED
    BY <1>4, <1>5

\* However many gets share their wants, and whatever becomes of these, a get takes
\* boundedly many steps, in its stages and in its lookup (GetsGoForward).
THEOREM GetsAreBounded == Spec => GetsGoForward
  <1>1. Init => LookupsBegin
    BY DEF Init, LookupsBegin
  <1>2. IInv /\ LookupsBegin /\ [Next]_vars => LookupsBegin'
    BY LookupsInductive
  <1>3. ASSUME IInv, IInv', LookupsBegin, [Next]_vars
        PROVE  \A g \in Gets :
                 /\ pc'[g] # pc[g] \/ provider'[g].ipni # provider[g].ipni =>
                      StepsLeft(g)' < StepsLeft(g)
                 /\ dht'[g] # dht[g] \/ provider'[g].dht # provider[g].dht =>
                      LookupLeft(g)' < LookupLeft(g)
    BY <1>3, StagesAdvance, LookupsAdvance
  <1> QED
    BY <1>1, <1>2, <1>3, InvariantHolds, PTL DEF Spec, GetsGoForward

-----------------------------------------------------------------------------
(* The gets implement BlockGet.                                            *)

Answers == [g \in Gets |-> AnswerOf(g)]
Obtained == arrived \cup given

Running == Stages \ {"idle", "done", "notfound", "error"}

\* What a get answers, stage by stage.
LEMMA AnswerValues ==
  ASSUME NEW g \in Gets
  PROVE  /\ pc[g] = "idle" => AnswerOf(g) = "none"
         /\ pc[g] = "done" => AnswerOf(g) = "block"
         /\ pc[g] = "notfound" => AnswerOf(g) = "notfound"
         /\ pc[g] = "error" => AnswerOf(g) = "error"
         /\ pc[g] \in Running => AnswerOf(g) = "running"
  BY DEF AnswerOf, Running, Stages

\* The same after a step.
LEMMA NextAnswerValues ==
  ASSUME NEW g \in Gets
  PROVE  /\ pc'[g] = "idle" => AnswerOf(g)' = "none"
         /\ pc'[g] = "done" => AnswerOf(g)' = "block"
         /\ pc'[g] = "notfound" => AnswerOf(g)' = "notfound"
         /\ pc'[g] = "error" => AnswerOf(g)' = "error"
         /\ pc'[g] \in Running => AnswerOf(g)' = "running"
  BY DEF AnswerOf, Running, Stages

\* Every step shows a step of BlockGet, or nothing.
Shown == [Get!Next]_(Get!vars)

LEMMA StepShown ==
  ASSUME IInv, [Next]_vars
  PROVE  Shown
  <1>0. pc \in [Gets -> Stages] /\ Grounded
    BY DEF IInv, TypeOK
  <1>a. ASSUME pc' = pc, UNCHANGED Obtained
        PROVE  Shown
    BY <1>a DEF Shown, Get!vars, AnswerOf, Obtained
  <1>b. ASSUME pc' = pc, NEW k \in Cids, Obtained' = Obtained \cup {k}
        PROVE  Shown
    <2>1. Get!Obtain(k)
      BY <1>b DEF Get!Obtain, AnswerOf, Obtained
    <2> QED
      BY <2>1 DEF Shown, Get!Next
  \* A get goes on.
  <1>c. ASSUME NEW g \in Gets, NEW stage \in Running, pc[g] \in Running, Goto(g, stage)
        PROVE  Answers' = Answers
    <2>1. \A h \in Gets : AnswerOf(h)' = AnswerOf(h)
      <3> SUFFICES ASSUME NEW h \in Gets
                   PROVE  AnswerOf(h)' = AnswerOf(h)
        OBVIOUS
      <3>1. CASE h = g
        BY <1>0, <1>c, <3>1, AnswerValues, NextAnswerValues DEF Goto
      <3>2. CASE h # g
        BY <1>0, <1>c, <3>2 DEF Goto, AnswerOf
      <3> QED
        BY <3>1, <3>2
    <2> QED
      BY <2>1 DEF Answers
  <1>d. ASSUME NEW g \in Gets, NEW stage \in Running, pc[g] \in Running, Goto(g, stage),
               UNCHANGED Obtained
        PROVE  Shown
    BY <1>c, <1>d DEF Shown, Get!vars, Answers, Obtained
  <1>e. ASSUME NEW g \in Gets, NEW stage \in Running, pc[g] \in Running, Goto(g, stage),
               NEW k \in Cids, Obtained' = Obtained \cup {k}
        PROVE  Shown
    <2>1. Get!Obtain(k)
      BY <1>c, <1>e DEF Get!Obtain, Answers, Obtained
    <2> QED
      BY <2>1 DEF Shown, Get!Next
  \* A get ends.
  <1>f. ASSUME NEW g \in Gets, NEW stage \in {"done", "notfound", "error"},
               pc[g] \in Running, Goto(g, stage), UNCHANGED Obtained,
               stage = "done" => CidOfGet[g] \in Obtained
        PROVE  Shown
    <2> DEFINE result == IF stage = "done" THEN "block" ELSE stage
    <2>1. AnswerOf(g) = "running" /\ AnswerOf(g)' = result
      BY <1>0, <1>f, AnswerValues, NextAnswerValues DEF Goto
    <2>2. \A h \in Gets \ {g} : AnswerOf(h)' = AnswerOf(h)
      BY <1>0, <1>f DEF Goto, AnswerOf
    <2>3. Answers' = [Answers EXCEPT ![g] = result]
      BY <2>1, <2>2 DEF Answers
    <2>4. Get!Finish(g, result)
      BY <1>f, <2>1, <2>3 DEF Get!Finish, Answers, Obtained
    <2> QED
      BY <2>4 DEF Shown, Get!Next
  <1>1. ASSUME NEW g \in Gets, Begin(g)
        PROVE  Shown
    <2>1. AnswerOf(g) = "none" /\ AnswerOf(g)' = "running"
      BY <1>0, <1>1, AnswerValues, NextAnswerValues DEF Begin, Goto, Running, Stages
    <2>2. \A h \in Gets \ {g} : AnswerOf(h)' = AnswerOf(h)
      BY <1>0, <1>1 DEF Begin, Goto, AnswerOf
    <2>3. Answers' = [Answers EXCEPT ![g] = "running"]
      BY <2>1, <2>2 DEF Answers
    <2>4. Get!Begin(g)
      BY <1>1, <2>1, <2>3 DEF Begin, Get!Begin, Answers, wantVars
    <2> QED
      BY <2>4 DEF Shown, Get!Next
  <1>2. ASSUME NEW g \in Gets, LocalHit(g)
        PROVE  Shown
    BY <1>0, <1>f, <1>2 DEF LocalHit, Grounded, wantVars, Running, Stages, Obtained
  <1>3. ASSUME NEW g \in Gets, LocalError(g)
        PROVE  Shown
    BY <1>0, <1>f, <1>3 DEF LocalError, wantVars, Running, Stages, Obtained
  <1>4. ASSUME NEW g \in Gets, LocalMiss(g)
        PROVE  Shown
    BY <1>0, <1>d, <1>4 DEF LocalMiss, W!Want, W!Coalesce, W!Register, W!storeVars, Running, Stages, Obtained
  <1>5. ASSUME NEW g \in Gets, BitswapEnds(g)
        PROVE  Shown
    BY <1>0, <1>a, <1>5 DEF BitswapEnds, wantVars, Obtained
  <1>6. ASSUME NEW g \in Gets, DhtProvider(g)
        PROVE  Shown
    BY <1>0, <1>a, <1>6 DEF DhtProvider, W!Want, W!Coalesce, W!Register, W!storeVars, Running, Stages, Obtained
  <1>7. ASSUME NEW g \in Gets, DhtWantResolved(g)
        PROVE  Shown
    BY <1>0, <1>a, <1>7 DEF DhtWantResolved, wantVars, Obtained
  <1>8. ASSUME NEW g \in Gets, DhtWantRejected(g)
        PROVE  Shown
    BY <1>0, <1>a, <1>8 DEF DhtWantRejected, wantVars, Obtained
  <1>9. ASSUME NEW g \in Gets, DhtEnds(g)
        PROVE  Shown
    BY <1>0, <1>a, <1>9 DEF DhtEnds, wantVars, Obtained
  <1>10. ASSUME NEW g \in Gets, RaceWon(g)
        PROVE  Shown
    BY <1>0, <1>d, <1>10 DEF RaceWon, wantVars, Running, Stages, Obtained
  <1>11. ASSUME NEW g \in Gets, RaceLost(g)
        PROVE  Shown
    BY <1>0, <1>d, <1>11 DEF RaceLost, wantVars, Running, Stages, Obtained
  <1>12. ASSUME NEW g \in Gets, IpniFetch(g)
        PROVE  Shown
    BY <1>0, <1>d, <1>12 DEF IpniFetch, IpniProvider, IpniGivesUp, wantVars, Running, Stages, Obtained
  <1>13. ASSUME NEW g \in Gets, IpniWant(g)
        PROVE  Shown
    BY <1>0, <1>d, <1>13 DEF IpniWant, W!Want, W!Coalesce, W!Register, W!storeVars, Running, Stages, Obtained
  <1>14. ASSUME NEW g \in Gets, IpniWantResolved(g)
        PROVE  Shown
    BY <1>0, <1>d, <1>14 DEF IpniWantResolved, wantVars, Running, Stages, Obtained
  <1>15. ASSUME NEW g \in Gets, IpniWantRejected(g)
        PROVE  Shown
    BY <1>0, <1>d, <1>15 DEF IpniWantRejected, IpniProvider, IpniGivesUp, wantVars, Running, Stages, Obtained
  <1>16. ASSUME NEW g \in Gets, GatewayHit(g)
        PROVE  Shown
    <2>1. Obtained' = Obtained \cup {CidOfGet[g]}
      BY <1>16 DEF GatewayHit, wantVars, Obtained
    <2> QED
      BY <1>0, <1>e, <1>16, <2>1, NetworkGetAssumption DEF GatewayHit, Running, Stages
  <1>17. ASSUME NEW g \in Gets, GatewayMiss(g)
        PROVE  Shown
    BY <1>0, <1>f, <1>17 DEF GatewayMiss, wantVars, Running, Stages, Obtained
  <1>18. ASSUME NEW g \in Gets, NEW ok \in BOOLEAN, PutRaceBlock(g, ok)
        PROVE  Shown
    BY <1>0, <1>f, <1>18 DEF PutRaceBlock, Persist, Grounded, Running, Stages, Obtained
  <1>19. ASSUME NEW g \in Gets, NEW ok \in BOOLEAN, PutIpniBlock(g, ok)
        PROVE  Shown
    BY <1>0, <1>f, <1>19 DEF PutIpniBlock, Persist, Grounded, Running, Stages, Obtained
  <1>20. ASSUME NEW g \in Gets, NEW ok \in BOOLEAN, PutGatewayBlock(g, ok)
        PROVE  Shown
    BY <1>0, <1>f, <1>20 DEF PutGatewayBlock, Persist, Grounded, Running, Stages, Obtained
  <1>21. ASSUME NEW s \in Signals, Timeout(s)
        PROVE  Shown
    BY <1>0, <1>a, <1>21 DEF Timeout, getVars, W!Abort, W!storeVars, Obtained
  <1>22. ASSUME NEW h \in Handlers, NEW blocks \in W!Messages, Message(h, blocks)
        PROVE  Shown
    BY <1>0, <1>a, <1>22 DEF Message, getVars, W!ReceiveMessage, W!storeVars, Obtained
  <1>23. ASSUME NEW h \in Handlers, HandlerStep(h)
        PROVE  Shown
    <2>1. CASE W!TakeWanted(h)
      <3>1. Obtained' = Obtained \cup {Head(todo[h])} /\ pc' = pc
        BY <1>23, <2>1 DEF HandlerStep, getVars, W!TakeWanted, Obtained
      <3>2. Head(todo[h]) \in Cids
        BY <2>1, WP!NonEmptyMessage DEF W!TakeWanted, IInv, WP!IInv, WP!TypeOK, WP!ActivationsOK
      <3> QED
        BY <1>b, <3>1, <3>2
    <2>2. CASE ~W!TakeWanted(h)
      BY <1>a, <1>23, <2>2 DEF HandlerStep, getVars, W!HandlerStep, W!SkipUnwanted, W!Put,
         W!Resolve, W!storeVars, Obtained
    <2> QED
      BY <2>1, <2>2
  <1>24. ASSUME Stop
        PROVE  Shown
    BY <1>0, <1>a, <1>24 DEF Stop, getVars, W!Stop, W!storeVars, Obtained
  <1>25. ASSUME UNCHANGED vars
        PROVE  Shown
    BY <1>0, <1>a, <1>25 DEF vars, getVars, wantVars, Obtained
  <1> QED
    BY <1>1, <1>2, <1>3, <1>4, <1>5, <1>6, <1>7, <1>8, <1>9, <1>10, <1>11, <1>12, <1>13,
       <1>14, <1>15, <1>16, <1>17, <1>18, <1>19, <1>20, <1>21, <1>22, <1>23, <1>24, <1>25
       DEF Next, GetStep, BitswapTask, DhtTask

\* The gets implement BlockGet: each ends at most once, and with a block only
\* if the store, a peer or the gateway had given that very block.
THEOREM ImplementsBlockGet == Spec => GetSpec
  <1>1. Init => Get!Init
    BY DEF Init, W!StartOver, Get!Init, AnswerOf
  <1>2. IInv /\ [Next]_vars => [Get!Next]_(Get!vars)
    BY StepShown DEF Shown
  <1> QED
    BY <1>1, <1>2, InvariantHolds, PTL DEF Spec, GetSpec, Get!Spec
=============================================================================
