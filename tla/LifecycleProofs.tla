-------------------------- MODULE LifecycleProofs --------------------------
(* Proofs about Lifecycle: for any list of bootstrap addresses, any number of  *)
(* overlapping dial rounds, of requests and of runs of shutdown().             *)
EXTENDS Lifecycle, TLAPS, WellFoundedInduction

\* Clients wait for responses only while the server is open, which is after libp2p
\* and bitswap are up and before anyone stops them.
ServerOK ==
  /\ server \in {"listening", "closing"} => bitswap = "up" /\ libp2p = "up"
  /\ server \in {"none", "closed"} => \A q \in Requests : ~request[q].client
  /\ mode \in Starting => server = "none" /\ ~loopsStopped
  /\ mode = "bitswap" => libp2p = "up"
  /\ mode \in {"waiting", "starting"} => bitswap = "up" /\ libp2p = "up"
  /\ \A s \in Shutdowns : shutdown[s] \notin {"none", "closing"} => server = "closed"

\* What is cached is stored or was refused.
StatsOK == cached = "yes" => present \/ refused

\* Whoever is past bitswap.stop() has seen it done; libp2p is stopped, or
\* another run of shutdown() is at it.
ExitOK ==
  /\ mode = "serving" => libp2p # "down"
  /\ \A s \in Shutdowns : shutdown[s] # "none" => mode = "serving" \/ mode \in Ends
  /\ \A s \in Shutdowns : shutdown[s] \in {"libp2p", "exit"} => bitswap = "stopped"
  /\ libp2p \in {"stopping", "stopped"} =>
       \E s \in Shutdowns : shutdown[s] \in {"libp2p", "exit"}
  /\ \A s \in Shutdowns : shutdown[s] = "exit" =>
       libp2p = "stopped" \/ \E t \in Shutdowns : t # s /\ shutdown[t] # "none"

IInv == TypeOK /\ ServerOK /\ StatsOK /\ StatsStayLocal /\ ExitOK /\ CleanExit

USE DEF Running, Ends, SettingUp, Starting, None, Asks

-----------------------------------------------------------------------------
\* A step of the set-up leads to the next stage.
LEMMA SetupMoves ==
  ASSUME Setup
  PROVE  /\ mode \in SettingUp /\ mode' \in Starting
         /\ UNCHANGED <<connected, loopsStopped, dialing, snapshot, announcing, server,
                        request, blockVars, shutdown>>
         /\ bitswap' \in {bitswap, "up"} /\ libp2p' \in {libp2p, "up"}
         /\ mode' = "bitswap" => libp2p' = "up"
         /\ mode' \in {"waiting", "starting"} =>
              mode = "bitswap" /\ bitswap' = "up" /\ libp2p' = libp2p
  <1> USE DEF SetupStep, blockVars
  <1>1. CASE ValidateEnv
    BY <1>1 DEF ValidateEnv
  <1>2. CASE BlockstoreBucket
    BY <1>2 DEF BlockstoreBucket
  <1>3. CASE DatastoreBucket
    BY <1>3 DEF DatastoreBucket
  <1>4. CASE Libp2pStarts
    BY <1>4 DEF Libp2pStarts
  <1>5. CASE BitswapStarts
    BY <1>5 DEF BitswapStarts
  <1> QED
    BY <1>1, <1>2, <1>3, <1>4, <1>5 DEF Setup

\* Whichever endpoint a request is for, it begins with one await.
LEMMA ArriveAccepts ==
  ASSUME NEW q \in Requests, Arrive(q)
  PROVE  \E kind \in {"check", "fetch", "stat", "other"}, at \in {"has", "store", "answer"} :
           Accept(q, kind, at) /\ (kind = "stat" => at = "has")
  <1>1. CASE Accept(q, "check", "has")
    BY <1>1
  <1>2. CASE Accept(q, "fetch", "store")
    BY <1>2
  <1>3. CASE Accept(q, "stat", "has")
    BY <1>3
  <1>4. CASE Accept(q, "other", "answer")
    BY <1>4
  <1> QED
    BY <1>1, <1>2, <1>3, <1>4
    DEF Arrive, Check, Cat, Ls, DagStat, BlockStat, Other

\* NextDial is the first address after position i that is to be dialled, if there
\* is one.
LEMMA NextDialIsFirst ==
  ASSUME NEW i \in 0..Len(Bootstrap), NEW known
  PROVE  \/ NextDial(i, known) = 0 /\ ToDial(i, known) = {}
         \/ /\ NextDial(i, known) \in ToDial(i, known)
            /\ \A j \in ToDial(i, known) : NextDial(i, known) <= j
  <1> DEFINE R == {ss \in Nat \X Nat : ss[1] < ss[2]}
             D == ToDial(i, known)
  <1>1. D \subseteq Nat
    BY LifecycleAssumption DEF ToDial
  <1>2. CASE D # {}
    <2>1. \E x \in D : \A y \in D : <<y, x>> \notin R
      <3>1. IsWellFoundedOn(R, Nat)
        BY NatLessThanWellFounded, Zenon DEF OpToRel
      <3> HIDE DEF R, D
      <3> QED
        BY <1>1, <1>2, <3>1, WFMin
    <2>2. \E x \in D : \A y \in D : x <= y
      <3>1. \A x, y \in Nat : <<y, x>> \in R <=> y < x
        OBVIOUS
      <3>2. \A x, y \in Nat : ~(y < x) => x <= y
        OBVIOUS
      <3> HIDE DEF R, D
      <3> QED
        BY <1>1, <2>1, <3>1, <3>2
    <2> HIDE DEF D
    <2> QED
      BY <1>2, <2>2 DEF NextDial, D
  <1> QED
    BY <1>2 DEF NextDial

LEMMA NextDialInRange ==
  ASSUME NEW i \in 0..Len(Bootstrap), NEW known
  PROVE  \/ NextDial(i, known) = 0
         \/ NextDial(i, known) \in ToDial(i, known)
  BY NextDialIsFirst

\* An address to dial is one of a peer that is not known to be connected.
LEMMA DialTypes ==
  ASSUME NEW i \in 0..Len(Bootstrap), NEW known
  PROVE  /\ NextDial(i, known) \in 0..Len(Bootstrap)
         /\ NextDial(i, known) # 0 => Bootstrap[NextDial(i, known)] \in Peers \ known
  <1>1. DOMAIN Bootstrap = 1..Len(Bootstrap) /\ Len(Bootstrap) \in Nat
    BY LifecycleAssumption
  <1> QED
    BY <1>1, NextDialInRange DEF ToDial, Peers

LEMMA InitInv == Init => IInv
  <1>1. Len(Bootstrap) \in Nat
    BY LifecycleAssumption
  <1>2. Init => TypeOK
    <2> SUFFICES ASSUME Init PROVE TypeOK
      OBVIOUS
    <2>1. dialing \in [Rounds -> 0..Len(Bootstrap)] /\ \A r \in Rounds : dialing[r] = 0
      BY <1>1 DEF Init
    <2>2. request \in [Requests -> {None}]
      BY DEF Init
    <2> QED
      BY <2>1, <2>2 DEF Init, TypeOK
  <1>3. Init => StatsOK /\ StatsStayLocal
    BY DEF Init, StatsOK, StatsStayLocal
  <1>4. Init => ServerOK /\ ExitOK /\ CleanExit
    BY DEF Init, ServerOK, ExitOK, CleanExit
  <1> QED
    BY <1>2, <1>3, <1>4 DEF IInv

\* A handler that goes on brings no client back.
LEMMA HandlerGoesOn ==
  ASSUME TypeOK, NEW q \in Requests,
         Respond(q) \/ \E at \in {"store", "network", "want"} : Await(q, at)
  PROVE  \A r \in Requests : request'[r].client => request[r].client
  <1>1. request \in [Requests -> {None} \cup
          [kind : {"check", "fetch", "stat", "other"},
           at : {"has", "store", "network", "want", "answer"}, client : BOOLEAN]]
    BY DEF TypeOK
  <1>2. CASE Respond(q)
    BY <1>1, <1>2 DEF Respond
  <1>3. ASSUME NEW at \in {"store", "network", "want"}, Await(q, at)
        PROVE  \A r \in Requests : request'[r].client => request[r].client
    <2>1. \A r \in Requests : r # q => request'[r] = request[r]
      BY <1>1, <1>3 DEF Await
    <2>2. request'[q].client = request[q].client
      BY <1>1, <1>3 DEF Await
    <2> QED
      BY <2>1, <2>2
  <1> QED
    BY <1>2, <1>3

\* When the process exits.
LEMMA ExitTypes ==
  ASSUME TypeOK, NEW code \in Ends, ProcessExit(code)
  PROVE  TypeOK'
  <1>1. Len(Bootstrap) \in Nat
    BY LifecycleAssumption
  <1>2. dialing' \in [Rounds -> 0..Len(Bootstrap)] /\ \A r \in Rounds : dialing'[r] = 0
    BY <1>1 DEF ProcessExit
  <1>3. request' \in [Requests -> {None}] /\ snapshot' \in [Rounds -> SUBSET Peers]
    BY DEF ProcessExit
  <1>4. /\ mode' \in Ends /\ connected' = {} /\ announcing' = FALSE
        /\ UNCHANGED <<loopsStopped, server, blockVars, shutdown, bitswap, libp2p>>
    BY DEF ProcessExit
  <1> QED
    BY <1>2, <1>3, <1>4, ZenonT(40) DEF TypeOK, blockVars

\* When a client leaves.
LEMMA LeaveTypes ==
  ASSUME TypeOK, NEW q \in Requests, ClientLeaves(q)
  PROVE  /\ request' \in [Requests -> {None} \cup
             [kind : {"check", "fetch", "stat", "other"},
              at : {"has", "store", "network", "want", "answer"}, client : BOOLEAN]]
         /\ \A r \in Requests : request'[r].client => request[r].client
  <1>1. request \in [Requests -> {None} \cup
          [kind : {"check", "fetch", "stat", "other"},
           at : {"has", "store", "network", "want", "answer"}, client : BOOLEAN]]
    BY DEF TypeOK
  <1>2. request[q] # None
    BY DEF ClientLeaves
  <1>3. /\ request'[q] = [kind |-> request[q].kind, at |-> request[q].at, client |-> FALSE]
        /\ \A r \in Requests : r # q => request'[r] = request[r]
        /\ DOMAIN request' = Requests
    BY <1>1, <1>2 DEF ClientLeaves
  <1>4. request'[q] \in [kind : {"check", "fetch", "stat", "other"},
              at : {"has", "store", "network", "want", "answer"}, client : BOOLEAN]
    BY <1>1, <1>2, <1>3
  <1>5. \A r \in Requests : request'[r].client => request[r].client
    BY <1>3
  <1>6. request' = [r \in Requests |-> request'[r]]
    BY <1>1 DEF ClientLeaves
  <1> QED
    BY <1>1, <1>3, <1>4, <1>5, <1>6

\* When a block is found.
LEMMA FoundTypes ==
  ASSUME TypeOK, NEW q \in Requests, Found(q)
  PROVE  TypeOK'
  <1>1. UNCHANGED <<mode, connected, loopsStopped, dialing, snapshot, announcing, server,
                    shutdown, bitswap, libp2p>>
    BY DEF Found
  <1>2. present' \in BOOLEAN
    BY DEF TypeOK, Found
  <1>3. refused' \in BOOLEAN
    BY DEF Found
  <1>4. cached' \in {"yes", "no", "off"}
    BY DEF Found, Cache
  <1>5. request' \in [Requests -> {None} \cup
          [kind : {"check", "fetch", "stat", "other"},
           at : {"has", "store", "network", "want", "answer"}, client : BOOLEAN]]
    BY DEF TypeOK, Found, Respond
  <1> QED
    BY <1>1, <1>2, <1>3, <1>4, <1>5 DEF TypeOK

\* Every step keeps the types.
LEMMA TypeInductive ==
  ASSUME IInv, [Next]_vars
  PROVE  TypeOK'
  <1> USE DEF blockVars, TypeOK
  <1>0. TypeOK
    BY DEF IInv
  <1>1. CASE Setup
    BY <1>0, <1>1, SetupMoves
  <1>2. CASE StartFails
    BY <1>0, <1>2 DEF StartFails
  <1>3. CASE WaitEnds
    BY <1>0, <1>3 DEF WaitEnds
  <1>4. CASE Serve
    BY <1>0, <1>4, DialTypes, LifecycleAssumption DEF Serve, BeginRound
  <1>5. ASSUME NEW r \in Rounds, StartRound(r)
        PROVE  TypeOK'
    BY <1>0, <1>5, DialTypes, LifecycleAssumption DEF StartRound, BeginRound
  <1>6. ASSUME NEW r \in Rounds, DialSucceeds(r)
        PROVE  TypeOK'
    BY <1>0, <1>6, DialTypes, LifecycleAssumption DEF DialSucceeds, DialOver
  <1>7. ASSUME NEW r \in Rounds, DialFails(r)
        PROVE  TypeOK'
    BY <1>0, <1>7, DialTypes, LifecycleAssumption DEF DialFails, DialOver
  <1>8. ASSUME NEW p \in Peers, Connect(p)
        PROVE  TypeOK'
    BY <1>0, <1>8 DEF Connect
  <1>9. ASSUME NEW p \in Peers, Disconnect(p)
        PROVE  TypeOK'
    BY <1>0, <1>9 DEF Disconnect
  <1>10. ASSUME NEW q \in Requests, Arrive(q)
        PROVE  TypeOK'
    <2>1. PICK kind \in {"check", "fetch", "stat", "other"}, at \in {"has", "store", "answer"} :
                 Accept(q, kind, at) /\ (kind = "stat" => at = "has")
      BY <1>10, ArriveAccepts
    <2> QED
      BY <1>0, <2>1 DEF Accept
  <1>11. ASSUME NEW q \in Requests, HasAnswered(q)
        PROVE  TypeOK'
    BY <1>0, <1>11 DEF HasAnswered, Respond, Await
  <1>12. ASSUME NEW q \in Requests, StoreAnswered(q)
        PROVE  TypeOK'
    BY <1>0, <1>12 DEF StoreAnswered, Respond, Await, Cache
  <1>13. ASSUME NEW q \in Requests, NetworkAnswered(q)
        PROVE  TypeOK'
    <2>1. CASE Found(q)
      BY <1>0, <2>1, FoundTypes
    <2>2. CASE ~Found(q)
      <3>1. UNCHANGED <<mode, connected, loopsStopped, dialing, snapshot, announcing, server,
                        blockVars, shutdown, bitswap, libp2p>>
        BY <1>13, <2>2 DEF NetworkAnswered
      <3>2. request' = [request EXCEPT ![q] = None]
        BY <1>13, <2>2 DEF NetworkAnswered, Respond
      <3> QED
        BY <1>0, <3>1, <3>2, SMTT(30)
    <2> QED
      BY <2>1, <2>2
  <1>14. ASSUME NEW q \in Requests, Hangs(q)
        PROVE  TypeOK'
    BY <1>0, <1>14 DEF Hangs, Await
  <1>15. ASSUME NEW q \in Requests, WantResolved(q)
        PROVE  TypeOK'
    BY <1>0, <1>15, FoundTypes DEF WantResolved
  <1>16. ASSUME NEW s \in Shutdowns, Signal(s)
        PROVE  TypeOK'
    BY <1>0, <1>16 DEF Signal
  <1>17. ASSUME NEW s \in Shutdowns, StopNode(s)
        PROVE  TypeOK'
    BY <1>0, <1>17 DEF StopNode
  <1>18. ASSUME NEW s \in Shutdowns, BitswapStops(s)
        PROVE  TypeOK'
    BY <1>0, <1>18 DEF BitswapStops
  <1>19. ASSUME NEW s \in Shutdowns, Libp2pStops(s)
        PROVE  TypeOK'
    BY <1>0, <1>19 DEF Libp2pStops
  <1>20. ASSUME NEW s \in Shutdowns, StopFails(s)
        PROVE  TypeOK'
    BY <1>0, <1>20, ExitTypes DEF StopFails
  <1>21. ASSUME NEW s \in Shutdowns, Exit(s)
        PROVE  TypeOK'
    BY <1>0, <1>21, ExitTypes DEF Exit
  <1>22. CASE Evict
    BY <1>0, <1>22 DEF Evict
  <1>23. CASE SignalKills
    BY <1>0, <1>23 DEF SignalKills
  <1>24. CASE ServerCloses
    BY <1>0, <1>24 DEF ServerCloses
  <1>29. ASSUME NEW q \in Requests, ClientLeaves(q)
        PROVE  TypeOK'
    <2>1. UNCHANGED <<mode, connected, loopsStopped, dialing, snapshot, announcing, server,
                      blockVars, shutdown, bitswap, libp2p>>
      BY <1>29 DEF ClientLeaves
    <2>2. request' \in [Requests -> {None} \cup
            [kind : {"check", "fetch", "stat", "other"},
             at : {"has", "store", "network", "want", "answer"}, client : BOOLEAN]]
      BY <1>0, <1>29, LeaveTypes
    <2> QED
      BY <1>0, <2>1, <2>2
  <1>25. ASSUME NEW q \in Requests, OtherAnswered(q)
        PROVE  TypeOK'
    BY <1>0, <1>25 DEF OtherAnswered, Respond
  <1>26. CASE AnnounceToNetwork
    BY <1>0, <1>26 DEF AnnounceToNetwork
  <1>27. CASE Announced
    <2>1. announcing' = FALSE /\ UNCHANGED <<mode, connected, loopsStopped, dialing, snapshot,
            server, request, blockVars, shutdown, bitswap, libp2p>>
      BY <1>27 DEF Announced
    <2>2. announcing' \in BOOLEAN
      BY <2>1
    <2> QED
      BY <1>0, <2>1, <2>2
  <1>28. CASE UNCHANGED vars
    BY <1>0, <1>28 DEF vars
  <1> QED
    BY <1>1, <1>2, <1>3, <1>4, <1>5, <1>6, <1>7, <1>8, <1>9, <1>10, <1>11, <1>12,
       <1>13, <1>14, <1>15, <1>16, <1>17, <1>18, <1>19, <1>20, <1>21, <1>22, <1>23, <1>24,
       <1>25, <1>26, <1>27, <1>28, <1>29
    DEF Next, RoundStep, RequestStep, ShutdownStep

\* Requests never see a stopped node.
LEMMA ServerInductive ==
  ASSUME IInv, [Next]_vars
  PROVE  ServerOK'
  <1> USE DEF blockVars, ServerOK
  <1>0. TypeOK /\ ServerOK
    BY DEF IInv
  <1>1. CASE Setup
    BY <1>0, <1>1, SetupMoves
  <1>2. CASE StartFails
    BY <1>0, <1>2 DEF StartFails
  <1>3. CASE WaitEnds
    BY <1>0, <1>3 DEF WaitEnds
  <1>4. CASE Serve
    BY <1>0, <1>4 DEF Serve, BeginRound
  <1>5. ASSUME NEW r \in Rounds, StartRound(r)
        PROVE  ServerOK'
    BY <1>0, <1>5 DEF StartRound, BeginRound
  <1>6. ASSUME NEW r \in Rounds, DialSucceeds(r)
        PROVE  ServerOK'
    BY <1>0, <1>6 DEF DialSucceeds, DialOver
  <1>7. ASSUME NEW r \in Rounds, DialFails(r)
        PROVE  ServerOK'
    BY <1>0, <1>7 DEF DialFails, DialOver
  <1>8. ASSUME NEW p \in Peers, Connect(p)
        PROVE  ServerOK'
    BY <1>0, <1>8 DEF Connect
  <1>9. ASSUME NEW p \in Peers, Disconnect(p)
        PROVE  ServerOK'
    BY <1>0, <1>9 DEF Disconnect
  <1>10. ASSUME NEW q \in Requests, Arrive(q)
        PROVE  ServerOK'
    <2>1. PICK kind \in {"check", "fetch", "stat", "other"}, at \in {"has", "store", "answer"} :
                 Accept(q, kind, at) /\ (kind = "stat" => at = "has")
      BY <1>10, ArriveAccepts
    <2> QED
      BY <1>0, <2>1 DEF Accept
  <1>11. ASSUME NEW q \in Requests, HasAnswered(q)
        PROVE  ServerOK'
    BY <1>0, <1>11, HandlerGoesOn DEF HasAnswered
  <1>12. ASSUME NEW q \in Requests, StoreAnswered(q)
        PROVE  ServerOK'
    BY <1>0, <1>12, HandlerGoesOn DEF StoreAnswered
  <1>13. ASSUME NEW q \in Requests, NetworkAnswered(q)
        PROVE  ServerOK'
    <2>1. CASE Found(q)
      BY <1>0, <1>13, <2>1, HandlerGoesOn DEF Found
    <2>2. CASE ~Found(q)
      BY <1>0, <1>13, <2>2, HandlerGoesOn DEF NetworkAnswered
    <2> QED
      BY <2>1, <2>2
  <1>14. ASSUME NEW q \in Requests, Hangs(q)
        PROVE  ServerOK'
    BY <1>0, <1>14, HandlerGoesOn DEF Hangs
  <1>15. ASSUME NEW q \in Requests, WantResolved(q)
        PROVE  ServerOK'
    BY <1>0, <1>15, HandlerGoesOn DEF WantResolved, Found
  <1>16. ASSUME NEW s \in Shutdowns, Signal(s)
        PROVE  ServerOK'
    BY <1>0, <1>16 DEF Signal
  <1>17. ASSUME NEW s \in Shutdowns, StopNode(s)
        PROVE  ServerOK'
    BY <1>0, <1>17 DEF StopNode
  <1>18. ASSUME NEW s \in Shutdowns, BitswapStops(s)
        PROVE  ServerOK'
    BY <1>0, <1>18 DEF BitswapStops
  <1>19. ASSUME NEW s \in Shutdowns, Libp2pStops(s)
        PROVE  ServerOK'
    BY <1>0, <1>19 DEF Libp2pStops
  <1>20. ASSUME NEW s \in Shutdowns, StopFails(s)
        PROVE  ServerOK'
    BY <1>0, <1>20 DEF StopFails, ProcessExit
  <1>21. ASSUME NEW s \in Shutdowns, Exit(s)
        PROVE  ServerOK'
    BY <1>0, <1>21 DEF Exit, ProcessExit
  <1>22. CASE Evict
    BY <1>0, <1>22 DEF Evict
  <1>23. CASE SignalKills
    BY <1>0, <1>23 DEF SignalKills
  <1>24. CASE ServerCloses
    BY <1>0, <1>24 DEF ServerCloses
  <1>29. ASSUME NEW q \in Requests, ClientLeaves(q)
        PROVE  ServerOK'
    BY <1>0, <1>29, LeaveTypes DEF ClientLeaves
  <1>25. ASSUME NEW q \in Requests, OtherAnswered(q)
        PROVE  ServerOK'
    BY <1>0, <1>25, HandlerGoesOn DEF OtherAnswered
  <1>26. CASE AnnounceToNetwork
    BY <1>0, <1>26 DEF AnnounceToNetwork
  <1>27. CASE Announced
    BY <1>0, <1>27 DEF Announced
  <1>28. CASE UNCHANGED vars
    BY <1>0, <1>28 DEF vars
  <1> QED
    BY <1>1, <1>2, <1>3, <1>4, <1>5, <1>6, <1>7, <1>8, <1>9, <1>10, <1>11, <1>12,
       <1>13, <1>14, <1>15, <1>16, <1>17, <1>18, <1>19, <1>20, <1>21, <1>22, <1>23, <1>24,
       <1>25, <1>26, <1>27, <1>28, <1>29
    DEF Next, RoundStep, RequestStep, ShutdownStep

\* A block that was found is in the store, or the store has refused it.
LEMMA FoundKeeps ==
  ASSUME NEW q, Found(q)
  PROVE  /\ refused => refused'
         /\ present => present'
         /\ present' \/ refused'
  <1>1. refused' = (refused \/ ~present')
    BY DEF Found
  <1>2. present' = present \/ present' = TRUE
    BY DEF Found
  <1>3. refused' <=> refused \/ ~present'
    BY <1>1
  <1>4. present => present'
    BY <1>2
  <1> QED
    BY <1>3, <1>4

\* Whatever is evicted, stored or refused between has() and get().
LEMMA StatsInductive ==
  ASSUME IInv, [Next]_vars
  PROVE  (StatsOK /\ StatsStayLocal)'
  <1> USE DEF blockVars
  <1>0. TypeOK /\ StatsOK /\ StatsStayLocal
    BY DEF IInv
  <1>a. request \in [Requests -> {None} \cup
          [kind : {"check", "fetch", "stat", "other"},
           at : {"has", "store", "network", "want", "answer"}, client : BOOLEAN]]
    BY <1>0 DEF TypeOK
  <1>1. CASE Setup
    BY <1>0, <1>1, SetupMoves DEF StatsOK, StatsStayLocal
  <1>2. CASE StartFails
    BY <1>0, <1>2 DEF StatsOK, StatsStayLocal, StartFails
  <1>3. CASE WaitEnds
    BY <1>0, <1>3 DEF StatsOK, StatsStayLocal, WaitEnds
  <1>4. CASE Serve
    BY <1>0, <1>4 DEF StatsOK, StatsStayLocal, Serve, BeginRound
  <1>5. ASSUME NEW r \in Rounds, StartRound(r)
        PROVE  (StatsOK /\ StatsStayLocal)'
    BY <1>0, <1>5 DEF StatsOK, StatsStayLocal, StartRound, BeginRound
  <1>6. ASSUME NEW r \in Rounds, DialSucceeds(r)
        PROVE  (StatsOK /\ StatsStayLocal)'
    BY <1>0, <1>6 DEF StatsOK, StatsStayLocal, DialSucceeds, DialOver
  <1>7. ASSUME NEW r \in Rounds, DialFails(r)
        PROVE  (StatsOK /\ StatsStayLocal)'
    BY <1>0, <1>7 DEF StatsOK, StatsStayLocal, DialFails, DialOver
  <1>8. ASSUME NEW p \in Peers, Connect(p)
        PROVE  (StatsOK /\ StatsStayLocal)'
    BY <1>0, <1>8 DEF StatsOK, StatsStayLocal, Connect
  <1>9. ASSUME NEW p \in Peers, Disconnect(p)
        PROVE  (StatsOK /\ StatsStayLocal)'
    BY <1>0, <1>9 DEF StatsOK, StatsStayLocal, Disconnect
  <1>10. ASSUME NEW q \in Requests, Arrive(q)
        PROVE  (StatsOK /\ StatsStayLocal)'
    <2>1. PICK kind \in {"check", "fetch", "stat", "other"}, at \in {"has", "store", "answer"} :
                 Accept(q, kind, at) /\ (kind = "stat" => at = "has")
      BY <1>10, ArriveAccepts
    <2> QED
      BY <1>0, <2>1 DEF StatsOK, StatsStayLocal, Accept
  <1>11. ASSUME NEW q \in Requests, HasAnswered(q)
        PROVE  (StatsOK /\ StatsStayLocal)'
    <2>1. \A r \in Requests \ {q} : request'[r] = request[r]
      BY <1>a, <1>11 DEF HasAnswered, Respond, Await
    <2>2. \/ request'[q] = None
          \/ request'[q].at = "store" /\ (present \/ cached = "yes")
      BY <1>a, <1>11 DEF HasAnswered, Respond, Await
    <2>3. UNCHANGED blockVars
      BY <1>11 DEF HasAnswered
    <2> QED
      BY <1>0, <2>1, <2>2, <2>3 DEF StatsOK, StatsStayLocal
  <1>12. ASSUME NEW q \in Requests, StoreAnswered(q)
        PROVE  (StatsOK /\ StatsStayLocal)'
    <2>1. \A r \in Requests \ {q} : request'[r] = request[r]
      BY <1>a, <1>12 DEF StoreAnswered, Respond, Await
    <2>2. \/ request'[q] = None
          \/ request'[q].kind = request[q].kind /\ request[q].at = "store"
      BY <1>a, <1>12 DEF StoreAnswered, Respond, Await
    <2>3. /\ (cached' = cached \/ present) /\ (cached' = "off" <=> cached = "off")
          /\ UNCHANGED <<present, refused>>
      BY <1>12 DEF StoreAnswered, Cache
    <2> QED
      BY <1>0, <2>1, <2>2, <2>3 DEF StatsOK, StatsStayLocal
  <1>13. ASSUME NEW q \in Requests, NetworkAnswered(q)
        PROVE  (StatsOK /\ StatsStayLocal)'
    <2>1. \A r \in Requests : request'[r] = request[r] \/ request'[r] = None
      BY <1>a, <1>13 DEF NetworkAnswered, Found, Respond
    <2>2. CASE Found(q)
      <3>1. /\ refused => refused'
            /\ present => present'
            /\ present' \/ refused'
        BY <2>2, FoundKeeps
      <3>2. cached' = "off" <=> cached = "off"
        BY <2>2 DEF Found, Cache
      <3> QED
        BY <1>0, <2>1, <3>1, <3>2 DEF StatsOK, StatsStayLocal
    <2>3. CASE UNCHANGED blockVars
      BY <1>0, <2>1, <2>3 DEF StatsOK, StatsStayLocal
    <2> QED
      BY <1>13, <2>2, <2>3 DEF NetworkAnswered
  <1>14. ASSUME NEW q \in Requests, Hangs(q)
        PROVE  (StatsOK /\ StatsStayLocal)'
    BY <1>0, <1>14 DEF StatsOK, StatsStayLocal, Hangs, Await
  <1>15. ASSUME NEW q \in Requests, WantResolved(q)
        PROVE  (StatsOK /\ StatsStayLocal)'
    <2>1. \A r \in Requests : request'[r] = request[r] \/ request'[r] = None
      BY <1>a, <1>15 DEF WantResolved, Found, Respond
    <2>2. /\ refused => refused'
          /\ present => present'
          /\ present' \/ refused'
      BY <1>15, FoundKeeps DEF WantResolved
    <2>3. cached' = "off" <=> cached = "off"
      BY <1>15 DEF WantResolved, Found, Cache
    <2> QED
      BY <1>0, <2>1, <2>2, <2>3 DEF StatsOK, StatsStayLocal
  <1>16. ASSUME NEW s \in Shutdowns, Signal(s)
        PROVE  (StatsOK /\ StatsStayLocal)'
    BY <1>0, <1>16 DEF StatsOK, StatsStayLocal, Signal
  <1>17. ASSUME NEW s \in Shutdowns, StopNode(s)
        PROVE  (StatsOK /\ StatsStayLocal)'
    BY <1>0, <1>17 DEF StatsOK, StatsStayLocal, StopNode
  <1>18. ASSUME NEW s \in Shutdowns, BitswapStops(s)
        PROVE  (StatsOK /\ StatsStayLocal)'
    BY <1>0, <1>18 DEF StatsOK, StatsStayLocal, BitswapStops
  <1>19. ASSUME NEW s \in Shutdowns, Libp2pStops(s)
        PROVE  (StatsOK /\ StatsStayLocal)'
    BY <1>0, <1>19 DEF StatsOK, StatsStayLocal, Libp2pStops
  <1>20. ASSUME NEW s \in Shutdowns, StopFails(s)
        PROVE  (StatsOK /\ StatsStayLocal)'
    BY <1>0, <1>20 DEF StatsOK, StatsStayLocal, StopFails, ProcessExit
  <1>21. ASSUME NEW s \in Shutdowns, Exit(s)
        PROVE  (StatsOK /\ StatsStayLocal)'
    BY <1>0, <1>21 DEF StatsOK, StatsStayLocal, Exit, ProcessExit
  <1>22. CASE Evict
    BY <1>0, <1>22 DEF StatsOK, StatsStayLocal, Evict
  <1>23. CASE SignalKills
    BY <1>0, <1>23 DEF StatsOK, StatsStayLocal, SignalKills
  <1>24. CASE ServerCloses
    BY <1>0, <1>24 DEF StatsOK, StatsStayLocal, ServerCloses
  <1>29. ASSUME NEW q \in Requests, ClientLeaves(q)
        PROVE  (StatsOK /\ StatsStayLocal)'
    BY <1>0, <1>29 DEF StatsOK, StatsStayLocal, ClientLeaves
  <1>25. ASSUME NEW q \in Requests, OtherAnswered(q)
        PROVE  (StatsOK /\ StatsStayLocal)'
    BY <1>0, <1>25 DEF StatsOK, StatsStayLocal, OtherAnswered, Respond
  <1>26. CASE AnnounceToNetwork
    BY <1>0, <1>26 DEF StatsOK, StatsStayLocal, AnnounceToNetwork
  <1>27. CASE Announced
    BY <1>0, <1>27 DEF StatsOK, StatsStayLocal, Announced
  <1>28. CASE UNCHANGED vars
    BY <1>0, <1>28 DEF StatsOK, StatsStayLocal, vars
  <1> QED
    BY <1>1, <1>2, <1>3, <1>4, <1>5, <1>6, <1>7, <1>8, <1>9, <1>10, <1>11, <1>12,
       <1>13, <1>14, <1>15, <1>16, <1>17, <1>18, <1>19, <1>20, <1>21, <1>22, <1>23, <1>24,
       <1>25, <1>26, <1>27, <1>28, <1>29
    DEF Next, RoundStep, RequestStep, ShutdownStep

\* However the runs of shutdown() overlap.
LEMMA ExitInductive ==
  ASSUME IInv, [Next]_vars
  PROVE  (ExitOK /\ CleanExit)'
  <1> USE DEF blockVars, ExitOK, CleanExit
  <1>0. TypeOK /\ ServerOK /\ ExitOK /\ CleanExit
    BY DEF IInv
  <1>1. CASE Setup
    BY <1>0, <1>1, SetupMoves
  <1>2. CASE StartFails
    BY <1>0, <1>2 DEF StartFails
  <1>3. CASE WaitEnds
    BY <1>0, <1>3 DEF WaitEnds
  <1>4. CASE Serve
    <2>1. \A s \in Shutdowns : shutdown[s] = "none"
      BY <1>0, <1>4 DEF Serve
    <2>2. libp2p = "up"
      BY <1>0, <1>4 DEF Serve, ServerOK
    <2> QED
      BY <1>0, <1>4, <2>1, <2>2 DEF Serve
  <1>5. ASSUME NEW r \in Rounds, StartRound(r)
        PROVE  (ExitOK /\ CleanExit)'
    BY <1>0, <1>5 DEF StartRound, BeginRound
  <1>6. ASSUME NEW r \in Rounds, DialSucceeds(r)
        PROVE  (ExitOK /\ CleanExit)'
    BY <1>0, <1>6 DEF DialSucceeds, DialOver
  <1>7. ASSUME NEW r \in Rounds, DialFails(r)
        PROVE  (ExitOK /\ CleanExit)'
    BY <1>0, <1>7 DEF DialFails, DialOver
  <1>8. ASSUME NEW p \in Peers, Connect(p)
        PROVE  (ExitOK /\ CleanExit)'
    BY <1>0, <1>8 DEF Connect
  <1>9. ASSUME NEW p \in Peers, Disconnect(p)
        PROVE  (ExitOK /\ CleanExit)'
    BY <1>0, <1>9 DEF Disconnect
  <1>10. ASSUME NEW q \in Requests, Arrive(q)
        PROVE  (ExitOK /\ CleanExit)'
    <2>1. PICK kind \in {"check", "fetch", "stat", "other"}, at \in {"has", "store", "answer"} :
                 Accept(q, kind, at) /\ (kind = "stat" => at = "has")
      BY <1>10, ArriveAccepts
    <2> QED
      BY <1>0, <2>1 DEF Accept
  <1>11. ASSUME NEW q \in Requests, HasAnswered(q)
        PROVE  (ExitOK /\ CleanExit)'
    BY <1>0, <1>11 DEF HasAnswered, Respond, Await
  <1>12. ASSUME NEW q \in Requests, StoreAnswered(q)
        PROVE  (ExitOK /\ CleanExit)'
    BY <1>0, <1>12 DEF StoreAnswered, Respond, Await, Cache
  <1>13. ASSUME NEW q \in Requests, NetworkAnswered(q)
        PROVE  (ExitOK /\ CleanExit)'
    BY <1>0, <1>13 DEF NetworkAnswered, Found, Respond, Cache
  <1>14. ASSUME NEW q \in Requests, Hangs(q)
        PROVE  (ExitOK /\ CleanExit)'
    BY <1>0, <1>14 DEF Hangs, Await
  <1>15. ASSUME NEW q \in Requests, WantResolved(q)
        PROVE  (ExitOK /\ CleanExit)'
    BY <1>0, <1>15 DEF WantResolved, Found, Respond, Cache
  <1>16. ASSUME NEW s \in Shutdowns, Signal(s)
        PROVE  (ExitOK /\ CleanExit)'
    BY <1>0, <1>16 DEF Signal
  <1>17. ASSUME NEW s \in Shutdowns, StopNode(s)
        PROVE  (ExitOK /\ CleanExit)'
    BY <1>0, <1>17 DEF StopNode
  <1>18. ASSUME NEW s \in Shutdowns, BitswapStops(s)
        PROVE  (ExitOK /\ CleanExit)'
    <2>1. /\ \A t \in Shutdowns \ {s} : shutdown'[t] = shutdown[t]
          /\ shutdown'[s] = IF libp2p = "up" THEN "libp2p" ELSE "exit"
      BY <1>0, <1>18 DEF TypeOK, BitswapStops
    <2>2. mode = "serving" /\ libp2p # "down"
      BY <1>0, <1>18 DEF BitswapStops
    <2>3. CASE libp2p = "up"
      BY <1>0, <1>18, <2>1, <2>2, <2>3 DEF BitswapStops
    <2>4. CASE libp2p \in {"stopping", "stopped"}
      <3>1. PICK t \in Shutdowns : shutdown[t] \in {"libp2p", "exit"}
        BY <1>0, <2>4
      <3>2. t # s
        BY <1>18, <3>1 DEF BitswapStops
      <3> QED
        BY <1>0, <1>18, <2>1, <2>2, <2>4, <3>1, <3>2 DEF BitswapStops
    <2> QED
      BY <1>0, <2>2, <2>3, <2>4 DEF TypeOK
  <1>19. ASSUME NEW s \in Shutdowns, Libp2pStops(s)
        PROVE  (ExitOK /\ CleanExit)'
    BY <1>0, <1>19 DEF Libp2pStops
  <1>20. ASSUME NEW s \in Shutdowns, StopFails(s)
        PROVE  (ExitOK /\ CleanExit)'
    BY <1>0, <1>20 DEF StopFails, ProcessExit
  <1>21. ASSUME NEW s \in Shutdowns, Exit(s)
        PROVE  (ExitOK /\ CleanExit)'
    BY <1>0, <1>21 DEF Exit, ProcessExit
  <1>22. CASE Evict
    BY <1>0, <1>22 DEF Evict
  <1>23. CASE SignalKills
    BY <1>0, <1>23 DEF SignalKills
  <1>24. CASE ServerCloses
    BY <1>0, <1>24 DEF ServerCloses
  <1>29. ASSUME NEW q \in Requests, ClientLeaves(q)
        PROVE  (ExitOK /\ CleanExit)'
    BY <1>0, <1>29 DEF ClientLeaves
  <1>25. ASSUME NEW q \in Requests, OtherAnswered(q)
        PROVE  (ExitOK /\ CleanExit)'
    BY <1>0, <1>25 DEF OtherAnswered, Respond
  <1>26. CASE AnnounceToNetwork
    BY <1>0, <1>26 DEF AnnounceToNetwork
  <1>27. CASE Announced
    BY <1>0, <1>27 DEF Announced
  <1>28. CASE UNCHANGED vars
    BY <1>0, <1>28 DEF vars
  <1> QED
    BY <1>1, <1>2, <1>3, <1>4, <1>5, <1>6, <1>7, <1>8, <1>9, <1>10, <1>11, <1>12,
       <1>13, <1>14, <1>15, <1>16, <1>17, <1>18, <1>19, <1>20, <1>21, <1>22, <1>23, <1>24,
       <1>25, <1>26, <1>27, <1>28, <1>29
    DEF Next, RoundStep, RequestStep, ShutdownStep

-----------------------------------------------------------------------------
LEMMA Invariant == Spec => []IInv
  <1>1. IInv /\ [Next]_vars => IInv'
    BY TypeInductive, ServerInductive, StatsInductive, ExitInductive DEF IInv
  <1> QED
    BY InitInv, <1>1, PTL DEF Spec

\* Every state of the process has its types, and a dial is under way only to a
\* peer that was not connected when its round began.
THEOREM TypeCorrect == Spec => []TypeOK
  <1>1. IInv => TypeOK
    BY DEF IInv
  <1> QED
    BY Invariant, <1>1, PTL

\* No client waiting for its response meets a node that is being stopped.
THEOREM NodeIsUpForRequests == Spec => []RequestsFindNodeUp
  <1>1. IInv => RequestsFindNodeUp
    BY DEF IInv, TypeOK, ServerOK, RequestsFindNodeUp
  <1> QED
    BY Invariant, <1>1, PTL

\* Statistics are about blocks the store has or has refused.
THEOREM StatsAreLocal == Spec => []StatsStayLocal
  <1>1. IInv => StatsStayLocal
    BY DEF IInv
  <1> QED
    BY Invariant, <1>1, PTL

\* A single signal never ends in "Shutdown complete" before all has stopped.
THEOREM ExitIsClean == Spec => []CleanExit
  <1>1. IInv => CleanExit
    BY DEF IInv
  <1> QED
    BY Invariant, <1>1, PTL

\* What the loops have not begun when shutdown() stops them they never begin.
THEOREM LoopsEnd == Spec => LoopsEndWithShutdown
  <1>1. IInv /\ [Next]_vars =>
          [loopsStopped => /\ \A r \in Rounds : dialing'[r] \in {dialing[r], 0}
                           /\ announcing' => announcing]_vars
    <2> DEFINE Ending == /\ \A r \in Rounds : dialing'[r] \in {dialing[r], 0}
                         /\ announcing' => announcing
    <2> SUFFICES ASSUME IInv, Next, loopsStopped
                 PROVE  Ending
      BY DEF vars
    <2>0. TypeOK /\ mode \notin Starting
      BY DEF IInv, ServerOK
    <2>1. CASE UNCHANGED <<dialing, announcing>>
      BY <2>1
    <2>2. ASSUME NEW r \in Rounds, DialOver(r)
          PROVE  Ending
      BY <2>0, <2>2 DEF DialOver, TypeOK
    <2>3. CASE Announced
      BY <2>3 DEF Announced
    <2>4. CASE Setup
      BY <2>0, <2>4, SetupMoves
    <2>5. ASSUME NEW q \in Requests, Arrive(q)
          PROVE  UNCHANGED <<dialing, announcing>>
      BY <2>5, ArriveAccepts DEF Accept
    <2>6. ASSUME NEW q \in Requests,
                 RequestStep(q) \/ Hangs(q) \/ WantResolved(q) \/ ClientLeaves(q)
          PROVE  UNCHANGED <<dialing, announcing>>
      BY <2>6 DEF RequestStep, HasAnswered, StoreAnswered, NetworkAnswered, OtherAnswered,
                  Hangs, WantResolved, Found, ClientLeaves
    <2>7. ASSUME NEW s \in Shutdowns, Signal(s) \/ ShutdownStep(s)
          PROVE  Ending
      <3>1. CASE StopFails(s) \/ Exit(s)
        BY <3>1 DEF StopFails, Exit, ProcessExit
      <3>2. CASE ~StopFails(s) /\ ~Exit(s)
        <4>1. UNCHANGED <<dialing, announcing>>
          BY <2>7, <3>2 DEF Signal, ShutdownStep, StopNode, BitswapStops, Libp2pStops
        <4> QED
          BY <2>1, <4>1
      <3> QED
        BY <3>1, <3>2
    <2>8. CASE StartFails \/ WaitEnds \/ Evict \/ SignalKills \/ ServerCloses
      BY <2>1, <2>8 DEF StartFails, WaitEnds, Evict, SignalKills, ServerCloses
    <2>9. ASSUME NEW p \in Peers, Connect(p) \/ Disconnect(p)
          PROVE  UNCHANGED <<dialing, announcing>>
      BY <2>9 DEF Connect, Disconnect
    <2>10. ~Serve /\ ~AnnounceToNetwork /\ \A r \in Rounds : ~StartRound(r)
      BY <2>0 DEF Serve, AnnounceToNetwork, StartRound
    <2> QED
      BY <2>1, <2>2, <2>3, <2>4, <2>5, <2>6, <2>7, <2>8, <2>9, <2>10
      DEF Next, RoundStep, DialSucceeds, DialFails
  <1> QED
    BY Invariant, <1>1, PTL DEF Spec, LoopsEndWithShutdown

-----------------------------------------------------------------------------
\* The steps that move a round of dials, a run of shutdown() or the server, and
\* what all the others leave alone.
LEMMA StepKinds ==
  ASSUME TypeOK, [Next]_vars
  PROVE  \/ Serve
         \/ \E r \in Rounds : StartRound(r) \/ DialOver(r)
         \/ \E s \in Shutdowns : Signal(s) \/ ShutdownStep(s)
         \/ ServerCloses
         \/ /\ UNCHANGED <<dialing, snapshot, shutdown, server, loopsStopped>>
            /\ \/ mode' = mode
               \/ mode \in Starting /\ mode' \in Starting
               \/ mode' \in Ends
  <1> DEFINE Untouched ==
         /\ UNCHANGED <<dialing, snapshot, shutdown, server, loopsStopped>>
         /\ \/ mode' = mode
            \/ mode \in Starting /\ mode' \in Starting
            \/ mode' \in Ends
  <1>1. CASE Setup
    BY <1>1 DEF Setup, ValidateEnv, BlockstoreBucket, DatastoreBucket, Libp2pStarts,
                BitswapStarts, SetupStep
  <1>2. CASE StartFails \/ WaitEnds \/ SignalKills
    BY <1>2 DEF StartFails, WaitEnds, SignalKills
  <1>3. CASE AnnounceToNetwork \/ Announced \/ Evict \/ UNCHANGED vars
    BY <1>3 DEF AnnounceToNetwork, Announced, Evict, vars
  <1>4. ASSUME NEW p \in Peers, Connect(p) \/ Disconnect(p) PROVE Untouched
    BY <1>4 DEF Connect, Disconnect
  <1>5. ASSUME NEW q \in Requests, Arrive(q) PROVE Untouched
    BY <1>5, ArriveAccepts DEF Accept
  <1>6. ASSUME NEW q \in Requests,
               RequestStep(q) \/ Hangs(q) \/ WantResolved(q) \/ ClientLeaves(q)
        PROVE  Untouched
    BY <1>6 DEF RequestStep, HasAnswered, StoreAnswered, NetworkAnswered, OtherAnswered,
                Hangs, WantResolved, Found, ClientLeaves
  <1> QED
    BY <1>1, <1>2, <1>3, <1>4, <1>5, <1>6 DEF Next, RoundStep, DialSucceeds, DialFails

\* No round dials before the loops start, and a shutdown finds a server to close.
LoopsOK ==
  /\ mode \in Starting => \A r \in Rounds : dialing[r] = 0
  /\ mode = "serving" => server # "none"

\* Once a run of shutdown() has begun no loop goes on and the server takes no new
\* connection: what the run may still wait for is the requests that are open.
ShutdownEndsWork ==
  \A s \in Shutdowns : shutdown[s] # "none" => loopsStopped /\ server \in {"closing", "closed"}

Stages == [none |-> 0, closing |-> 1, bitswap |-> 2, libp2p |-> 3, exit |-> 4]

\* A run of shutdown() never goes back or stays in a step, and nothing opens a
\* server again that it has closed.  With ShutdownEndsWork this is why ShutdownEnds
\* needs no more than that requests end.
ShutdownGoesForward ==
  [][/\ \A s \in Shutdowns :
          shutdown'[s] # shutdown[s] => Stages[shutdown[s]] < Stages[shutdown'[s]]
     /\ server = "closing" => server' \in {"closing", "closed"}
     /\ server = "closed" => server' = "closed"]_vars

LEMMA ShutdownStages ==
  ASSUME TypeOK, NEW s \in Shutdowns, Signal(s) \/ ShutdownStep(s)
  PROVE  /\ \A r \in Rounds : dialing'[r] \in {dialing[r], 0}
         /\ dialing' = dialing \/ shutdown[s] # "none"
         /\ mode' = mode \/ mode' \in Ends
         /\ mode = "serving" \/ shutdown[s] # "none"
         /\ \A t \in Shutdowns : \/ shutdown'[t] = shutdown[t]
                                 \/ Stages[shutdown[t]] < Stages[shutdown'[t]]
         /\ \A t \in Shutdowns : shutdown'[t] # "none" => t = s \/ shutdown[t] # "none"
         /\ \/ loopsStopped' /\ server' = (IF server = "listening" THEN "closing" ELSE server)
               /\ mode = "serving"
            \/ UNCHANGED <<loopsStopped, server>> /\ shutdown[s] # "none"
  <1> USE DEF TypeOK, Stages, blockVars
  <1>1. CASE Signal(s)
    BY <1>1 DEF Signal
  <1>2. CASE StopNode(s)
    BY <1>2 DEF StopNode
  <1>3. CASE BitswapStops(s)
    BY <1>3 DEF BitswapStops
  <1>4. CASE Libp2pStops(s)
    BY <1>4 DEF Libp2pStops
  <1>5. CASE StopFails(s) \/ Exit(s)
    BY <1>5 DEF StopFails, Exit, ProcessExit
  <1> QED
    BY <1>1, <1>2, <1>3, <1>4, <1>5 DEF ShutdownStep

LEMMA LoopsInductive ==
  ASSUME IInv, LoopsOK, ShutdownEndsWork, [Next]_vars
  PROVE  /\ LoopsOK' /\ ShutdownEndsWork'
         /\ \A s \in Shutdowns :
              shutdown'[s] # shutdown[s] => Stages[shutdown[s]] < Stages[shutdown'[s]]
         /\ server = "closing" => server' \in {"closing", "closed"}
         /\ server = "closed" => server' = "closed"
  <1> DEFINE Goal ==
         /\ LoopsOK' /\ ShutdownEndsWork'
         /\ \A s \in Shutdowns :
              shutdown'[s] # shutdown[s] => Stages[shutdown[s]] < Stages[shutdown'[s]]
         /\ server = "closing" => server' \in {"closing", "closed"}
         /\ server = "closed" => server' = "closed"
  <1> USE DEF LoopsOK, ShutdownEndsWork
  <1>0. TypeOK /\ ServerOK /\ ExitOK
    BY DEF IInv
  <1>1. CASE Serve
    <2>1. server = "none" /\ \A s \in Shutdowns : shutdown[s] = "none"
      BY <1>0, <1>1 DEF Serve, ServerOK, ExitOK
    <2> QED
      BY <1>1, <2>1 DEF Serve
  <1>2. ASSUME NEW r \in Rounds, StartRound(r) PROVE Goal
    BY <1>2 DEF StartRound
  <1>3. ASSUME NEW r \in Rounds, DialOver(r) PROVE Goal
    BY <1>3 DEF DialOver
  <1>4. ASSUME NEW s \in Shutdowns, Signal(s) \/ ShutdownStep(s) PROVE Goal
    <2>1. mode \notin Starting
      BY <1>0, <1>4, ShutdownStages DEF ExitOK
    <2>2. server \in {"none", "listening", "closing", "closed"}
      BY <1>0 DEF TypeOK
    <2> QED
      BY <1>0, <1>4, <2>1, <2>2, ShutdownStages
  <1>5. CASE ServerCloses
    BY <1>5 DEF ServerCloses
  <1>6. CASE /\ UNCHANGED <<dialing, snapshot, shutdown, server, loopsStopped>>
             /\ \/ mode' = mode
                \/ mode \in Starting /\ mode' \in Starting
                \/ mode' \in Ends
    BY <1>6
  <1> QED
    BY <1>0, <1>1, <1>2, <1>3, <1>4, <1>5, <1>6, StepKinds

\* shutdown() leaves nothing running but the requests that are open, and each of its
\* runs only moves towards process.exit (ShutdownEndsWork, ShutdownGoesForward).
THEOREM ShutdownLeavesOnlyRequests == Spec => []ShutdownEndsWork /\ ShutdownGoesForward
  <1>1. Init => LoopsOK /\ ShutdownEndsWork
    BY DEF Init, LoopsOK, ShutdownEndsWork
  <1>2. IInv /\ LoopsOK /\ ShutdownEndsWork /\ [Next]_vars => LoopsOK' /\ ShutdownEndsWork'
    BY LoopsInductive
  <1>3. IInv /\ LoopsOK /\ ShutdownEndsWork /\ [Next]_vars =>
          [/\ \A s \in Shutdowns :
                shutdown'[s] # shutdown[s] => Stages[shutdown[s]] < Stages[shutdown'[s]]
           /\ server = "closing" => server' \in {"closing", "closed"}
           /\ server = "closed" => server' = "closed"]_vars
    BY LoopsInductive
  <1> QED
    BY <1>1, <1>2, <1>3, Invariant, PTL DEF Spec, ShutdownGoesForward

-----------------------------------------------------------------------------
\* The addresses a round has passed over when it goes from position i to position
\* j, or to its end.
Passed(i, j) == {k \in DOMAIN Bootstrap : i < k /\ (j = 0 \/ k < j)}

\* Where a round goes next, from position i of the list.
GoesOn(r, i) ==
  /\ dialing'[r] = 0 \/ i < dialing'[r]
  /\ \A k \in Passed(i, dialing'[r]) : Bootstrap[k] \in snapshot'[r] \cup {NoPeer}

\* A round of dialBootstrapPeers goes through the list in order and, while the loops
\* run, passes over no address but those without a peer and those of peers that
\* were connected when the round began, whatever became of its dials.  Short of
\* fairness this is what makes BootstrapKept true.
RoundsPassNobody ==
  [][~loopsStopped => \A r \in Rounds :
       dialing'[r] # dialing[r] => GoesOn(r, dialing[r])]_vars

LEMMA NextDialPasses ==
  ASSUME NEW r \in Rounds, NEW i \in 0..Len(Bootstrap),
         dialing'[r] = NextDial(i, snapshot'[r])
  PROVE  GoesOn(r, i)
  <1>1. DOMAIN Bootstrap = 1..Len(Bootstrap) /\ Len(Bootstrap) \in Nat
    BY LifecycleAssumption
  <1> DEFINE j == dialing'[r]
             D == ToDial(i, snapshot'[r])
  <1>2. \/ j = 0 /\ D = {}
        \/ j \in D /\ \A k \in D : j <= k
    BY NextDialIsFirst
  <1>3. \A k \in 1..Len(Bootstrap) :
          k \in D <=> i < k /\ Bootstrap[k] \notin snapshot'[r] \cup {NoPeer}
    BY <1>1 DEF ToDial
  <1>4. D \subseteq 1..Len(Bootstrap)
    BY <1>1 DEF ToDial
  <1> HIDE DEF D
  <1>5. j = 0 \/ i < j
    BY <1>2, <1>3, <1>4
  <1>6. ASSUME NEW k \in Passed(i, j) PROVE Bootstrap[k] \in snapshot'[r] \cup {NoPeer}
    <2>1. k \in 1..Len(Bootstrap) /\ i < k /\ (j = 0 \/ k < j)
      BY <1>1 DEF Passed
    <2>2. k \notin D
      <3>1. CASE D = {}
        BY <3>1
      <3>2. CASE j \in D /\ \A l \in D : j <= l
        <4>1. j # 0 /\ k < j /\ j \in Nat /\ k \in Nat
          <5>1. j \in 1..Len(Bootstrap)
            BY <1>4, <3>2
          <5> QED
            BY <1>1, <2>1, <5>1
        <4>2. ~(j <= k)
          BY <4>1
        <4> QED
          BY <3>2, <4>2
      <3> QED
        BY <1>2, <3>1, <3>2
    <2> QED
      BY <1>3, <2>1, <2>2
  <1> QED
    BY <1>5, <1>6 DEF GoesOn

LEMMA BeginsFromStart ==
  ASSUME TypeOK, NEW b \in Rounds, BeginRound(b), dialing[b] = 0, NEW r \in Rounds,
         dialing'[r] # dialing[r]
  PROVE  GoesOn(r, dialing[r])
  <1>1. r = b /\ snapshot'[r] = connected /\ dialing'[r] = NextDial(0, connected)
    BY DEF BeginRound, TypeOK
  <1>2. 0 \in 0..Len(Bootstrap)
    BY LifecycleAssumption
  <1> QED
    BY <1>1, <1>2, NextDialPasses

LEMMA RoundSteps ==
  ASSUME IInv, LoopsOK, ShutdownEndsWork, [Next]_vars, ~loopsStopped,
         NEW r \in Rounds, dialing'[r] # dialing[r]
  PROVE  GoesOn(r, dialing[r])
  <1>0. TypeOK
    BY DEF IInv
  <1>1. CASE Serve
    <2>1. PICK b \in Rounds : BeginRound(b)
      BY <1>1 DEF Serve
    <2>2. dialing[b] = 0
      BY <1>1 DEF Serve, LoopsOK
    <2> QED
      BY <1>0, <2>1, <2>2, BeginsFromStart
  <1>2. ASSUME NEW b \in Rounds, StartRound(b) PROVE GoesOn(r, dialing[r])
    BY <1>0, <1>2, BeginsFromStart DEF StartRound
  <1>3. ASSUME NEW b \in Rounds, DialOver(b) PROVE GoesOn(r, dialing[r])
    <2>1. /\ r = b /\ snapshot' = snapshot
          /\ dialing'[r] = NextDial(dialing[r], snapshot[r])
          /\ dialing[r] \in 0..Len(Bootstrap)
      BY <1>0, <1>3 DEF DialOver, TypeOK
    <2> QED
      BY <2>1, NextDialPasses
  <1>4. ASSUME NEW s \in Shutdowns, Signal(s) \/ ShutdownStep(s) PROVE FALSE
    BY <1>0, <1>4, ShutdownStages DEF ShutdownEndsWork
  <1>5. CASE ServerCloses
    BY <1>5 DEF ServerCloses
  <1> QED
    BY <1>0, <1>1, <1>2, <1>3, <1>4, <1>5, StepKinds

\* dialBootstrapPeers passes over no peer that was not connected when the round
\* began, in any number of overlapping rounds (RoundsPassNobody).
THEOREM NoBootstrapPeerIsPassed == Spec => RoundsPassNobody
  <1>1. Init => LoopsOK /\ ShutdownEndsWork
    BY DEF Init, LoopsOK, ShutdownEndsWork
  <1>2. IInv /\ LoopsOK /\ ShutdownEndsWork /\ [Next]_vars => LoopsOK' /\ ShutdownEndsWork'
    BY LoopsInductive
  <1>3. IInv /\ LoopsOK /\ ShutdownEndsWork /\ [Next]_vars =>
          [~loopsStopped => \A r \in Rounds :
             dialing'[r] # dialing[r] => GoesOn(r, dialing[r])]_vars
    BY RoundSteps
  <1> QED
    BY <1>1, <1>2, <1>3, Invariant, PTL DEF Spec, RoundsPassNobody
=============================================================================
