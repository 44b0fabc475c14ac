----------------------------- MODULE Lifecycle -----------------------------
(***************************************************************************)
(* The process from start to exit: main and shutdown of src/src/index.ts,  *)
(* the loops of src/src/startup/loops.ts, the server of                    *)
(* src/src/internal-api.ts with the requests it serves, the set-up of      *)
(* src/src/startup/storage.ts, LRUBlockstore and IPFSNode.stop.            *)
(*                                                                         *)
(* Of the loops it has the one that dials the bootstrap peers and the one  *)
(* that puts random keys into the DHT; the re-provide and the backup loop  *)
(* are in Pins and BackupPeers.  The requests for blocks are for one       *)
(* block: what becomes of a get that misses the local store is the subject *)
(* of NetworkGet, from which it has that a get may hang.  Requests that    *)
(* pin or announce are in Pins; those answered without an await (peers,    *)
(* connections, metrics, the page of the UI) leave nothing behind.         *)
(***************************************************************************)
EXTENDS Naturals, Sequences

CONSTANTS
  MemoryStorage, \* the environment enables it
  Bootstrap,  \* peers of the bootstrap addresses, in their order
  NoPeer,     \* the peer of an address without peer ID
  Rounds,     \* bound: rounds of the dial loop at a time
  Requests,   \* bound: HTTP requests at a time
  Shutdowns   \* bound: signals that arrive, each with a run of shutdown()

ASSUME LifecycleAssumption ==
  /\ MemoryStorage \in BOOLEAN
  /\ Bootstrap \in Seq({Bootstrap[i] : i \in DOMAIN Bootstrap})

Peers == {Bootstrap[i] : i \in DOMAIN Bootstrap} \ {NoPeer}

VARIABLES
  mode,      \* the stage of main, "serving", and how it ended
  connected, \* bootstrap peers with an open connection
  loopsStopped,
  dialing,   \* position of the address each round is dialling, 0 between rounds
  snapshot,  \* the connected peers each round started from
  announcing, \* a random key is being put into the DHT; bound: one at a time
  server,    \* "none", "listening", "closing", "closed"
  request,   \* what each handler serves and awaits, and whether its client is
             \* still there; None between requests
  present,   \* the block is in the local store
  cached,    \* it is in the LRU cache, "yes" or "no", or the cache is "off"
  refused,   \* history: the store refused the block
  shutdown,  \* where each run of shutdown() is
  bitswap,   \* "down", "up", "stopped"
  libp2p     \* "down", "up", "stopping", "stopped"

vars == <<mode, connected, loopsStopped, dialing, snapshot, announcing,
          server, request, present, cached, refused, shutdown, bitswap, libp2p>>

blockVars == <<present, cached, refused>>

SettingUp == {"env", "blocks", "no_blocks", "data", "no_data", "libp2p", "bitswap"}
Starting  == SettingUp \cup {"waiting", "starting"}
Ends    == {"exited0", "exited1", "killed"}
Running == mode \notin Ends
None    == [kind |-> "none", at |-> "none", client |-> FALSE]
Asks(kind, at) == [kind |-> kind, at |-> at, client |-> TRUE]

Init ==
  /\ mode = "env"
  /\ connected = {}
  /\ loopsStopped = FALSE
  /\ dialing = [r \in Rounds |-> 0]
  /\ snapshot = [r \in Rounds |-> {}]
  /\ announcing = FALSE
  /\ server = "none"
  /\ request = [q \in Requests |-> None]
  /\ present \in {FALSE, ~MemoryStorage}
  /\ cached \in {"no", "off"}
  /\ refused = FALSE
  /\ shutdown = [s \in Shutdowns |-> "none"]
  /\ bitswap = "down"
  /\ libp2p = "down"

-----------------------------------------------------------------------------
(* Dialling the bootstrap peers.                                           *)

\* Mutant: an address without peer ID is dialled.
ToDialAny(i, known) ==
  {j \in (i + 1)..Len(Bootstrap) : Bootstrap[j] \notin known}

\* The addresses after position i that a round dials.
ToDial(i, known) ==
  {j \in (i + 1)..Len(Bootstrap) : Bootstrap[j] \notin known \cup {NoPeer}}

\* The first of them, 0 if there is none.
NextDial(i, known) ==
  IF ToDial(i, known) = {} THEN 0
  ELSE CHOOSE j \in ToDial(i, known) : \A k \in ToDial(i, known) : j <= k

BeginRound(r) ==
  /\ snapshot' = [snapshot EXCEPT ![r] = connected]
  /\ dialing' = [dialing EXCEPT ![r] = NextDial(0, connected)]

\* The interval does not wait for the round before.
StartRound(r) ==
  /\ mode = "serving"
  /\ ~loopsStopped
  /\ dialing[r] = 0
  /\ BeginRound(r)
  /\ UNCHANGED <<mode, connected, loopsStopped, announcing, server, request,
                 blockVars, shutdown, bitswap, libp2p>>

\* Mutant: the round does not look at stopped between two dials.
DialOverRegardless(r) ==
  /\ Running
  /\ dialing[r] # 0
  /\ dialing' = [dialing EXCEPT ![r] = NextDial(@, snapshot[r])]
  /\ UNCHANGED <<mode, loopsStopped, snapshot, announcing, server, request,
                 blockVars, shutdown, bitswap, libp2p>>

\* Mutant: a dial that fails ends the round.
DialFailsForAll(r) ==
  /\ Running
  /\ dialing[r] # 0
  /\ dialing' = [dialing EXCEPT ![r] = 0]
  /\ UNCHANGED <<mode, connected, loopsStopped, snapshot, announcing, server, request,
                 blockVars, shutdown, bitswap, libp2p>>

\* After a dial, whatever came of it, the round looks at `stopped` and goes on.
DialOver(r) ==
  /\ Running
  /\ dialing[r] # 0
  /\ dialing' = [dialing EXCEPT ![r] =
                   IF loopsStopped THEN 0 ELSE NextDial(@, snapshot[r])]
  /\ UNCHANGED <<mode, loopsStopped, snapshot, announcing, server, request, blockVars,
                 shutdown, bitswap, libp2p>>

DialSucceeds(r) ==
  /\ libp2p = "up"
  /\ DialOver(r)
  /\ connected' = connected \cup {Bootstrap[dialing[r]]}

DialFails(r) ==
  /\ DialOver(r)
  /\ UNCHANGED connected

\* Peers come and go by themselves.
Connect(p) ==
  /\ Running
  /\ libp2p = "up"
  /\ connected' = connected \cup {p}
  /\ UNCHANGED <<mode, loopsStopped, dialing, snapshot, announcing, server, request,
                 blockVars, shutdown, bitswap, libp2p>>

Disconnect(p) ==
  /\ Running
  /\ p \in connected
  /\ connected' = connected \ {p}
  /\ UNCHANGED <<mode, loopsStopped, dialing, snapshot, announcing, server, request,
                 blockVars, shutdown, bitswap, libp2p>>

-----------------------------------------------------------------------------
(* Starting.                                                               *)

SetupStep(stage) ==
  /\ mode' = stage
  /\ UNCHANGED <<connected, loopsStopped, dialing, snapshot, announcing, server,
                 request, blockVars, shutdown>>

\* validateEnv() finds what S3 needs, or memory storage is enabled.
ValidateEnv ==
  /\ mode = "env"
  /\ SetupStep(IF MemoryStorage THEN "libp2p" ELSE "blocks")
  /\ UNCHANGED <<bitswap, libp2p>>

\* The bucket of the blockstore is there, or there is no such bucket and it is
\* created.
BlockstoreBucket ==
  /\ \/ mode = "blocks" /\ (SetupStep("data") \/ SetupStep("no_blocks"))
     \/ mode = "no_blocks" /\ SetupStep("data")
  /\ UNCHANGED <<bitswap, libp2p>>

\* The same for the bucket of the datastore.
DatastoreBucket ==
  /\ \/ mode = "data" /\ (SetupStep("libp2p") \/ SetupStep("no_data"))
     \/ mode = "no_data" /\ SetupStep("libp2p")
  /\ UNCHANGED <<bitswap, libp2p>>

Libp2pStarts ==
  /\ mode = "libp2p"
  /\ libp2p' = "up"
  /\ SetupStep("bitswap")
  /\ UNCHANGED bitswap

\* In memory mode main waits for no peer.
BitswapStarts ==
  /\ mode = "bitswap"
  /\ bitswap' = "up"
  /\ SetupStep(IF MemoryStorage THEN "starting" ELSE "waiting")
  /\ UNCHANGED libp2p

Setup == ValidateEnv \/ BlockstoreBucket \/ DatastoreBucket \/ Libp2pStarts \/ BitswapStarts

\* A variable is missing, a bucket cannot be looked up or created, a component
\* does not start: "Fatal error, exiting", without stopping what was started.
StartFails ==
  /\ mode \in SettingUp \cup {"starting"}
  /\ mode' = "exited1"
  /\ UNCHANGED <<connected, loopsStopped, dialing, snapshot, announcing, server,
                 request, blockVars, shutdown, bitswap, libp2p>>

\* A peer is connected, or 30 seconds are over.
WaitEnds ==
  /\ mode = "waiting"
  /\ mode' = "starting"
  /\ UNCHANGED <<connected, loopsStopped, dialing, snapshot, announcing, server, request,
                 blockVars, shutdown, bitswap, libp2p>>

\* The server listens; the loops start, and with them a first round and a first
\* put into the DHT; the handlers of the signals are installed.
Serve ==
  /\ mode = "starting"
  /\ mode' = "serving"
  /\ server' = "listening"
  /\ \E r \in Rounds : BeginRound(r)
  /\ announcing' = TRUE
  /\ UNCHANGED <<connected, loopsStopped, request, blockVars, shutdown, bitswap, libp2p>>

-----------------------------------------------------------------------------
(* The loop that puts random keys into the DHT.                            *)

AnnounceToNetwork ==
  /\ mode = "serving"
  /\ ~loopsStopped
  /\ ~announcing
  /\ announcing' = TRUE
  /\ UNCHANGED <<mode, connected, loopsStopped, dialing, snapshot, server, request,
                 blockVars, shutdown, bitswap, libp2p>>

\* The put is over, well or not.
Announced ==
  /\ Running
  /\ announcing
  /\ announcing' = FALSE
  /\ UNCHANGED <<mode, connected, loopsStopped, dialing, snapshot, server, request,
                 blockVars, shutdown, bitswap, libp2p>>

-----------------------------------------------------------------------------
(* Requests.                                                               *)

\* A request that passes the checks of origin and key reaches its handler.  A
\* connection that was in use when the server began to close may bring further
\* requests.
Accept(q, kind, at) ==
  /\ Running
  /\ server \in {"listening", "closing"}
  /\ request[q] = None
  /\ request' = [request EXCEPT ![q] = Asks(kind, at)]
  /\ UNCHANGED <<mode, connected, loopsStopped, dialing, snapshot, announcing, server,
                 blockVars, shutdown, bitswap, libp2p>>

\* GET /blocks, /cat and /ls, POST /dag/stat and /block/stat: is the block
\* there, get it, or get it if it is there.
Check(q)     == Accept(q, "check", "has")
Cat(q)       == Accept(q, "fetch", "store")
Ls(q)        == Accept(q, "fetch", "store")
DagStat(q)   == Accept(q, "stat", "has")
BlockStat(q) == Accept(q, "stat", "has")

\* The other requests await answers of the storage (GET /health, /stats, /pins and
\* /dht/status) or of other nodes (/connect, /ping, /providers), one or several.
Other(q)     == Accept(q, "other", "answer")

Arrive(q) == Check(q) \/ Cat(q) \/ Ls(q) \/ DagStat(q) \/ BlockStat(q) \/ Other(q)

Respond(q) == request' = [request EXCEPT ![q] = None]
Await(q, at) == request' = [request EXCEPT ![q].at = at]

\* A client may hang up at any time; the handler does not notice and goes on.
ClientLeaves(q) ==
  /\ Running
  /\ request[q].client
  /\ request' = [request EXCEPT ![q].client = FALSE]
  /\ UNCHANGED <<mode, connected, loopsStopped, dialing, snapshot, announcing, server,
                 blockVars, shutdown, bitswap, libp2p>>

\* The block goes into the cache, if there is one; the cache may drop it again.
Cache == cached' = IF cached = "off" THEN "off" ELSE "yes"

Evict ==
  /\ Running
  /\ cached = "yes"
  /\ cached' = "no"
  /\ UNCHANGED <<mode, connected, loopsStopped, dialing, snapshot, announcing,
                 server, request, present, refused, shutdown, bitswap, libp2p>>

\* The last of these answers is there, or one failed.
OtherAnswered(q) ==
  /\ Running
  /\ request[q].at = "answer"
  /\ Respond(q)
  /\ UNCHANGED <<mode, connected, loopsStopped, dialing, snapshot, announcing, server,
                 blockVars, shutdown, bitswap, libp2p>>

\* Mutant: a missing block is fetched.
HasAnsweredAnyway(q) ==
  /\ Running
  /\ request[q].at = "has"
  /\ IF request[q].kind = "stat" THEN Await(q, "store") ELSE Respond(q)
  /\ UNCHANGED <<mode, connected, loopsStopped, dialing, snapshot, announcing, server,
                 blockVars, shutdown, bitswap, libp2p>>

\* A block that is not there, or of which the store could not tell, ends the
\* request as a check does.
HasAnswered(q) ==
  /\ Running
  /\ request[q].at = "has"
  /\ \/ Respond(q) /\ (request[q].kind = "stat" => cached # "yes")
     \/ Await(q, "store") /\ request[q].kind = "stat" /\ (present \/ cached = "yes")
  /\ UNCHANGED <<mode, connected, loopsStopped, dialing, snapshot, announcing, server,
                 blockVars, shutdown, bitswap, libp2p>>

\* A get answers from the cache, or with the block or an error of the store; a
\* miss, which a failed read of a block that is there also counts as, goes to the
\* network.
StoreAnswered(q) ==
  /\ Running
  /\ request[q].at = "store"
  /\ \/ Respond(q) /\ UNCHANGED cached
     \/ Respond(q) /\ present /\ Cache
     \/ Await(q, "network") /\ cached # "yes" /\ UNCHANGED cached
  /\ UNCHANGED <<mode, connected, loopsStopped, dialing, snapshot, announcing,
                 server, present, refused, shutdown, bitswap, libp2p>>

\* The block is found and given to the store, which may refuse it.
Found(q) ==
  /\ Respond(q)
  /\ Cache
  /\ present' \in {present, TRUE}
  /\ refused' = (refused \/ ~present')
  /\ UNCHANGED <<mode, connected, loopsStopped, dialing, snapshot, announcing,
                 server, shutdown, bitswap, libp2p>>

NetworkAnswered(q) ==
  /\ Running
  /\ request[q].at = "network"
  /\ \/ Found(q)
     \/ /\ Respond(q)
        /\ UNCHANGED <<mode, connected, loopsStopped, dialing, snapshot, announcing, server,
                       blockVars, shutdown, bitswap, libp2p>>

\* The get waits for a want that has no timeout any more.
Hangs(q) ==
  /\ Running
  /\ request[q].at = "network"
  /\ Await(q, "want")
  /\ UNCHANGED <<mode, connected, loopsStopped, dialing, snapshot, announcing, server,
                 blockVars, shutdown, bitswap, libp2p>>

\* A peer sends the block after all.
WantResolved(q) ==
  /\ Running
  /\ request[q].at = "want"
  /\ Found(q)

-----------------------------------------------------------------------------
(* Shutting down.                                                          *)

\* Before the handlers are installed a signal kills the process.
SignalKills ==
  /\ mode \in Starting
  /\ mode' = "killed"
  /\ UNCHANGED <<connected, loopsStopped, dialing, snapshot, announcing, server, request,
                 blockVars, shutdown, bitswap, libp2p>>

\* Mutant: the server is not closed.
SignalKeepsListening(s) ==
  /\ mode = "serving"
  /\ shutdown[s] = "none"
  /\ loopsStopped' = TRUE
  /\ shutdown' = [shutdown EXCEPT ![s] = "closing"]
  /\ UNCHANGED <<mode, connected, dialing, snapshot, announcing, server, request, blockVars,
                 bitswap, libp2p>>

\* shutdown() stops the loops and closes the server; a second run closes a
\* server that is closing or closed already.
Signal(s) ==
  /\ mode = "serving"
  /\ shutdown[s] = "none"
  /\ loopsStopped' = TRUE
  /\ server' = IF server = "listening" THEN "closing" ELSE server
  /\ shutdown' = [shutdown EXCEPT ![s] = "closing"]
  /\ UNCHANGED <<mode, connected, dialing, snapshot, announcing, request, blockVars, bitswap, libp2p>>

\* The last connection is closed: its response is sent, or its client has left.
ServerCloses ==
  /\ Running
  /\ server = "closing"
  /\ \A q \in Requests : ~request[q].client
  /\ server' = "closed"
  /\ UNCHANGED <<mode, connected, loopsStopped, dialing, snapshot, announcing, request,
                 blockVars, shutdown, bitswap, libp2p>>

\* Mutant: the close of the server is not awaited.
StopNodeAtOnce(s) ==
  /\ Running
  /\ shutdown[s] = "closing"
  /\ shutdown' = [shutdown EXCEPT ![s] = "bitswap"]
  /\ UNCHANGED <<mode, connected, loopsStopped, dialing, snapshot, announcing, server,
                 request, blockVars, bitswap, libp2p>>

\* The callback of close() runs: node.stop(), up to the unhandle of bitswap.stop.
StopNode(s) ==
  /\ Running
  /\ shutdown[s] = "closing"
  /\ server = "closed"
  /\ shutdown' = [shutdown EXCEPT ![s] = "bitswap"]
  /\ UNCHANGED <<mode, connected, loopsStopped, dialing, snapshot, announcing, server,
                 request, blockVars, bitswap, libp2p>>

\* Mutant: libp2p.stop() is not called.
BitswapStopsLast(s) ==
  /\ Running
  /\ shutdown[s] = "bitswap"
  /\ bitswap' = "stopped"
  /\ shutdown' = [shutdown EXCEPT ![s] = "exit"]
  /\ UNCHANGED <<mode, connected, loopsStopped, dialing, snapshot, announcing, server,
                 request, blockVars, libp2p>>

\* bitswap.stop() rejects every want; then libp2p.stop(), which returns at once
\* when it runs already.
BitswapStops(s) ==
  /\ Running
  /\ shutdown[s] = "bitswap"
  /\ bitswap' = "stopped"
  /\ request' = [q \in Requests |-> IF request[q].at = "want"
                                    THEN [request[q] EXCEPT !.at = "network"] ELSE request[q]]
  /\ libp2p' = IF libp2p = "up" THEN "stopping" ELSE libp2p
  /\ shutdown' = [shutdown EXCEPT ![s] = IF libp2p = "up" THEN "libp2p" ELSE "exit"]
  /\ UNCHANGED <<mode, connected, loopsStopped, dialing, snapshot, announcing, server, blockVars>>

Libp2pStops(s) ==
  /\ Running
  /\ shutdown[s] = "libp2p"
  /\ libp2p' = "stopped"
  /\ connected' = {}
  /\ shutdown' = [shutdown EXCEPT ![s] = "exit"]
  /\ UNCHANGED <<mode, loopsStopped, dialing, snapshot, announcing, server, request,
                 blockVars, bitswap>>

\* process.exit: connections, rounds and handlers are gone.
ProcessExit(code) ==
  /\ mode' = code
  /\ connected' = {}
  /\ dialing' = [r \in Rounds |-> 0]
  /\ snapshot' = [r \in Rounds |-> {}]
  /\ announcing' = FALSE
  /\ request' = [q \in Requests |-> None]
  /\ UNCHANGED <<loopsStopped, server, blockVars, shutdown, bitswap, libp2p>>

\* "Error during shutdown".
StopFails(s) ==
  /\ Running
  /\ shutdown[s] \in {"bitswap", "libp2p"}
  /\ ProcessExit("exited1")

\* "Shutdown complete".
Exit(s) ==
  /\ Running
  /\ shutdown[s] = "exit"
  /\ ProcessExit("exited0")

-----------------------------------------------------------------------------
RoundStep(r) == DialSucceeds(r) \/ DialFails(r)
RequestStep(q) ==
  HasAnswered(q) \/ StoreAnswered(q) \/ NetworkAnswered(q) \/ OtherAnswered(q)
ShutdownStep(s) ==
  StopNode(s) \/ BitswapStops(s) \/ Libp2pStops(s) \/ StopFails(s) \/ Exit(s)

Next ==
  \/ Setup \/ StartFails \/ WaitEnds \/ Serve
  \/ \E r \in Rounds : StartRound(r) \/ RoundStep(r)
  \/ \E p \in Peers : Connect(p) \/ Disconnect(p)
  \/ AnnounceToNetwork \/ Announced
  \/ \E q \in Requests : Arrive(q) \/ RequestStep(q) \/ Hangs(q) \/ WantResolved(q)
                          \/ ClientLeaves(q)
  \/ \E s \in Shutdowns : Signal(s) \/ ShutdownStep(s)
  \/ Evict
  \/ SignalKills
  \/ ServerCloses

Spec == Init /\ [][Next]_vars

\* Dials time out, the store and the stages of a get answer, the interval
\* fires, and so do the awaits of shutdown().  Set-up may take for ever.
Fairness ==
  /\ \A r \in Rounds : WF_vars(StartRound(r)) /\ WF_vars(RoundStep(r))
  /\ \A q \in Requests : WF_vars(RequestStep(q))
  /\ \A s \in Shutdowns : WF_vars(ShutdownStep(s))
  /\ WF_vars(ServerCloses)

FairSpec == Spec /\ Fairness

-----------------------------------------------------------------------------
(* Properties.                                                             *)

TypeOK ==
  /\ mode \in Starting \cup {"serving"} \cup Ends
  /\ connected \subseteq Peers
  /\ loopsStopped \in BOOLEAN
  /\ dialing \in [Rounds -> 0..Len(Bootstrap)]
  /\ \A r \in Rounds : dialing[r] # 0 => Bootstrap[dialing[r]] \in Peers \ snapshot[r]
  /\ snapshot \in [Rounds -> SUBSET Peers]
  /\ announcing \in BOOLEAN
  /\ server \in {"none", "listening", "closing", "closed"}
  /\ request \in [Requests -> {None} \cup
       [kind : {"check", "fetch", "stat", "other"},
        at : {"has", "store", "network", "want", "answer"}, client : BOOLEAN]]
  /\ present \in BOOLEAN
  /\ cached \in {"yes", "no", "off"}
  /\ refused \in BOOLEAN
  /\ shutdown \in [Shutdowns -> {"none", "closing", "bitswap", "libp2p", "exit"}]
  /\ bitswap \in {"down", "up", "stopped"}
  /\ libp2p \in {"down", "up", "stopping", "stopped"}

\* No client that waits for its response meets a node that is being stopped, however
\* many signals arrive and whatever the request is waiting for.  The handler of a
\* client that has left may: the server does not wait for it.
RequestsFindNodeUp ==
  Running /\ (\E q \in Requests : request[q].client) => bitswap = "up" /\ libp2p = "up"

\* The statistics of a block are those of a local one: although has() and get() are
\* two calls with other requests and evictions between them, the request gets past
\* has() only for a block the store holds, so that what may take it to the network is
\* a failed read - unless the store refused the block and only the cache had it.
StatsStayLocal ==
  \A q \in Requests :
    request[q].kind = "stat" /\ request[q].at # "has"
      => present \/ (refused /\ cached # "off")

\* The process says that shutdown was complete only when bitswap and libp2p
\* have stopped - or two signals came, and the second run of shutdown() did not
\* wait for the first.
CleanExit ==
  mode = "exited0" =>
    /\ bitswap = "stopped"
    /\ \/ libp2p = "stopped"
       \/ \E s, t \in Shutdowns : s # t /\ "none" \notin {shutdown[s], shutdown[t]}

\* Once shutdown has stopped the loops none of them begins a dial or a put into
\* the DHT, though rounds and puts that are under way go on.
LoopsEndWithShutdown ==
  [][loopsStopped => /\ \A r \in Rounds : dialing'[r] \in {dialing[r], 0}
                     /\ announcing' => announcing]_vars

\* While the loops run every bootstrap peer is dialled again and again, or
\* connected, whatever becomes of the dials to the others.
BootstrapKept ==
  \A i \in DOMAIN Bootstrap : Bootstrap[i] # NoPeer =>
    []<>(mode = "serving" /\ ~loopsStopped =>
           Bootstrap[i] \in connected \/ \E r \in Rounds : dialing[r] = i)

\* No request comes in on a connection kept alive while the server closes.
NoLateRequest ==
  \A q \in Requests : server = "closing" /\ request[q] = None => request'[q] = None

\* A shutdown ends unless clients keep the server busy or a request hangs for
\* ever while its client waits.  The latter is a deadlock: the request waits for a want that only
\* bitswap.stop() would reject, which comes after the server has closed, which
\* waits for the request.
ShutdownEnds ==
  /\ \A q \in Requests : []<>~(request[q].at = "want" /\ request[q].client)
  /\ <>[][NoLateRequest]_vars
  => ((\E s \in Shutdowns : shutdown[s] # "none") ~> ~Running)
=============================================================================
