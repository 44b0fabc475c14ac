------------------------------- MODULE Serving -------------------------------
(***************************************************************************)
(* The serving half of _handleMessage (src/src/bitswap.ts): a peer's       *)
(* wantlist starts _serveBlockOnStream on the stream pooled for the peer,  *)
(* on top of the streams of StreamPool.                                    *)
(***************************************************************************)
EXTENDS StreamPool

CONSTANT StoreGet  \* what the store's get() may return: "generator" for memory
                   \* storage, "asyncGenerator" for S3, "bytes" as _serveBlockOnStream
                   \* expects

VARIABLES
  serving,  \* streams captured by an activation of _serveBlockOnStream
  served    \* history: streams on which a block was sent to a peer that wants it

servingVars == <<serving, served>>

ServingInit ==
  /\ Init
  /\ serving = {}
  /\ served = {}

\* A message read from s wants a block that is in the store.  The block is to go
\* out on the stream pooled for the peer at this moment, whichever stream the
\* message came on; without a pooled stream the want is ignored.
WantlistArrives(s) ==
  /\ s \in reading /\ state[s] = "open"
  /\ pool[RemoteOf[s]] # NoStream
  /\ serving' = serving \cup {pool[RemoteOf[s]]}
  /\ UNCHANGED <<vars, served>>

\* What encodeBlock makes of what get() returned, which it takes for bytes.  The
\* await before it only waits for promises.  An asynchronous generator cannot be
\* iterated and throws; the arrays a synchronous one yields are not bytes.
Encoded(result) ==
  CASE result = "bytes" -> "block"
    [] result = "generator" -> "garbage"
    [] result = "asyncGenerator" -> "error"

\* An error, of encoding or of a stream that takes no write, is swallowed.
Serve(s) ==
  /\ s \in serving
  /\ serving' = serving \ {s}
  /\ \E result \in StoreGet :
       served' = IF Encoded(result) = "block" /\ Writable(s) THEN served \cup {s} ELSE served
  /\ UNCHANGED vars

ServingNext ==
  \/ Next /\ UNCHANGED servingVars
  \/ \E s \in Streams : WantlistArrives(s) \/ Serve(s)

servingAllVars == <<vars, servingVars>>

ServingSpec ==
  /\ ServingInit /\ [][ServingNext]_servingAllVars
  /\ \A s \in Streams : WF_servingAllVars(Serve(s))

-----------------------------------------------------------------------------
\* Documented: "Peers requesting blocks get served on same stream".  A wantlist
\* for a stored block is answered on a stream that goes on taking writes.  The
\* store's get() yields bytes and does not return them: see the run that checks it.
StoredBlocksServed ==
  \A s \in Streams :
    s \in serving ~> s \in served \/ ~Writable(s)
=============================================================================
