----------------------------- MODULE StreamPool -----------------------------
(***************************************************************************)
(* The streams of SimpleBitswap (src/src/bitswap.ts): the pool with one    *)
(* entry per peer, the read loop of every stream, and the sends, each of   *)
(* which looks a stream up or dials one, and on an error cleans up and     *)
(* dials once more.  Sends interleave wherever _sendMessage awaits.        *)
(*                                                                         *)
(* libp2p is the environment: a dial ends with a stream or an error, a     *)
(* remote opens streams, half-closes or resets them, peers disconnect.     *)
(***************************************************************************)
EXTENDS Naturals

CONSTANTS
  Peers,
  Streams,    \* bound: the streams that can ever be opened
  RemoteOf,   \* the peer a stream leads to, [Streams -> Peers]
  Outbound,   \* the streams this node opens; the others are opened by remotes
  Sends,      \* activations of _sendMessage
  PeerOf,     \* the peer a send is for, [Sends -> Peers]
  NoStream

ASSUME StreamPoolAssumption ==
  /\ PeerOf \in [Sends -> Peers]
  /\ RemoteOf \in [Streams -> Peers]
  /\ Outbound \subseteq Streams
  /\ NoStream \notin Streams

VARIABLES
  \* --- SimpleBitswap
  pool,         \* streamPool: [Peers -> pooled stream, or NoStream]
  flagged,      \* streams whose StreamInfo has closed = true
  reading,      \* streams with a running _readLoop
  unsupported,  \* unsupportedPeers
  stopped,      \* stop() has run to its end
  \* --- activations of _sendMessage
  send,         \* where each one is; "idle" before it and after, sent or failed
  handle,       \* the stream it is about to use, NoStream before and after
  \* --- libp2p streams
  state         \* "unused", "open", "half" (remote stopped writing), "dead", "closed"

poolVars   == <<pool, flagged, reading, unsupported, stopped>>
sendVars   == <<send, handle>>
vars == <<poolVars, sendVars, state>>

SendsUnderWay == {"have", "dial", "redial", "rehave"}
SendStates == {"idle"} \cup SendsUnderWay
StreamStates == {"unused", "open", "half", "dead", "closed"}

Init ==
  /\ pool = [p \in Peers |-> NoStream]
  /\ flagged = {}
  /\ reading = {}
  /\ unsupported = {}
  /\ stopped = FALSE
  /\ send = [t \in Sends |-> "idle"]
  /\ handle = [t \in Sends |-> NoStream]
  /\ state = [s \in Streams |-> "unused"]

-----------------------------------------------------------------------------
Step(t, to) == send' = [send EXCEPT ![t] = to]
Drop(t) == handle' = [handle EXCEPT ![t] = NoStream]

Writable(s) == state[s] \in {"open", "half"}

\* Streams the program closes stop taking writes; a dead one stays dead.
Close(S) ==
  state' = [s \in Streams |-> IF s \in S /\ Writable(s) THEN "closed" ELSE state[s]]

Pooled(p) == {pool[p]} \ {NoStream}

\* _cleanupStream(p): whatever stream is pooled for the peer goes.
Cleanup(p) ==
  /\ flagged' = flagged \cup Pooled(p)
  /\ pool' = [pool EXCEPT ![p] = NoStream]
  /\ Close(Pooled(p))

\* A new stream to or from peer p; its read loop starts at once.
Open(s, p) ==
  /\ state[s] = "unused"
  /\ RemoteOf[s] = p
  /\ state' = [state EXCEPT ![s] = "open"]
  /\ reading' = reading \cup {s}

-----------------------------------------------------------------------------
(* _sendMessage, with _getOrCreateStream and _dialPeer.                    *)

\* The pooled stream a send to p would use, if there is one.
Reuses(p) == pool[p] # NoStream /\ pool[p] \notin flagged

\* A broadcast, or a peer that connects while wants are pending, calls
\* _sendMessage for several peers, or wants, without yielding in between.  Peers
\* known not to speak bitswap are left out.
Start(S) ==
  /\ \A t \in S : send[t] = "idle" /\ PeerOf[t] \notin unsupported
  /\ send' = [t \in Sends |-> IF t \notin S THEN send[t]
                              ELSE IF Reuses(PeerOf[t]) THEN "have" ELSE "dial"]
  /\ handle' = [t \in Sends |-> IF t \in S /\ Reuses(PeerOf[t]) THEN pool[PeerOf[t]] ELSE handle[t]]
  /\ UNCHANGED <<poolVars, state>>

\* A dial succeeds: the stream takes the peer's place in the pool.
DialOpens(t, s) ==
  /\ send[t] \in {"dial", "redial"}
  /\ s \in Outbound
  /\ Open(s, PeerOf[t])
  /\ pool' = [pool EXCEPT ![PeerOf[t]] = s]
  /\ handle' = [handle EXCEPT ![t] = s]
  /\ Step(t, IF send[t] = "dial" THEN "have" ELSE "rehave")
  /\ UNCHANGED <<flagged, unsupported, stopped>>

\* Mutant: every failed dial is tried again.
DialFailsForever(t, protocolUnsupported) ==
  /\ send[t] \in {"dial", "redial"}
  /\ unsupported' = IF protocolUnsupported THEN unsupported \cup {PeerOf[t]} ELSE unsupported
  /\ Step(t, "redial") /\ Cleanup(PeerOf[t])
  /\ UNCHANGED <<reading, stopped, handle>>

\* A dial fails; the peer is remembered if it does not speak bitswap.  The
\* first failure cleans up and dials once more, the second is the end.
DialFails(t, protocolUnsupported) ==
  /\ send[t] \in {"dial", "redial"}
  /\ unsupported' = IF protocolUnsupported THEN unsupported \cup {PeerOf[t]} ELSE unsupported
  /\ IF send[t] = "dial"
     THEN Step(t, "redial") /\ Cleanup(PeerOf[t])
     ELSE Step(t, "idle") /\ UNCHANGED <<flagged, pool, state>>
  /\ UNCHANGED <<reading, stopped, handle>>

SendSucceeds(t) ==
  /\ send[t] \in {"have", "rehave"}
  /\ Writable(handle[t])
  /\ Step(t, "idle")
  /\ Drop(t)
  /\ UNCHANGED <<poolVars, state>>

\* The stream takes no write any more: clean up the peer's stream and dial again.
SendThrows(t) ==
  /\ send[t] = "have"
  /\ ~Writable(handle[t])
  /\ Step(t, "redial")
  /\ Drop(t)
  /\ Cleanup(PeerOf[t])
  /\ UNCHANGED <<reading, unsupported, stopped>>

ResendThrows(t) ==
  /\ send[t] = "rehave"
  /\ ~Writable(handle[t])
  /\ Step(t, "idle")
  /\ Drop(t)
  /\ UNCHANGED <<poolVars, state>>

-----------------------------------------------------------------------------
(* Streams the remote opens, and the end of read loops.                    *)

\* Mutant: an inbound stream that is not pooled is not read.
InboundUnread(s) ==
  /\ ~stopped
  /\ s \notin Outbound
  /\ state[s] = "unused"
  /\ state' = [state EXCEPT ![s] = "open"]
  /\ LET existing == pool[RemoteOf[s]] IN
       IF existing = NoStream \/ existing \notin Outbound
       THEN pool' = [pool EXCEPT ![RemoteOf[s]] = s] /\ reading' = reading \cup {s}
       ELSE UNCHANGED <<pool, reading>>
  /\ UNCHANGED <<flagged, unsupported, stopped, sendVars>>

\* Mutant: stop() leaves the protocol handlers registered.
InboundAlways(s) ==
  /\ s \notin Outbound
  /\ Open(s, RemoteOf[s])
  /\ LET existing == pool[RemoteOf[s]] IN
       pool' = IF existing = NoStream \/ existing \notin Outbound
               THEN [pool EXCEPT ![RemoteOf[s]] = s] ELSE pool
  /\ UNCHANGED <<flagged, unsupported, stopped, sendVars>>

\* An inbound stream is pooled unless an outbound one is.
Inbound(s) ==
  /\ ~stopped
  /\ s \notin Outbound
  /\ Open(s, RemoteOf[s])
  /\ LET existing == pool[RemoteOf[s]] IN
       pool' = IF existing = NoStream \/ existing \notin Outbound
               THEN [pool EXCEPT ![RemoteOf[s]] = s] ELSE pool
  /\ UNCHANGED <<flagged, unsupported, stopped, sendVars>>

\* Mutant: the read loop ends without a finally.
ReadEndsQuietly(s) ==
  /\ s \in reading
  /\ state[s] # "open"
  /\ reading' = reading \ {s}
  /\ UNCHANGED <<pool, flagged, unsupported, stopped, sendVars, state>>

\* The read loop of a stream ends once the remote writes no more to it.
ReadEnds(s) ==
  /\ s \in reading
  /\ state[s] # "open"
  /\ reading' = reading \ {s}
  /\ Cleanup(RemoteOf[s])
  /\ UNCHANGED <<unsupported, stopped, sendVars>>

-----------------------------------------------------------------------------
(* The rest of the environment, and the life of the service.               *)

HalfClose(s) ==
  /\ state[s] = "open"
  /\ state' = [state EXCEPT ![s] = "half"]
  /\ UNCHANGED <<poolVars, sendVars>>

\* Streams die together when their connection does and nobody reports it.
Reset(S) ==
  /\ \A s \in S : Writable(s)
  /\ state' = [s \in Streams |-> IF s \in S THEN "dead" ELSE state[s]]
  /\ UNCHANGED <<poolVars, sendVars>>

\* The last connection to a peer is gone, and its streams with it.  stop() has
\* unregistered the topology that reports it.
Disconnect(p) ==
  /\ ~stopped
  /\ state' = [s \in Streams |-> IF RemoteOf[s] = p /\ state[s] # "unused" THEN "dead" ELSE state[s]]
  /\ flagged' = flagged \cup Pooled(p)
  /\ pool' = [pool EXCEPT ![p] = NoStream]
  /\ UNCHANGED <<reading, unsupported, stopped, sendVars>>

ClearUnsupportedPeers ==
  /\ unsupported # {}
  /\ unsupported' = {}
  /\ UNCHANGED <<pool, flagged, reading, stopped, sendVars, state>>

\* stop(), after its await of unhandle(): close what is pooled, empty the pool.
Stop ==
  /\ ~stopped
  /\ stopped' = TRUE
  /\ LET pooled == UNION {Pooled(p) : p \in Peers} IN
       /\ flagged' = flagged \cup pooled
       /\ Close(pooled)
  /\ pool' = [p \in Peers |-> NoStream]
  /\ UNCHANGED <<reading, unsupported, sendVars>>

-----------------------------------------------------------------------------
DialEnds(t) ==
  \/ \E s \in Streams : DialOpens(t, s)
  \/ \E protocolUnsupported \in BOOLEAN : DialFails(t, protocolUnsupported)

SendEnds(t) == SendSucceeds(t) \/ SendThrows(t) \/ ResendThrows(t)

Next ==
  \/ \E S \in SUBSET Sends : Start(S)
  \/ \E t \in Sends : DialEnds(t) \/ SendEnds(t)
  \/ \E s \in Streams : Inbound(s) \/ ReadEnds(s) \/ HalfClose(s)
  \/ \E S \in SUBSET Streams : Reset(S)
  \/ \E p \in Peers : Disconnect(p)
  \/ ClearUnsupportedPeers
  \/ Stop

Spec == Init /\ [][Next]_vars

\* Dials have libp2p's own timeout, and awaits of settled promises return.
Fairness ==
  \A t \in Sends : WF_vars(DialEnds(t) \/ SendEnds(t))

FairSpec == Spec /\ Fairness

-----------------------------------------------------------------------------
(* Properties.                                                             *)

TypeOK ==
  /\ pool \in [Peers -> Streams \cup {NoStream}]
  /\ flagged \subseteq Streams
  /\ reading \subseteq Streams
  /\ unsupported \subseteq Peers
  /\ stopped \in BOOLEAN
  /\ send \in [Sends -> SendStates]
  /\ handle \in [Sends -> Streams \cup {NoStream}]
  /\ state \in [Streams -> StreamStates]

\* The pool never hands out a stream that leads to another peer, that the
\* program has closed itself, or whose answers nobody would read.
PooledStreamsServe ==
  \A p \in Peers : pool[p] # NoStream =>
    /\ RemoteOf[pool[p]] = p
    /\ pool[p] \notin flagged
    /\ state[pool[p]] \notin {"unused", "closed"}
    /\ pool[p] \in reading

\* A stream on which the remote may still write has a reader, pooled or not: no
\* answer to a want is lost because its stream was replaced in the pool.
NoDeafStream ==
  \A s \in Streams : state[s] = "open" => s \in reading

\* A send is made on a stream to the peer it is for, never on none.
SendsReachTheirPeer ==
  \A t \in Sends : send[t] \in {"have", "rehave"} =>
    /\ handle[t] # NoStream
    /\ RemoteOf[handle[t]] = PeerOf[t]

\* What is pooled after stop() was dialled by a send still under way: no remote
\* can put a stream into the pool of a stopped service.
NothingInboundAfterStop ==
  stopped => \A p \in Peers : pool[p] # NoStream => pool[p] \in Outbound

\* A remote cannot take over a working outbound stream's place in the pool.
OutboundStays ==
  [][\A p \in Peers :
       pool[p] # NoStream /\ pool'[p] \notin {pool[p], NoStream}
         => pool'[p] \in Outbound \/ pool[p] \notin Outbound]_vars

\* Every send ends: at most one more dial follows the first error.
SendsEnd == \A t \in Sends : []<>(send[t] = "idle")
=============================================================================
