------------------------------- MODULE Exchange -------------------------------
(***************************************************************************)
(* Which peer is asked for which block: the wants and the connections of   *)
(* SimpleBitswap (src/src/bitswap.ts) on top of the streams of StreamPool. *)
(* want() broadcasts to every connection there is; the topology callbacks  *)
(* send every pending want to a peer that has just been identified, and    *)
(* clean up when it is gone.                                               *)
(*                                                                         *)
(* How a want ends is the subject of Wants; here it just ends.             *)
(***************************************************************************)
EXTENDS StreamPool

CONSTANT Wants   \* bound: the wants ever made, each for a CID of its own

\* A send is one attempt to tell one peer of one want.  Streams are numbered in
\* the order in which those of their direction are opened.
ASSUME ExchangeAssumption ==
  /\ Streams \subseteq Nat
  /\ Sends = Wants \X Peers \X {"broadcast", "connect"}
  /\ PeerOf = [t \in Sends |-> t[2]]

VARIABLES
  want,     \* [Wants -> {"new", "open", "over"}]; the open ones are in pendingWants
  link,     \* [Peers -> {"none", "connected", "identified"}], onConnect at the last
  tried     \* history: <<want, peer, outcome>> of the sends that ended, or were left
            \* out, on this link

exchangeVars == <<want, link, tried>>

\* The want was written to a stream to the peer; the dial or the write failed, and
\* so did the one retry; the peer was known not to speak bitswap.
Outcomes == {"told", "failed", "unsupported"}

Pending(w) == want[w] = "open"
Linked(p) == link[p] # "none"

ExchangeInit ==
  /\ Init
  /\ want = [w \in Wants |-> "new"]
  /\ link = [p \in Peers |-> "none"]
  /\ tried = {}

\* Histories speak of wants that are pending and peers that are linked.
Try(T) ==
  tried' = tried \cup {a \in T : Pending(a[1]) /\ Linked(a[2])}

\* A send that ends was an attempt; one that goes on is none yet.
TryIfEnded(t, outcome) ==
  Try(IF send'[t] = "idle" THEN {<<t[1], t[2], outcome>>} ELSE {})

\* The next stream of its direction.
InOrder(s) ==
  \A r \in Streams : r < s /\ (r \in Outbound <=> s \in Outbound) => state[r] # "unused"

-----------------------------------------------------------------------------
(* Wants.                                                                  *)

\* want() registers the want and broadcasts it at once, to every peer with a
\* connection; unsupported peers are left out.  The loser of a get's race
\* may still call it when the service has stopped.
Want(w) ==
  /\ want[w] = "new"
  /\ want' = [want EXCEPT ![w] = "open"]
  /\ Start({t \in Sends : /\ t[1] = w /\ t[3] = "broadcast"
                          /\ Linked(t[2]) /\ t[2] \notin unsupported})
  /\ tried' = tried \cup {<<w, p, "unsupported">> : p \in {q \in unsupported : Linked(q)}}
  /\ UNCHANGED link

\* Its block arrives, or its signal fires: the entry leaves pendingWants.
WantEnds(w) ==
  /\ Pending(w)
  /\ want' = [want EXCEPT ![w] = "over"]
  /\ tried' = {a \in tried : a[1] # w}
  /\ UNCHANGED <<vars, link>>

-----------------------------------------------------------------------------
(* Peers: libp2p reports a peer once it is identified, and when it is gone. *)

Connect(p) ==
  /\ ~Linked(p)
  /\ link' = [link EXCEPT ![p] = "connected"]
  /\ UNCHANGED <<vars, want, tried>>

\* Mutant: a peer that has a stream already is taken to know the wants.
OnConnectWithoutStream(p) ==
  /\ ~stopped
  /\ link[p] = "connected"
  /\ link' = [link EXCEPT ![p] = "identified"]
  /\ IF p \in unsupported
     THEN Try(Wants \X {p} \X {"unsupported"}) /\ UNCHANGED vars
     ELSE /\ Start({t \in Sends : /\ t[2] = p /\ t[3] = "connect" /\ Pending(t[1])
                                  /\ pool[p] = NoStream})
          /\ UNCHANGED tried
  /\ UNCHANGED want

\* onConnect: every pending want goes to the peer, unless it is unsupported.
\* Bound: the sends of an earlier onConnect of the peer have ended.
OnConnect(p) ==
  /\ ~stopped
  /\ link[p] = "connected"
  /\ link' = [link EXCEPT ![p] = "identified"]
  /\ IF p \in unsupported
     THEN Try(Wants \X {p} \X {"unsupported"}) /\ UNCHANGED vars
     ELSE /\ Start({t \in Sends : t[2] = p /\ t[3] = "connect" /\ Pending(t[1])})
          /\ UNCHANGED tried
  /\ UNCHANGED want

\* The last connection to the peer is gone.  onDisconnect is called for a peer
\* that onConnect was called for; otherwise its streams die unnoticed.
Lost(p) ==
  /\ Linked(p)
  /\ link' = [link EXCEPT ![p] = "none"]
  /\ IF link[p] = "identified" /\ ~stopped
     THEN Disconnect(p)
     ELSE Reset({s \in Streams : RemoteOf[s] = p /\ Writable(s)})
  /\ tried' = {a \in tried : a[2] # p}
  /\ UNCHANGED want

-----------------------------------------------------------------------------
(* Sends and streams.                                                      *)

\* dialProtocol connects if there is no connection any more.
Dialled(t) ==
  /\ \E s \in Streams : InOrder(s) /\ DialOpens(t, s)
  /\ link' = [link EXCEPT ![t[2]] = IF @ = "none" THEN "connected" ELSE @]
  /\ UNCHANGED <<want, tried>>

DialRefused(t) ==
  /\ \E protocolUnsupported \in BOOLEAN : DialFails(t, protocolUnsupported)
  /\ TryIfEnded(t, "failed")
  /\ UNCHANGED <<want, link>>

Sending(t) ==
  /\ \/ SendSucceeds(t) /\ TryIfEnded(t, "told")
     \/ SendThrows(t) /\ TryIfEnded(t, "failed")
     \/ ResendThrows(t) /\ TryIfEnded(t, "failed")
  /\ UNCHANGED <<want, link>>

StreamArrives(s) ==
  /\ Linked(RemoteOf[s])
  /\ InOrder(s)
  /\ Inbound(s)
  /\ UNCHANGED exchangeVars

StreamChanges(s) ==
  /\ ReadEnds(s) \/ HalfClose(s) \/ Reset({s})
  /\ UNCHANGED exchangeVars

ForgetUnsupported ==
  /\ ClearUnsupportedPeers
  /\ UNCHANGED exchangeVars

\* stop() also rejects and forgets every pending want.
StopExchange ==
  /\ Stop
  /\ want' = [w \in Wants |-> IF Pending(w) THEN "over" ELSE want[w]]
  /\ tried' = {}
  /\ UNCHANGED link

ExchangeNext ==
  \/ \E w \in Wants : Want(w) \/ WantEnds(w)
  \/ \E p \in Peers : Connect(p) \/ OnConnect(p) \/ Lost(p)
  \/ \E t \in Sends : Dialled(t) \/ DialRefused(t) \/ Sending(t)
  \/ \E s \in Streams : StreamArrives(s) \/ StreamChanges(s)
  \/ ForgetUnsupported
  \/ StopExchange

allVars == <<vars, exchangeVars>>

ExchangeSpec == ExchangeInit /\ [][ExchangeNext]_allVars

\* Dials have libp2p's own timeout, and awaits of settled promises return.
\* Bound: a dial that finds no unused stream can only fail.
ExchangeFairness ==
  \A t \in Sends : WF_allVars(Dialled(t) \/ DialRefused(t) \/ Sending(t))

ExchangeFairSpec == ExchangeSpec /\ ExchangeFairness

-----------------------------------------------------------------------------
(* Properties.                                                             *)

ExchangeTypeOK ==
  /\ TypeOK
  /\ want \in [Wants -> {"new", "open", "over"}]
  /\ link \in [Peers -> {"none", "connected", "identified"}]
  /\ tried \subseteq Wants \X Peers \X Outcomes

UnderWay(w, p) == \E t \in Sends : t[1] = w /\ t[2] = p /\ send[t] \in SendsUnderWay

\* No peer is overlooked when wants and connections cross: of every pending want
\* and every identified peer, the peer is being told or was told over a stream since
\* this connection was made - with two exceptions.  A peer whose send failed, and
\* whose retry on a newly dialled stream failed too, is not asked again while it
\* stays connected; nor is one that was known not to speak bitswap when the want was
\* made or the peer identified, also when it is no longer known so.
EveryPeerAsked ==
  \A w \in Wants, p \in Peers :
    Pending(w) /\ link[p] = "identified" =>
      \/ UnderWay(w, p)
      \/ <<w, p, "told">> \in tried
      \/ <<w, p, "failed">> \in tried
      \/ <<w, p, "unsupported">> \in tried
=============================================================================
