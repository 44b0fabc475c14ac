---------------------------- MODULE ExchangeProofs ----------------------------
(***************************************************************************)
(* Proofs about StreamPool and about Exchange, for any wants, peers,       *)
(* streams and sends.  Exchange implements StreamPool, so that what is     *)
(* proved of the streams holds of it, and no peer is overlooked when wants *)
(* and connections cross.                                                  *)
(***************************************************************************)
EXTENDS Exchange, TLAPS

-----------------------------------------------------------------------------
(* StreamPool.                                                             *)

\* A stream the program has flagged as closed has been opened before, so no name
\* of a stream that is opened later is flagged already.
FlaggedWereOpened == \A s \in flagged : state[s] # "unused"

IInv ==
  /\ TypeOK
  /\ PooledStreamsServe
  /\ NoDeafStream
  /\ SendsReachTheirPeer
  /\ NothingInboundAfterStop
  /\ FlaggedWereOpened

-----------------------------------------------------------------------------
\* Every step keeps the type invariant.
LEMMA TypeInductive ==
  ASSUME IInv, [Next]_vars
  PROVE  TypeOK'
  <1> USE StreamPoolAssumption DEF poolVars, sendVars
  <1>0. TypeOK
    BY DEF IInv
  <1>1. ASSUME NEW S \in SUBSET Sends, Start(S)
        PROVE  TypeOK'
    BY <1>0, <1>1 DEF TypeOK, SendStates, SendsUnderWay, StreamStates, Start, Reuses
  <1>2. ASSUME NEW t \in Sends, NEW s \in Streams, DialOpens(t, s)
        PROVE  TypeOK'
    BY <1>0, <1>2 DEF TypeOK, SendStates, SendsUnderWay, StreamStates, DialOpens, Open, Step
  <1>3. ASSUME NEW t \in Sends, NEW u \in BOOLEAN, DialFails(t, u)
        PROVE  TypeOK'
    BY <1>0, <1>3 DEF TypeOK, SendStates, SendsUnderWay, StreamStates, DialFails, Step, Cleanup, Close, Pooled, Writable
  <1>4. ASSUME NEW t \in Sends, SendSucceeds(t)
        PROVE  TypeOK'
    BY <1>0, <1>4 DEF TypeOK, SendStates, SendsUnderWay, StreamStates, SendSucceeds, Step, Drop
  <1>5. ASSUME NEW t \in Sends, SendThrows(t)
        PROVE  TypeOK'
    BY <1>0, <1>5 DEF TypeOK, SendStates, SendsUnderWay, StreamStates, SendThrows, Step, Drop, Cleanup, Close, Pooled, Writable
  <1>6. ASSUME NEW t \in Sends, ResendThrows(t)
        PROVE  TypeOK'
    BY <1>0, <1>6 DEF TypeOK, SendStates, SendsUnderWay, StreamStates, ResendThrows, Step, Drop
  <1>7. ASSUME NEW s \in Streams, Inbound(s)
        PROVE  TypeOK'
    BY <1>0, <1>7 DEF TypeOK, SendStates, SendsUnderWay, StreamStates, Inbound, Open
  <1>8. ASSUME NEW s \in Streams, ReadEnds(s)
        PROVE  TypeOK'
    BY <1>0, <1>8 DEF TypeOK, SendStates, SendsUnderWay, StreamStates, ReadEnds, Cleanup, Close, Pooled, Writable
  <1>9. ASSUME NEW s \in Streams, HalfClose(s)
        PROVE  TypeOK'
    BY <1>0, <1>9 DEF TypeOK, SendStates, SendsUnderWay, StreamStates, HalfClose
  <1>10. ASSUME NEW S \in SUBSET Streams, Reset(S)
        PROVE  TypeOK'
    BY <1>0, <1>10 DEF TypeOK, SendStates, SendsUnderWay, StreamStates, Reset, Writable
  <1>11. ASSUME NEW p \in Peers, Disconnect(p)
        PROVE  TypeOK'
    BY <1>0, <1>11 DEF TypeOK, SendStates, SendsUnderWay, StreamStates, Disconnect, Pooled
  <1>12. CASE ClearUnsupportedPeers
    BY <1>0, <1>12 DEF TypeOK, SendStates, SendsUnderWay, StreamStates, ClearUnsupportedPeers
  <1>13. CASE Stop
    BY <1>0, <1>13 DEF TypeOK, SendStates, SendsUnderWay, StreamStates, Stop, Close, Pooled, Writable
  <1>14. CASE UNCHANGED vars
    BY <1>0, <1>14 DEF TypeOK, SendStates, SendsUnderWay, StreamStates, vars
  <1> QED
    BY <1>1, <1>2, <1>3, <1>4, <1>5, <1>6, <1>7, <1>8, <1>9, <1>10, <1>11, <1>12, <1>13, <1>14
       DEF Next, DialEnds, SendEnds

\* The pool holds usable streams, before and after.
LEMMA PoolInductive ==
  ASSUME IInv, [Next]_vars
  PROVE  PooledStreamsServe'
  <1> USE StreamPoolAssumption DEF poolVars, sendVars
  <1>0. TypeOK /\ PooledStreamsServe /\ FlaggedWereOpened
    BY DEF IInv
  <1>1. ASSUME NEW S \in SUBSET Sends, Start(S)
        PROVE  PooledStreamsServe'
    BY <1>0, <1>1 DEF TypeOK, PooledStreamsServe, FlaggedWereOpened, Start, Reuses
  <1>2. ASSUME NEW t \in Sends, NEW s \in Streams, DialOpens(t, s)
        PROVE  PooledStreamsServe'
    BY <1>0, <1>2 DEF TypeOK, PooledStreamsServe, FlaggedWereOpened, DialOpens, Open, Step
  <1>3. ASSUME NEW t \in Sends, NEW u \in BOOLEAN, DialFails(t, u)
        PROVE  PooledStreamsServe'
    BY <1>0, <1>3 DEF TypeOK, PooledStreamsServe, FlaggedWereOpened, DialFails, Step, Cleanup, Close, Pooled, Writable
  <1>4. ASSUME NEW t \in Sends, SendSucceeds(t)
        PROVE  PooledStreamsServe'
    BY <1>0, <1>4 DEF TypeOK, PooledStreamsServe, FlaggedWereOpened, SendSucceeds, Step, Drop
  <1>5. ASSUME NEW t \in Sends, SendThrows(t)
        PROVE  PooledStreamsServe'
    BY <1>0, <1>5 DEF TypeOK, PooledStreamsServe, FlaggedWereOpened, SendThrows, Step, Drop, Cleanup, Close, Pooled, Writable
  <1>6. ASSUME NEW t \in Sends, ResendThrows(t)
        PROVE  PooledStreamsServe'
    BY <1>0, <1>6 DEF TypeOK, PooledStreamsServe, FlaggedWereOpened, ResendThrows, Step, Drop
  <1>7. ASSUME NEW s \in Streams, Inbound(s)
        PROVE  PooledStreamsServe'
    BY <1>0, <1>7 DEF TypeOK, PooledStreamsServe, FlaggedWereOpened, Inbound, Open
  <1>8. ASSUME NEW s \in Streams, ReadEnds(s)
        PROVE  PooledStreamsServe'
    BY <1>0, <1>8 DEF TypeOK, PooledStreamsServe, FlaggedWereOpened, ReadEnds, Cleanup, Close, Pooled, Writable
  <1>9. ASSUME NEW s \in Streams, HalfClose(s)
        PROVE  PooledStreamsServe'
    BY <1>0, <1>9 DEF TypeOK, PooledStreamsServe, FlaggedWereOpened, HalfClose
  <1>10. ASSUME NEW S \in SUBSET Streams, Reset(S)
        PROVE  PooledStreamsServe'
    BY <1>0, <1>10 DEF TypeOK, PooledStreamsServe, FlaggedWereOpened, Reset, Writable
  <1>11. ASSUME NEW p \in Peers, Disconnect(p)
        PROVE  PooledStreamsServe'
    BY <1>0, <1>11 DEF TypeOK, PooledStreamsServe, FlaggedWereOpened, Disconnect, Pooled
  <1>12. CASE ClearUnsupportedPeers
    BY <1>0, <1>12 DEF TypeOK, PooledStreamsServe, FlaggedWereOpened, ClearUnsupportedPeers
  <1>13. CASE Stop
    BY <1>0, <1>13 DEF TypeOK, PooledStreamsServe, FlaggedWereOpened, Stop, Close, Pooled, Writable
  <1>14. CASE UNCHANGED vars
    BY <1>0, <1>14 DEF TypeOK, PooledStreamsServe, FlaggedWereOpened, vars
  <1> QED
    BY <1>1, <1>2, <1>3, <1>4, <1>5, <1>6, <1>7, <1>8, <1>9, <1>10, <1>11, <1>12, <1>13, <1>14
       DEF Next, DialEnds, SendEnds

\* Open streams have readers.
LEMMA ReadersInductive ==
  ASSUME IInv, [Next]_vars
  PROVE  NoDeafStream'
  <1> USE StreamPoolAssumption DEF poolVars, sendVars
  <1>0. TypeOK /\ NoDeafStream
    BY DEF IInv
  <1>1. ASSUME NEW S \in SUBSET Sends, Start(S)
        PROVE  NoDeafStream'
    BY <1>0, <1>1 DEF TypeOK, NoDeafStream, Start, Reuses
  <1>2. ASSUME NEW t \in Sends, NEW s \in Streams, DialOpens(t, s)
        PROVE  NoDeafStream'
    BY <1>0, <1>2 DEF TypeOK, NoDeafStream, DialOpens, Open, Step
  <1>3. ASSUME NEW t \in Sends, NEW u \in BOOLEAN, DialFails(t, u)
        PROVE  NoDeafStream'
    BY <1>0, <1>3 DEF TypeOK, NoDeafStream, DialFails, Step, Cleanup, Close, Pooled, Writable
  <1>4. ASSUME NEW t \in Sends, SendSucceeds(t)
        PROVE  NoDeafStream'
    BY <1>0, <1>4 DEF TypeOK, NoDeafStream, SendSucceeds, Step, Drop
  <1>5. ASSUME NEW t \in Sends, SendThrows(t)
        PROVE  NoDeafStream'
    BY <1>0, <1>5 DEF TypeOK, NoDeafStream, SendThrows, Step, Drop, Cleanup, Close, Pooled, Writable
  <1>6. ASSUME NEW t \in Sends, ResendThrows(t)
        PROVE  NoDeafStream'
    BY <1>0, <1>6 DEF TypeOK, NoDeafStream, ResendThrows, Step, Drop
  <1>7. ASSUME NEW s \in Streams, Inbound(s)
        PROVE  NoDeafStream'
    BY <1>0, <1>7 DEF TypeOK, NoDeafStream, Inbound, Open
  <1>8. ASSUME NEW s \in Streams, ReadEnds(s)
        PROVE  NoDeafStream'
    BY <1>0, <1>8 DEF TypeOK, NoDeafStream, ReadEnds, Cleanup, Close, Pooled, Writable
  <1>9. ASSUME NEW s \in Streams, HalfClose(s)
        PROVE  NoDeafStream'
    BY <1>0, <1>9 DEF TypeOK, NoDeafStream, HalfClose
  <1>10. ASSUME NEW S \in SUBSET Streams, Reset(S)
        PROVE  NoDeafStream'
    BY <1>0, <1>10 DEF TypeOK, NoDeafStream, Reset, Writable
  <1>11. ASSUME NEW p \in Peers, Disconnect(p)
        PROVE  NoDeafStream'
    BY <1>0, <1>11 DEF TypeOK, NoDeafStream, Disconnect, Pooled
  <1>12. CASE ClearUnsupportedPeers
    BY <1>0, <1>12 DEF TypeOK, NoDeafStream, ClearUnsupportedPeers
  <1>13. CASE Stop
    BY <1>0, <1>13 DEF TypeOK, NoDeafStream, Stop, Close, Pooled, Writable
  <1>14. CASE UNCHANGED vars
    BY <1>0, <1>14 DEF TypeOK, NoDeafStream, vars
  <1> QED
    BY <1>1, <1>2, <1>3, <1>4, <1>5, <1>6, <1>7, <1>8, <1>9, <1>10, <1>11, <1>12, <1>13, <1>14
       DEF Next, DialEnds, SendEnds

\* Sends hold streams to their peers.
LEMMA SendsInductive ==
  ASSUME IInv, [Next]_vars
  PROVE  SendsReachTheirPeer'
  <1> USE StreamPoolAssumption DEF poolVars, sendVars
  <1>0. TypeOK /\ PooledStreamsServe /\ SendsReachTheirPeer
    BY DEF IInv
  <1>1. ASSUME NEW S \in SUBSET Sends, Start(S)
        PROVE  SendsReachTheirPeer'
    BY <1>0, <1>1 DEF TypeOK, PooledStreamsServe, SendsReachTheirPeer, Start, Reuses
  <1>2. ASSUME NEW t \in Sends, NEW s \in Streams, DialOpens(t, s)
        PROVE  SendsReachTheirPeer'
    BY <1>0, <1>2 DEF TypeOK, PooledStreamsServe, SendsReachTheirPeer, DialOpens, Open, Step
  <1>3. ASSUME NEW t \in Sends, NEW u \in BOOLEAN, DialFails(t, u)
        PROVE  SendsReachTheirPeer'
    BY <1>0, <1>3 DEF TypeOK, PooledStreamsServe, SendsReachTheirPeer, DialFails, Step, Cleanup, Close, Pooled, Writable
  <1>4. ASSUME NEW t \in Sends, SendSucceeds(t)
        PROVE  SendsReachTheirPeer'
    BY <1>0, <1>4 DEF TypeOK, PooledStreamsServe, SendsReachTheirPeer, SendSucceeds, Step, Drop
  <1>5. ASSUME NEW t \in Sends, SendThrows(t)
        PROVE  SendsReachTheirPeer'
    BY <1>0, <1>5 DEF TypeOK, PooledStreamsServe, SendsReachTheirPeer, SendThrows, Step, Drop, Cleanup, Close, Pooled, Writable
  <1>6. ASSUME NEW t \in Sends, ResendThrows(t)
        PROVE  SendsReachTheirPeer'
    BY <1>0, <1>6 DEF TypeOK, PooledStreamsServe, SendsReachTheirPeer, ResendThrows, Step, Drop
  <1>7. ASSUME NEW s \in Streams, Inbound(s)
        PROVE  SendsReachTheirPeer'
    BY <1>0, <1>7 DEF TypeOK, PooledStreamsServe, SendsReachTheirPeer, Inbound, Open
  <1>8. ASSUME NEW s \in Streams, ReadEnds(s)
        PROVE  SendsReachTheirPeer'
    BY <1>0, <1>8 DEF TypeOK, PooledStreamsServe, SendsReachTheirPeer, ReadEnds, Cleanup, Close, Pooled, Writable
  <1>9. ASSUME NEW s \in Streams, HalfClose(s)
        PROVE  SendsReachTheirPeer'
    BY <1>0, <1>9 DEF TypeOK, PooledStreamsServe, SendsReachTheirPeer, HalfClose
  <1>10. ASSUME NEW S \in SUBSET Streams, Reset(S)
        PROVE  SendsReachTheirPeer'
    BY <1>0, <1>10 DEF TypeOK, PooledStreamsServe, SendsReachTheirPeer, Reset, Writable
  <1>11. ASSUME NEW p \in Peers, Disconnect(p)
        PROVE  SendsReachTheirPeer'
    BY <1>0, <1>11 DEF TypeOK, PooledStreamsServe, SendsReachTheirPeer, Disconnect, Pooled
  <1>12. CASE ClearUnsupportedPeers
    BY <1>0, <1>12 DEF TypeOK, PooledStreamsServe, SendsReachTheirPeer, ClearUnsupportedPeers
  <1>13. CASE Stop
    BY <1>0, <1>13 DEF TypeOK, PooledStreamsServe, SendsReachTheirPeer, Stop, Close, Pooled, Writable
  <1>14. CASE UNCHANGED vars
    BY <1>0, <1>14 DEF TypeOK, PooledStreamsServe, SendsReachTheirPeer, vars
  <1> QED
    BY <1>1, <1>2, <1>3, <1>4, <1>5, <1>6, <1>7, <1>8, <1>9, <1>10, <1>11, <1>12, <1>13, <1>14
       DEF Next, DialEnds, SendEnds

\* A stopped service pools what it dials itself, nothing else.
LEMMA StopInductive ==
  ASSUME IInv, [Next]_vars
  PROVE  NothingInboundAfterStop'
  <1> USE StreamPoolAssumption DEF poolVars, sendVars
  <1>0. TypeOK /\ NothingInboundAfterStop
    BY DEF IInv
  <1>1. ASSUME NEW S \in SUBSET Sends, Start(S)
        PROVE  NothingInboundAfterStop'
    BY <1>0, <1>1 DEF TypeOK, NothingInboundAfterStop, Start, Reuses
  <1>2. ASSUME NEW t \in Sends, NEW s \in Streams, DialOpens(t, s)
        PROVE  NothingInboundAfterStop'
    BY <1>0, <1>2 DEF TypeOK, NothingInboundAfterStop, DialOpens, Open, Step
  <1>3. ASSUME NEW t \in Sends, NEW u \in BOOLEAN, DialFails(t, u)
        PROVE  NothingInboundAfterStop'
    BY <1>0, <1>3 DEF TypeOK, NothingInboundAfterStop, DialFails, Step, Cleanup, Close, Pooled, Writable
  <1>4. ASSUME NEW t \in Sends, SendSucceeds(t)
        PROVE  NothingInboundAfterStop'
    BY <1>0, <1>4 DEF TypeOK, NothingInboundAfterStop, SendSucceeds, Step, Drop
  <1>5. ASSUME NEW t \in Sends, SendThrows(t)
        PROVE  NothingInboundAfterStop'
    BY <1>0, <1>5 DEF TypeOK, NothingInboundAfterStop, SendThrows, Step, Drop, Cleanup, Close, Pooled, Writable
  <1>6. ASSUME NEW t \in Sends, ResendThrows(t)
        PROVE  NothingInboundAfterStop'
    BY <1>0, <1>6 DEF TypeOK, NothingInboundAfterStop, ResendThrows, Step, Drop
  <1>7. ASSUME NEW s \in Streams, Inbound(s)
        PROVE  NothingInboundAfterStop'
    BY <1>0, <1>7 DEF TypeOK, NothingInboundAfterStop, Inbound, Open
  <1>8. ASSUME NEW s \in Streams, ReadEnds(s)
        PROVE  NothingInboundAfterStop'
    BY <1>0, <1>8 DEF TypeOK, NothingInboundAfterStop, ReadEnds, Cleanup, Close, Pooled, Writable
  <1>9. ASSUME NEW s \in Streams, HalfClose(s)
        PROVE  NothingInboundAfterStop'
    BY <1>0, <1>9 DEF TypeOK, NothingInboundAfterStop, HalfClose
  <1>10. ASSUME NEW S \in SUBSET Streams, Reset(S)
        PROVE  NothingInboundAfterStop'
    BY <1>0, <1>10 DEF TypeOK, NothingInboundAfterStop, Reset, Writable
  <1>11. ASSUME NEW p \in Peers, Disconnect(p)
        PROVE  NothingInboundAfterStop'
    BY <1>0, <1>11 DEF TypeOK, NothingInboundAfterStop, Disconnect, Pooled
  <1>12. CASE ClearUnsupportedPeers
    BY <1>0, <1>12 DEF TypeOK, NothingInboundAfterStop, ClearUnsupportedPeers
  <1>13. CASE Stop
    BY <1>0, <1>13 DEF TypeOK, NothingInboundAfterStop, Stop, Close, Pooled, Writable
  <1>14. CASE UNCHANGED vars
    BY <1>0, <1>14 DEF TypeOK, NothingInboundAfterStop, vars
  <1> QED
    BY <1>1, <1>2, <1>3, <1>4, <1>5, <1>6, <1>7, <1>8, <1>9, <1>10, <1>11, <1>12, <1>13, <1>14
       DEF Next, DialEnds, SendEnds

\* Only opened streams are flagged.
LEMMA FlaggedInductive ==
  ASSUME IInv, [Next]_vars
  PROVE  FlaggedWereOpened'
  <1> USE StreamPoolAssumption DEF poolVars, sendVars
  <1>0. TypeOK /\ PooledStreamsServe /\ FlaggedWereOpened
    BY DEF IInv
  <1>1. ASSUME NEW S \in SUBSET Sends, Start(S)
        PROVE  FlaggedWereOpened'
    BY <1>0, <1>1 DEF TypeOK, PooledStreamsServe, FlaggedWereOpened, Start, Reuses
  <1>2. ASSUME NEW t \in Sends, NEW s \in Streams, DialOpens(t, s)
        PROVE  FlaggedWereOpened'
    BY <1>0, <1>2 DEF TypeOK, PooledStreamsServe, FlaggedWereOpened, DialOpens, Open, Step
  <1>3. ASSUME NEW t \in Sends, NEW u \in BOOLEAN, DialFails(t, u)
        PROVE  FlaggedWereOpened'
    BY <1>0, <1>3 DEF TypeOK, PooledStreamsServe, FlaggedWereOpened, DialFails, Step, Cleanup, Close, Pooled, Writable
  <1>4. ASSUME NEW t \in Sends, SendSucceeds(t)
        PROVE  FlaggedWereOpened'
    BY <1>0, <1>4 DEF TypeOK, PooledStreamsServe, FlaggedWereOpened, SendSucceeds, Step, Drop
  <1>5. ASSUME NEW t \in Sends, SendThrows(t)
        PROVE  FlaggedWereOpened'
    BY <1>0, <1>5 DEF TypeOK, PooledStreamsServe, FlaggedWereOpened, SendThrows, Step, Drop, Cleanup, Close, Pooled, Writable
  <1>6. ASSUME NEW t \in Sends, ResendThrows(t)
        PROVE  FlaggedWereOpened'
    BY <1>0, <1>6 DEF TypeOK, PooledStreamsServe, FlaggedWereOpened, ResendThrows, Step, Drop
  <1>7. ASSUME NEW s \in Streams, Inbound(s)
        PROVE  FlaggedWereOpened'
    BY <1>0, <1>7 DEF TypeOK, PooledStreamsServe, FlaggedWereOpened, Inbound, Open
  <1>8. ASSUME NEW s \in Streams, ReadEnds(s)
        PROVE  FlaggedWereOpened'
    BY <1>0, <1>8 DEF TypeOK, PooledStreamsServe, FlaggedWereOpened, ReadEnds, Cleanup, Close, Pooled, Writable
  <1>9. ASSUME NEW s \in Streams, HalfClose(s)
        PROVE  FlaggedWereOpened'
    BY <1>0, <1>9 DEF TypeOK, PooledStreamsServe, FlaggedWereOpened, HalfClose
  <1>10. ASSUME NEW S \in SUBSET Streams, Reset(S)
        PROVE  FlaggedWereOpened'
    BY <1>0, <1>10 DEF TypeOK, PooledStreamsServe, FlaggedWereOpened, Reset, Writable
  <1>11. ASSUME NEW p \in Peers, Disconnect(p)
        PROVE  FlaggedWereOpened'
    BY <1>0, <1>11 DEF TypeOK, PooledStreamsServe, FlaggedWereOpened, Disconnect, Pooled
  <1>12. CASE ClearUnsupportedPeers
    BY <1>0, <1>12 DEF TypeOK, PooledStreamsServe, FlaggedWereOpened, ClearUnsupportedPeers
  <1>13. CASE Stop
    BY <1>0, <1>13 DEF TypeOK, PooledStreamsServe, FlaggedWereOpened, Stop, Close, Pooled, Writable
  <1>14. CASE UNCHANGED vars
    BY <1>0, <1>14 DEF TypeOK, PooledStreamsServe, FlaggedWereOpened, vars
  <1> QED
    BY <1>1, <1>2, <1>3, <1>4, <1>5, <1>6, <1>7, <1>8, <1>9, <1>10, <1>11, <1>12, <1>13, <1>14
       DEF Next, DialEnds, SendEnds

-----------------------------------------------------------------------------
\* The inductive invariant holds in every state of every behaviour.
THEOREM Invariance == Spec => []IInv
  <1>1. Init => IInv
    BY StreamPoolAssumption
       DEF Init, IInv, TypeOK, SendStates, SendsUnderWay, StreamStates, PooledStreamsServe, NoDeafStream,
           SendsReachTheirPeer, NothingInboundAfterStop, FlaggedWereOpened
  <1>2. IInv /\ [Next]_vars => IInv'
    BY TypeInductive, PoolInductive, ReadersInductive, SendsInductive, StopInductive,
       FlaggedInductive DEF IInv
  <1> QED
    BY <1>1, <1>2, PTL DEF Spec

\* The variables of the stream pool always have their types.
THEOREM TypeCorrect == Spec => []TypeOK
  <1>1. IInv => TypeOK
    BY DEF IInv
  <1> QED
    BY <1>1, Invariance, PTL

\* Whatever the pool hands out leads to the peer asked for, is not closed by this
\* node and has a reader.
THEOREM PoolServes == Spec => []PooledStreamsServe
  <1>1. IInv => PooledStreamsServe
    BY DEF IInv
  <1> QED
    BY <1>1, Invariance, PTL

\* A stream the remote may write to is read, also after its place was taken.
THEOREM NobodyIsDeaf == Spec => []NoDeafStream
  <1>1. IInv => NoDeafStream
    BY DEF IInv
  <1> QED
    BY <1>1, Invariance, PTL

\* A send is made on a stream to the peer it is for.
THEOREM SendsArrive == Spec => []SendsReachTheirPeer
  <1>1. IInv => SendsReachTheirPeer
    BY DEF IInv
  <1> QED
    BY <1>1, Invariance, PTL

\* After stop() no remote can put a stream into the pool.
THEOREM StoppedStaysPrivate == Spec => []NothingInboundAfterStop
  <1>1. IInv => NothingInboundAfterStop
    BY DEF IInv
  <1> QED
    BY <1>1, Invariance, PTL

\* The steps that change the pool, and what they put there.
LEMMA PoolStep ==
  ASSUME IInv, [Next]_vars, NEW q \in Peers,
         pool[q] # NoStream, pool'[q] \notin {pool[q], NoStream}
  PROVE  pool'[q] \in Outbound \/ pool[q] \notin Outbound
  <1> USE StreamPoolAssumption DEF poolVars, sendVars
  <1>0. TypeOK
    BY DEF IInv
  <1>1. ASSUME NEW S \in SUBSET Sends, Start(S)
        PROVE  pool'[q] \in Outbound \/ pool[q] \notin Outbound
    BY <1>0, <1>1 DEF TypeOK, Start, Reuses
  <1>2. ASSUME NEW t \in Sends, NEW s \in Streams, DialOpens(t, s)
        PROVE  pool'[q] \in Outbound \/ pool[q] \notin Outbound
    BY <1>0, <1>2 DEF TypeOK, DialOpens, Open, Step
  <1>3. ASSUME NEW t \in Sends, NEW u \in BOOLEAN, DialFails(t, u)
        PROVE  pool'[q] \in Outbound \/ pool[q] \notin Outbound
    BY <1>0, <1>3 DEF TypeOK, DialFails, Step, Cleanup, Close, Pooled, Writable
  <1>4. ASSUME NEW t \in Sends, SendSucceeds(t)
        PROVE  pool'[q] \in Outbound \/ pool[q] \notin Outbound
    BY <1>0, <1>4 DEF TypeOK, SendSucceeds, Step, Drop
  <1>5. ASSUME NEW t \in Sends, SendThrows(t)
        PROVE  pool'[q] \in Outbound \/ pool[q] \notin Outbound
    BY <1>0, <1>5 DEF TypeOK, SendThrows, Step, Drop, Cleanup, Close, Pooled, Writable
  <1>6. ASSUME NEW t \in Sends, ResendThrows(t)
        PROVE  pool'[q] \in Outbound \/ pool[q] \notin Outbound
    BY <1>0, <1>6 DEF TypeOK, ResendThrows, Step, Drop
  <1>7. ASSUME NEW s \in Streams, Inbound(s)
        PROVE  pool'[q] \in Outbound \/ pool[q] \notin Outbound
    BY <1>0, <1>7 DEF TypeOK, Inbound, Open
  <1>8. ASSUME NEW s \in Streams, ReadEnds(s)
        PROVE  pool'[q] \in Outbound \/ pool[q] \notin Outbound
    BY <1>0, <1>8 DEF TypeOK, ReadEnds, Cleanup, Close, Pooled, Writable
  <1>9. ASSUME NEW s \in Streams, HalfClose(s)
        PROVE  pool'[q] \in Outbound \/ pool[q] \notin Outbound
    BY <1>0, <1>9 DEF TypeOK, HalfClose
  <1>10. ASSUME NEW S \in SUBSET Streams, Reset(S)
        PROVE  pool'[q] \in Outbound \/ pool[q] \notin Outbound
    BY <1>0, <1>10 DEF TypeOK, Reset, Writable
  <1>11. ASSUME NEW p \in Peers, Disconnect(p)
        PROVE  pool'[q] \in Outbound \/ pool[q] \notin Outbound
    BY <1>0, <1>11 DEF TypeOK, Disconnect, Pooled
  <1>12. CASE ClearUnsupportedPeers
    BY <1>0, <1>12 DEF TypeOK, ClearUnsupportedPeers
  <1>13. CASE Stop
    BY <1>0, <1>13 DEF TypeOK, Stop, Close, Pooled, Writable
  <1>14. CASE UNCHANGED vars
    BY <1>0, <1>14 DEF TypeOK, vars
  <1> QED
    BY <1>1, <1>2, <1>3, <1>4, <1>5, <1>6, <1>7, <1>8, <1>9, <1>10, <1>11, <1>12, <1>13, <1>14
       DEF Next, DialEnds, SendEnds

\* No remote takes over the place of an outbound stream in the pool.
THEOREM OutboundKept == Spec => OutboundStays
  <1>1. IInv /\ [Next]_vars =>
          [\A p \in Peers :
             pool[p] # NoStream /\ pool'[p] \notin {pool[p], NoStream}
               => pool'[p] \in Outbound \/ pool[p] \notin Outbound]_vars
    BY PoolStep
  <1> QED
    BY <1>1, Invariance, PTL DEF Spec, OutboundStays

\* What a send may still come to: at most a dial, a send, a second dial and a
\* second send.
Left == [idle |-> 0, rehave |-> 1, redial |-> 2, have |-> 3, dial |-> 4]

\* Every step of a send is one of few: _sendMessage dials again once at most, and
\* neither a stream that dies nor one that replaces it in the pool, nor another
\* send to the peer, makes it start over.  Short of fairness this is what makes
\* SendsEnd true.
SendsRunOut ==
  [][\A t \in Sends : send[t] # "idle" /\ send'[t] # send[t]
                        => Left[send'[t]] < Left[send[t]]]_vars

LEMMA SendAdvances ==
  ASSUME IInv, [Next]_vars, NEW t \in Sends, send[t] # "idle", send'[t] # send[t]
  PROVE  Left[send'[t]] < Left[send[t]]
  <1> USE DEF sendVars, TypeOK, Left
  <1>0. TypeOK
    BY DEF IInv
  <1>1. ASSUME NEW S \in SUBSET Sends, Start(S) PROVE send'[t] = send[t]
    BY <1>1 DEF Start
  <1>2. ASSUME NEW u \in Sends, NEW s \in Streams, DialOpens(u, s)
        PROVE  Left[send'[t]] < Left[send[t]]
    BY <1>0, <1>2 DEF DialOpens, Step
  <1>3. ASSUME NEW u \in Sends, NEW n \in BOOLEAN, DialFails(u, n)
        PROVE  Left[send'[t]] < Left[send[t]]
    BY <1>0, <1>3 DEF DialFails, Step
  <1>4. ASSUME NEW u \in Sends, SendEnds(u)
        PROVE  Left[send'[t]] < Left[send[t]]
    BY <1>0, <1>4 DEF SendEnds, SendSucceeds, SendThrows, ResendThrows, Step
  <1>5. ASSUME NEW s \in Streams, Inbound(s) \/ ReadEnds(s) \/ HalfClose(s)
        PROVE  send' = send
    BY <1>5 DEF Inbound, ReadEnds, HalfClose
  <1>6. ASSUME NEW S \in SUBSET Streams, Reset(S) PROVE send' = send
    BY <1>6 DEF Reset
  <1>7. ASSUME NEW p \in Peers, Disconnect(p) PROVE send' = send
    BY <1>7 DEF Disconnect
  <1>8. CASE ClearUnsupportedPeers \/ Stop \/ UNCHANGED vars
    BY <1>8 DEF ClearUnsupportedPeers, Stop, vars
  <1> QED
    BY <1>1, <1>2, <1>3, <1>4, <1>5, <1>6, <1>7, <1>8 DEF Next, DialEnds

\* _sendMessage ends after one retry: every step of a send brings it nearer to its
\* end, whatever the streams and the other sends do (SendsRunOut).
THEOREM RetriesAreBounded == Spec => SendsRunOut
  <1>1. IInv /\ [Next]_vars =>
          [\A t \in Sends : send[t] # "idle" /\ send'[t] # send[t]
                             => Left[send'[t]] < Left[send[t]]]_vars
    BY SendAdvances
  <1> QED
    BY <1>1, Invariance, PTL DEF Spec, SendsRunOut

-----------------------------------------------------------------------------
(* Exchange.                                                               *)

\* Every step of Exchange is one of StreamPool, or leaves the streams alone.
LEMMA ExchangeStep ==
  ASSUME [ExchangeNext]_allVars
  PROVE  [Next]_vars
  <1>1. ASSUME NEW w \in Wants, Want(w)
        PROVE  [Next]_vars
    <2>1. PICK S \in SUBSET Sends : Start(S)
      BY <1>1 DEF Want
    <2> QED
      BY <2>1 DEF Next
  <1>2. ASSUME NEW w \in Wants, WantEnds(w)
        PROVE  [Next]_vars
    BY <1>2 DEF WantEnds
  <1>3. ASSUME NEW p \in Peers, Connect(p)
        PROVE  [Next]_vars
    BY <1>3 DEF Connect
  <1>4. ASSUME NEW p \in Peers, OnConnect(p)
        PROVE  [Next]_vars
    <2>1. UNCHANGED vars \/ \E S \in SUBSET Sends : Start(S)
      BY <1>4 DEF OnConnect
    <2> QED
      BY <2>1 DEF Next
  <1>5. ASSUME NEW p \in Peers, Lost(p)
        PROVE  [Next]_vars
    <2>1. Disconnect(p) \/ \E S \in SUBSET Streams : Reset(S)
      BY <1>5 DEF Lost
    <2> QED
      BY <2>1 DEF Next
  <1>6. ASSUME NEW t \in Sends, Dialled(t) \/ DialRefused(t) \/ Sending(t)
        PROVE  [Next]_vars
    BY <1>6 DEF Dialled, DialRefused, Sending, Next, DialEnds, SendEnds
  <1>7. ASSUME NEW s \in Streams, StreamArrives(s)
        PROVE  [Next]_vars
    BY <1>7 DEF StreamArrives, Next
  <1>8. ASSUME NEW s \in Streams, StreamChanges(s)
        PROVE  [Next]_vars
    <2>1. {s} \in SUBSET Streams
      OBVIOUS
    <2> QED
      BY <1>8, <2>1 DEF StreamChanges, Next
  <1>9. CASE ForgetUnsupported \/ StopExchange
    BY <1>9 DEF ForgetUnsupported, StopExchange, Next
  <1>10. CASE UNCHANGED allVars
    BY <1>10 DEF allVars
  <1> QED
    BY <1>1, <1>2, <1>3, <1>4, <1>5, <1>6, <1>7, <1>8, <1>9, <1>10 DEF ExchangeNext

\* The wants and connections run on the streams as StreamPool describes them.
THEOREM ImplementsPool == ExchangeSpec => Spec
  <1>1. ExchangeInit => Init
    BY DEF ExchangeInit
  <1>2. [ExchangeNext]_allVars => [Next]_vars
    BY ExchangeStep
  <1> QED
    BY <1>1, <1>2, PTL DEF ExchangeSpec, Spec

-----------------------------------------------------------------------------
\* The variables of Exchange keep their types, whatever the streams do.
LEMMA OwnTypes ==
  ASSUME ExchangeTypeOK, [ExchangeNext]_allVars, TypeOK'
  PROVE  ExchangeTypeOK'
  <1> USE ExchangeAssumption DEF ExchangeTypeOK
  <1>1. ASSUME NEW w \in Wants, Want(w) \/ WantEnds(w)
        PROVE  ExchangeTypeOK'
    BY <1>1 DEF Want, WantEnds, TypeOK, Outcomes
  <1>2. ASSUME NEW p \in Peers, Connect(p) \/ OnConnect(p) \/ Lost(p)
        PROVE  ExchangeTypeOK'
    BY <1>2 DEF Connect, OnConnect, Lost, Try, Outcomes
  <1>3. ASSUME NEW t \in Sends, Dialled(t) \/ DialRefused(t) \/ Sending(t)
        PROVE  ExchangeTypeOK'
    <2>1. t[1] \in Wants /\ t[2] \in Peers
      OBVIOUS
    <2> QED
      BY <1>3, <2>1 DEF Dialled, DialRefused, Sending, Try, TryIfEnded, Outcomes
  <1>4. ASSUME NEW s \in Streams, StreamArrives(s) \/ StreamChanges(s)
        PROVE  ExchangeTypeOK'
    BY <1>4 DEF StreamArrives, StreamChanges, exchangeVars
  <1>5. CASE ForgetUnsupported
    BY <1>5 DEF ForgetUnsupported, exchangeVars
  <1>6. CASE StopExchange
    BY <1>6 DEF StopExchange, Pending
  <1>7. CASE UNCHANGED allVars
    BY <1>7 DEF allVars, exchangeVars
  <1> QED
    BY <1>1, <1>2, <1>3, <1>4, <1>5, <1>6, <1>7 DEF ExchangeNext

\* The variables of the wants, the connections and the streams have their types.
THEOREM ExchangeTypes == ExchangeSpec => []ExchangeTypeOK
  <1>1. ExchangeInit => ExchangeTypeOK
    <2>1. Init => TypeOK
      BY DEF Init, TypeOK, SendStates, StreamStates
    <2>2. ExchangeInit => Init /\ tried = {}
      BY DEF ExchangeInit
    <2>3. ExchangeInit => want \in [Wants -> {"new", "open", "over"}]
      BY DEF ExchangeInit
    <2>4. ExchangeInit => link \in [Peers -> {"none", "connected", "identified"}]
      BY DEF ExchangeInit
    <2> QED
      BY <2>1, <2>2, <2>3, <2>4 DEF ExchangeTypeOK
  <1>2. ExchangeTypeOK /\ [ExchangeNext]_allVars /\ TypeOK' => ExchangeTypeOK'
    BY OwnTypes
  <1>3. ExchangeSpec => []TypeOK
    BY ImplementsPool, TypeCorrect, PTL
  <1> QED
    BY <1>1, <1>2, <1>3, PTL DEF ExchangeSpec

-----------------------------------------------------------------------------
\* Whoever has to be asked is being asked or was.
Asked(w, p) == UnderWay(w, p) \/ \E o \in Outcomes : <<w, p, o>> \in tried

\* A step that neither ends a send nor forgets an attempt leaves nobody out.
LEMMA AskedStays ==
  ASSUME NEW w \in Wants, NEW p \in Peers, Asked(w, p), tried \subseteq tried',
         \A t \in Sends : send[t] \in SendsUnderWay => send'[t] \in SendsUnderWay
  PROVE  Asked(w, p)'
  BY DEF Asked, UnderWay

\* Sends that are started are under way; the others stay where they are.
LEMMA StartStarts ==
  ASSUME NEW S \in SUBSET Sends, Start(S)
  PROVE  /\ \A t \in S : send'[t] \in SendsUnderWay
         /\ \A t \in Sends : send[t] \in SendsUnderWay => send'[t] \in SendsUnderWay
  BY DEF Start, SendsUnderWay

\* A step of one send leaves the others alone, and ends it or not.
LEMMA SendStep ==
  ASSUME TypeOK, NEW t \in Sends, Dialled(t) \/ DialRefused(t) \/ Sending(t)
  PROVE  /\ \A u \in Sends \ {t} : send'[u] = send[u]
         /\ send'[t] \in SendsUnderWay \/ (send'[t] = "idle" /\ \E o \in Outcomes : TryIfEnded(t, o))
         /\ tried \subseteq tried'
  BY DEF TypeOK, Dialled, DialRefused, Sending, DialOpens, DialFails, SendEnds, SendSucceeds,
         SendThrows, ResendThrows, Step, SendsUnderWay, Try, TryIfEnded, Outcomes

\* Nobody is left out by any step.
LEMMA AskedInductive ==
  ASSUME ExchangeTypeOK, EveryPeerAsked, [ExchangeNext]_allVars,
         NEW v \in Wants, NEW q \in Peers, Pending(v)', link'[q] = "identified"
  PROVE  Asked(v, q)'
  <1> USE ExchangeAssumption
  <1>0. Pending(v) /\ link[q] = "identified" => Asked(v, q)
    BY DEF EveryPeerAsked, Asked, Outcomes
  <1>1. ASSUME NEW w \in Wants, Want(w)
        PROVE  Asked(v, q)'
    <2> DEFINE S == {t \in Sends : /\ t[1] = w /\ t[3] = "broadcast"
                                   /\ Linked(t[2]) /\ t[2] \notin unsupported}
    <2>1. Start(S) /\ tried \subseteq tried' /\ link[q] = "identified"
      BY <1>1 DEF Want
    <2>2. CASE v # w
      BY <1>0, <1>1, <2>1, <2>2, StartStarts, AskedStays DEF Want, Pending, ExchangeTypeOK
    <2>3. CASE v = w /\ q \in unsupported
      BY <1>1, <2>1, <2>3 DEF Want, Linked, Asked, Outcomes
    <2>4. CASE v = w /\ q \notin unsupported
      <3>1. <<v, q, "broadcast">> \in S
        BY <2>1, <2>4 DEF Linked
      <3> QED
        BY <2>1, <3>1, StartStarts DEF Asked, UnderWay
    <2> QED
      BY <2>2, <2>3, <2>4
  <1>2. ASSUME NEW w \in Wants, WantEnds(w)
        PROVE  Asked(v, q)'
    BY <1>0, <1>2 DEF WantEnds, Pending, ExchangeTypeOK, Asked, UnderWay, vars, sendVars
  <1>3. ASSUME NEW p \in Peers, Connect(p)
        PROVE  Asked(v, q)'
    BY <1>0, <1>3 DEF Connect, Pending, ExchangeTypeOK, Asked, UnderWay, vars, sendVars
  <1>4. ASSUME NEW p \in Peers, OnConnect(p)
        PROVE  Asked(v, q)'
    <2> DEFINE S == {t \in Sends : t[2] = p /\ t[3] = "connect" /\ Pending(t[1])}
    <2>0. Pending(v) /\ (p # q => link[q] = "identified") /\ link[p] = "connected"
      BY <1>4 DEF OnConnect, Pending, ExchangeTypeOK
    <2>1. CASE p \in unsupported
      <3>1. UNCHANGED vars /\ Try(Wants \X {p} \X {"unsupported"})
        BY <1>4, <2>1 DEF OnConnect
      <3>2. CASE p = q
        BY <2>0, <3>1, <3>2 DEF Try, Linked, Asked, Outcomes
      <3>3. CASE p # q
        BY <1>0, <2>0, <3>1, <3>3, AskedStays DEF Try, vars, sendVars
      <3> QED
        BY <3>2, <3>3
    <2>2. CASE p \notin unsupported
      <3>1. Start(S) /\ UNCHANGED tried
        BY <1>4, <2>2 DEF OnConnect
      <3>2. CASE p = q
        <4>1. <<v, q, "connect">> \in S
          BY <2>0, <3>2
        <4> QED
          BY <3>1, <4>1, StartStarts DEF Asked, UnderWay
      <3>3. CASE p # q
        BY <1>0, <2>0, <3>1, <3>3, StartStarts, AskedStays
      <3> QED
        BY <3>2, <3>3
    <2> QED
      BY <2>1, <2>2
  <1>5. ASSUME NEW p \in Peers, Lost(p)
        PROVE  Asked(v, q)'
    <2>1. UNCHANGED send
      BY <1>5 DEF Lost, Disconnect, Reset, sendVars
    <2>2. p # q /\ link[q] = "identified" /\ Pending(v)
      BY <1>5 DEF Lost, ExchangeTypeOK, Pending
    <2>3. \A o \in Outcomes : <<v, q, o>> \in tried => <<v, q, o>> \in tried'
      BY <1>5, <2>2 DEF Lost
    <2> QED
      BY <1>0, <2>1, <2>2, <2>3 DEF Asked, UnderWay
  <1>6. ASSUME NEW t \in Sends, Dialled(t) \/ DialRefused(t) \/ Sending(t)
        PROVE  Asked(v, q)'
    <2>1. link[q] = "identified" /\ Pending(v)
      BY <1>6 DEF Dialled, DialRefused, Sending, ExchangeTypeOK, Pending
    <2>2. TypeOK
      BY DEF ExchangeTypeOK
    <2>3. CASE send'[t] \in SendsUnderWay
      BY <1>0, <1>6, <2>1, <2>2, <2>3, SendStep, AskedStays
    <2>4. CASE send'[t] = "idle" /\ \E o \in Outcomes : TryIfEnded(t, o)
      <3>1. CASE t[1] = v /\ t[2] = q
        BY <2>1, <2>4, <3>1 DEF TryIfEnded, Try, Linked, Asked
      <3>2. CASE ~(t[1] = v /\ t[2] = q)
        BY <1>0, <1>6, <2>1, <2>2, <3>2, SendStep DEF Asked, UnderWay
      <3> QED
        BY <3>1, <3>2
    <2> QED
      BY <1>6, <2>2, <2>3, <2>4, SendStep
  <1>7. ASSUME NEW s \in Streams, StreamArrives(s) \/ StreamChanges(s)
        PROVE  Asked(v, q)'
    <2>1. UNCHANGED <<want, link, tried, send>>
      BY <1>7 DEF StreamArrives, StreamChanges, exchangeVars, Inbound, ReadEnds, HalfClose, Reset, sendVars
    <2> QED
      BY <1>0, <2>1 DEF Asked, UnderWay, Pending
  <1>8. CASE ForgetUnsupported
    BY <1>0, <1>8 DEF ForgetUnsupported, ClearUnsupportedPeers, exchangeVars, sendVars, Asked, UnderWay, Pending
  <1>9. CASE StopExchange
    BY <1>9 DEF StopExchange, Pending
  <1>10. CASE UNCHANGED allVars
    BY <1>0, <1>10 DEF allVars, vars, exchangeVars, sendVars, Asked, UnderWay, Pending
  <1> QED
    BY <1>1, <1>2, <1>3, <1>4, <1>5, <1>6, <1>7, <1>8, <1>9, <1>10 DEF ExchangeNext

\* Of every pending want and identified peer, the peer is being told, or was told,
\* or a send to it failed twice, or it was known not to speak bitswap, since its
\* connection was made: it is never simply left out.
THEOREM NobodyIsOverlooked == ExchangeSpec => []EveryPeerAsked
  <1>1. ExchangeInit => EveryPeerAsked
    BY DEF ExchangeInit, EveryPeerAsked, Pending
  <1>2. ExchangeTypeOK /\ EveryPeerAsked /\ [ExchangeNext]_allVars => EveryPeerAsked'
    BY AskedInductive DEF EveryPeerAsked, Asked, Outcomes
  <1> QED
    BY <1>1, <1>2, ExchangeTypes, PTL DEF ExchangeSpec

\* What the pool promises holds while wants, connections and stop() drive it.
THEOREM StreamsStaySound ==
    ExchangeSpec => [](PooledStreamsServe /\ NoDeafStream /\ NothingInboundAfterStop)
  BY ImplementsPool, PoolServes, NobodyIsDeaf, StoppedStaysPrivate, PTL
=============================================================================
