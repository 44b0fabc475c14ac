---------------------------- MODULE WantsProofs ----------------------------
(***************************************************************************)
(* Proofs about Wants, for any calls, CIDs, signals and activations: the   *)
(* safety invariants of the map of pending wants, and that the module      *)
(* implements WantService.                                                 *)
(***************************************************************************)
EXTENDS Wants, TLAPS

Answering == {"put", "settle"}

(***************************************************************************)
(* The inductive invariant.  Besides the invariants themselves it says to  *)
(* whom an owned deferred belongs, what an activation has in work, and     *)
(* that only calls already made listen to their signals.                   *)
(***************************************************************************)

OwnersOK ==
  \A c \in Calls : owner[c] # NoCall =>
    /\ owner[owner[c]] = owner[c]
    /\ deferred[owner[c]] # "none"
    /\ CidOf[owner[c]] = CidOf[c]

CreatorsOK ==
  \A c \in Calls : deferred[c] # "none" => owner[c] = c

ListenersOK == \A c \in listening : owner[c] = c

ActivationsOK ==
  \A h \in Handlers :
    /\ phase[h] # "idle" => todo[h] # <<>>
    /\ phase[h] \in Answering =>
         /\ holding[h] \in Calls
         /\ owner[holding[h]] = holding[h]
         /\ CidOf[holding[h]] = Head(todo[h])
         /\ Head(todo[h]) \in arrived
    /\ phase[h] = "settle" => Head(todo[h]) \in stored \/ holding[h] \in putFailed

IInv ==
  /\ TypeOK
  /\ PendingIsLive
  /\ OneAnswerer
  /\ OwnersOK
  /\ CreatorsOK
  /\ ListenersOK
  /\ ActivationsOK
  /\ AbortIsFinal
  /\ OrphanedByAbort
  /\ StoredBeforeResolved

-----------------------------------------------------------------------------
\* The tail of a nonempty message, and its head, are what TypeOK says they are.
LEMMA NonEmptyMessage ==
  ASSUME NEW q \in Seq(Cids), q # <<>>
  PROVE  Head(q) \in Cids /\ Tail(q) \in Seq(Cids)
  OBVIOUS

\* The messages a peer may send are nonempty sequences of CIDs.
LEMMA MessagesAreSeqs ==
  ASSUME NEW m \in Messages
  PROVE  m \in Seq(Cids)
  <1>1. PICK n \in 1..MaxBlocks : m \in [1..n -> Cids]
    BY DEF Messages
  <1>2. n \in Nat
    BY WantsAssumption
  <1> QED
    BY <1>1, <1>2

\* Every step keeps the type invariant.
LEMMA TypeInductive ==
  ASSUME IInv, [Next]_vars
  PROVE  TypeOK'
  <1> USE WantsAssumption DEF bitswapVars, callVars, handlerVars, storeVars
  <1>0. TypeOK /\ ActivationsOK
    BY DEF IInv
  <1>1. ASSUME NEW c \in Calls, Coalesce(c)
        PROVE  TypeOK'
    BY <1>0, <1>1 DEF TypeOK, DeferredStates, Phases, Coalesce
  <1>2. ASSUME NEW c \in Calls, Register(c)
        PROVE  TypeOK'
    BY <1>0, <1>2 DEF TypeOK, DeferredStates, Phases, Register
  <1>3. ASSUME NEW s \in Signals, Abort(s)
        PROVE  TypeOK'
    BY <1>0, <1>3 DEF TypeOK, DeferredStates, Phases, Abort, Forget, Settle
  <1>4. ASSUME NEW h \in Handlers, NEW m \in Messages, ReceiveMessage(h, m)
        PROVE  TypeOK'
    BY <1>0, <1>4, MessagesAreSeqs DEF TypeOK, DeferredStates, Phases, ReceiveMessage
  <1>5. ASSUME NEW h \in Handlers, TakeWanted(h)
        PROVE  TypeOK'
    <2>1. Head(todo[h]) \in Cids
      BY <1>0, <1>5, NonEmptyMessage DEF TypeOK, ActivationsOK, TakeWanted
    <2> QED
      BY <1>0, <1>5, <2>1 DEF TypeOK, DeferredStates, Phases, TakeWanted, Forget
  <1>6. ASSUME NEW h \in Handlers, SkipUnwanted(h)
        PROVE  TypeOK'
    <2>1. Tail(todo[h]) \in Seq(Cids)
      BY <1>0, <1>6, NonEmptyMessage DEF TypeOK, ActivationsOK, SkipUnwanted
    <2> QED
      BY <1>0, <1>6, <2>1 DEF TypeOK, DeferredStates, Phases, SkipUnwanted, NextBlock
  <1>7. ASSUME NEW h \in Handlers, NEW ok \in BOOLEAN, Put(h, ok)
        PROVE  TypeOK'
    <2>1. Head(todo[h]) \in Cids /\ holding[h] \in Calls
      BY <1>0, <1>7, NonEmptyMessage DEF TypeOK, ActivationsOK, Answering, Put
    <2> QED
      BY <1>0, <1>7, <2>1 DEF TypeOK, DeferredStates, Phases, Put
  <1>8. ASSUME NEW h \in Handlers, Resolve(h)
        PROVE  TypeOK'
    <2>1. Tail(todo[h]) \in Seq(Cids)
      BY <1>0, <1>8, NonEmptyMessage DEF TypeOK, ActivationsOK, Resolve
    <2> QED
      BY <1>0, <1>8, <2>1 DEF TypeOK, DeferredStates, Phases, Resolve, NextBlock, Settle
  <1>9. CASE Stop
    BY <1>0, <1>9 DEF TypeOK, DeferredStates, Phases, Stop, Forget, Settle
  <1>10. CASE UNCHANGED vars
    BY <1>0, <1>10 DEF TypeOK, DeferredStates, Phases, vars
  <1> QED
    BY <1>1, <1>2, <1>3, <1>4, <1>5, <1>6, <1>7, <1>8, <1>9, <1>10 DEF Next, Want, HandlerStep

\* Entries of the map belong to open wants for their CID, before and after.
LEMMA PendingInductive ==
  ASSUME IInv, [Next]_vars
  PROVE  PendingIsLive'
  <1> USE WantsAssumption DEF bitswapVars, callVars, handlerVars, storeVars
  <1>0. TypeOK /\ PendingIsLive /\ OneAnswerer /\ ActivationsOK
    BY DEF IInv
  <1>1. ASSUME NEW c \in Calls, Coalesce(c)
        PROVE  PendingIsLive'
    BY <1>0, <1>1 DEF TypeOK, PendingIsLive, OneAnswerer, Coalesce
  <1>2. ASSUME NEW c \in Calls, Register(c)
        PROVE  PendingIsLive'
    BY <1>0, <1>2 DEF TypeOK, PendingIsLive, OneAnswerer, Register
  <1>3. ASSUME NEW s \in Signals, Abort(s)
        PROVE  PendingIsLive'
    BY <1>0, <1>3 DEF TypeOK, PendingIsLive, OneAnswerer, Abort, Forget, Settle
  <1>4. ASSUME NEW h \in Handlers, NEW m \in Messages, ReceiveMessage(h, m)
        PROVE  PendingIsLive'
    BY <1>0, <1>4 DEF TypeOK, PendingIsLive, OneAnswerer, ReceiveMessage
  <1>5. ASSUME NEW h \in Handlers, TakeWanted(h)
        PROVE  PendingIsLive'
    BY <1>0, <1>5 DEF TypeOK, PendingIsLive, OneAnswerer, TakeWanted, Forget
  <1>6. ASSUME NEW h \in Handlers, SkipUnwanted(h)
        PROVE  PendingIsLive'
    BY <1>0, <1>6 DEF TypeOK, PendingIsLive, OneAnswerer, SkipUnwanted, NextBlock
  <1>7. ASSUME NEW h \in Handlers, NEW ok \in BOOLEAN, Put(h, ok)
        PROVE  PendingIsLive'
    BY <1>0, <1>7 DEF TypeOK, PendingIsLive, OneAnswerer, Put
  <1>8. ASSUME NEW h \in Handlers, Resolve(h)
        PROVE  PendingIsLive'
    BY <1>0, <1>8 DEF TypeOK, PendingIsLive, OneAnswerer, Resolve, NextBlock, Settle
  <1>9. CASE Stop
    BY <1>0, <1>9 DEF TypeOK, PendingIsLive, OneAnswerer, Stop, Forget, Settle
  <1>10. CASE UNCHANGED vars
    BY <1>0, <1>10 DEF TypeOK, PendingIsLive, OneAnswerer, vars
  <1> QED
    BY <1>1, <1>2, <1>3, <1>4, <1>5, <1>6, <1>7, <1>8, <1>9, <1>10 DEF Next, Want, HandlerStep

\* No want is answered twice.
LEMMA AnswererInductive ==
  ASSUME IInv, [Next]_vars
  PROVE  OneAnswerer'
  <1> USE WantsAssumption DEF bitswapVars, callVars, handlerVars, storeVars
  <1>0. TypeOK /\ PendingIsLive /\ OneAnswerer /\ ActivationsOK
    BY DEF IInv
  <1>1. ASSUME NEW c \in Calls, Coalesce(c)
        PROVE  OneAnswerer'
    BY <1>0, <1>1 DEF TypeOK, PendingIsLive, OneAnswerer, ActivationsOK, Answering, Coalesce
  <1>2. ASSUME NEW c \in Calls, Register(c)
        PROVE  OneAnswerer'
    BY <1>0, <1>2 DEF TypeOK, PendingIsLive, OneAnswerer, ActivationsOK, Answering, Register
  <1>3. ASSUME NEW s \in Signals, Abort(s)
        PROVE  OneAnswerer'
    BY <1>0, <1>3 DEF TypeOK, PendingIsLive, OneAnswerer, ActivationsOK, Answering, Abort, Forget, Settle
  <1>4. ASSUME NEW h \in Handlers, NEW m \in Messages, ReceiveMessage(h, m)
        PROVE  OneAnswerer'
    BY <1>0, <1>4 DEF TypeOK, PendingIsLive, OneAnswerer, ActivationsOK, Answering, ReceiveMessage
  <1>5. ASSUME NEW h \in Handlers, TakeWanted(h)
        PROVE  OneAnswerer'
    BY <1>0, <1>5 DEF TypeOK, PendingIsLive, OneAnswerer, ActivationsOK, Answering, TakeWanted, Forget
  <1>6. ASSUME NEW h \in Handlers, SkipUnwanted(h)
        PROVE  OneAnswerer'
    BY <1>0, <1>6 DEF TypeOK, PendingIsLive, OneAnswerer, ActivationsOK, Answering, SkipUnwanted, NextBlock
  <1>7. ASSUME NEW h \in Handlers, NEW ok \in BOOLEAN, Put(h, ok)
        PROVE  OneAnswerer'
    BY <1>0, <1>7 DEF TypeOK, PendingIsLive, OneAnswerer, ActivationsOK, Answering, Put
  <1>8. ASSUME NEW h \in Handlers, Resolve(h)
        PROVE  OneAnswerer'
    BY <1>0, <1>8 DEF TypeOK, PendingIsLive, OneAnswerer, ActivationsOK, Answering, Resolve, NextBlock, Settle
  <1>9. CASE Stop
    BY <1>0, <1>9 DEF TypeOK, PendingIsLive, OneAnswerer, ActivationsOK, Answering, Stop, Forget, Settle
  <1>10. CASE UNCHANGED vars
    BY <1>0, <1>10 DEF TypeOK, PendingIsLive, OneAnswerer, ActivationsOK, Answering, vars
  <1> QED
    BY <1>1, <1>2, <1>3, <1>4, <1>5, <1>6, <1>7, <1>8, <1>9, <1>10 DEF Next, Want, HandlerStep

\* Ownership of deferreds.
LEMMA OwnersInductive ==
  ASSUME IInv, [Next]_vars
  PROVE  (OwnersOK /\ CreatorsOK /\ ListenersOK)'
  <1> USE WantsAssumption DEF bitswapVars, callVars, handlerVars, storeVars
  <1>0. TypeOK /\ PendingIsLive /\ OwnersOK /\ CreatorsOK /\ ListenersOK
    BY DEF IInv
  <1>1. ASSUME NEW c \in Calls, Coalesce(c)
        PROVE  (OwnersOK /\ CreatorsOK /\ ListenersOK)'
    BY <1>0, <1>1 DEF TypeOK, PendingIsLive, OwnersOK, CreatorsOK, ListenersOK, Coalesce
  <1>2. ASSUME NEW c \in Calls, Register(c)
        PROVE  (OwnersOK /\ CreatorsOK /\ ListenersOK)'
    BY <1>0, <1>2 DEF TypeOK, PendingIsLive, OwnersOK, CreatorsOK, ListenersOK, Register
  <1>3. ASSUME NEW s \in Signals, Abort(s)
        PROVE  (OwnersOK /\ CreatorsOK /\ ListenersOK)'
    BY <1>0, <1>3 DEF TypeOK, PendingIsLive, OwnersOK, CreatorsOK, ListenersOK, Abort, Forget, Settle
  <1>4. ASSUME NEW h \in Handlers, NEW m \in Messages, ReceiveMessage(h, m)
        PROVE  (OwnersOK /\ CreatorsOK /\ ListenersOK)'
    BY <1>0, <1>4 DEF TypeOK, PendingIsLive, OwnersOK, CreatorsOK, ListenersOK, ReceiveMessage
  <1>5. ASSUME NEW h \in Handlers, TakeWanted(h)
        PROVE  (OwnersOK /\ CreatorsOK /\ ListenersOK)'
    BY <1>0, <1>5 DEF TypeOK, PendingIsLive, OwnersOK, CreatorsOK, ListenersOK, TakeWanted, Forget
  <1>6. ASSUME NEW h \in Handlers, SkipUnwanted(h)
        PROVE  (OwnersOK /\ CreatorsOK /\ ListenersOK)'
    BY <1>0, <1>6 DEF TypeOK, PendingIsLive, OwnersOK, CreatorsOK, ListenersOK, SkipUnwanted, NextBlock
  <1>7. ASSUME NEW h \in Handlers, NEW ok \in BOOLEAN, Put(h, ok)
        PROVE  (OwnersOK /\ CreatorsOK /\ ListenersOK)'
    BY <1>0, <1>7 DEF TypeOK, PendingIsLive, OwnersOK, CreatorsOK, ListenersOK, Put
  <1>8. ASSUME NEW h \in Handlers, Resolve(h)
        PROVE  (OwnersOK /\ CreatorsOK /\ ListenersOK)'
    BY <1>0, <1>8 DEF TypeOK, PendingIsLive, OwnersOK, CreatorsOK, ListenersOK, Resolve, NextBlock, Settle
  <1>9. CASE Stop
    BY <1>0, <1>9 DEF TypeOK, PendingIsLive, OwnersOK, CreatorsOK, ListenersOK, Stop, Forget, Settle
  <1>10. CASE UNCHANGED vars
    BY <1>0, <1>10 DEF TypeOK, PendingIsLive, OwnersOK, CreatorsOK, ListenersOK, vars
  <1> QED
    BY <1>1, <1>2, <1>3, <1>4, <1>5, <1>6, <1>7, <1>8, <1>9, <1>10 DEF Next, Want, HandlerStep

\* What an activation of the message handler has in work.
LEMMA ActivationsInductive ==
  ASSUME IInv, [Next]_vars
  PROVE  ActivationsOK'
  <1> USE WantsAssumption DEF bitswapVars, callVars, handlerVars, storeVars
  <1>0. TypeOK /\ PendingIsLive /\ ActivationsOK
    BY DEF IInv
  <1>1. ASSUME NEW c \in Calls, Coalesce(c)
        PROVE  ActivationsOK'
    BY <1>0, <1>1 DEF TypeOK, PendingIsLive, ActivationsOK, Answering, Coalesce
  <1>2. ASSUME NEW c \in Calls, Register(c)
        PROVE  ActivationsOK'
    BY <1>0, <1>2 DEF TypeOK, PendingIsLive, ActivationsOK, Answering, Register
  <1>3. ASSUME NEW s \in Signals, Abort(s)
        PROVE  ActivationsOK'
    BY <1>0, <1>3 DEF TypeOK, PendingIsLive, ActivationsOK, Answering, Abort, Forget, Settle
  <1>4. ASSUME NEW h \in Handlers, NEW m \in Messages, ReceiveMessage(h, m)
        PROVE  ActivationsOK'
    BY <1>0, <1>4 DEF TypeOK, PendingIsLive, ActivationsOK, Answering, ReceiveMessage
  <1>5. ASSUME NEW h \in Handlers, TakeWanted(h)
        PROVE  ActivationsOK'
    BY <1>0, <1>5 DEF TypeOK, PendingIsLive, ActivationsOK, Answering, TakeWanted, Forget
  <1>6. ASSUME NEW h \in Handlers, SkipUnwanted(h)
        PROVE  ActivationsOK'
    BY <1>0, <1>6 DEF TypeOK, PendingIsLive, ActivationsOK, Answering, SkipUnwanted, NextBlock
  <1>7. ASSUME NEW h \in Handlers, NEW ok \in BOOLEAN, Put(h, ok)
        PROVE  ActivationsOK'
    BY <1>0, <1>7 DEF TypeOK, PendingIsLive, ActivationsOK, Answering, Put
  <1>8. ASSUME NEW h \in Handlers, Resolve(h)
        PROVE  ActivationsOK'
    BY <1>0, <1>8 DEF TypeOK, PendingIsLive, ActivationsOK, Answering, Resolve, NextBlock, Settle
  <1>9. CASE Stop
    BY <1>0, <1>9 DEF TypeOK, PendingIsLive, ActivationsOK, Answering, Stop, Forget, Settle
  <1>10. CASE UNCHANGED vars
    BY <1>0, <1>10 DEF TypeOK, PendingIsLive, ActivationsOK, Answering, vars
  <1> QED
    BY <1>1, <1>2, <1>3, <1>4, <1>5, <1>6, <1>7, <1>8, <1>9, <1>10 DEF Next, Want, HandlerStep

\* A fired signal leaves none of its listeners open.
LEMMA AbortInductive ==
  ASSUME IInv, [Next]_vars
  PROVE  AbortIsFinal'
  <1> USE WantsAssumption DEF bitswapVars, callVars, handlerVars, storeVars
  <1>0. TypeOK /\ ListenersOK /\ AbortIsFinal
    BY DEF IInv
  <1>1. ASSUME NEW c \in Calls, Coalesce(c)
        PROVE  AbortIsFinal'
    BY <1>0, <1>1 DEF TypeOK, ListenersOK, AbortIsFinal, Coalesce
  <1>2. ASSUME NEW c \in Calls, Register(c)
        PROVE  AbortIsFinal'
    BY <1>0, <1>2 DEF TypeOK, ListenersOK, AbortIsFinal, Register
  <1>3. ASSUME NEW s \in Signals, Abort(s)
        PROVE  AbortIsFinal'
    BY <1>0, <1>3 DEF TypeOK, ListenersOK, AbortIsFinal, Abort, Forget, Settle
  <1>4. ASSUME NEW h \in Handlers, NEW m \in Messages, ReceiveMessage(h, m)
        PROVE  AbortIsFinal'
    BY <1>0, <1>4 DEF TypeOK, ListenersOK, AbortIsFinal, ReceiveMessage
  <1>5. ASSUME NEW h \in Handlers, TakeWanted(h)
        PROVE  AbortIsFinal'
    BY <1>0, <1>5 DEF TypeOK, ListenersOK, AbortIsFinal, TakeWanted, Forget
  <1>6. ASSUME NEW h \in Handlers, SkipUnwanted(h)
        PROVE  AbortIsFinal'
    BY <1>0, <1>6 DEF TypeOK, ListenersOK, AbortIsFinal, SkipUnwanted, NextBlock
  <1>7. ASSUME NEW h \in Handlers, NEW ok \in BOOLEAN, Put(h, ok)
        PROVE  AbortIsFinal'
    BY <1>0, <1>7 DEF TypeOK, ListenersOK, AbortIsFinal, Put
  <1>8. ASSUME NEW h \in Handlers, Resolve(h)
        PROVE  AbortIsFinal'
    BY <1>0, <1>8 DEF TypeOK, ListenersOK, AbortIsFinal, Resolve, NextBlock, Settle
  <1>9. CASE Stop
    BY <1>0, <1>9 DEF TypeOK, ListenersOK, AbortIsFinal, Stop, Forget, Settle
  <1>10. CASE UNCHANGED vars
    BY <1>0, <1>10 DEF TypeOK, ListenersOK, AbortIsFinal, vars
  <1> QED
    BY <1>1, <1>2, <1>3, <1>4, <1>5, <1>6, <1>7, <1>8, <1>9, <1>10 DEF Next, Want, HandlerStep

\* Only the abort of another call for the same CID takes an entry away.
LEMMA OrphanInductive ==
  ASSUME IInv, [Next]_vars
  PROVE  OrphanedByAbort'
  <1> USE WantsAssumption DEF bitswapVars, callVars, handlerVars, storeVars
  <1>0. TypeOK /\ PendingIsLive /\ ActivationsOK /\ CreatorsOK /\ OrphanedByAbort
    BY DEF IInv
  <1>1. ASSUME NEW c \in Calls, Coalesce(c)
        PROVE  OrphanedByAbort'
    BY <1>0, <1>1 DEF TypeOK, PendingIsLive, OrphanedByAbort, Orphan, Held, Coalesce
  <1>2. ASSUME NEW c \in Calls, Register(c)
        PROVE  OrphanedByAbort'
    BY <1>0, <1>2 DEF TypeOK, PendingIsLive, OrphanedByAbort, Orphan, Held, Register
  <1>3. ASSUME NEW s \in Signals, Abort(s)
        PROVE  OrphanedByAbort'
    <2> SUFFICES ASSUME NEW c \in Calls, Orphan(c)'
                 PROVE  \E d \in listening' \ {c} :
                          CidOf[d] = CidOf[c] /\ SignalOf[d] \in aborted'
      BY DEF OrphanedByAbort
    <2> DEFINE fired == {d \in listening : SignalOf[d] = s}
    <2>1. listening' = listening /\ aborted \subseteq aborted' /\ s \in aborted'
      BY <1>3 DEF Abort
    <2>2. deferred[c] = "live" /\ c \notin fired /\ ~Held(c)
      BY <1>0, <1>3 DEF TypeOK, Orphan, Held, Abort, Settle
    <2>3. CASE Orphan(c)
      BY <1>0, <2>1, <2>3 DEF OrphanedByAbort
    <2>4. CASE ~Orphan(c)
      <3>1. pending[CidOf[c]] = c /\ pending'[CidOf[c]] # c
        BY <2>2, <2>4 DEF Orphan
      <3>2. \E d \in fired : CidOf[d] = CidOf[c]
        BY <1>0, <1>3, <3>1 DEF TypeOK, Abort, Forget
      <3> QED
        BY <2>1, <2>2, <3>2
    <2> QED
      BY <2>3, <2>4
  <1>4. ASSUME NEW h \in Handlers, NEW m \in Messages, ReceiveMessage(h, m)
        PROVE  OrphanedByAbort'
    BY <1>0, <1>4 DEF TypeOK, PendingIsLive, OrphanedByAbort, Orphan, Held, ReceiveMessage
  <1>5. ASSUME NEW h \in Handlers, TakeWanted(h)
        PROVE  OrphanedByAbort'
    <2> SUFFICES ASSUME NEW c \in Calls, Orphan(c)'
                 PROVE  Orphan(c)
      BY <1>0, <1>5 DEF OrphanedByAbort, TakeWanted
    <2>1. Head(todo[h]) \in Cids
      BY <1>0, <1>5, NonEmptyMessage DEF TypeOK, ActivationsOK, TakeWanted
    <2>2. pending[CidOf[c]] # c
      <3> SUFFICES ASSUME pending[CidOf[c]] = c
                   PROVE  FALSE
        OBVIOUS
      <3>1. Head(todo[h]) = CidOf[c]
        BY <1>0, <1>5, <2>1 DEF TypeOK, TakeWanted, Forget, Orphan
      <3>2. holding'[h] = c /\ phase'[h] = "put"
        BY <1>0, <1>5, <3>1 DEF TypeOK, TakeWanted
      <3> QED
        BY <3>2 DEF Orphan, Held
    <2>3. ~Held(c)
      BY <1>0, <1>5 DEF TypeOK, TakeWanted, Orphan, Held
    <2> QED
      BY <1>5, <2>2, <2>3 DEF TakeWanted, Orphan
  <1>6. ASSUME NEW h \in Handlers, SkipUnwanted(h)
        PROVE  OrphanedByAbort'
    BY <1>0, <1>6 DEF TypeOK, PendingIsLive, OrphanedByAbort, Orphan, Held, SkipUnwanted, NextBlock
  <1>7. ASSUME NEW h \in Handlers, NEW ok \in BOOLEAN, Put(h, ok)
        PROVE  OrphanedByAbort'
    BY <1>0, <1>7 DEF TypeOK, PendingIsLive, OrphanedByAbort, Orphan, Held, Put
  <1>8. ASSUME NEW h \in Handlers, Resolve(h)
        PROVE  OrphanedByAbort'
    BY <1>0, <1>8 DEF TypeOK, PendingIsLive, OrphanedByAbort, Orphan, Held, Resolve, NextBlock, Settle
  <1>9. CASE Stop
    BY <1>0, <1>9, SMTT(20) DEF TypeOK, PendingIsLive, OrphanedByAbort, Orphan, Held, Stop, Forget, Settle
  <1>10. CASE UNCHANGED vars
    BY <1>0, <1>10 DEF TypeOK, PendingIsLive, OrphanedByAbort, Orphan, Held, vars
  <1> QED
    BY <1>1, <1>2, <1>3, <1>4, <1>5, <1>6, <1>7, <1>8, <1>9, <1>10 DEF Next, Want, HandlerStep

\* A want is resolved when its block is stored or refused.
LEMMA StoredInductive ==
  ASSUME IInv, [Next]_vars
  PROVE  StoredBeforeResolved'
  <1> USE WantsAssumption DEF bitswapVars, callVars, handlerVars, storeVars
  <1>0. TypeOK /\ ActivationsOK /\ StoredBeforeResolved
    BY DEF IInv
  <1>1. ASSUME NEW c \in Calls, Coalesce(c)
        PROVE  StoredBeforeResolved'
    BY <1>0, <1>1 DEF TypeOK, ActivationsOK, Answering, StoredBeforeResolved, Coalesce
  <1>2. ASSUME NEW c \in Calls, Register(c)
        PROVE  StoredBeforeResolved'
    BY <1>0, <1>2 DEF TypeOK, ActivationsOK, Answering, StoredBeforeResolved, Register
  <1>3. ASSUME NEW s \in Signals, Abort(s)
        PROVE  StoredBeforeResolved'
    BY <1>0, <1>3 DEF TypeOK, ActivationsOK, Answering, StoredBeforeResolved, Abort, Forget, Settle
  <1>4. ASSUME NEW h \in Handlers, NEW m \in Messages, ReceiveMessage(h, m)
        PROVE  StoredBeforeResolved'
    BY <1>0, <1>4 DEF TypeOK, ActivationsOK, Answering, StoredBeforeResolved, ReceiveMessage
  <1>5. ASSUME NEW h \in Handlers, TakeWanted(h)
        PROVE  StoredBeforeResolved'
    BY <1>0, <1>5 DEF TypeOK, ActivationsOK, Answering, StoredBeforeResolved, TakeWanted, Forget
  <1>6. ASSUME NEW h \in Handlers, SkipUnwanted(h)
        PROVE  StoredBeforeResolved'
    BY <1>0, <1>6 DEF TypeOK, ActivationsOK, Answering, StoredBeforeResolved, SkipUnwanted, NextBlock
  <1>7. ASSUME NEW h \in Handlers, NEW ok \in BOOLEAN, Put(h, ok)
        PROVE  StoredBeforeResolved'
    BY <1>0, <1>7 DEF TypeOK, ActivationsOK, Answering, StoredBeforeResolved, Put
  <1>8. ASSUME NEW h \in Handlers, Resolve(h)
        PROVE  StoredBeforeResolved'
    BY <1>0, <1>8 DEF TypeOK, ActivationsOK, Answering, StoredBeforeResolved, Resolve, NextBlock, Settle
  <1>9. CASE Stop
    BY <1>0, <1>9 DEF TypeOK, ActivationsOK, Answering, StoredBeforeResolved, Stop, Forget, Settle
  <1>10. CASE UNCHANGED vars
    BY <1>0, <1>10 DEF TypeOK, ActivationsOK, Answering, StoredBeforeResolved, vars
  <1> QED
    BY <1>1, <1>2, <1>3, <1>4, <1>5, <1>6, <1>7, <1>8, <1>9, <1>10 DEF Next, Want, HandlerStep

-----------------------------------------------------------------------------
\* The inductive invariant holds in every state of every behaviour.
THEOREM Invariance == Spec => []IInv
  <1>1. Init => IInv
    <2> SUFFICES ASSUME Init
                 PROVE  IInv
      OBVIOUS
    <2>0. <<>> \in Seq(Cids)
      OBVIOUS
    <2>1. TypeOK
      BY <2>0, WantsAssumption DEF Init, StartOver, TypeOK, DeferredStates, Phases
    <2>2. PendingIsLive /\ OneAnswerer /\ ActivationsOK
      BY WantsAssumption DEF Init, StartOver, PendingIsLive, OneAnswerer, ActivationsOK, Answering
    <2>3. OwnersOK /\ CreatorsOK /\ ListenersOK
      BY WantsAssumption DEF Init, StartOver, OwnersOK, CreatorsOK, ListenersOK
    <2>4. AbortIsFinal /\ OrphanedByAbort /\ StoredBeforeResolved
      BY WantsAssumption
         DEF Init, StartOver, AbortIsFinal, OrphanedByAbort, Orphan, StoredBeforeResolved
    <2> QED
      BY <2>1, <2>2, <2>3, <2>4 DEF IInv
  <1>2. IInv /\ [Next]_vars => IInv'
    BY TypeInductive, PendingInductive, AnswererInductive, OwnersInductive,
       ActivationsInductive, AbortInductive, OrphanInductive, StoredInductive
       DEF IInv
  <1> QED
    BY <1>1, <1>2, PTL DEF Spec

\* The variables of SimpleBitswap always have their types.
THEOREM TypeCorrect == Spec => []TypeOK
  <1>1. IInv => TypeOK
    BY DEF IInv
  <1> QED
    BY <1>1, Invariance, PTL

\* Nobody ever coalesces onto a settled promise, or onto one for another CID.
THEOREM PendingWantsAreLive == Spec => []PendingIsLive
  <1>1. IInv => PendingIsLive
    BY DEF IInv
  <1> QED
    BY <1>1, Invariance, PTL

\* Copies of a block that arrive together answer a want once.
THEOREM OneAnswererPerWant == Spec => []OneAnswerer
  <1>1. IInv => OneAnswerer
    BY DEF IInv
  <1> QED
    BY <1>1, Invariance, PTL

\* No promise stays open after the signal it listens to has fired.
THEOREM AbortsAreFinal == Spec => []AbortIsFinal
  <1>1. IInv => AbortIsFinal
    BY DEF IInv
  <1> QED
    BY <1>1, Invariance, PTL

\* Only the abort of another call for the same CID makes an open want deaf.
THEOREM OrphansComeFromAborts == Spec => []OrphanedByAbort
  <1>1. IInv => OrphanedByAbort
    BY DEF IInv
  <1> QED
    BY <1>1, Invariance, PTL

\* A resolved want's block is in the store, or the store refused it.
THEOREM StoredFirst == Spec => []StoredBeforeResolved
  <1>1. IInv => StoredBeforeResolved
    BY DEF IInv
  <1> QED
    BY <1>1, Invariance, PTL

-----------------------------------------------------------------------------
(***************************************************************************)
(* Wants implements WantService.  A step that settles deferreds settles    *)
(* every call following them; a step that matches a block to a want is the *)
(* block's arrival; the remaining steps are Ask or leave outcomes alone.   *)
(***************************************************************************)

Followers(S) == {c \in Calls : owner[c] \in S}

\* What a call sees, from the deferred it follows.
LEMMA OutcomeValues ==
  ASSUME IInv, NEW c \in Calls
  PROVE  /\ OutcomeOf(c) = "idle" <=> owner[c] = NoCall
         /\ OutcomeOf(c) = "waiting" <=> owner[c] # NoCall /\ deferred[owner[c]] = "live"
         /\ OutcomeOf(c) = "block" <=> owner[c] # NoCall /\ deferred[owner[c]] = "resolved"
         /\ OutcomeOf(c) = "error" <=> owner[c] # NoCall /\ deferred[owner[c]] = "rejected"
  <1>1. owner[c] # NoCall => deferred[owner[c]] \in {"live", "resolved", "rejected"}
    BY DEF IInv, TypeOK, DeferredStates, OwnersOK
  <1> QED
    BY <1>1 DEF OutcomeOf

\* Settling owned deferreds settles exactly the waiting calls that follow them.
LEMMA SettlingOutcomes ==
  ASSUME IInv, NEW S \in SUBSET Calls, NEW result \in {"resolved", "rejected"},
         Settle(S, result), UNCHANGED owner
  PROVE  LET ended == {c \in Followers(S) : OutcomeOf(c) = "waiting"}
             word == IF result = "resolved" THEN "block" ELSE "error"
         IN  \A c \in Calls : OutcomeOf(c)' = IF c \in ended THEN word ELSE OutcomeOf(c)
  <1> SUFFICES ASSUME NEW c \in Calls
               PROVE  OutcomeOf(c)' =
                        IF owner[c] \in S /\ OutcomeOf(c) = "waiting"
                        THEN IF result = "resolved" THEN "block" ELSE "error"
                        ELSE OutcomeOf(c)
    BY DEF Followers
  <1>1. CASE owner[c] = NoCall
    BY <1>1, WantsAssumption DEF OutcomeOf
  <1>2. CASE owner[c] \in Calls
    BY <1>2, WantsAssumption, OutcomeValues DEF Settle, OutcomeOf
  <1> QED
    BY <1>1, <1>2 DEF IInv, TypeOK

\* The initial states of Wants are initial states of the service.
LEMMA ServiceInit == Init => Service!Init
  BY DEF Init, StartOver, Service!Init, OutcomeOf

\* Settling owned deferreds is a step of the service: Deliver when the blocks of
\* all of them have arrived, GiveUp otherwise.
LEMMA SettlingStep ==
  ASSUME IInv, NEW S \in SUBSET Calls, NEW result \in {"resolved", "rejected"},
         Settle(S, result), UNCHANGED <<owner, arrived>>,
         result = "resolved" =>
           \E k \in Cids : k \in arrived /\ \A d \in S : owner[d] = d /\ CidOf[d] = k
  PROVE  Service!Next
  <1> DEFINE ended == {c \in Followers(S) : OutcomeOf(c) = "waiting"}
  <1>1. ended \in SUBSET Service!Waiting
    BY DEF Followers, Service!Waiting
  <1>2. CASE result = "rejected"
    <2>1. Service!GiveUp(ended)
      BY <1>2, SettlingOutcomes DEF Service!GiveUp, Service!Conclude
    <2> QED
      BY <1>1, <2>1 DEF Service!Next
  <1>3. CASE result = "resolved"
    <2>1. PICK k \in Cids : k \in arrived /\ \A d \in S : owner[d] = d /\ CidOf[d] = k
      BY <1>3
    <2>2. \A c \in ended : CidOf[c] = k
      BY <2>1, WantsAssumption DEF IInv, OwnersOK, Followers
    <2>3. Service!Deliver(k, ended)
      BY <1>3, <2>1, <2>2, SettlingOutcomes DEF Service!Deliver, Service!Conclude
    <2> QED
      BY <1>1, <2>1, <2>3 DEF Service!Next
  <1> QED
    BY <1>2, <1>3

\* A step that leaves deferreds and owners alone leaves every outcome alone.
LEMMA OutcomesUnchanged ==
  ASSUME UNCHANGED <<owner, deferred>>
  PROVE  UNCHANGED [c \in Calls |-> OutcomeOf(c)]
  BY DEF OutcomeOf

\* Every step of Wants is a step of the service, or leaves it alone.
LEMMA ServiceStep ==
  ASSUME IInv, [Next]_vars
  PROVE  [Service!Next]_(Service!vars)
  <1> USE WantsAssumption DEF bitswapVars, callVars, handlerVars, storeVars
  <1>0. TypeOK /\ PendingIsLive /\ OwnersOK /\ CreatorsOK /\ ActivationsOK
    BY DEF IInv
  <1>1. ASSUME NEW c \in Calls, Coalesce(c)
        PROVE  Service!Next
    <2>1. OutcomeOf(c) = "idle" /\ OutcomeOf(c)' = "waiting"
      BY <1>0, <1>1 DEF Coalesce, TypeOK, PendingIsLive, OutcomeOf
    <2>2. \A d \in Calls : d # c => OutcomeOf(d)' = OutcomeOf(d)
      BY <1>0, <1>1 DEF Coalesce, TypeOK, OutcomeOf
    <2>3. Service!Ask(c)
      BY <1>1, <2>1, <2>2 DEF Coalesce, Service!Ask, Service!Conclude
    <2> QED
      BY <2>3 DEF Service!Next
  <1>2. ASSUME NEW c \in Calls, Register(c)
        PROVE  Service!Next
    <2>1. OutcomeOf(c) = "idle" /\ OutcomeOf(c)' = "waiting"
      BY <1>0, <1>2 DEF Register, TypeOK, OutcomeOf
    <2>2. \A d \in Calls : d # c => OutcomeOf(d)' = OutcomeOf(d)
      <3> SUFFICES ASSUME NEW d \in Calls, d # c
                   PROVE  OutcomeOf(d)' = OutcomeOf(d)
        OBVIOUS
      <3>1. owner'[d] = owner[d]
        BY <1>0, <1>2 DEF Register, TypeOK
      <3>2. owner[d] # NoCall => owner[d] # c
        BY <1>0, <1>2 DEF Register, OwnersOK
      <3>3. owner[d] # NoCall => deferred'[owner[d]] = deferred[owner[d]]
        BY <1>0, <1>2, <3>2 DEF Register, TypeOK
      <3> QED
        BY <3>1, <3>3 DEF OutcomeOf
    <2>3. Service!Ask(c)
      BY <1>2, <2>1, <2>2 DEF Register, Service!Ask, Service!Conclude
    <2> QED
      BY <2>3 DEF Service!Next
  <1>3. ASSUME NEW s \in Signals, Abort(s)
        PROVE  Service!Next
    <2> DEFINE fired == {c \in listening : SignalOf[c] = s}
    <2>1. fired \in SUBSET Calls
      BY <1>0 DEF TypeOK
    <2>2. Settle(fired, "rejected") /\ UNCHANGED <<owner, arrived>>
      BY <1>3 DEF Abort
    <2> QED
      BY <2>1, <2>2, SettlingStep
  <1>4. ASSUME NEW h \in Handlers, NEW m \in Messages, ReceiveMessage(h, m)
        PROVE  UNCHANGED Service!vars
    BY <1>4, OutcomesUnchanged DEF ReceiveMessage, Service!vars
  <1>5. ASSUME NEW h \in Handlers, TakeWanted(h)
        PROVE  Service!Next
    <2>1. Head(todo[h]) \in Cids
      BY <1>0, <1>5, NonEmptyMessage DEF TypeOK, ActivationsOK, TakeWanted
    <2>2. Service!Arrive(Head(todo[h]))
      BY <1>5, OutcomesUnchanged DEF TakeWanted, Service!Arrive
    <2> QED
      BY <2>1, <2>2 DEF Service!Next
  <1>6. ASSUME NEW h \in Handlers, SkipUnwanted(h)
        PROVE  UNCHANGED Service!vars
    BY <1>6, OutcomesUnchanged DEF SkipUnwanted, Service!vars
  <1>7. ASSUME NEW h \in Handlers, NEW ok \in BOOLEAN, Put(h, ok)
        PROVE  UNCHANGED Service!vars
    BY <1>7, OutcomesUnchanged DEF Put, Service!vars
  <1>8. ASSUME NEW h \in Handlers, Resolve(h)
        PROVE  Service!Next
    <2>1. /\ holding[h] \in Calls
          /\ owner[holding[h]] = holding[h]
          /\ CidOf[holding[h]] = Head(todo[h])
          /\ Head(todo[h]) \in arrived
      BY <1>0, <1>8 DEF ActivationsOK, Answering, Resolve
    <2>2. Head(todo[h]) \in Cids
      BY <2>1
    <2>3. Settle({holding[h]}, "resolved") /\ UNCHANGED <<owner, arrived>>
      BY <1>8 DEF Resolve
    <2> QED
      BY <2>1, <2>2, <2>3, SettlingStep
  <1>9. CASE Stop
    <2>1. Settle({pending[k] : k \in Cids}, "rejected") /\ UNCHANGED <<owner, arrived>>
      BY <1>9 DEF Stop
    <2>2. Settle({pending[k] : k \in Cids} \cap Calls, "rejected")
      BY <2>1 DEF Settle
    <2> QED
      BY <2>1, <2>2, SettlingStep
  <1>10. CASE UNCHANGED vars
    BY <1>10, OutcomesUnchanged DEF vars, Service!vars
  <1> QED
    BY <1>1, <1>2, <1>3, <1>4, <1>5, <1>6, <1>7, <1>8, <1>9, <1>10
       DEF Next, Want, HandlerStep

\* want() keeps the promise WantService makes to its callers.
THEOREM ImplementsService == Spec => ServiceSpec
  <1>1. IInv /\ [Next]_vars => [Service!Next]_(Service!vars)
    BY ServiceStep
  <1> QED
    BY <1>1, ServiceInit, Invariance, PTL DEF Spec, ServiceSpec, Service!Spec
=============================================================================
