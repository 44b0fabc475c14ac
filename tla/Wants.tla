------------------------------- MODULE Wants -------------------------------
(***************************************************************************)
(* The want side of SimpleBitswap (src/src/bitswap.ts): the pendingWants   *)
(* map, the deferred promise behind each want(), the abort listeners, and  *)
(* the part of _handleMessage that answers wants with received blocks.     *)
(*                                                                         *)
(* The program is a single JavaScript thread: an action is the code that   *)
(* runs between two awaits, so actions interleave exactly where the code   *)
(* yields to the event loop.  A call of want() that finds no entry for its *)
(* CID creates one and owns its deferred; a call that finds one follows    *)
(* the owner's promise.  A call is named by a member of Calls; CidOf and   *)
(* SignalOf are its two arguments.                                         *)
(***************************************************************************)
EXTENDS Naturals, Sequences

CONSTANTS
  Calls,      \* invocations of want(cid, {signal})
  Cids,       \* CIDs, one per distinct cid.toString()
  Signals,    \* AbortSignals, one per AbortSignal.timeout() or controller
  CidOf,      \* [Calls -> Cids]
  SignalOf,   \* [Calls -> Signals]
  Handlers,   \* concurrently running activations of _handleMessage
  MaxBlocks,  \* bound: payload blocks in one message
  NoCall      \* "no entry", "no owner"

ASSUME WantsAssumption ==
  /\ CidOf \in [Calls -> Cids]
  /\ SignalOf \in [Calls -> Signals]
  /\ NoCall \notin Calls
  /\ MaxBlocks \in Nat

VARIABLES
  \* --- SimpleBitswap
  pending,    \* pendingWants: [Cids -> owner of the entry, or NoCall]
  stopped,    \* stop() has run to its end
  \* --- promises and signals
  owner,      \* the call whose deferred this call awaits, NoCall before want()
  deferred,   \* state of the deferred a call created, "none" if it made none
  listening,  \* calls whose abort listener was added to a live signal
  aborted,    \* signals that have fired
  \* --- activations of _handleMessage
  phase,      \* "idle", "hash" (await prefixToCID), "put" (await put), "settle"
  todo,       \* blocks of the message not done with; the head is in work
  holding,    \* the owner whose entry the activation took out of pendingWants
  \* --- the raw block store, and histories
  stored,     \* CIDs in the block store handed to SimpleBitswap
  putFailed,  \* history: calls whose block could not be stored
  arrived     \* history: CIDs of which a block arrived

bitswapVars == <<pending, stopped>>
callVars    == <<owner, deferred, listening, aborted>>
handlerVars == <<phase, todo, holding>>
storeVars   == <<stored, putFailed, arrived>>
vars == <<bitswapVars, callVars, handlerVars, storeVars>>

DeferredStates == {"none", "live", "resolved", "rejected"}
Phases == {"idle", "hash", "put", "settle"}

Live == {c \in Calls : deferred[c] = "live"}
Held(c) == \E h \in Handlers : phase[h] \in {"put", "settle"} /\ holding[h] = c

\* The service starts over a store that has some blocks already.
StartOver(blocks) ==
  /\ pending = [k \in Cids |-> NoCall]
  /\ stopped = FALSE
  /\ owner = [c \in Calls |-> NoCall]
  /\ deferred = [c \in Calls |-> "none"]
  /\ listening = {}
  /\ aborted = {}
  /\ phase = [h \in Handlers |-> "idle"]
  /\ todo = [h \in Handlers |-> <<>>]
  /\ holding = [h \in Handlers |-> NoCall]
  /\ stored = blocks
  /\ putFailed = {}
  /\ arrived = {}

\* want() never reads the store, so an empty one will do.
Init == StartOver({})

-----------------------------------------------------------------------------
(* Promises: settling a settled deferred does nothing.                     *)

Settle(S, result) ==
  deferred' = [c \in Calls |-> IF c \in S /\ deferred[c] = "live"
                               THEN result ELSE deferred[c]]

Forget(K) == pending' = [k \in Cids |-> IF k \in K THEN NoCall ELSE pending[k]]

-----------------------------------------------------------------------------
(* want(): both forms run without yielding.                                *)

\* An entry exists: return its promise.  The caller's own signal is dropped.
Coalesce(c) ==
  /\ owner[c] = NoCall
  /\ pending[CidOf[c]] # NoCall
  /\ owner' = [owner EXCEPT ![c] = pending[CidOf[c]]]
  /\ UNCHANGED <<bitswapVars, deferred, listening, aborted, handlerVars, storeVars>>

\* Mutant: the entry is made without looking for one.
RegisterBlindly(c) ==
  /\ owner[c] = NoCall
  /\ owner' = [owner EXCEPT ![c] = c]
  /\ deferred' = [deferred EXCEPT ![c] = "live"]
  /\ pending' = [pending EXCEPT ![CidOf[c]] = c]
  /\ listening' = IF SignalOf[c] \in aborted THEN listening ELSE listening \cup {c}
  /\ UNCHANGED <<stopped, aborted, handlerVars, storeVars>>

\* No entry: create one.  A listener added to a signal that has already fired
\* is never called.  want() does not look at stopped.
Register(c) ==
  /\ owner[c] = NoCall
  /\ pending[CidOf[c]] = NoCall
  /\ owner' = [owner EXCEPT ![c] = c]
  /\ deferred' = [deferred EXCEPT ![c] = "live"]
  /\ pending' = [pending EXCEPT ![CidOf[c]] = c]
  /\ listening' = IF SignalOf[c] \in aborted THEN listening ELSE listening \cup {c}
  /\ UNCHANGED <<stopped, aborted, handlerVars, storeVars>>

Want(c) == Coalesce(c) \/ Register(c)

\* Mutant: a listener acts only while the entry is still its own.
AbortOwnEntry(s) ==
  /\ s \notin aborted
  /\ aborted' = aborted \cup {s}
  /\ LET fired == {c \in listening : SignalOf[c] = s /\ pending[CidOf[c]] = c} IN
       /\ Forget({CidOf[c] : c \in fired})
       /\ Settle(fired, "rejected")
  /\ UNCHANGED <<stopped, owner, listening, handlerVars, storeVars>>

\* Mutant: the listener takes the entry out and forgets to reject.
AbortSilently(s) ==
  /\ s \notin aborted
  /\ aborted' = aborted \cup {s}
  /\ Forget({CidOf[c] : c \in {d \in listening : SignalOf[d] = s}})
  /\ UNCHANGED <<stopped, owner, deferred, listening, handlerVars, storeVars>>

\* Mutant: the listener rejects and leaves the entry in the map.
AbortKeepsEntry(s) ==
  /\ s \notin aborted
  /\ aborted' = aborted \cup {s}
  /\ Settle({c \in listening : SignalOf[c] = s}, "rejected")
  /\ UNCHANGED <<bitswapVars, owner, listening, handlerVars, storeVars>>

\* The signal fires and its listeners run in one dispatch.  Each deletes the
\* entry of its CID, whoever made that entry, and rejects its own deferred.
Abort(s) ==
  /\ s \notin aborted
  /\ aborted' = aborted \cup {s}
  /\ LET fired == {c \in listening : SignalOf[c] = s} IN
       /\ Forget({CidOf[c] : c \in fired})
       /\ Settle(fired, "rejected")
  /\ UNCHANGED <<stopped, owner, listening, handlerVars, storeVars>>

-----------------------------------------------------------------------------
(* _handleMessage: the loop over the blocks of one message.                *)

\* A message arrives.  Its activation awaits the hash of its first block.
ReceiveMessage(h, blocks) ==
  /\ phase[h] = "idle"
  /\ blocks # <<>>
  /\ todo' = [todo EXCEPT ![h] = blocks]
  /\ phase' = [phase EXCEPT ![h] = "hash"]
  /\ UNCHANGED <<bitswapVars, callVars, holding, storeVars>>

\* What follows the block in work: the next one, or the end of the loop.
NextBlock(h) ==
  /\ todo' = [todo EXCEPT ![h] = Tail(todo[h])]
  /\ phase' = [phase EXCEPT ![h] = IF Tail(todo[h]) = <<>> THEN "idle" ELSE "hash"]

\* Mutant: the entry stays in the map while the put is awaited.
TakeWithoutDelete(h) ==
  LET k == Head(todo[h]) IN
  /\ phase[h] = "hash"
  /\ pending[k] # NoCall
  /\ arrived' = arrived \cup {k}
  /\ holding' = [holding EXCEPT ![h] = pending[k]]
  /\ phase' = [phase EXCEPT ![h] = "put"]
  /\ UNCHANGED <<bitswapVars, callVars, todo, stored, putFailed>>

\* Mutant: the want is resolved before the block is put.
TakeAndResolve(h) ==
  LET k == Head(todo[h]) IN
  /\ phase[h] = "hash"
  /\ pending[k] # NoCall
  /\ arrived' = arrived \cup {k}
  /\ holding' = [holding EXCEPT ![h] = pending[k]]
  /\ Forget({k})
  /\ Settle({pending[k]}, "resolved")
  /\ phase' = [phase EXCEPT ![h] = "put"]
  /\ UNCHANGED <<stopped, owner, listening, aborted, todo, stored, putFailed>>

\* The block is wanted: its entry leaves the map before the put is awaited.
TakeWanted(h) ==
  LET k == Head(todo[h]) IN
  /\ phase[h] = "hash"
  /\ pending[k] # NoCall
  /\ arrived' = arrived \cup {k}
  /\ holding' = [holding EXCEPT ![h] = pending[k]]
  /\ Forget({k})
  /\ phase' = [phase EXCEPT ![h] = "put"]
  /\ UNCHANGED <<stopped, callVars, todo, stored, putFailed>>

\* Nobody wants the block, or its hash function is unknown: it is dropped.
SkipUnwanted(h) ==
  /\ phase[h] = "hash"
  /\ pending[Head(todo[h])] = NoCall
  /\ NextBlock(h)
  /\ UNCHANGED <<bitswapVars, callVars, holding, storeVars>>

\* Mutant: the put is keyed by the want instead of its CID.
PutUnderWant(h, ok) ==
  /\ phase[h] = "put"
  /\ stored' = IF ok THEN stored \cup {holding[h]} ELSE stored
  /\ putFailed' = IF ok THEN putFailed ELSE putFailed \cup {holding[h]}
  /\ phase' = [phase EXCEPT ![h] = "settle"]
  /\ UNCHANGED <<bitswapVars, callVars, todo, holding, arrived>>

\* blockstore.put takes effect, or fails; a failure is logged and swallowed.
Put(h, ok) ==
  /\ phase[h] = "put"
  /\ stored' = IF ok THEN stored \cup {Head(todo[h])} ELSE stored
  /\ putFailed' = IF ok THEN putFailed ELSE putFailed \cup {holding[h]}
  /\ phase' = [phase EXCEPT ![h] = "settle"]
  /\ UNCHANGED <<bitswapVars, callVars, todo, holding, arrived>>

\* The await of the put returns: the want is resolved with the block.
Resolve(h) ==
  /\ phase[h] = "settle"
  /\ Settle({holding[h]}, "resolved")
  /\ holding' = [holding EXCEPT ![h] = NoCall]
  /\ NextBlock(h)
  /\ UNCHANGED <<bitswapVars, owner, listening, aborted, storeVars>>

-----------------------------------------------------------------------------
\* Mutant: stop() rejects the wants and leaves them in the map.
StopWithoutClear ==
  /\ ~stopped
  /\ stopped' = TRUE
  /\ Settle({pending[k] : k \in Cids}, "rejected")
  /\ UNCHANGED <<pending, owner, listening, aborted, handlerVars, storeVars>>

\* stop(), after its await of unhandle(): reject what is pending, clear the map.
Stop ==
  /\ ~stopped
  /\ stopped' = TRUE
  /\ Settle({pending[k] : k \in Cids}, "rejected")
  /\ Forget(Cids)
  /\ UNCHANGED <<owner, listening, aborted, handlerVars, storeVars>>

-----------------------------------------------------------------------------
Messages == UNION {[1..n -> Cids] : n \in 1..MaxBlocks}

HandlerStep(h) ==
  \/ TakeWanted(h)
  \/ SkipUnwanted(h)
  \/ \E ok \in BOOLEAN : Put(h, ok)
  \/ Resolve(h)

Next ==
  \/ \E c \in Calls : Want(c)
  \/ \E s \in Signals : Abort(s)
  \/ \E h \in Handlers, blocks \in Messages : ReceiveMessage(h, blocks)
  \/ \E h \in Handlers : HandlerStep(h)
  \/ Stop

Spec == Init /\ [][Next]_vars

\* Timers fire, and the event loop and the store run every activation on.
\* Nothing obliges a caller to call, a peer to answer or anyone to stop.
Fairness ==
  /\ \A s \in Signals : WF_vars(Abort(s))
  /\ \A h \in Handlers : WF_vars(HandlerStep(h))

FairSpec == Spec /\ Fairness

-----------------------------------------------------------------------------
(* Properties.                                                             *)

TypeOK ==
  /\ pending \in [Cids -> Calls \cup {NoCall}]
  /\ stopped \in BOOLEAN
  /\ owner \in [Calls -> Calls \cup {NoCall}]
  /\ deferred \in [Calls -> DeferredStates]
  /\ listening \subseteq Calls
  /\ aborted \subseteq Signals
  /\ phase \in [Handlers -> Phases]
  /\ todo \in [Handlers -> Seq(Cids)]
  /\ holding \in [Handlers -> Calls \cup {NoCall}]
  /\ stored \subseteq Cids
  /\ putFailed \subseteq Calls
  /\ arrived \subseteq Cids

\* An entry of pendingWants always belongs to a call for that very CID whose
\* promise is still open: nobody can coalesce onto a settled promise.
PendingIsLive ==
  \A k \in Cids : pending[k] # NoCall =>
    /\ deferred[pending[k]] = "live"
    /\ owner[pending[k]] = pending[k]
    /\ CidOf[pending[k]] = k

\* An entry is answered by at most one activation, and an activation never
\* answers an entry that is still in the map: two copies of a block arriving
\* together cannot both store it for the same want.
OneAnswerer ==
  \A h \in Handlers : phase[h] \in {"put", "settle"} =>
    /\ \A k \in Cids : pending[k] # holding[h]
    /\ \A g \in Handlers : phase[g] \in {"put", "settle"} /\ holding[g] = holding[h] => g = h

\* A timeout is final: once the signal a want listens to has fired, its promise
\* is settled, also when its block was being stored at that moment or its entry
\* had been taken away by somebody else.
AbortIsFinal ==
  \A c \in listening : SignalOf[c] \in aborted => deferred[c] # "live"

\* A want that is open but neither in the map nor being answered has lost its
\* entry, and only the late abort of another call for the same CID does that.
Orphan(c) == deferred[c] = "live" /\ pending[CidOf[c]] # c /\ ~Held(c)

OrphanedByAbort ==
  \A c \in Calls : Orphan(c) =>
    \E d \in listening \ {c} : CidOf[d] = CidOf[c] /\ SignalOf[d] \in aborted

\* A want is resolved only after its block is in the store, unless the store
\* refused it: a caller told "here it is" can be served locally from then on.
StoredBeforeResolved ==
  \A c \in Calls : deferred[c] = "resolved" => CidOf[c] \in stored \/ c \in putFailed

\* Every want made with a signal that had not fired yet ends, and with it every
\* call that was coalesced onto it, which awaits the same promise.
WantsEnd ==
  \A c \in Calls : c \in listening ~> deferred[c] \in {"resolved", "rejected"}

\* Documented: "Coalesces duplicate requests", one promise per CID at a time.
\* Late aborts break it: see the run that checks it.
OneOpenWantPerCid ==
  ~stopped => \A c, d \in Live :
                CidOf[c] = CidOf[d] /\ ~Held(c) /\ ~Held(d) => c = d

-----------------------------------------------------------------------------
(* The promise to the callers, as WantService states it.                   *)

OutcomeOf(c) ==
  IF owner[c] = NoCall THEN "idle"
  ELSE CASE deferred[owner[c]] = "resolved" -> "block"
         [] deferred[owner[c]] = "rejected" -> "error"
         [] OTHER -> "waiting"

Service == INSTANCE WantService WITH outcome <- [c \in Calls |-> OutcomeOf(c)]

ServiceSpec == Service!Spec
=============================================================================
