# ipfs-shard in TLA+

ipfs-shard is an IPFS node written in TypeScript on top of libp2p: it stores
blocks in S3, fetches missing ones from the network (bitswap, DHT, IPNI, public
gateways), pins CIDs, announces them to the DHT and keeps itself connected.
This directory holds TLA+ models of its stateful parts, TLC configurations that
check them on small instances, and TLAPS proofs for every value of the
constants. Paths such as `bitswap.ts` are below `src/src/`.

The program is a single Node.js process. Code between two `await`s runs without
interruption, so an **action is what the code does from one await to the next**,
and all concurrency is the interleaving of such pieces: HTTP requests, messages
of peers, timers, abort listeners and tasks nobody waits for.

## 1. Inventory

| Component | Code | State | Operations | What makes it correct |
|---|---|---|---|---|
| Bitswap wants | `bitswap.ts` want, _handleMessage, stop | `pendingWants`, one deferred per entry, abort listeners | want, abort, receive a message, store and resolve, stop | an entry belongs to an open want; a want is answered once; timeouts are final; wants end; block stored before the answer |
| Bitswap streams and broadcast | `bitswap.ts` _broadcastWant, start, _sendMessage, _dialPeer, _onInboundStream, _cleanupStream, _readLoop | `streamPool`, `unsupportedPeers`, read loops, connections | broadcast, onConnect, onDisconnect; look up or dial, send, retry once, accept inbound, end of a read loop, stop | every connected peer is asked for every open want; pooled streams lead to their peer, are usable and are read; sends end |
| Serving of blocks | `bitswap.ts` second half of _handleMessage, _serveBlockOnStream | the stream captured for an answer | answer a wantlist | a stored block is sent to who wants it |
| Read loop, framing | `bitswap.ts` _readLoop, `bitswap-codec.ts` varints | `buffer`, `offset` | chunk, parse, trim | the messages handled are the messages sent, for every chunking |
| Message codec | `bitswap-codec.ts` | none | encode, decode protobuf fields | decoding inverts encoding |
| Block retrieval | `blockstore-network.ts` | one generator, two racing tasks and one IPNI controller per get | get, put and the pass-through operations | a get ends; what it returns is found somewhere and persisted; budgets cover their stage |
| Block cache | `blockstore-cache.ts` | LRU map | get, has (put, delete, putMany have no caller) | local questions are answered locally |
| Pins and announcements | `ipfs-node.ts`, `api/pins.ts`, `api/dht.ts` | pins and DHT records in the datastore; announcement tasks | add, remove, announce, status | records tell the truth about announcements |
| Re-providing | `reprovide.ts` | runs of the loop, `stopped` | timer, list, provide, record, stop | every pin is announced again and again |
| Backup bootstrap | `backup-bootstrap/` | saved list, `previouslySaved`, save and bootstrap rounds | load, save, select, dial, stop | backups fit, no official peer is added, they are not forgotten, get dialled |
| Start-up and shutdown | `index.ts`, `startup/`, `ipfs-node.ts` stop | progress of `main` and of each run of `shutdown()`, server, libp2p, bitswap | environment, buckets, libp2p, bitswap, wait for peers, serve; signal, close, stop, exit | no request meets a stopped node; shutdown ends, and has happened when it says so |
| Other loops | `startup/loops.ts` | `stopped`, dial rounds, DHT puts | dial bootstrap peers, put a random key | every bootstrap peer is dialled again; nothing begins after stop |
| HTTP API | `internal-api.ts`, `api/` | open requests | check, fetch, stat, and those that ask the storage or other nodes; parse, route, format | as for the parts it calls |
| Assembly | `libp2p-config.ts`, `logger.ts`, `metrics.ts`, `sharding-glashaus.ts` | configuration, counters | - | - |

How they interact. `NetworkAwareBlockstore.get` calls `SimpleBitswap.want` up to
once per stage and provider, under a timeout signal each or, in the IPNI stage,
one signal for all. A want is coalesced onto the pending want of the same CID and
broadcast on the streams of all connected peers; a peer that connects later is
sent every pending want. Answers come in on read loops, whose handlers store the
block and resolve the want; wantlists come in on the same loops. Pins are announced by a
task started in the request and again by the re-provide loop; both write the same
record. All loops and the HTTP server share the process: shutdown stops the
loops, closes the server, then stops bitswap and libp2p.

What is hard: promises shared between callers with different timeouts; listeners
that fire after what they listened for is over; two contestants of a race of
which the loser goes on; cleanup keyed by peer while streams change; chunk
boundaries; tasks that outlive the response and not the process; writes that fail
and are only logged. `PROJECT.json` lists these hazards line by line with the
properties that cover them.

## 2. Modules

Each core module is a specification, `MC*.tla` and `MC*.cfg` give its constants
small values, `*Proofs.tla` holds its theorems. Definitions that start with a
comment "Mutant:" are faulty variants of the definition after them; replacing
the one by the other must break a named property, which shows that the property
depends on that code.

**Wants** - `pendingWants`. One *call* of `want()` is an element of `Calls`;
`owner[c]` is the call whose promise `c` returned (itself, or the one it was
coalesced onto), `deferred` the state of that promise, `listening` the calls
whose abort listener is attached, which the code never removes. `Want` is the
whole synchronous body, with the guards in their order: `Coalesce` or `Register`.
`Abort(s)` fires a signal and runs every listener, in one step, as the event
target does. A message is handled by an activation (`Handlers`) of
`_handleMessage`: `TakeWanted` looks a block up and deletes the entry before the
put is awaited, `Put` is the store's answer, `Resolve` what follows.

**WantService** - what a caller of `want()` is promised: an outcome is final,
a block is delivered only if it has arrived. `Wants` implements it
(`ServiceSpec`, outcome taken through `owner`).

**NetworkGet** - `NetworkAwareBlockstore.get` over an instance of Wants, so that
all stages of all gets meet in one `pendingWants`. `pc` is the position of the
generator; `bitswap` and `dht` are the two tasks of the race with their results,
which go on after `race` is decided. Calls of Wants are named
`<<get, stage, provider>>`, and all IPNI calls of a get have the same signal;
`armed` is its timer. **BlockGet** is the promise: one final answer, a block only
if it was stored, arrived or was fetched. `NetworkGet` implements it (`GetSpec`).

**StreamPool** - the pool, `closed` flags (`flagged`), read loops (`reading`) and
activations of `_sendMessage` (`send`, `handle`). libp2p is the environment
(`state` of each stream). `Cleanup` is keyed by peer as the code's is. It has no
run of its own: Exchange, which calls it, is run, and is proved to implement it.

**Exchange** - who is asked for what, over StreamPool. A send is named
`<<want, peer, origin>>`, its origin the broadcast of `want()` or the `onConnect`
of a peer. `link[p]` tells a connection that exists (`getConnections` returns it,
so a broadcast reaches it) from one that has been identified (libp2p has called
`onConnect`). `Start` begins all sends of a broadcast in one step, up to the first
await of each. `tried` is history: what came of the sends that ended on the present
connection. A want was written to a stream (`"told"`), or the send and its one
retry failed (`"failed"`), or the peer was known not to speak bitswap and was left
out (`"unsupported"`).

**Serving** - the answer to a wantlist, over StreamPool: `WantlistArrives` looks up
the stream pooled for the peer, `Serve` is `_serveBlockOnStream` after its await.
`StoreGet` is what the store's `get` may return, a generator in both storages, and
`Encoded` what `encodeBlock` makes of it; with bytes as the result, which the code
expects, `Serve` sends the block and the property of finding 4 holds.

**Framing** - the read loop's buffer over a stream of length-prefixed messages,
delivered in chunks of any size. A chunk is an array (`Chunk`) or a
`Uint8ArrayList` (`ListChunk`), which the code spreads into its arrays where it
means its bytes: `SpreadList` makes one number of each, its byte if it has just one
and 0 otherwise. `listed` and `straddled` record what the read loop does not
survive (`Damaged`). A byte is a number below `2 * Radix`; with
`Radix = 2` lengths of 2 and 3 already have prefixes of two bytes. The two cuts
of the buffer (inside the loop at an incomplete message, and after it) are
separate actions because the defect below lies between them. `EncodeVarint` and
`VarintValue` are recursive functions, not recursive operators, so that they can
be reasoned about.

**Codec** - messages at the level of protobuf fields. A remote has something to
say (`said`); either encoder writes it, with or without fields of default value;
`decodeMessage` reads it field by field and `_handleMessage` computes the CIDs
of the blocks. The blocks of bitswap 1.0.0, which have no prefix and are not read,
are among what may be said (`OldBlocks`). How numbers become bytes is Framing's
subject. What is checked is
not that decoding inverts this program's encoding but that it finds what was
meant, whoever encoded it (`Wanted`). `LastOf` says of the field loops that a later
field replaces an earlier one of its number.

**Lifecycle** - `main`, `shutdown()`, the bootstrap dial rounds, and requests for
one block through `LRUBlockstore`: `check` calls `has`, `fetch` calls `get`,
`stat` calls `has` and then `get`. A get goes to the network for a block that is
missing and also when the read of one that is there fails, since
`blockstore-network.ts:94` takes every `GetFailedError` for a miss. From
NetworkGet it takes that a get may hang (`Hangs`) until a peer sends the block
after all or bitswap stops. A client may leave at any time (`ClientLeaves`): its
handler goes on, but the server, whose `close` event waits for connections, does
not wait for it. A second signal starts a second run of `shutdown()`; the server's
`close` event ends the wait of both. `process.exit` ends everything at once, so
every action requires `Running`. `mode` walks through the set-up await by await,
with the look-up and the creation of each bucket; with `MemoryStorage` there are
none, and no wait for peers. A request that asks the storage or other nodes and
changes nothing (`/health`, `/stats`, `/pins`, `/providers`, `/connect` and so on)
is one await, `answer`, that stands for all it makes (`Other`); the DHT discovery
loop is `announcing`.

**Pins** - pins, the announcement records, requests with the announcements they
start, re-provide runs, and the process (`mode`), which may crash at any step and
restarts with empty task tables. `Marked`, `ProvideResolves`, `RecordOutcome` are
the pieces of `announceContent`. `SetStatus` may fail silently, since
`setDHTStatus` catches everything. A server that is closing still takes requests
on the connections it has (`Accept`), and `Exit` waits for no task: not for
announcements, which a graceful shutdown drops as a crash does, and for a request
only while its client is there. The check for the pinned
block in `handlePins` is absent: it applies only to a blockstore whose class name
contains `S3`, and `index.ts` always passes one of the wrappers.

**BackupPeers** - saved list, memory copy, start-up load, hourly save and
bootstrap rounds. `Selected` is the set of results `selectPeersToSave` may return
(its shuffle is random). A read and the arrival of its answer are two steps, at
start-up and in a round, and so are the put of a save and the assignment to
`previouslySaved` after it, so that other steps can come between them. The official
peers come from the environment: each life of the process has its own (`official`),
and the stored list it finds may hold peers that are official now.

## 3. Runs

| Run | Module | Expect | What it asks |
|---|---|---|---|
| wants | MCWants | pass | three calls for one CID, two under one signal, two concurrent messages of up to two blocks, failing puts, stop |
| get | MCNetworkGet | pass | one get, its block stored or not, with a DHT and two IPNI providers, with fairness |
| exchange | MCExchange | pass | a want and a peer that comes and goes, two outbound and one inbound stream, with fairness |
| framing | MCFraming | pass | every chunking of up to three messages, a chunk an array or a list of one |
| pins | MCPins | pass | a request slot and a re-provide run over two CIDs, crashes and restarts |
| backup_peers | MCBackupPeers | pass | three addresses (one ordinary peer, one without peer ID, one official in some lives of the process), room for two |
| codec | MCCodec | pass | every message of up to two parts, each wantlist of up to two entries, by either encoder |
| lifecycle | MCLifecycle | pass | set-up, dial rounds, DHT puts, one request at a time with and without cache, two signals |
| wants_coalescing | MCWants | violation | finding 1 |
| get_hang | MCNetworkGet | violation | finding 2; one get with an IPNI provider |
| framing_chunks | MCFraming | violation | finding 3 |
| exchange_serving | MCServing | violation | finding 4 |

The properties of *wants*, *get*, *pins*, *backup_peers* and *lifecycle* begin
with a type invariant. What the passing runs show beyond it:

- *wants*: `PendingIsLive`, `OneAnswerer`, `AbortIsFinal`, `StoredBeforeResolved`
  and `OrphanedByAbort` (an open want loses its entry in one way only, a late
  abort of another call); `WantsEnd`; `ServiceSpec`.
- *get*: a returned block is in the store or the store refused it
  (`FoundBlocksPersist`), and `GetSpec`; no entry outlives its timeout
  (`EntriesLeave`); a get ends unless it waits on a want that was made under a
  fired signal (`GetsEndUnlessHung`), and only the IPNI stage makes such wants
  (`HungOnlyFromIpni`).
- *exchange*: neither the broadcast nor the topology callback overlooks a peer
  when they cross (`EveryPeerAsked`: it was told or is being told, except a peer
  whose send failed twice or that was known not to speak bitswap); what is pooled
  leads to its peer, was not closed by this node and has a reader
  (`PooledStreamsServe`); no stream a remote may write to is without
  a reader (`NoDeafStream`); a stopped service pools nothing a remote opened
  (`NothingInboundAfterStop`); sends end (`SendsEnd`).
- *framing*: messages come out as sent (`MessagesInOrder`) and all are read in
  the end (`ReaderCatchesUp`), unless a chunk ends inside a message that follows
  a complete one or is a `Uint8ArrayList`; also then the loop gets to the end of
  the bytes.
- *pins*: a `pending` record has an announcement under way, or a crash or a
  failed write cut it off (`PendingIsUnderWay`); `success` is only said of what
  was provided (`SuccessIsEarned`); nothing is provided by the loop after stop;
  every pin is offered again and again whatever fails for the others
  (`EveryPinReprovided`), and left-over records recover (`RecordsRecover`).
- *backup_peers*: memory and datastore agree whenever no save is between its put and
  its assignment, unless a load or write failed or crossed (`MemoryMirrorsStore`),
  a backup is lost only to a full list or a list made
  blindly (`KnownBackupsKept`), every backup is dialled again and again while the
  node is short of connections (`EveryBackupDialed`).
- *codec*: the wants decoded are the wants meant (`WantsUnderstood`), and a block
  is looked up under the CID that names its data, never under another
  (`BlocksArrive`), unless a varint field of the message stands before them. Blocks
  of bitswap 1.0.0 are excepted, since none of them is read.
- *lifecycle*: no client that waits for its response meets a node that is being
  stopped (`RequestsFindNodeUp`); a statistics request gets past `has` only for a
  block the store holds, or has refused while the cache had it
  (`StatsStayLocal`); "Shutdown complete" means that bitswap and libp2p
  have stopped, unless two signals came (`CleanExit`); every bootstrap peer is
  connected or dialled again and again (`BootstrapKept`); once shutdown has
  stopped the loops, rounds and puts under way begin nothing further
  (`LoopsEndWithShutdown`); a shutdown ends unless a client waits for a request that
  hangs or clients keep the closing server busy (`ShutdownEnds`).

**Findings.** (1) A late abort of a settled want deletes the entry of a newer
want for the CID (`bitswap.ts:139`). (2) When the IPNI timer fires during a dial,
the following want can never time out and the get hangs
(`blockstore-network.ts:136`); `GetsEnd` lets `stop()` end it, so that its absence
is not what the trace shows. (3) A chunk that holds a message and the start of
another loses the second (`bitswap.ts:335`). (4) Serving awaits a generator where
it means the bytes, so that no stored block is ever sent to a peer that wants it
(`bitswap.ts:387`): of neither generator does `encodeBlock` make the block
(`Encoded`).

Further observations, each an exception stated in a property or a state the
models reach, without a run of its own:

- Cleanup after a failed send goes by peer and may close the healthy stream that
  has taken the failed one's place (`bitswap.ts:278`).
- The comment at `bitswap.ts:69` has the topology handle all protocol versions,
  but it is registered for the first of `PROTOCOLS` only: `onConnect` is not
  called for a peer that speaks only older ones. `identified` in Exchange stands
  for the peers it is called for, so `EveryPeerAsked` says nothing of the others.
- `clearUnsupportedPeers` lets later wants go to a peer again, but does not
  repeat the open ones; a peer that was passed over counts as asked until its
  connection is made anew. `onConnect` does not look at `broadcastedTo`, so a
  peer that is identified during a broadcast is told twice.
- `want()` does not look at whether the service was stopped: the loser of a
  get's race can register and broadcast a want after `stop()`, and a send that
  was dialling then still pools its stream (`NothingInboundAfterStop` says that
  nothing else is pooled).
- A send that fails, and whose retry fails, is only logged (`bitswap.ts:285`): a peer
  that stays connected is not asked for that want again. The exception `"failed"`
  in `EveryPeerAsked`.
- A chunk that is a `Uint8ArrayList` is converted array by array and loses its bytes
  (`bitswap.ts:308`). Whether chunks come as lists is up to libp2p's streams.
- `/ipfs/bitswap/1.0.0` is registered (`bitswap.ts:23`), but its blocks, field 2 of a
  message, are not read.
- The server does not wait for the handler of a client that has left: it may be in a
  get while bitswap and libp2p are stopped, and is cut off by `process.exit`.
- A read of a stored block that fails with `GetFailedError` counts as a miss
  (`blockstore-network.ts:94`): the get goes to the network for a block that is there,
  also for a statistics request.
- A backup that becomes an official bootstrap peer, because the environment names it
  in the next life of the process, keeps its place: the backfill does not filter
  (`selector.ts:58`).
- A bucket is looked up and created in two calls: of two nodes that start
  together on empty storage the second to create it may exit with a fatal error
  (`StartFails` in the stages `no_blocks` and `no_data`).
- A save round of a node without connections empties the backup list
  (`selector.ts:22`); the exception in `KnownBackupsKept`.
- The class comment of `blockstore-network.ts` has IPNI follow "on both stages
  timing out"; the first null decides the race, so IPNI is asked while bitswap is
  still waiting.
- A get that hangs (finding 2) keeps the server from closing as long as its client
  waits, and only the `node.stop()` after the close would reject its want: the premise of
  `ShutdownEnds`.
- After a second signal `libp2p.stop()` returns at once to the second run of
  `shutdown()`, which exits while the first run still waits: the exception in
  `CleanExit`.
- `decodeMessage` leaves its loop at a varint field where its comment says it
  skips it (`bitswap-codec.ts:137`), so anything behind is lost: `CutShort`. An
  encoder that leaves out empty fields sends the empty block without data, and
  `decodePayloadBlock` drops it.
- A block that the store refused but the cache holds may be evicted between `has`
  and `get`; the statistics request then goes to the network.

**Bounds.** Three calls are needed for a want, one coalesced onto it and a later
one for the same CID; two handlers for a block that arrives twice. CIDs share
nothing in Wants but `stop`, so one is enough there, and the proofs cover any
number. One get is run, with every stage, a block that is in the store from the
start or not, and two IPNI providers, which let a want follow the firing of their
shared signal. Its own stages share wants (the race goes on when IPNI is asked);
that several gets share them is covered by the proofs, for any number. The node
may be stopped before, while and after a get runs. In Exchange streams are opened
in the order of their numbers, which only renames them; three let one take
another's place in the pool while a send holds it. A want is for a CID of its own,
and there is one send for each want, peer and origin: a second `onConnect` for a
peer waits until the sends of the first have ended. One peer is enough for TLC,
since pool, sends and streams of different peers share nothing but `stop`. Several
connections to a peer count as one. Three messages put a complete one before and
after a cut; a list of one array (`MaxArrays`) is either kept or loses its bytes,
and the proofs allow lists of any number. Two pins are needed for one to fail
where the other must not; that re-provide runs or announcements of one CID overlap
each other is covered by the proofs alone; the run overlaps one of each. Two
dialable backups are needed for one to fail, an address more than fits for the
cap; one save is under way at a time, since the next comes an hour later. Two
parts put one field before another, two entries mix a want with a cancellation.
One request at a time and evictions reach every state of cache and store a
statistics request can find; that another request fills the cache between its two
calls is covered by the proofs, for any number. Two signals are the two handlers
`main` installs. One dial round at a time is run (overlapping ones double the
states), any number is covered by the proofs, which also cover memory storage; the
run has S3. One put into the DHT is under way at a time. The one unbounded
quantity, the number of requests, disappears because a task slot is used again
when its task has ended.

**Fairness.** Weak fairness is given to what the runtime does by itself: timers
fire, settled awaits continue, calls of the store, of fetch, of dials and of DHT
lookups settle one way or the other, since each has a timeout in its library. A
dial in Exchange succeeds or fails, which is open; when no unused stream is left
it can only fail. Callers, peers, signals of the operator, evictions and crashes
get none, nor does the set-up of the node, which waits for services outside.
`Pins` and `BackupPeers` add strong fairness for "a listing (a load) that is
retried for ever works some day", and `RecordsRecover` states the same of provides
and their records as its own premise. Deadlock checking is off where every task
can end (wants, exchange, serving, framing, gets, codec, lifecycle); it is on for
Pins and BackupPeers.

## 4. Proofs

All theorems are of the form `Spec => []P`, `Spec => [][A]_vars` or an
implementation, checked by TLAPS with no assumption but those named in the
modules, which are about the kinds of the constants: `WantsAssumption`,
`NetworkGetAssumption`, `StreamPoolAssumption`, `ExchangeAssumption`,
`PinsAssumption`, `BackupAssumption`, `LifecycleAssumption`; `FramingAssumption`
(a radix of two at least, 128 in the code, and messages made of bytes) and
`CodecAssumption` (a CID is its version, codec and hash and a CIDv0 is of codec
dag-pb, as multiformats has it; no data is equal to an absent field). Each file
proves one inductive invariant `IInv`, one lemma per conjunct with a step per
action. TLC has checked every invariant and action property proved here on the
instances of the runs, those of two gets on part of their states.

- **WantsProofs.** The safety invariants are not inductive alone. `OwnersOK` and
  `CreatorsOK` say that an owner owns itself and stands for the same CID;
  `ListenersOK` that whoever has created an entry and was not already aborted
  listens; `ActivationsOK` that what a handler holds is out of the map, belongs
  to the CID it is working on, and that its block has been stored or refused by
  the time it resolves. With them `PendingIsLive` and `OneAnswerer` support each
  other: a handler takes only from the map, and what is in the map is held by
  nobody. `ImplementsService` shows that each step maps to a step of WantService
  or leaves it unchanged.
- **NetworkGetProofs.** Every step of a get is a step of Wants, a put of its own,
  or leaves the wants alone (`StepKinds`), so the lemmas of WantsProofs are used
  through an instance. On top come `CallsMade` (what a get awaits, it has called),
  `Grounded` (a promise is resolved only for a CID whose block has arrived) and
  `SignalsStarted` (a timer fires only for a call that was made). With them
  `FoundBlocksStay`, `OnlyIpniHangs` (a call outside the IPNI stage has its own
  signal, which cannot have fired before it was made) and `ImplementsBlockGet`
  follow, for any number of gets sharing their wants.
  `WantsAreTimed` is about the one timer that covers several wants: the IPNI stage
  clears it when it is left, while another get may be coalesced onto its want.
  `TimerRuns` shows that nobody waits for a timer that is gone: an open IPNI want
  is the one its own get awaits, and that get is still in the stage.
- **ExchangeProofs.** First the pool by itself, over StreamPool.
  `FlaggedWereOpened` is what its invariants lack: a stream that is opened now was
  never flagged before. `ImplementsPool` then shows that every step of Exchange is
  one of StreamPool or leaves it alone, so that `StreamsStaySound` needs no new
  proof. For `NobodyIsOverlooked` the property, with its two exceptions, is
  inductive together with the types: whatever has come of a peer stays known while
  a send goes on or ends (`AskedStays`, `SendStep`), and a broadcast or an
  `onConnect` begins a send to each peer it does not leave out (`StartStarts`).
- **FramingProofs.** For any radix, messages and chunks. `NothingSkipped` says that
  the bytes of the messages handled, those the parser has not read and those on
  the wire are, in this order, the bytes of the messages sent; `NothingLeftBehind`
  that between chunks the buffer does not hold all of the next message. Both are
  for behaviours without damage: no chunk straddles two messages, which is the
  exception of finding 3, and none is a list. `SpreadIsBytes` shows that a list leaves
  the buffer well-typed. What the actions need of the encoding is `MessageRoundTrip`: a
  length read at the offset of an encoded message is its length, whatever follows,
  and so are the size and the value of its prefix (`VarintRoundTrip`).
- **CodecProofs.** `FieldsMeanParts` says of each field that decoding it gives what
  was meant by its part, proved for either encoder (`ForeignMeans`, `OwnWantMeans`,
  `OwnBlockMeans`) from what `LastOf` finds; `WantsSoFar` that the wants decoded are
  those of the fields read, `BlocksSoFar` that each block read waits for its CID or
  has been looked up under one that names its data. The facts about flattened
  sequences come from FramingProofs through an instance.
- **PinsProofs.** `ResolvedOK` (a task about to write `success` had its provide
  resolved) makes `SuccessIsEarned` inductive; `PendingIsUnderWay` is inductive
  as it stands. They hold for any number of overlapping announcements and runs,
  although nothing in the code keeps runs from overlapping. `NoProvideAfterStop`
  follows from the loop head alone.
- **BackupPeersProofs.** `SelectedFits` and `SelectedBackfills` are the contract
  of `selectPeersToSave`; `WritingFits` carries the first to the datastore, and
  `WritingKeeps` relates a list being written to what it will replace. `MirrorInv`
  adds to `MemoryMirrorsStore` what the start-up load has read (`ReadIsCurrent`) and a
  save has put (`WrittenIsStored`) before they are assigned. `OfficialsAreNotAdded`
  is conditional: the stored list starts without official peers and no peer becomes
  official in a later life (`NoneBecomesOfficial`). Without either condition it is
  false, as the backfill does not filter.
- **LifecycleProofs.** `ServerOK` ties clients that wait to the server and the server
  to bitswap and libp2p; `HandlerGoesOn` is about the steps of a handler whether or
  not its client is there; `StatsOK` says that what is cached is stored or was
  refused, and carries it over the two calls of a statistics request; `ExitOK`
  that a run of `shutdown()` past `bitswap.stop()` has seen it done, and that
  libp2p is stopped or another run is at it. `NextDialInRange` needs a least
  address, from the well-foundedness of `<`. `LoopsEnd` is the action property
  `LoopsEndWithShutdown`, for any number of overlapping rounds.

**Induction over data.** The library's induction theorems take an operator, which
the provers cannot instantiate. FramingProofs states induction over the natural
numbers for a *set* of them (`Induction`, from the well-foundedness of `<`), and
from it that a recursive definition whose calls get smaller defines a function
(`Recursion`). `EncodeVarint`, `VarintValue` and the folds of `FlattenSeq` are
instances, so that a varint of any length is read back (`VarintRoundTrip`).

**What is left of liveness.** Fairness and `ENABLED` are out of the provers' reach,
but the ways in which an eventuality could fail in this code are mostly safety:
something is passed over, put back, or waits for what can no longer happen. For
most liveness properties a theorem says that this does not happen, for every
value of the constants:

| TLC checks | TLAPS proves |
|---|---|
| `EntriesLeave`, `GetsEndUnlessHung` | an open want has a running timer or is hung (`WantsAreTimed`, `OnlyIpniHangs`); a get takes boundedly many steps (`GetsAreBounded`) |
| `WantsEnd` | a fired signal settles its wants (`AbortsAreFinal`) |
| `SendsEnd` | a send dials again once at most (`RetriesAreBounded`) |
| `ReaderCatchesUp` | no message stays behind when all bytes are parsed (`NothingIsLeft`) |
| `EveryPinReprovided` | a run leaves out no pin (`NoPinIsSkipped`) |
| `EveryBackupDialed` | a round leaves out no backup (`NoBackupIsSkipped`) |
| `BootstrapKept` | a round passes over no unconnected peer (`NoBootstrapPeerIsPassed`) |
| `ShutdownEnds` | shutdown goes forward only, with the loops stopped and the server closed for good (`ShutdownLeavesOnlyRequests`) |

`SendsReachTheirPeer` and `OutboundStays` (StreamPool), the types of StreamPool and
Exchange, `OfficialsAreNotAdded` (BackupPeers) and the right-hand column above are
proved without being checked in a run.

**Only model-checked:** the liveness properties themselves, `RecordsRecover` among
them without a counterpart above, since a record recovers only by the fairness it
assumes. Every invariant, action property and refinement that a passing run
checks is a theorem. Serving has no theorem: what its run shows is a violation.

## 5. Not modelled, and why

- Fields inside a wantlist that no bitswap version has; reads beyond 2^31 in
  `readVarint`, whose shifts are 32 bits wide.
- `put`, `delete` and the batch operations of the LRU cache, which nothing in the
  program calls, and those of the network store, which pass through.
- Metrics (`metrics.ts`, the counters all over). The program never acts on them.
- The page of the UI, logging, sharding, the configuration of libp2p: no state
  that a property is about.
- Endpoints that answer without an await, routing, HTTP parsing and formatting, the
  decoding of dag-pb for `ls`, and what the requests merged into `Other` await one
  by one.

## 6. Plan

Done: Wants with WantService, NetworkGet with BlockGet, StreamPool, Exchange,
Serving, Framing, Codec, Pins, BackupPeers, Lifecycle, and proofs for all but
Serving. Left, in order:

1. Composition of **Lifecycle with NetworkGet**, so that hung gets come from the
   stages of the get rather than from an action of their own.
2. Composition of **Exchange with Wants**, so that a want ends for the reasons Wants
   has and coalesced calls are not broadcast; today Exchange lets a want end at
   any time, which includes them.
3. Codec in Framing: fields as byte sequences, with truncated and overlong
   lengths.
4. Proofs: that the gets Lifecycle lets hang are those NetworkGet has (with 1), and
   a bound on the steps of a call in Wants as there is one for a get.
