# A verification project for crsql-base

TLA+ models of the parts of this repository whose correctness is a matter of
order: the WebSocket sync protocol, the shared room databases of the sync server and
its LiteFS front, the older direct-connect protocol in both directions, peer-to-peer
sync, the exclusive start of sync over tabs, the asynchronous database of the browser
with its change notification, the live queries of the React bindings, and the codecs of
both protocols. TLC checks them on small instances; TLAPS proves the most important
results for every instance. All paths below are relative to `src/packages/`.

## 1. What the system is

cr-sqlite makes a SQLite file mergeable: it records every changed row in the virtual
table `crsql_changes`, with a version (`db_version`) local to the file and the site
that wrote it; inserting another file's rows merges them. The packages here run it in
browsers, Node and Bun, keep files in sync, and tell user interfaces what changed.

| part | state it keeps | operations | talks to |
|---|---|---|---|
| `ws-client` with `ws-browserdb` | `#lastSeens`, `#lastSent`, a retry timer, the current WebSocket, `crsql_tracked_peers` | start, stop, receive changes / start / reject, a change notification, a timer | `ws-server` by WebSocket; the application's writes by a table watcher |
| `ws-client/worker`, `react/db/useSync` | one start per database and tab, a queue for its lock | start and stop sync, exclusive over tabs (`navigator.locks`) | the above |
| `ws-server` streams and connections | a `SyncConnection` per WebSocket with `#lastSeen`, `#lastSent`, a timer; `crsql_tracked_peers` of the room | announce, changes, reject, close; throttled change callbacks | client, room database |
| `ws-server/DBCache` | room → [reference count, promise of the DB] | `getAndRef`, `unref`, `use`, `destroy` | connections, DB factory |
| `fs/FSNotify` (two copies) | listeners by file, pending notifications | file watched, listener added and removed | the room databases |
| `react/queryHooks`, `rx-query/LiveQuery` | statement, data, pending prepare and fetch, a queued fetch | query, bindings or table changed, promises settle, dispose | asynchronous SQLite, `rx-tbl` |
| `rx-tbl` | listeners by table, collected updates, a timer, a BroadcastChannel | update hook, notify, subscribe | SQLite, other tabs |
| `crsqlite-wasm` | a mutex, a cache of pending queries, statements to finalise | exec, prepare, transactions, close | SQLite compiled to WebAssembly |
| `ws-litefs` | the name of the primary, a TCP socket to it, pending requests | forward changes, create a database on the primary, follow the `.primary` file | `ws-server`, LiteFS |
| `direct-connect-*` | browser: a sequence number and ticks in flight, collected messages, a restart timer; Node: the version recorded for each browser, one stream per event source | create or migrate, post changes, open a stream, restart it | the two halves by HTTP posts and server-sent events |
| `p2p` | versions seen from each peer, a pending notification, connections by peer | poke, request, send and apply a change set | peers by WebRTC (PeerJS) |
| `ws-common`, `direct-connect-common` | none | encode and decode messages | both ends |
| `id`, adapters, packaged builds, demos | none to speak of | | |

What is hard here:

* **Interleaving around awaits.** JavaScript runs one callback at a time, but every
  `await` is a place where fields read before it may have changed: `#dbChanged` around
  `pullChangeset`, `receiveChanges` around its transaction, `getAndRef` around `createDB`,
  `fetch` around `prepare`.
* **Order.** Changes must be applied in the order of their versions, or a recorded
  version claims changes that are not there; they are then never asked for again.
* **Failure.** WebSockets break with messages on the way, workers die between two
  transactions, transactions roll back, creation of a database rejects.
* **Timers.** A full buffer or a missing connection turns into a timer that competes
  with the next notification and the next socket.
* **Life cycles.** References are counted across asynchronous creation, and a connection
  is closed on three different occasions; a sync is stopped while its database still opens.
* **Sharing.** Equal reads share one promise, tabs share one database and one lock, ports
  share one sync: what one user does ends or answers the operation of another.

What makes each part correct: sync never leaves a gap below a recorded version and
eventually delivers everything; a room's database is open exactly as long as someone
uses it; at most one tab syncs a database, and one does while any tab means to; a write
that was acknowledged on a follower is in the room in order, wherever the primary went; a
read of the browser's database sees the writes called before it and nothing uncommitted; what
one end of a connection writes the other reads back; a live query never shows data of another query, of other bindings or of an
older table without being about to be told, and in the end shows data or an error.

## 2. The modules

| module | models | correspondence |
|---|---|---|
| `WsSyncState` | what both halves of sync share | messages of `ws-common/msgTypes.ts`; `crsql_changes` as a function from changes to versions; one inbound and one outbound channel per WebSocket |
| `WsClient` | `SyncedDB`, `InboundStream`, `OutboundStream`, `WebSocketTransport`, `WrappedDB` | one action for what runs between two awaits: `DbChanged` is `#dbChanged` before its await, `PullReads` the SQLite query, `PullEmpty`/`PullSent`/`PullDeferred` the rest |
| `WsServer` | `ConnectionBroker`, `SyncConnection`, its streams, the room `DB` | the server's SQLite is synchronous, so `ReceiveChanges` holds the transaction; only the assignment of `#lastSeen` behind an await is an action of its own |
| `WsSync` | both halves together | `Init`, `Next`, fairness, invariants, the two refinement mappings |
| `InOrderReplication` | what one direction of sync promises | versions at a source, what a destination holds, its mark |
| `WsRoom` | `DBCache` with the life of each `ConnectionBroker` | `Unref` is `DBCache.unref`, which goes by room and not by entry; what waits for a settled promise goes on before the next socket event (`Quiet`) |
| `LiveQuery` | `AsyncResultStateMachine` of `queryHooks.ts` | `Prepare`, `Fetch`, `PullData`, ... are its methods as functions of its fields; a promise is a number, so that comparing promises is what it is in the code |
| `SyncLock` | `useSync`, `WorkerInterface`, `worker.ts`, `SyncService`, `createAndStartSyncedDB_Exclusive` | one record per start: its turn for the lock, whether it was stopped, how far its database got; `StartSync` and `StopSync` are the worker's message handlers, `Granted`, `Opened`, `Connected` what its promises go on to |
| `LiteFS` | `ws-litefs`: `PrimaryConnection`, `PrimarySocket`, `LiteFSDBFactory`, `LiteFSDB`, `LiteFSWriteService`, seen from one node for one room | the primary's log, this node's copy of it, `socket` (`#primarySocket`) with its pending requests and answers, and the `older` ones that still carry requests; LiteFS itself (moves of the primary, lost transactions, replication) is external |
| `AsyncDb` | `crsqlite-wasm`: `serialize`, the mutexes, `DB`, `TX`, `Stmt` | one action per call and per queue entry served; SQLite is the set of writes it shows; what `assertOpen` refuses inside a transaction that `close` overtook is `RefuseTx` and a case of `EndTx` |
| `TblRx` | `rx-tbl` on top of `AsyncDb`, and a second tab | update hook, collected updates and their timer, listeners by table and row, the BroadcastChannel, dispose |
| `DirectUp` | browser to server: `SyncService`, `SyncedDB`, `OutboundStream`, `Fetcher`; `DBSyncService` | a stream with a sequence of ticks; `Pull`, `Posted`, `PostFails` split a tick at its awaits, `ApplyChanges` is the server's handler and may run for a post that fails |
| `DirectDown` | server to browser: the Node `OutboundStream`, `InboundStream` | an event source and the server's stream for it are one record; `msgReceivedFromServer`, `applyChangesetMsg`, `Committed`, `TransactionFails`, and the restart timer |
| `P2P` | `WholeDbReplicator` and `WholeDbRtc` of every site | a log per site, the recorded versions, connections with an end at each site, one queue per direction |
| `Codecs` | `encode`/`decode` of `ws-common`; the binary and JSON forms of `direct-connect-common` | what is written and what is read are two lists per message, each taken from its own file |
| `MCWsSync`, `MCWsRoom`, `MCDirectUp`, `MCP2P`, `MCCodecs` | | symmetry sets and sample messages for TLC |
| `WsSyncProofs`, `WsRoomProofs`, `HookProofs`, `LiteFSProofs`, `DirectUpProofs`, `DirectDownProofs`, `P2PProofs`, `TblRxProofs` | | theorems and proofs; `HookProofs` is about what the React hooks rest on, `SyncLock` and `LiveQuery`, `TblRxProofs` about `AsyncDb` and `TblRx` together |

Operators whose comment begins with "Mutant of" or "A mutant of" are not part of a specification: each is a
definition with one plausible bug, and shows that some property would notice it.

Modelling decisions a reader should know:

* No two changes touch the same row. Conflict resolution belongs to the SQLite extension,
  whose code is not here; with it left out, merging is "what is missing gets the next
  local version".
* `pullChangeset` returns rows in the order of their versions. Its queries have no `ORDER
  BY`; the code takes the last row to be the highest, and so does the model.
* A Changes message is an interval of versions. It names the same set for ever, as
  versions are given once and grow.
* Full buffers and reopening sockets are nondeterministic whenever a message waits in the
  channel, whatever the bytes.
* The server process does not restart in the models; for a client that is the same as all
  its connections closing, for `DBCache` it is a new cache.
* Left out of `WsRoom`: `use` and `destroy` of `DBCache` (maintenance and shutdown). Left out of
  `LiveQuery`: filters by row and update type and post-processing of rows; the read
  transaction that queries share is one mutex. Left out of `P2P`: dispose, `schemaChanged`
  and `onConnectionsChanged`. Left out of `AsyncDb`: iterate and bind outside the mutex,
  `imperativeTx`, statement methods that do not check that the database is open, migrations.
* `SyncLock` is the worker of `ws-client`. The dedicated worker of `direct-connect-browser`
  has a lock of its own and starts syncing also when the lock is granted after a stop.
* `DB.close` sets `#closed` when `crsql_finalize` has run, and from then on every call of a
  transaction's function is refused, its `SAVEPOINT`, `ROLLBACK TO` and `RELEASE` included, while
  calls that the database accepted before are still served. async-mutex (external) gives its lock to
  the next in the queue before the promise of the call it served settles, so a transaction that is
  next begins before `#closed` is set: `RunCrsqlFinalize` decides which. What is open when SQLite
  closes is rolled back (`RunClose`). Left out: a close that SQLite refuses since a statement
  was prepared and not finalized after `close` looked.
* Simplified, with no property that would notice: the second `CreateDb` for a lost schema and
  `#cleanupIdleDBs` in `LiteFS`, the order of what `DirectDown` queues before a stream has
  started, and the optional `queryIds` of a message, which no encoder writes.
* `Codecs` scales everything down: a byte is four bits, a 64-bit integer two bytes, an id two
  bytes, a double is exact up to `MaxSafe` and even above it. lib0's primitives (variable-length
  integers, strings) are external. Numbers that are not finite are left out.
* `excused` in `LiteFS`, `AsyncDb`, `P2P`, `DirectUp` and `DirectDown` is a history variable: it
  collects the steps after which the code is known not to keep a promise (a tick that
  overlaps another, a failed transaction nothing retries). A property that mentions it
  holds outright as long as none of the steps it names has happened; each excuse is
  explained where the set `Excuse` is defined, and most are findings.

## 3. What is checked

| run | instance | shows |
|---|---|---|
| `ws_faults` | 1 client change, 2 server changes, 2 sockets | Server to client with dropped sockets, restarts of the worker, full buffers and failing server transactions: `DownstreamInv` is inductive support for `ClientHoldsWhatItTracks`, and the direction refines `InOrderReplication` |
| `ws_upstream` | 2 client changes, 2 server changes, 2 sockets, 2 overlapping pulls | Client to server, restarts included, when a socket closes only after its messages were delivered: refines `InOrderReplication`; what counts as sent is on the way or there |
| `ws_live` | 2 server changes, 2 sockets | Under fairness every server change reaches the client |
| `ws_room` | 3 connections, 2 schemas | exact counts, one open database, no connection without its database, as long as nobody is closed twice |
| `live_query` | 3 queries, 3 bindings, 2 commits | one read at a time, no stale data or bindings, and it settles unless a prepare was overtaken or failed |
| `sync_lock` | 2 tabs with 2 hooks, 2 starts each, 1 failed opening | at most one tab is connected, whatever stops and closed tabs overtake; somebody syncs while a worker means to, but for a database that fails to open under the lock |
| `litefs` | 1 node, 2 peers, 2 writes, 2 moves of the primary, 1 broken connection | acknowledged writes committed in order, a gap in what is sent only after a failure, nobody writes to a copy, a steady primary answers well, every request settles, the node follows the primary but for three known cases |
| `browser_db` | 2 listeners, 1 write, 1 transaction, close, another tab, 1 failure | shared reads are neither too old nor dirty and resolved writes last, but for what surrounds a transaction that `close` overtook or whose RELEASE failed; every view of both tabs becomes fresh, every call settles |
| `direct_up` | 2 ports, 2 streams, 3 writes, 1 fault, 1 tick overlapping another | the record of the server never passes what it holds and goes forward while ticks do not overlap; a quiet stream has sent everything but for what it never retries |
| `direct_down` | 4 versions, 3 event sources, 2 breaks, 1 failed transaction | the browser tracks only what it holds, has all there is when nothing is under way, and catches up unless a transaction failed or one restart overtook another |
| `p2p` | 2 sites, 2 writes, 2 connections, 1 fault | a recorded version promises every change below it and goes forward; at rest, connected sites have the same changes but for what is never retried |
| `codecs` | every message, each field at the borders of its encoding, alone or joined with the next | the first message is read back as it was written; JSON keeps every SQL value it can carry |

What the code does against its own comments has a configuration of its own. Each of these is
to end in a counterexample; they are run by hand, in this directory.

| command | shows |
|---|---|
| `tlc -config ws_server_gap.cfg MCWsSync` | the server applies what it rejects: a gap below the recorded version |
| `tlc -config ws_client_gap.cfg MCWsSync` | messages accepted on top of a failed one are recorded |
| `tlc -config ws_lost_wakeup.cfg MCWsSync` | overlapping pulls lose a wake-up |
| `tlc -config ws_room_closed_twice.cfg MCWsRoom` | a broker closed twice takes somebody else's database |
| `tlc -config live_query_stuck.cfg LiveQuery` | a query changed during its prepare never settles |
| `tlc -config live_query_unbound.cfg LiveQuery` | a write during a prepare leaves the statement unbound |
| `tlc -config litefs_follow.cfg LiteFS` | a primary that returns is never connected to again |
| `tlc -config direct_down_gap.cfg DirectDown` | a message that does not follow is applied although it restarts the stream |
| `tlc -config json_rounds.cfg MCCodecs` | a large negative integer is rounded in JSON |
| `tlc -config db_shared_read.cfg TblRx` | a read called after a transaction shares one queued before it |
| `tlc -config db_closing_tx.cfg TblRx` | a write queued behind a transaction that `close` cut off is lost after its promise resolved |
| `tlc -config hook_unserved.cfg SyncLock` | the first hook that goes stops the sync of the other |

**Bounds and why they suffice.** Two changes on a side are the least for a gap: one lost,
one recorded above it. Two sockets are the least for a reopening; the last one does not
break in the liveness run, since otherwise nothing need arrive. Two pulls are the
least that overlap (`MaxPulls`); a third notification finds `#dbChanged` in the same two
situations. Three connections are the least with a creator, one who shares its entry
and one who finds what they left. `MaxCloses` is 2 as the third close repeats the second. Three
queries let a query change overtake one that overtook another. Two tabs and two starts each let
a tab wait behind another, take over, and be waited for; the third start does what the
first did. Two moves of the primary let a node be primary and follower again, and a peer
return. Two event sources are what a restart makes, the third lets a restart overtake a restart;
two breaks let one connection repeat what another lost. Two ports are the least that share a
sync, and one extra tick the least that overlaps. Two connections are the least that cross. The point listener of `browser_db` watches rows that
the transaction touches (`PointRows`) and the plain write does not. Messages of `codecs` vary
one field at a time, as fields are written one after another and each is read by its own
primitive. Deadlock checking is off in all runs: each system may come to rest when everything
is synced, closed or shown.

**Fairness.** Weak fairness on what an event loop does by itself: a queued message is
handled, a settled promise goes on, a timer fires, a transaction that was begun ends, the
transport's keep-alive reopens a closed socket. Nothing obliges anyone to write, to
restart, to break a socket or to fail. In `WsSync` a full buffer drains, which is why
`OutboundSent` is among the fair steps and `OutboundBufferFull` is not. `browser_db`: the mutex
serves its queue (weak), and whoever opened a transaction ends its function (strong, as the
function may be waiting for its own reads in between). `direct_down`: timers fire, promises
settle and a connected source delivers, while breaks and failed transactions are free.
`sync_lock`: a living worker handles its messages, its grants and its promises; failing to open is
free. `litefs`: the file is read, sockets are reopened and answered, LiteFS replicates, and the
newest socket is served; moves, breaks and lost transactions are free.

**Findings.** `PROJECT.json` quotes for each the line that promises otherwise. In short:

* `ws-server/src/streams/InboundStream.ts` lacks a `return` after a rejection; its twin in
  `ws-client` restores `#lastSeens` after a failure though later messages went ahead.
* `ws-client/src/streams/OutboundStream.ts` takes a concurrent pull for a reset.
* `ConnectionBroker.close` is not idempotent.
* `queryHooks.ts` leaves `queuedFetch` set when the prepare it waits for was abandoned, and drops
  the rebinding when a write replaces the first fetch.
* `PrimaryConnection` does not reconnect to a primary that returns; `waitUntil` gives up on a room
  that has not arrived; `LiteFSWriteService` throws, and does not answer, for a room that was
  not created on the same connection.
* `WholeDbReplicator` says it requests again what it failed to apply, and does not.
* Direct-connect: ticks overlap because the finally block clears the tick started just before;
  `stopSync` takes a promise for a boolean and drops the entry that other ports use; a message
  that does not follow is applied although the stream is restarted for it.
* `SyncService.stopSync` of `ws-client` has no reference count though its comment has one.
* `serializeTx` of `crsqlite-wasm` leaves the cache of reads alone, so a read called after `db.tx` may
  share one queued before it; `SeesEarlierWrites` has to except it (`"shared"`).
* `jsonEncode` compares integers with `MAX_SAFE_INTEGER` only, so large negative ones are rounded.

## 4. What is proved

All theorems hold for every set of changes, every number of sockets, connections, schemas,
tabs, ports and streams, and every bound.

**Sync (`WsSyncProofs`).**
* `TypeCorrect`: `Spec => []TypeOK`, with every fault allowed.
* `DownstreamInvariant` and `ClientNeverSkips`: if no client transaction fails
  (`~ClientApplyMayFail`), the client holds every server change up to the version it records.
  That statement alone is not inductive: a message in flight could end anywhere, and an
  accepted one could start above what the ones before it bring. `DownstreamInv` adds that
  recorded versions do not run ahead of the server (`VersionsBounded`), that messages end at
  versions the server gave (`WireOK`), and that each accepted message starts at or below the
  record or the end of an accepted one before it, as does `lastSeen` itself (`ApplyingOK`).
  Server transactions may fail, sockets break, workers restart.
* `ServerToClientRefines`: under the same assumption the protocol implements
  `InOrderReplication`. Each step is a `Write`, a `Deliver` or a stutter.

The assumption cannot be dropped: `ws_client_gap` is the counterexample.

* `ServerSendsInOrder`, under the same assumption: the client never rejects what arrives. The
  messages on a socket form a chain: each starts at or below what was announced before it, by the
  start message or by the end of an earlier one, and what was announced is at most `lastSeen` once
  received. `OutboundStream.reset`, which does nothing, is never needed.
* `NoServerWakeUpIsLost`: while a connection works, a server change the client lacks is being
  applied, on the wire, above what a starting stream will start from, or above what a live
  stream has sent, and then a notification or a timer is due. Of what `ServerChangesReachClient`
  claims this is all but the fairness.

* `ServerNeverSkips`, `SentIsNotLost`, `ClientToServerRefines`: the other direction, if sockets lose
  nothing on the way and server transactions do not fail (`~SocketsMayDrop`,
  `~ServerApplyMayFail`; `ws_server_gap` is the counterexample otherwise). The server applies also
  what it rejects, so nothing can rest on its check. `UpstreamInv` says instead that a message
  on its way ends at a version the client gave and starts at or below the server's record or
  the end of an earlier message on the same socket (`QueueOK`), and so does `#lastSent` of a
  live stream (`StreamOK`) and what a start message names (`StartOK`), whatever pulls overlap.
  Then the first message of a socket that reaches a change brings everything below it.

* `MarkIsContiguous`, about the abstraction: whatever implements in-order replication leaves no
  gap below the mark. This is why the refinement is the statement to check of a protocol.

**Rooms (`WsRoomProofs`).**
* `TypeCorrect`, unconditional; it needs that a broker which is not live was never closed
  (`StagesOK`), or the closes would exceed their bound.
* `RoomInOrder`: the inductive invariant `RoomInv`. Exact counts alone are not inductive:
  `unref` goes by room name, so one must know that whoever holds a reference holds one of the
  entry in the map, that an entry in the map has holders and is not closed, that nobody is
  live on an entry still being created, and that the creator of a failed entry never
  gives its reference back (so no one else's `unref` meets a rejected promise as the last).
  All of it holds while each broker was closed at most once; `ws_room_closed_twice` shows
  what happens otherwise.
* `UsersKeepTheirDb`, `CountsAreExact`, `RoomOpenOnce` follow from it.

**The exclusive start (`HookProofs`, about `SyncLock`).**
* `LockInvariant`: `LockInv` with `EntryOK`. That at most one tab is connected is not inductive:
  the lock is let go before the database is closed, and a database may finish opening after
  its start was stopped. `LockInv` says that no two starts have the same turn for the lock
  (`TurnsDiffer`), that a start past the queue which was not stopped holds it (`OpenersHold`), and
  that a stopped start neither reads nor is connected (`StoppedAreOut`).
* `OneSyncsAtATime`: with the one holder of the lock, at most one connection.
* `NoSyncIsOrphaned`: a start that was not told to stop is the one its worker knows, so a stop
  can reach it. `TheLockIsUsed`: while some worker means to sync, the least turn in the queue
  belongs to a start that was stopped, opens, is connected, or failed to open. The least turn
  exists because the turns are a set of numbers without a descending chain
  (`WellFoundedInduction`), and its start is one that was stopped or one its worker knows.

**Direct-connect, upwards (`DirectUpProofs`).**
* `UpInvariant`: `UpInv` says that every version a stream, a tick or a post starts from is one
  below which the server lacks nothing (`Reached`), and that the record of the server is such a
  version. The record itself may go back, when a late post comes after a newer one, so the
  argument cannot be that it grows; it is that the server never loses a change and that no
  stream moves past what was answered.
* `ServerHolds` and `SentIsThere` follow from it.
* `RestInvariant`: `RestInv`, for what must not be left behind. As long as `excused` is empty, a
  stream has at most one tick (`Wake`), although after a tick that was asked for `inflightTick` is
  reset while it runs; a tick that reads started at the sequence number of its stream, so
  that one which finds nothing shows that everything was sent; and what is not sent is news,
  asked for, being read, or in a post that reaches the latest version. `Ahead` says that
  with a single stream no post ends below the server's record.
* `QuietIsSent` and `SeenForward` follow, the first with `UpInv`.

**Direct-connect, downwards (`DirectDownProofs`).**
* `DownInvariant`: `DownInv`. A message that does not follow the last one is applied all the same, so
  contiguity of what was applied proves nothing. What does: every message carries all that
  happened between its ends (`Faithful`), and begins at or below what the transaction tracks
  or what an earlier message reaches (`Linked`), over the writes of the transaction, those
  collected behind it and those on the wire. A message out of order then repeats and never
  leaves a gap. It holds while there is one source and one restart at a time (`OneSource`),
  which is what `excused = {}` means.
* `ClientHolds` follows. `TrackedForward` does not depend on `excused` at all: what the browser
  tracks never goes back.
* `RestInvariant`: `RestInv`, for what must not be left behind. A stream that is not about to be
  called has read every change of others (`ReadOK`), nothing is collected while no transaction
  is under way (`CollectedOK`), and where no restart is due and no start asks for a version there
  is a source (`SourceOK`).
* `QuietIsInSync` follows: with nothing under way, the version a stream has read to is, by
  `DownInv`, one the browser tracks, and what it tracks it holds.

**Peer-to-peer (`P2PProofs`).**
* `TracksInvariant`: `TracksInv` and `OrderOK`. A recorded version may go back when two connections
  cross, so what must be said is of messages: with the changes an answer carries its receiver
  has all that the sender had up to each version the answer names (`AnswerOK`), and a request names
  a version below which the asker lacks nothing. `OrderOK` says that over a single connection
  answers come in the order of what they reach, none below what is recorded.
* `TracksHeld` needs no exception; `GoesForward` is for sites that have opened one connection.
* `SyncInvariant`: `SyncInv`, for what must not be left behind. Each message goes over whatever
  connection its sender has by then, so the poke, the request and the answer may take three.
  `InSync` says where the news of what p wrote is on its way to s: due at p, in a poke that
  reaches p's last own change, asked for over a connection that still works, in an answer that
  brings all, or s has yet to see a connection to p close, which is then an orphan and excused.
  Holding after each step rests on `Opened`: a site has a connection of each peer it has one open
  with, and it is open, so that what is sent is lost only if that connection is about to close.
* `QuietIsInSync` follows. Its `Quiet` leaves aside what lies on broken connections.

**The database of a tab (`TblRxProofs`, about `AsyncDb` and `TblRx`).**
* `DatabaseInvariant`: `IInv`. A savepoint is open only while its transaction holds the mutex, or
  since its RELEASE failed or was refused because `#closed` was set (`SavepointOK`); what was called is settled or in the queue (`CallsOK`);
  no write is queued behind a cached read (`CacheOK`); a listener awaits one call (`ReadsOK`), and what
  that call must show is settled or queued before it (`BehindOK`). Of the tabs: a write that
  would show and that a listener has not seen is noted, or the listener is on its way
  (`FreshOK`), and what the transaction has written is committed or still to be told (`TabOK`), so
  that the post to the other tab comes after the commit or is known to be early. Once `#closed` is
  set no listener begins a read, and one that is ahead of what is committed stays due or noted
  (`ClosedOK`): that is why a view needs no excuse when close rolls a transaction back.
* `ReadsSee`, `NoDirty`, `ResolvedLast`, `ViewFresh`, `OtherTabFresh` follow, each with the excuses
  its property names.
* `NoCircle`: whoever waits awaits a call that a mutex has, and somebody can go on. It rests on
  `CircleInv`: a caller that waits has a call of its own in the queue or shares the
  transaction's read (`AwaitsOK`), and the transaction's function awaits nothing of the queue
  that it holds (`AloneOK`). The cache it shares with the database breaks the second: a read
  of the function that is answered with the promise of one queued behind the transaction never
  comes back, and every read that crosses so is excused (`crossed`).

**Live queries (`HookProofs`, about `LiveQuery`).**
* `QueryInvariant`: `QueryInv`. The methods call each other in the middle of what they change, so the
  invariant is stated of any state of the machine (`Good`) and each method is shown to keep it:
  `Prepare`, `Fetch` and `FetchInternal` are only entered when nothing is read (`Idle`), and that
  is because a read under way is awaited or was abandoned with another queued behind it
  (`FlightOK`), and because nothing is read before the statement awaited is there (`WaitingOK`).
  `CurrentOK` says that what is awaited or shown is of the query and bindings as they are;
  `Bound`, that the statement has the bindings or will get them first; `Heard`, that what
  was read is of the table as it is until the listeners are told.
* `OneRead`, `Fresh` and `NotStale` follow, with queries and reads that fail.
* `NoWaitInVain`: the prepare and the fetch that are awaited are under way, and a queued fetch has
  one to be started by (`Served`), unless a query change overtook a prepare or a prepare failed.
  It too is stated of any state of the machine and kept by each method.

**LiteFS (`LiteFSProofs`).**
* `TypeCorrect`, unconditional.
* `WritesInvariant`: `WritesOK`. An answer names a write and nothing else, so that what is acknowledged
  is what committed rests on what the open socket carries: requests and answers are names in
  order and without repetition, each awaited (`QueueOK`), and every write on it comes after all
  that were applied; a closed socket has no answers left (`ClosedOK`). `PendingOK` is the other half: what is awaited is on the open
  socket, and what closed ones carry was given up before it was sent, so a write that a peer
  applies for a closed socket comes before all that are pending. `CommittedOK` follows writes that committed,
  also when their answer is still on its way. A move of the primary may drop transactions
  from the log; `committed` is history, and the claim is about order, not about durability.
* `Acked` and `NoGap` follow. `OneSocket` is a part of the same invariant (`LinkOK`): one open
  socket, to the primary the node believes in, and every answer finds its request.
* `RoomInvariant` and `CopiesAreNotWritten`: until the primary moves, every transaction id that is
  answered or waited for has the schema below it, so the copy that reaches it has it too.
* `SteadyServes`: `SteadyOK` says in what order the requests are, the room before its writes.
* `AtRestItFollows`: `RestOK` says that the latest read of `.primary`, done or under way, found the
  primary, or there is news of the file, or reads overtook each other; and that a follower has a
  socket or its timer set, or a primary returned. So with nothing to read and no timer the node
  follows, but for the two excused cases.
* `NobodyIsLeftWaiting`: `AskedOK` says of whoever waits that its request or answer is on the open
  socket, unless the other end is gone or the message was swallowed. When a socket is replaced,
  those who wait on it are told.

From which assumptions: only the named ASSUMEs of the modules (the two kinds of changes are
disjoint, callers differ from one another, bounds are positive, the set of WebSockets is
finite).

**Only model-checked.** Liveness (`ServerChangesReachClient`, `SettlesUnlessInterrupted`,
`SomebodySyncs`, `EveryCallSettles`, `CatchesUp`, `RequestsSettle`, `FollowsUnlessExcused`):
fairness and ENABLED are beyond the prover. What is proved is their safety half, that whatever
is still to happen is under way and that nothing under way leaves nothing to do:
`NoServerWakeUpIsLost`, `NoWaitInVain`, `TheLockIsUsed`, `QuietIsInSync` (in both protocols),
`QuietIsSent`, `NobodyIsLeftWaiting`, `AtRestItFollows`, `NoCircle`. `Codecs` is recursive over
its data, which the provers cannot do induction on.
`FollowsAtRest`, `WaitersAreCarried`, `KnownStartsGoOn`, `LockIsHeldForSomething`,
`NothingIsAwaitedInVain`, `NobodyWaitsInACircle`, `NothingIsOutOfOrder`,
`NoServerChangeIsForgotten` and `TrackedGoesForward` are in no configuration, as the theorems
say more; they hold on the instances of section 3.

## 5. Plan

Done: the sync protocol, rooms, live queries, the LiteFS front, the browser's database and its
notifications, direct-connect, peer-to-peer sync, codecs, the exclusive start. Next:

1. `react/db/DBFactory`, a map of databases being opened behind one mutex, and the read
   transaction that live queries share, composed with `AsyncDb`.
2. Direct-connect's schemas (upload, activation, a cache with a time to live) and its workers.
3. The sets of watched files of `FSNotify`.

## 6. What is not modelled

* Identifiers and loggers: pure functions whose bytes no property here is about.
* The wiring of `ws-server/src/index.ts` (HTTP upgrade, authentication) and configuration.
* The file watchers of the three `FSNotify` copies: the models that listen to them take a
  notification to be due from the commit until it is delivered.
* Direct-connect's schema upload, database cache and worker entry points; `react/db/DBFactory`
  and `DBProvider`: planned above.
* SQLite, the cr-sqlite extension, LiteFS, PeerJS, lib0, HTTP and the browser's locks: taken as
  what the code here relies on.
* Packaged builds, adapters, demos, sandboxes, test packages: no state or protocol of their own.
