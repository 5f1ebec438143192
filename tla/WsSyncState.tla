----------------------------- MODULE WsSyncState -----------------------------
(***************************************************************************)
(* The state shared by the two halves of the WebSocket sync protocol: the  *)
(* browser half (ws-client over ws-browserdb, module WsClient) and the     *)
(* server half (ws-server, module WsServer), with the sockets between      *)
(* them.  One client, one room, and the server's other writers.            *)
(*                                                                         *)
(* A change is one row changed by one transaction; no two changes touch    *)
(* the same row, so merging never discards anything.  A database maps each *)
(* change to the db_version its own crsql_changes gives it, 0 when it does *)
(* not hold it.  Versions of the two databases are never compared with     *)
(* each other.                                                             *)
(***************************************************************************)
EXTENDS Naturals, Sequences

CONSTANTS
  ClientChange,        \* the changes the application writes at the client
  ServerChange,        \* the changes other clients and server code write
  MaxSockets,          \* bound: how many WebSockets the client ever opens
  MaxPulls,            \* bound: #dbChanged calls awaiting pullChangeset
  SocketsMayDrop,      \* BOOLEAN: the network may break a connection
  ClientMayRestart,    \* BOOLEAN: the sync worker may stop or die, and start
  ClientApplyMayFail,  \* BOOLEAN: a client transaction may roll back
  ServerApplyMayFail   \* BOOLEAN: a server transaction may roll back

ASSUME ConstantsAssumption ==
  /\ ClientChange \cap ServerChange = {}
  /\ MaxSockets \in Nat \ {0}
  /\ MaxPulls \in Nat \ {0}
  /\ SocketsMayDrop \in BOOLEAN
  /\ ClientMayRestart \in BOOLEAN
  /\ ClientApplyMayFail \in BOOLEAN
  /\ ServerApplyMayFail \in BOOLEAN

Change == ClientChange \cup ServerChange

\* The sockets a client opens, in order; only the last one is ever current.
Socket == 1 .. MaxSockets

VARIABLES
  \* The client's file.
  clientDb,        \* its crsql_changes: change -> version
  clientVersion,   \* its db_version
  clientTracked,   \* the version crsql_tracked_peers keeps for the server
  \* The client's sync worker.
  announced,       \* the lastSeens read once by SyncedDB.start
  lastSeen,        \* InboundStream.#lastSeens for the server
  applying,        \* accepted messages whose transaction is pending
  streaming,       \* OutboundStream.#lastSent is not null
  lastSent,        \* OutboundStream.#lastSent (meaningful when streaming)
  pulls,           \* pullChangeset calls not resumed and not yet stale
  timer,           \* OutboundStream.#timeoutHandle is armed
  notified,        \* a change notification is on its way to #dbChanged
  socket,          \* the number of the current WebSocket, 0 before the first
  open,            \* its readyState is OPEN
  \* What travels on each socket.
  toServer, toClient,
  \* The server's file.
  serverDb, serverVersion, serverTracked,
  \* The server's connections, one per socket.
  phase,           \* where the ConnectionBroker of the socket stands
  inSeen,          \* the connection's InboundStream.#lastSeen
  settling,        \* #lastSeen assignments waiting behind an await
  outSent,         \* the connection's OutboundStream.#lastSent
  outTimer,        \* its #timeoutHandle is armed
  outNotified      \* its change callback is due

clientFile == <<clientDb, clientVersion, clientTracked>>
inbound == <<lastSeen, applying>>
outbound == <<streaming, lastSent, pulls, timer, notified>>
link == <<socket, open>>
wires == <<toServer, toClient>>
serverFile == <<serverDb, serverVersion, serverTracked>>
conns == <<phase, inSeen, settling, outSent, outTimer, outNotified>>
vars == <<clientFile, announced, inbound, outbound, link, wires, serverFile, conns>>

Phase == {"none", "creating", "live", "failed", "closed"}

(***************************************************************************)
(* A message.  A Changes message stands for exactly the sender's own       *)
(* changes with a version in (since, hi]: versions once given never change *)
(* and later ones are higher, so the interval keeps naming the same set.   *)
(***************************************************************************)
Message == [type : {"announce", "start", "changes", "reject"}, since : Nat, hi : Nat]

Msg(type, since) == [type |-> type, since |-> since, hi |-> since]
Changes(since, hi) == [type |-> "changes", since |-> since, hi |-> hi]

Higher(a, b) == IF a > b THEN a ELSE b

\* greaterThanOrEqual of ws-common on versions whose seq is always 0.
GreaterThanOrEqual(seen, since) == seen >= since

\* The changes of S in db that a Changes message with this interval carries.
Between(db, S, since, hi) == {c \in S : since < db[c] /\ db[c] <= hi}

\* hi is the version of the last row pullChangeset returns, 0 when S is empty in db.
IsLast(db, S, hi) == /\ hi \in {0} \cup {db[c] : c \in S}
                     /\ \A c \in S : db[c] <= hi

(***************************************************************************)
(* One transaction of inserts into crsql_changes: what the database lacks  *)
(* gets its next local version, what it has is a no-op of the merge.       *)
(***************************************************************************)
Missing(db, batch) == {c \in batch : db[c] = 0}

Merge(db, version, batch) ==
  [c \in Change |-> IF c \in Missing(db, batch) THEN version + 1 ELSE db[c]]

MergedVersion(db, version, batch) ==
  IF Missing(db, batch) = {} THEN version ELSE version + 1

\* Bytes written to the current socket reach the server unless it closed its end.
SendToServer(msg) ==
  toServer' = IF phase[socket] = "closed" THEN toServer
              ELSE [toServer EXCEPT ![socket] = Append(@, msg)]

\* Bytes written to socket s reach the client while it is open at its end.
Reachable(s) == s = socket /\ open

SendToClient(s, msgs) ==
  toClient' = IF Reachable(s) THEN [toClient EXCEPT ![s] = @ \o msgs] ELSE toClient
=============================================================================
