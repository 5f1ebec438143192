-------------------------------- MODULE WsSync --------------------------------
(***************************************************************************)
(* The WebSocket sync protocol: WsClient and WsServer over the sockets     *)
(* they share, and what must hold of the two databases.                    *)
(***************************************************************************)
EXTENDS WsClient, WsServer

Init ==
  /\ clientDb = [c \in Change |-> 0] /\ clientVersion = 0 /\ clientTracked = 0
  /\ announced = 0 /\ lastSeen = 0 /\ applying = <<>>
  /\ streaming = FALSE /\ lastSent = 0 /\ pulls = <<>> /\ timer = FALSE /\ notified = FALSE
  /\ socket = 0 /\ open = FALSE
  /\ toServer = [s \in Socket |-> <<>>] /\ toClient = [s \in Socket |-> <<>>]
  /\ serverDb = [c \in Change |-> 0] /\ serverVersion = 0 /\ serverTracked = 0
  /\ phase = [s \in Socket |-> "none"]
  /\ inSeen = [s \in Socket |-> 0] /\ settling = [s \in Socket |-> <<>>]
  /\ outSent = [s \in Socket |-> 0]
  /\ outTimer = [s \in Socket |-> FALSE] /\ outNotified = [s \in Socket |-> FALSE]

Next == ClientNext \/ ServerNext

Spec == Init /\ [][Next]_vars

(***************************************************************************)
(* Fairness: event loops run what is queued and timers fire, so every      *)
(* step of the program that is enabled for good is taken.  Nobody has to   *)
(* write, restart or break a connection, and no transaction has to fail.   *)
(***************************************************************************)
Fairness ==
  /\ WF_vars(OpenSocket)
  /\ WF_vars(SocketCloses)
  /\ WF_vars(ReceiveStartStreaming \/ ReceiveReject \/ AcceptChanges \/ RejectChanges)
  /\ WF_vars(ChangeNotification) /\ WF_vars(TimerFires)
  /\ WF_vars(PullReads) /\ WF_vars(PullEmpty \/ PullSent \/ PullDeferred)
  /\ WF_vars(Apply)
  /\ \A s \in Socket :
       /\ WF_vars(ReceiveAnnounce(s) \/ ReceiveChanges(s) \/ DropEarlyChanges(s) \/ ReceiveRejected(s))
       /\ WF_vars(ConnectionCreated(s))
       /\ WF_vars(OutboundEmpty(s) \/ OutboundSent(s))
       /\ WF_vars(SettleLastSeen(s))
       /\ WF_vars(ConnectionCloses(s))

FairSpec == Spec /\ Fairness

-----------------------------------------------------------------------------
\* Every variable stays in its range (all of them are plain JavaScript fields
\* or SQLite columns).
TypeOK ==
  /\ clientDb \in [Change -> Nat] /\ clientVersion \in Nat /\ clientTracked \in Nat
  /\ announced \in Nat /\ lastSeen \in Nat
  /\ applying \in Seq([since : Nat, hi : Nat, old : Nat])
  /\ streaming \in BOOLEAN /\ lastSent \in Nat
  /\ pulls \in Seq([read : BOOLEAN, hi : Nat])
  /\ timer \in BOOLEAN /\ notified \in BOOLEAN
  /\ socket \in 0 .. MaxSockets /\ open \in BOOLEAN
  /\ open => socket > 0
  /\ toServer \in [Socket -> Seq(Message)] /\ toClient \in [Socket -> Seq(Message)]
  /\ serverDb \in [Change -> Nat] /\ serverVersion \in Nat /\ serverTracked \in Nat
  /\ phase \in [Socket -> Phase]
  /\ inSeen \in [Socket -> Nat] /\ settling \in [Socket -> Seq(Nat)]
  /\ outSent \in [Socket -> Nat]
  /\ outTimer \in [Socket -> BOOLEAN] /\ outNotified \in [Socket -> BOOLEAN]

(***************************************************************************)
(* The client holds every change of the server up to the version its       *)
(* tracked_peers row records: what it announces after a restart skips      *)
(* nothing (ws-client InboundStream.receiveChanges).                       *)
(***************************************************************************)
ClientHoldsWhatItTracks ==
  \A c \in ServerChange : 0 < serverDb[c] /\ serverDb[c] <= clientTracked => clientDb[c] > 0

(***************************************************************************)
(* Why that holds as long as no transaction of the client fails: messages  *)
(* end at versions the server gave, and each accepted one starts where the *)
(* record, or an accepted one before it, ends.                             *)
(***************************************************************************)
IsServerVersion(v) == v > 0 /\ \E c \in ServerChange : serverDb[c] = v

VersionsBounded ==
  /\ \A c \in Change : serverDb[c] <= serverVersion
  /\ clientTracked <= serverVersion

WireOK ==
  \A s \in Socket : \A i \in 1 .. Len(toClient[s]) :
    toClient[s][i].type = "changes" => IsServerVersion(toClient[s][i].hi)

Covered(n, v) == v <= clientTracked \/ \E j \in 1 .. n : v <= applying[j].hi

ApplyingOK ==
  /\ \A i \in 1 .. Len(applying) :
       IsServerVersion(applying[i].hi) /\ Covered(i - 1, applying[i].since)
  /\ Covered(Len(applying), lastSeen)

DownstreamInv == VersionsBounded /\ WireOK /\ ApplyingOK /\ ClientHoldsWhatItTracks

(***************************************************************************)
(* Where a change the client lacks can be while its connection works: in   *)
(* an accepted message, in one on the wire, above what a new stream will   *)
(* start from, or above #lastSent of a stream that has a notification or   *)
(* a timer due.                                                            *)
(***************************************************************************)
Carries(msg, v) == msg.since < v /\ v <= msg.hi

Brings(wire, v) ==
  \E i \in 1 .. Len(wire) : wire[i].type = "changes" /\ Carries(wire[i], v)

BeingApplied(v) == \E j \in 1 .. Len(applying) : Carries(applying[j], v)

StreamWillStartBelow(v) ==
  \/ /\ phase[socket] = "none" /\ toServer[socket] # <<>>
     /\ Head(toServer[socket]).type = "announce" /\ Head(toServer[socket]).since < v
  \/ phase[socket] = "creating" /\ outSent[socket] < v

StreamIsDueBelow(v) ==
  phase[socket] = "live" /\ outSent[socket] < v /\ (outNotified[socket] \/ outTimer[socket])

(***************************************************************************)
(* No wake-up of the server's stream is lost: while a connection works, a  *)
(* change the client lacks is in one of those places, so that something is *)
(* left to do until it arrives (ws-server OutboundStream.#dbChanged).      *)
(***************************************************************************)
NoServerChangeIsForgotten ==
  open /\ phase[socket] \in {"none", "creating", "live"} =>
    \A c \in ServerChange : serverDb[c] > 0 =>
      \/ clientDb[c] > 0 \/ BeingApplied(serverDb[c]) \/ Brings(toClient[socket], serverDb[c])
      \/ StreamWillStartBelow(serverDb[c]) \/ StreamIsDueBelow(serverDb[c])

\* What arrives never starts above what the client has seen: it is never
\* rejected, which matters because OutboundStream.reset does nothing
\* (ws-client InboundStream.receiveChanges).
NothingIsOutOfOrder ==
  open /\ toClient[socket] # <<>> /\ Head(toClient[socket]).type = "changes" =>
    GreaterThanOrEqual(lastSeen, Head(toClient[socket]).since)

(***************************************************************************)
(* The same in the other direction: the server holds every change of the   *)
(* client up to the version its tracked_peers row records, from which it   *)
(* asks the client to start streaming (ws-server InboundStream).           *)
(***************************************************************************)
ServerHoldsWhatItTracks ==
  \A c \in ClientChange : 0 < clientDb[c] /\ clientDb[c] <= serverTracked => serverDb[c] > 0

(***************************************************************************)
(* Once the client was told where to start on this socket, no change it    *)
(* counts as sent is lost while the socket lives: each is on the way,      *)
(* in the server's database, or above #lastSent and still to be sent.      *)
(***************************************************************************)
OnTheWay(c) == \E i \in 1 .. Len(toServer[socket]) :
                 /\ toServer[socket][i].type = "changes"
                 /\ c \in Between(clientDb, ClientChange, toServer[socket][i].since,
                                  toServer[socket][i].hi)

SentIsOnTheWayOrThere ==
  streaming /\ open /\ phase[socket] = "live" =>
    \A c \in ClientChange :
      0 < clientDb[c] /\ clientDb[c] <= lastSent => serverDb[c] > 0 \/ OnTheWay(c)

\* Sync from the server to the client implements in-order replication.
ServerToClient ==
  INSTANCE InOrderReplication WITH
    Change <- ServerChange,
    source <- [c \in ServerChange |-> serverDb[c]],
    held <- {c \in ServerChange : clientDb[c] > 0},
    mark <- clientTracked

ServerToClientIsInOrder == ServerToClient!Spec

\* Sync from the client to the server implements it as well.
ClientToServer ==
  INSTANCE InOrderReplication WITH
    Change <- ClientChange,
    source <- [c \in ClientChange |-> clientDb[c]],
    held <- {c \in ClientChange : serverDb[c] > 0},
    mark <- serverTracked

ClientToServerIsInOrder == ClientToServer!Spec

\* Every change written at the server reaches the client in the end.
ServerChangesReachClient ==
  \A c \in ServerChange : serverDb[c] > 0 ~> clientDb[c] > 0

\* Every change written at the client reaches the server in the end.
ClientChangesReachServer ==
  \A c \in ClientChange : clientDb[c] > 0 ~> serverDb[c] > 0
=============================================================================
