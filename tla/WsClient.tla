------------------------------- MODULE WsClient -------------------------------
(***************************************************************************)
(* The client half: SyncedDB, its InboundStream and OutboundStream, the    *)
(* WebSocketTransport, and the ws-browserdb WrappedDB under them.  All of  *)
(* it runs in one worker; an action is what runs between two awaits.       *)
(***************************************************************************)
EXTENDS WsSyncState

\* The application commits a transaction in another thread; the worker's
\* table watcher will hear of it (WrappedDB.onChange).
ClientWrite(c) ==
  /\ clientDb[c] = 0
  /\ clientDb' = [clientDb EXCEPT ![c] = clientVersion + 1]
  /\ clientVersion' = clientVersion + 1
  /\ notified' = TRUE
  /\ UNCHANGED <<clientTracked, announced, inbound, streaming, lastSent, pulls, timer,
                 link, wires, serverFile, conns>>

-----------------------------------------------------------------------------
\* The transport.

\* The first open and every keep-alive reopening: onopen runs onReady, which
\* announces the lastSeens read when the SyncedDB started.
OpenSocket ==
  /\ ~open
  /\ socket < MaxSockets
  /\ socket' = socket + 1
  /\ open' = TRUE
  /\ toServer' = [toServer EXCEPT ![socket + 1] = <<Msg("announce", announced)>>]
  /\ UNCHANGED <<clientFile, announced, inbound, outbound, toClient, serverFile, conns>>

\* readyState becomes CLOSED: the server closed its end and everything it
\* sent has arrived, or the network broke and what was on the way is lost.
SocketCloses ==
  /\ open
  /\ \/ phase[socket] = "closed" /\ toClient[socket] = <<>>
     \/ SocketsMayDrop /\ socket < MaxSockets
  /\ open' = FALSE
  /\ toClient' = [toClient EXCEPT ![socket] = <<>>]
  /\ UNCHANGED <<clientFile, announced, inbound, outbound, socket, toServer, serverFile, conns>>

Receive(type) ==
  /\ open
  /\ toClient[socket] # <<>>
  /\ Head(toClient[socket]).type = type
  /\ toClient' = [toClient EXCEPT ![socket] = Tail(@)]

-----------------------------------------------------------------------------
\* The outbound stream.

Unread == [read |-> FALSE, hi |-> 0]

\* Mutant of ReceiveStartStreaming: it starts from what is new, not from what is asked.
StartStreamingFromNow ==
  /\ Receive("start")
  /\ streaming' = TRUE
  /\ lastSent' = clientVersion
  /\ pulls' = <<Unread>>
  /\ timer' = FALSE
  /\ UNCHANGED <<clientFile, announced, inbound, notified, link, toServer, serverFile, conns>>

\* startStreaming and resetStream are the same: a new #lastSent object, which
\* makes every pull in flight stale, then #dbChanged.
ReceiveStartStreaming ==
  /\ Receive("start")
  /\ streaming' = TRUE
  /\ lastSent' = Head(toClient[socket]).since
  /\ pulls' = <<Unread>>
  /\ timer' = FALSE
  /\ UNCHANGED <<clientFile, announced, inbound, notified, link, toServer, serverFile, conns>>

\* #dbChanged up to its await.
DbChanged ==
  IF streaming
  THEN /\ Len(pulls) < MaxPulls
       /\ pulls' = Append(pulls, Unread)
       /\ timer' = FALSE
  ELSE UNCHANGED <<pulls, timer>>

ChangeNotification ==
  /\ notified
  /\ notified' = FALSE
  /\ DbChanged
  /\ UNCHANGED <<clientFile, announced, inbound, streaming, lastSent, link, wires, serverFile, conns>>

TimerFires ==
  /\ timer
  /\ DbChanged
  /\ UNCHANGED <<clientFile, announced, inbound, streaming, lastSent, notified, link, wires,
                 serverFile, conns>>

\* SQLite runs the query of the first pull not read yet.
PullReads ==
  \E i \in 1 .. Len(pulls) :
    /\ ~pulls[i].read
    /\ \A j \in 1 .. i - 1 : pulls[j].read
    /\ \E hi \in {0} \cup {clientDb[c] : c \in ClientChange} :
         /\ IsLast(clientDb, ClientChange, hi)
         /\ pulls' = [pulls EXCEPT ![i] = [read |-> TRUE, hi |-> hi]]
    /\ UNCHANGED <<clientFile, announced, inbound, streaming, lastSent, timer, notified, link,
                   wires, serverFile, conns>>

\* What #dbChanged does when the first pull's rows arrive.
Pulled == pulls # <<>> /\ Head(pulls).read

PullEmpty ==
  /\ Pulled
  /\ Head(pulls).hi <= lastSent
  /\ pulls' = Tail(pulls)
  /\ UNCHANGED <<clientFile, announced, inbound, streaming, lastSent, timer, notified, link,
                 wires, serverFile, conns>>

\* "sent": #lastSent is a new object, so every other pull in flight will find
\* that it changed and abort.
PullSent ==
  /\ Pulled
  /\ Head(pulls).hi > lastSent
  /\ open
  /\ SendToServer(Changes(lastSent, Head(pulls).hi))
  /\ lastSent' = Head(pulls).hi
  /\ pulls' = <<>>
  /\ UNCHANGED <<clientFile, announced, inbound, streaming, timer, notified, link, toClient,
                 serverFile, conns>>

\* Mutant of PullDeferred: #lastSent is not put back.
PullDeferredAdvances ==
  /\ Pulled
  /\ Head(pulls).hi > lastSent
  /\ open => (toServer[socket] # <<>> \/ phase[socket] = "closed")
  /\ timer' = TRUE
  /\ pulls' = Tail(pulls)
  /\ lastSent' = Head(pulls).hi
  /\ UNCHANGED <<clientFile, announced, inbound, streaming, notified, link, wires, serverFile, conns>>

\* "buffer-full" and "reconnecting": #lastSent is put back, a timer retries.
PullDeferred ==
  /\ Pulled
  /\ Head(pulls).hi > lastSent
  /\ open => (toServer[socket] # <<>> \/ phase[socket] = "closed")
  /\ timer' = TRUE
  /\ pulls' = Tail(pulls)
  /\ UNCHANGED <<clientFile, announced, inbound, streaming, lastSent, notified, link, wires,
                 serverFile, conns>>

-----------------------------------------------------------------------------
\* The inbound stream.

ReceiveReject ==  \* #processEvent throws
  /\ Receive("reject")
  /\ UNCHANGED <<clientFile, announced, inbound, outbound, link, toServer, serverFile, conns>>

\* Mutant of AcceptChanges: the tracked version is saved before the transaction runs.
AcceptChangesTracksEarly ==
  /\ Receive("changes")
  /\ LET msg == Head(toClient[socket])
     IN  /\ GreaterThanOrEqual(lastSeen, msg.since)
         /\ lastSeen' = msg.hi
         /\ clientTracked' = Higher(clientTracked, msg.hi)
         /\ applying' = Append(applying, [since |-> msg.since, hi |-> msg.hi, old |-> lastSeen])
  /\ UNCHANGED <<clientDb, clientVersion, announced, outbound, link, toServer, serverFile, conns>>

\* receiveChanges up to its await: #lastSeens moves before the transaction runs.
AcceptChanges ==
  /\ Receive("changes")
  /\ LET msg == Head(toClient[socket])
     IN  /\ GreaterThanOrEqual(lastSeen, msg.since)
         /\ lastSeen' = msg.hi
         /\ applying' = Append(applying, [since |-> msg.since, hi |-> msg.hi, old |-> lastSeen])
  /\ UNCHANGED <<clientFile, announced, outbound, link, toServer, serverFile, conns>>

RejectChanges ==
  /\ Receive("changes")
  /\ ~GreaterThanOrEqual(lastSeen, Head(toClient[socket]).since)
  /\ SendToServer(Msg("reject", lastSeen))
  /\ UNCHANGED <<clientFile, announced, inbound, outbound, link, serverFile, conns>>

\* Mutant of Apply: it saves the newest version seen, not the one it applies.
ApplyTracksLastSeen ==
  /\ applying # <<>>
  /\ LET batch == Between(serverDb, ServerChange, Head(applying).since, Head(applying).hi)
     IN  /\ clientDb' = Merge(clientDb, clientVersion, batch)
         /\ clientVersion' = MergedVersion(clientDb, clientVersion, batch)
  /\ clientTracked' = Higher(clientTracked, lastSeen)
  /\ applying' = Tail(applying)
  /\ UNCHANGED <<announced, lastSeen, outbound, link, wires, serverFile, conns>>

\* WrappedDB.applyChangesetAndSetLastSeen: one transaction, in arrival order.
Apply ==
  /\ applying # <<>>
  /\ LET batch == Between(serverDb, ServerChange, Head(applying).since, Head(applying).hi)
     IN  /\ clientDb' = Merge(clientDb, clientVersion, batch)
         /\ clientVersion' = MergedVersion(clientDb, clientVersion, batch)
  /\ clientTracked' = Higher(clientTracked, Head(applying).hi)
  /\ applying' = Tail(applying)
  /\ UNCHANGED <<announced, lastSeen, outbound, link, wires, serverFile, conns>>

ApplyFails ==
  /\ ClientApplyMayFail
  /\ applying # <<>>
  /\ lastSeen' = Head(applying).old
  /\ applying' = Tail(applying)
  /\ UNCHANGED <<clientFile, announced, outbound, link, wires, serverFile, conns>>

-----------------------------------------------------------------------------
\* Mutant of Restart: a server not seen yet has no version instead of 0.
RestartWithoutDefault ==
  /\ ClientMayRestart
  /\ 0 < socket /\ socket < MaxSockets
  /\ announced' = IF clientTracked = 0 THEN 0 - 1 ELSE clientTracked
  /\ lastSeen' = clientTracked
  /\ applying' = <<>>
  /\ streaming' = FALSE
  /\ lastSent' = 0
  /\ pulls' = <<>>
  /\ timer' = FALSE
  /\ notified' = FALSE
  /\ open' = FALSE
  /\ toClient' = [toClient EXCEPT ![socket] = <<>>]
  /\ UNCHANGED <<clientFile, socket, toServer, serverFile, conns>>

\* The worker stops or dies and a new one starts: SyncedDB.start reads the
\* tracked peers once and prepares the inbound stream with them.
Restart ==
  /\ ClientMayRestart
  /\ 0 < socket /\ socket < MaxSockets
  /\ announced' = clientTracked
  /\ lastSeen' = clientTracked
  /\ applying' = <<>>
  /\ streaming' = FALSE
  /\ lastSent' = 0
  /\ pulls' = <<>>
  /\ timer' = FALSE
  /\ notified' = FALSE
  /\ open' = FALSE
  /\ toClient' = [toClient EXCEPT ![socket] = <<>>]
  /\ UNCHANGED <<clientFile, socket, toServer, serverFile, conns>>

ClientNext ==
  \/ \E c \in ClientChange : ClientWrite(c)
  \/ OpenSocket
  \/ SocketCloses
  \/ ReceiveStartStreaming
  \/ ChangeNotification
  \/ TimerFires
  \/ PullReads
  \/ PullEmpty
  \/ PullSent
  \/ PullDeferred
  \/ ReceiveReject
  \/ AcceptChanges
  \/ RejectChanges
  \/ Apply
  \/ ApplyFails
  \/ Restart
=============================================================================
