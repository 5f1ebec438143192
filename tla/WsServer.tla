------------------------------- MODULE WsServer -------------------------------
(***************************************************************************)
(* The server half: for each WebSocket a ConnectionBroker with at most one *)
(* SyncConnection, its InboundStream and OutboundStream, over the room's   *)
(* DB.  The server is one event loop and its SQLite is synchronous; an     *)
(* action is what runs between two awaits.                                 *)
(***************************************************************************)
EXTENDS WsSyncState

\* The throttled change notification of DB calls every live stream back.
NotifyLive == [s \in Socket |-> outNotified[s] \/ phase[s] = "live"]

\* Another client's changes, or the server's own, are committed to the room.
ServerWrite(c) ==
  /\ serverDb[c] = 0
  /\ serverDb' = [serverDb EXCEPT ![c] = serverVersion + 1]
  /\ serverVersion' = serverVersion + 1
  /\ outNotified' = NotifyLive
  /\ UNCHANGED <<clientFile, announced, inbound, outbound, link, wires, serverTracked,
                 phase, inSeen, settling, outSent, outTimer>>

Arrives(s, type) ==
  /\ s <= socket
  /\ phase[s] # "closed"
  /\ toServer[s] # <<>>
  /\ Head(toServer[s]).type = type
  /\ toServer' = [toServer EXCEPT ![s] = Tail(@)]

\* AnnouncePresence up to the await of createSyncConnection; the new
\* OutboundStream will start from the version the client announced.
ReceiveAnnounce(s) ==
  /\ Arrives(s, "announce")
  /\ phase[s] = "none"
  /\ phase' = [phase EXCEPT ![s] = "creating"]
  /\ outSent' = [outSent EXCEPT ![s] = Head(toServer[s]).since]
  /\ UNCHANGED <<clientFile, announced, inbound, outbound, link, toClient, serverFile,
                 inSeen, settling, outTimer, outNotified>>

\* The DB is there: SyncConnection.start reads the last seen version, tells the
\* client to start streaming from it, and sends what the client lacks.
ConnectionCreated(s) ==
  /\ phase[s] = "creating"
  /\ phase' = [phase EXCEPT ![s] = "live"]
  /\ inSeen' = [inSeen EXCEPT ![s] = serverTracked]
  /\ \E hi \in {0} \cup {serverDb[c] : c \in ServerChange} :
       /\ IsLast(serverDb, ServerChange, hi)
       /\ outSent' = [outSent EXCEPT ![s] = Higher(@, hi)]
       /\ SendToClient(s, IF hi > outSent[s]
                          THEN <<Msg("start", serverTracked), Changes(outSent[s], hi)>>
                          ELSE <<Msg("start", serverTracked)>>)
  /\ UNCHANGED <<clientFile, announced, inbound, outbound, link, toServer, serverFile,
                 settling, outTimer, outNotified>>

-----------------------------------------------------------------------------
\* The outbound stream: #dbChanged runs to its end, on a notification or on
\* the timer; the pull excludes the client's own changes.

HasStream(s) == phase[s] \in {"live", "failed"}

\* stop() removes the change callback but leaves an armed timer armed.
OutboundDue(s) == \/ phase[s] = "live" /\ outNotified[s]
                  \/ HasStream(s) /\ outTimer[s]

\* A notification is consumed; a timer is cleared or has fired.
WakeOutbound(s) == outNotified' = [outNotified EXCEPT ![s] = FALSE]

OutboundEmpty(s) ==
  /\ OutboundDue(s)
  /\ \A c \in ServerChange : serverDb[c] <= outSent[s]
  /\ WakeOutbound(s)
  /\ outTimer' = [outTimer EXCEPT ![s] = FALSE]
  /\ UNCHANGED <<clientFile, announced, inbound, outbound, link, wires, serverFile,
                 phase, inSeen, settling, outSent>>

OutboundSent(s) ==
  /\ OutboundDue(s)
  /\ \E hi \in {serverDb[c] : c \in ServerChange} :
       /\ IsLast(serverDb, ServerChange, hi)
       /\ hi > outSent[s]
       /\ SendToClient(s, <<Changes(outSent[s], hi)>>)
       /\ outSent' = [outSent EXCEPT ![s] = hi]
  /\ WakeOutbound(s)
  /\ outTimer' = [outTimer EXCEPT ![s] = FALSE]
  /\ UNCHANGED <<clientFile, announced, inbound, outbound, link, toServer, serverFile,
                 phase, inSeen, settling>>

\* Mutant of OutboundBufferFull: no timer is armed.
OutboundBufferFullForgets(s) ==
  /\ OutboundDue(s)
  /\ \E c \in ServerChange : serverDb[c] > outSent[s]
  /\ Reachable(s) => toClient[s] # <<>>
  /\ WakeOutbound(s)
  /\ outTimer' = [outTimer EXCEPT ![s] = FALSE]
  /\ UNCHANGED <<clientFile, announced, inbound, outbound, link, wires, serverFile,
                 phase, inSeen, settling, outSent>>

\* More than 5MB wait in the socket: #lastSent is put back, a timer retries.
OutboundBufferFull(s) ==
  /\ OutboundDue(s)
  /\ \E c \in ServerChange : serverDb[c] > outSent[s]
  /\ Reachable(s) => toClient[s] # <<>>
  /\ WakeOutbound(s)
  /\ outTimer' = [outTimer EXCEPT ![s] = TRUE]
  /\ UNCHANGED <<clientFile, announced, inbound, outbound, link, wires, serverFile,
                 phase, inSeen, settling, outSent>>

-----------------------------------------------------------------------------
\* The inbound stream.

\* Mutant of ReceiveChanges: a rejected message is not applied but still recorded as seen.
ReceiveChangesSkips(s) ==
  /\ Arrives(s, "changes")
  /\ HasStream(s)
  /\ LET msg == Head(toServer[s])
         fits == GreaterThanOrEqual(inSeen[s], msg.since)
         batch == IF fits THEN Between(clientDb, ClientChange, msg.since, msg.hi) ELSE {}
     IN  /\ SendToClient(s, IF fits THEN <<>> ELSE <<Msg("reject", inSeen[s])>>)
         /\ serverDb' = Merge(serverDb, serverVersion, batch)
         /\ serverVersion' = MergedVersion(serverDb, serverVersion, batch)
         /\ serverTracked' = Higher(serverTracked, msg.hi)
         /\ settling' = [settling EXCEPT ![s] = Append(@, msg.hi)]
  /\ outNotified' = NotifyLive
  /\ UNCHANGED <<clientFile, announced, inbound, outbound, link, phase, inSeen, outSent, outTimer>>

\* receiveChanges: a message that does not follow #lastSeen is rejected AND
\* applied.  #lastSeen is assigned behind an await, after messages of the
\* same tick were handled.
ReceiveChanges(s) ==
  /\ Arrives(s, "changes")
  /\ HasStream(s)
  /\ LET msg == Head(toServer[s])
         batch == Between(clientDb, ClientChange, msg.since, msg.hi)
     IN  /\ SendToClient(s, IF GreaterThanOrEqual(inSeen[s], msg.since) THEN <<>>
                            ELSE <<Msg("reject", inSeen[s])>>)
         /\ serverDb' = Merge(serverDb, serverVersion, batch)
         /\ serverVersion' = MergedVersion(serverDb, serverVersion, batch)
         /\ serverTracked' = Higher(serverTracked, msg.hi)
         /\ settling' = [settling EXCEPT ![s] = Append(@, msg.hi)]
  /\ outNotified' = NotifyLive
  /\ UNCHANGED <<clientFile, announced, inbound, outbound, link, phase, inSeen, outSent, outTimer>>

\* The transaction throws and rolls back (after the rejection, if one is due);
\* the broker closes the SyncConnection but neither the socket nor itself.
ReceiveChangesFails(s) ==
  /\ ServerApplyMayFail
  /\ Arrives(s, "changes")
  /\ HasStream(s)
  /\ SendToClient(s, IF GreaterThanOrEqual(inSeen[s], Head(toServer[s]).since) THEN <<>>
                     ELSE <<Msg("reject", inSeen[s])>>)
  /\ phase' = [phase EXCEPT ![s] = "failed"]
  /\ outNotified' = [outNotified EXCEPT ![s] = FALSE]
  /\ UNCHANGED <<clientFile, announced, inbound, outbound, link, serverFile,
                 inSeen, settling, outSent, outTimer>>

SettleLastSeen(s) ==
  /\ settling[s] # <<>>
  /\ inSeen' = [inSeen EXCEPT ![s] = Head(settling[s])]
  /\ settling' = [settling EXCEPT ![s] = Tail(@)]
  /\ UNCHANGED <<clientFile, announced, inbound, outbound, link, wires, serverFile,
                 phase, outSent, outTimer, outNotified>>

\* No SyncConnection yet: the handler throws on null and the message is gone.
DropEarlyChanges(s) ==
  /\ Arrives(s, "changes")
  /\ ~HasStream(s)
  /\ UNCHANGED <<clientFile, announced, inbound, outbound, link, toClient, serverFile, conns>>

\* RejectChanges: OutboundStream.reset has an empty body.
ReceiveRejected(s) ==
  /\ Arrives(s, "reject")
  /\ UNCHANGED <<clientFile, announced, inbound, outbound, link, toClient, serverFile, conns>>

\* The server sees the WebSocket close, when the client's end is closed and
\* all it sent was handled, or when the network breaks and the rest is lost.
ConnectionCloses(s) ==
  /\ s <= socket
  /\ phase[s] # "closed"
  /\ \/ ~Reachable(s) /\ toServer[s] = <<>>
     \/ SocketsMayDrop /\ s < MaxSockets
  /\ phase' = [phase EXCEPT ![s] = "closed"]
  /\ toServer' = [toServer EXCEPT ![s] = <<>>]
  /\ settling' = [settling EXCEPT ![s] = <<>>]
  /\ outTimer' = [outTimer EXCEPT ![s] = FALSE]
  /\ outNotified' = [outNotified EXCEPT ![s] = FALSE]
  /\ inSeen' = [inSeen EXCEPT ![s] = 0]    \* its streams are garbage
  /\ outSent' = [outSent EXCEPT ![s] = 0]
  /\ UNCHANGED <<clientFile, announced, inbound, outbound, link, toClient, serverFile>>

ServerStep(s) ==
  \/ ReceiveAnnounce(s)
  \/ ConnectionCreated(s)
  \/ OutboundEmpty(s)
  \/ OutboundSent(s)
  \/ OutboundBufferFull(s)
  \/ ReceiveChanges(s)
  \/ ReceiveChangesFails(s)
  \/ SettleLastSeen(s)
  \/ DropEarlyChanges(s)
  \/ ReceiveRejected(s)
  \/ ConnectionCloses(s)

ServerNext ==
  \/ \E c \in ServerChange : ServerWrite(c)
  \/ \E s \in Socket : ServerStep(s)
=============================================================================
