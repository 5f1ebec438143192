----------------------------- MODULE WsSyncProofs -----------------------------
(***************************************************************************)
(* Theorems about WsSync for every set of changes and every bound.         *)
(***************************************************************************)
EXTENDS WsSync, SequenceTheorems, WellFoundedInduction, TLAPS

-----------------------------------------------------------------------------
\* Lemmas about the operators the two halves share.

\* A merge gives every change a version and keeps those that were there.
LEMMA MergeFacts ==
  ASSUME NEW db \in [Change -> Nat], NEW version \in Nat, NEW batch \in SUBSET Change
  PROVE  /\ Merge(db, version, batch) \in [Change -> Nat]
         /\ MergedVersion(db, version, batch) \in Nat
         /\ MergedVersion(db, version, batch) >= version
         /\ \A c \in Change : db[c] > 0 => Merge(db, version, batch)[c] = db[c]
         /\ \A c \in batch : Merge(db, version, batch)[c] > 0
         /\ \A c \in Change \ batch : Merge(db, version, batch)[c] = db[c]
         /\ (\A c \in Change : db[c] <= version)
              => \A c \in Change : Merge(db, version, batch)[c] <= MergedVersion(db, version, batch)
  <1>1. /\ MergedVersion(db, version, batch) \in Nat
        /\ MergedVersion(db, version, batch) >= version
        /\ Missing(db, batch) # {} => MergedVersion(db, version, batch) = version + 1
    BY DEF MergedVersion
  <1>2. \A c \in Change : Merge(db, version, batch)[c]
                             = IF c \in batch /\ db[c] = 0 THEN version + 1 ELSE db[c]
    BY DEF Merge, Missing
  <1>3. Merge(db, version, batch) \in [Change -> Nat]
    BY DEF Merge
  <1>4. (\A c \in Change : db[c] <= version)
          => \A c \in Change : Merge(db, version, batch)[c] <= MergedVersion(db, version, batch)
    <2> SUFFICES ASSUME \A d \in Change : db[d] <= version, NEW c \in Change
                 PROVE  Merge(db, version, batch)[c] <= MergedVersion(db, version, batch)
      OBVIOUS
    <2>1. CASE c \in batch /\ db[c] = 0
      BY <1>1, <1>2, <2>1 DEF Missing
    <2>2. CASE ~(c \in batch /\ db[c] = 0)
      BY <1>1, <1>2, <2>2
    <2> QED BY <2>1, <2>2
  <1> QED BY <1>1, <1>2, <1>3, <1>4

\* Taking a message off a channel leaves a channel.
LEMMA HeadTail ==
  ASSUME NEW S, NEW seq \in Seq(S), seq # <<>>
  PROVE  /\ Head(seq) \in S
         /\ Tail(seq) \in Seq(S)
         /\ Len(Tail(seq)) = Len(seq) - 1
         /\ \A i \in 1 .. Len(Tail(seq)) : Tail(seq)[i] = seq[i + 1]
         /\ Head(seq) = seq[1]
         /\ Len(seq) > 0
  BY HeadTailProperties

LEMMA MsgType ==
  /\ \A v \in Nat : Msg("announce", v) \in Message /\ Msg("start", v) \in Message
                    /\ Msg("reject", v) \in Message
  /\ \A v, w \in Nat : Changes(v, w) \in Message
  BY DEF Msg, Changes, Message

\* What either half writes to a socket keeps the channels well-formed.
LEMMA SendToServerType ==
  ASSUME TypeOK, socket > 0, NEW msg \in Message, SendToServer(msg)
  PROVE  toServer' \in [Socket -> Seq(Message)]
  <1>1. socket \in Socket /\ toServer \in [Socket -> Seq(Message)]
    BY DEF TypeOK, Socket
  <1>2. Append(toServer[socket], msg) \in Seq(Message)
    BY <1>1
  <1> QED BY <1>1, <1>2 DEF SendToServer

LEMMA SendToClientType ==
  ASSUME TypeOK, NEW s \in Socket, NEW msgs \in Seq(Message), SendToClient(s, msgs)
  PROVE  toClient' \in [Socket -> Seq(Message)]
  <1>1. toClient \in [Socket -> Seq(Message)]
    BY DEF TypeOK
  <1>2. toClient[s] \o msgs \in Seq(Message)
    BY <1>1
  <1> QED BY <1>1, <1>2 DEF SendToClient

\* A message taken off a channel, and the channel it leaves behind.
LEMMA ReceiveType ==
  ASSUME TypeOK, NEW type, Receive(type)
  PROVE  /\ Head(toClient[socket]) \in Message
         /\ toClient' \in [Socket -> Seq(Message)]
         /\ socket > 0
  <1>1. socket \in Socket /\ toClient \in [Socket -> Seq(Message)] /\ toClient[socket] # <<>>
    BY DEF TypeOK, Socket, Receive
  <1>2. Head(toClient[socket]) \in Message /\ Tail(toClient[socket]) \in Seq(Message)
    BY <1>1, HeadTail
  <1> QED BY <1>1, <1>2 DEF Receive, Socket

LEMMA ArrivesType ==
  ASSUME TypeOK, NEW s \in Socket, NEW type, Arrives(s, type)
  PROVE  /\ Head(toServer[s]) \in Message
         /\ toServer' \in [Socket -> Seq(Message)]
         /\ socket > 0
  <1>1. toServer \in [Socket -> Seq(Message)] /\ toServer[s] # <<>>
    BY DEF TypeOK, Arrives
  <1>2. Head(toServer[s]) \in Message /\ Tail(toServer[s]) \in Seq(Message)
    BY <1>1, HeadTail
  <1>3. socket > 0
    BY DEF Arrives, Socket, TypeOK
  <1> QED BY <1>1, <1>2, <1>3 DEF Arrives

-----------------------------------------------------------------------------
\* Type correctness.

LEMMA InitType == Init => TypeOK
  <1> SUFFICES ASSUME Init PROVE TypeOK
    OBVIOUS
  <1>1. /\ applying \in Seq([since : Nat, hi : Nat, old : Nat])
        /\ pulls \in Seq([read : BOOLEAN, hi : Nat])
    BY DEF Init
  <1>2. /\ toServer \in [Socket -> Seq(Message)] /\ toClient \in [Socket -> Seq(Message)]
        /\ settling \in [Socket -> Seq(Nat)]
    BY DEF Init
  <1>3. /\ phase \in [Socket -> Phase] /\ inSeen \in [Socket -> Nat] /\ outSent \in [Socket -> Nat]
        /\ outTimer \in [Socket -> BOOLEAN] /\ outNotified \in [Socket -> BOOLEAN]
    BY DEF Init, Phase
  <1>4. socket \in 0 .. MaxSockets
    BY ConstantsAssumption DEF Init
  <1> QED BY <1>1, <1>2, <1>3, <1>4 DEF Init, TypeOK

\* Emptying a channel, and a pull just issued.
LEMMA EmptyWire ==
  ASSUME NEW wire \in [Socket -> Seq(Message)], NEW s
  PROVE  [wire EXCEPT ![s] = <<>>] \in [Socket -> Seq(Message)]
  <1>1. <<>> \in Seq(Message)
    OBVIOUS
  <1> QED BY <1>1

LEMMA UnreadType ==
  /\ <<Unread>> \in Seq([read : BOOLEAN, hi : Nat])
  /\ \A seq \in Seq([read : BOOLEAN, hi : Nat]) :
       Append(seq, Unread) \in Seq([read : BOOLEAN, hi : Nat])
  <1>1. Unread \in [read : BOOLEAN, hi : Nat]
    BY DEF Unread
  <1> QED BY <1>1

LEMMA ClientType ==
  ASSUME TypeOK, ClientNext
  PROVE  TypeOK'
  <1> USE DEF TypeOK, vars, clientFile, inbound, outbound, link, wires, serverFile, conns
  <1>1. ASSUME NEW c \in ClientChange, ClientWrite(c) PROVE TypeOK'
    BY <1>1 DEF ClientWrite, Change
  <1>2. CASE OpenSocket
    <2>1. Msg("announce", announced) \in Message
      BY MsgType
    <2>2. <<Msg("announce", announced)>> \in Seq(Message)
      BY <2>1
    <2>3. toServer' \in [Socket -> Seq(Message)]
      BY <1>2, <2>2 DEF OpenSocket
    <2>4. socket' \in 0 .. MaxSockets /\ socket' > 0
      BY <1>2, ConstantsAssumption DEF OpenSocket
    <2> QED BY <1>2, <2>3, <2>4 DEF OpenSocket
  <1>3. CASE SocketCloses
    <2>1. toClient' \in [Socket -> Seq(Message)]
      BY <1>3, EmptyWire DEF SocketCloses
    <2> QED BY <1>3, <2>1 DEF SocketCloses
  <1>4. CASE ReceiveStartStreaming
    <2>1. Head(toClient[socket]).since \in Nat /\ toClient' \in [Socket -> Seq(Message)]
      BY <1>4, ReceiveType DEF ReceiveStartStreaming, Message
    <2> QED BY <1>4, <2>1, UnreadType DEF ReceiveStartStreaming
  <1>5. CASE ChangeNotification
    <2>1. pulls' \in Seq([read : BOOLEAN, hi : Nat]) /\ timer' \in BOOLEAN
      BY <1>5, UnreadType DEF ChangeNotification, DbChanged
    <2> QED BY <1>5, <2>1 DEF ChangeNotification
  <1>6. CASE TimerFires
    <2>1. pulls' \in Seq([read : BOOLEAN, hi : Nat]) /\ timer' \in BOOLEAN
      BY <1>6, UnreadType DEF TimerFires, DbChanged
    <2> QED BY <1>6, <2>1 DEF TimerFires
  <1>7. CASE PullReads
    BY <1>7 DEF PullReads, Change
  <1>8. CASE PullEmpty
    <2>1. Tail(pulls) \in Seq([read : BOOLEAN, hi : Nat])
      BY <1>8, HeadTail DEF PullEmpty, Pulled
    <2> QED BY <1>8, <2>1 DEF PullEmpty
  <1>9. CASE PullSent
    <2>1. Head(pulls).hi \in Nat /\ Changes(lastSent, Head(pulls).hi) \in Message
      <3>1. Head(pulls) \in [read : BOOLEAN, hi : Nat]
        BY <1>9, HeadTail DEF PullSent, Pulled
      <3> QED BY <3>1, MsgType
    <2>2. toServer' \in [Socket -> Seq(Message)]
      BY <1>9, <2>1, SendToServerType DEF PullSent
    <2> QED BY <1>9, <2>1, <2>2 DEF PullSent
  <1>10. CASE PullDeferred
    <2>1. Tail(pulls) \in Seq([read : BOOLEAN, hi : Nat])
      BY <1>10, HeadTail DEF PullDeferred, Pulled
    <2> QED BY <1>10, <2>1 DEF PullDeferred
  <1>11. CASE ReceiveReject
    BY <1>11, ReceiveType DEF ReceiveReject
  <1>12. CASE AcceptChanges
    BY <1>12, ReceiveType DEF AcceptChanges, Message
  <1>13. CASE RejectChanges
    <2>1. toClient' \in [Socket -> Seq(Message)] /\ socket > 0
      BY <1>13, ReceiveType DEF RejectChanges
    <2>2. toServer' \in [Socket -> Seq(Message)]
      BY <1>13, <2>1, MsgType, SendToServerType DEF RejectChanges
    <2> QED BY <1>13, <2>1, <2>2 DEF RejectChanges
  <1>14. CASE Apply
    <2> DEFINE batch == Between(serverDb, ServerChange, Head(applying).since, Head(applying).hi)
    <2>1. Head(applying) \in [since : Nat, hi : Nat, old : Nat]
          /\ Tail(applying) \in Seq([since : Nat, hi : Nat, old : Nat])
      BY <1>14, HeadTail DEF Apply
    <2>2. batch \in SUBSET Change
      BY DEF Between, Change
    <2>3. clientDb' \in [Change -> Nat] /\ clientVersion' \in Nat
      BY <1>14, <2>2, MergeFacts DEF Apply
    <2> QED BY <1>14, <2>1, <2>3 DEF Apply, Higher
  <1>15. CASE ApplyFails
    <2>1. Head(applying) \in [since : Nat, hi : Nat, old : Nat]
          /\ Tail(applying) \in Seq([since : Nat, hi : Nat, old : Nat])
      BY <1>15, HeadTail DEF ApplyFails
    <2> QED BY <1>15, <2>1 DEF ApplyFails
  <1>16. CASE Restart
    <2>1. toClient' \in [Socket -> Seq(Message)]
      BY <1>16, EmptyWire DEF Restart
    <2>2. /\ applying' \in Seq([since : Nat, hi : Nat, old : Nat])
          /\ pulls' \in Seq([read : BOOLEAN, hi : Nat])
      BY <1>16 DEF Restart
    <2>3. clientTracked \in Nat /\ announced' \in Nat /\ lastSeen' \in Nat
      BY <1>16 DEF Restart
    <2> QED BY <1>16, <2>1, <2>2, <2>3 DEF Restart
  <1> QED BY <1>1, <1>2, <1>3, <1>4, <1>5, <1>6, <1>7, <1>8, <1>9, <1>10, <1>11, <1>12,
             <1>13, <1>14, <1>15, <1>16 DEF ClientNext

\* The rejection a connection may send, written by both outcomes of a message.
LEMMA RejectionType ==
  ASSUME TypeOK, NEW s \in Socket, NEW fits \in BOOLEAN
  PROVE  (IF fits THEN <<>> ELSE <<Msg("reject", inSeen[s])>>) \in Seq(Message)
  <1>1. Msg("reject", inSeen[s]) \in Message
    BY MsgType DEF TypeOK
  <1> QED BY <1>1

LEMMA ServerType ==
  ASSUME TypeOK, ServerNext
  PROVE  TypeOK'
  <1> USE DEF TypeOK, vars, clientFile, inbound, outbound, link, wires, serverFile, conns
  <1>1. ASSUME NEW c \in ServerChange, ServerWrite(c) PROVE TypeOK'
    BY <1>1 DEF ServerWrite, NotifyLive, Change
  <1>2. ASSUME NEW s \in Socket, ReceiveAnnounce(s) PROVE TypeOK'
    <2>1. Head(toServer[s]).since \in Nat /\ toServer' \in [Socket -> Seq(Message)]
      BY <1>2, ArrivesType DEF ReceiveAnnounce, Message
    <2> QED BY <1>2, <2>1 DEF ReceiveAnnounce, Phase
  <1>3. ASSUME NEW s \in Socket, ConnectionCreated(s) PROVE TypeOK'
    <2>1. PICK hi \in {0} \cup {serverDb[c] : c \in ServerChange} :
            /\ outSent' = [outSent EXCEPT ![s] = Higher(@, hi)]
            /\ SendToClient(s, IF hi > outSent[s]
                               THEN <<Msg("start", serverTracked), Changes(outSent[s], hi)>>
                               ELSE <<Msg("start", serverTracked)>>)
      BY <1>3 DEF ConnectionCreated
    <2>2. hi \in Nat
      BY <2>1 DEF Change
    <2>3. Msg("start", serverTracked) \in Message /\ Changes(outSent[s], hi) \in Message
      BY <2>2, MsgType
    <2>4. <<Msg("start", serverTracked), Changes(outSent[s], hi)>> \in Seq(Message)
          /\ <<Msg("start", serverTracked)>> \in Seq(Message)
      BY <2>3
    <2>5. toClient' \in [Socket -> Seq(Message)]
      BY <2>1, <2>4, SendToClientType
    <2>6. outSent' \in [Socket -> Nat]
      BY <2>1, <2>2 DEF Higher
    <2> QED BY <1>3, <2>5, <2>6 DEF ConnectionCreated, Phase
  <1>4. ASSUME NEW s \in Socket, OutboundEmpty(s) PROVE TypeOK'
    BY <1>4 DEF OutboundEmpty, WakeOutbound
  <1>5. ASSUME NEW s \in Socket, OutboundSent(s) PROVE TypeOK'
    <2>1. PICK hi \in {serverDb[c] : c \in ServerChange} :
            /\ SendToClient(s, <<Changes(outSent[s], hi)>>)
            /\ outSent' = [outSent EXCEPT ![s] = hi]
      BY <1>5 DEF OutboundSent
    <2>2. hi \in Nat
      BY <2>1 DEF Change
    <2>3. <<Changes(outSent[s], hi)>> \in Seq(Message)
      BY <2>2, MsgType
    <2>4. toClient' \in [Socket -> Seq(Message)]
      BY <2>1, <2>3, SendToClientType
    <2> QED BY <1>5, <2>1, <2>2, <2>4 DEF OutboundSent, WakeOutbound
  <1>6. ASSUME NEW s \in Socket, OutboundBufferFull(s) PROVE TypeOK'
    BY <1>6 DEF OutboundBufferFull, WakeOutbound
  <1>7. ASSUME NEW s \in Socket, ReceiveChanges(s) PROVE TypeOK'
    <2> DEFINE msg == Head(toServer[s])
               batch == Between(clientDb, ClientChange, msg.since, msg.hi)
    <2>1. msg \in Message /\ toServer' \in [Socket -> Seq(Message)]
      BY <1>7, ArrivesType DEF ReceiveChanges
    <2>2. msg.hi \in Nat
      BY <2>1 DEF Message
    <2>3. batch \in SUBSET Change
      BY DEF Between, Change
    <2>4. serverDb' \in [Change -> Nat] /\ serverVersion' \in Nat
      BY <1>7, <2>3, MergeFacts DEF ReceiveChanges
    <2>5. toClient' \in [Socket -> Seq(Message)]
      BY <1>7, RejectionType, SendToClientType DEF ReceiveChanges
    <2>6. settling' \in [Socket -> Seq(Nat)]
      BY <1>7, <2>2 DEF ReceiveChanges
    <2> HIDE DEF msg, batch
    <2>7. serverTracked' \in Nat
      BY <1>7, <2>2 DEF ReceiveChanges, Higher, msg
    <2> QED BY <1>7, <2>1, <2>4, <2>5, <2>6, <2>7 DEF ReceiveChanges, NotifyLive
  <1>8. ASSUME NEW s \in Socket, ReceiveChangesFails(s) PROVE TypeOK'
    <2>1. toServer' \in [Socket -> Seq(Message)]
      BY <1>8, ArrivesType DEF ReceiveChangesFails
    <2>2. toClient' \in [Socket -> Seq(Message)]
      BY <1>8, RejectionType, SendToClientType DEF ReceiveChangesFails
    <2> QED BY <1>8, <2>1, <2>2 DEF ReceiveChangesFails, Phase
  <1>9. ASSUME NEW s \in Socket, SettleLastSeen(s) PROVE TypeOK'
    <2>1. Head(settling[s]) \in Nat /\ Tail(settling[s]) \in Seq(Nat)
      BY <1>9, HeadTail DEF SettleLastSeen
    <2> QED BY <1>9, <2>1 DEF SettleLastSeen
  <1>10. ASSUME NEW s \in Socket, DropEarlyChanges(s) PROVE TypeOK'
    BY <1>10, ArrivesType DEF DropEarlyChanges
  <1>11. ASSUME NEW s \in Socket, ReceiveRejected(s) PROVE TypeOK'
    BY <1>11, ArrivesType DEF ReceiveRejected
  <1>12. ASSUME NEW s \in Socket, ConnectionCloses(s) PROVE TypeOK'
    <2>1. toServer' \in [Socket -> Seq(Message)]
      BY <1>12, EmptyWire DEF ConnectionCloses
    <2>2. settling' \in [Socket -> Seq(Nat)]
      BY <1>12 DEF ConnectionCloses
    <2> QED BY <1>12, <2>1, <2>2 DEF ConnectionCloses, Phase
  <1> QED BY <1>1, <1>2, <1>3, <1>4, <1>5, <1>6, <1>7, <1>8, <1>9, <1>10, <1>11, <1>12
          DEF ServerNext, ServerStep

\* Every reachable state is well-typed, whatever the changes and the faults.
THEOREM TypeCorrect == Spec => []TypeOK
  <1>1. TypeOK /\ UNCHANGED vars => TypeOK'
    BY DEF TypeOK, vars, clientFile, inbound, outbound, link, wires, serverFile, conns
  <1>2. TypeOK /\ [Next]_vars => TypeOK'
    BY <1>1, ClientType, ServerType DEF Next
  <1> QED BY InitType, <1>2, PTL DEF Spec

-----------------------------------------------------------------------------
\* The client holds what it tracks, as long as its transactions succeed.

LEMMA DownstreamInit == Init => DownstreamInv
  BY DEF Init, DownstreamInv, VersionsBounded, WireOK, ApplyingOK, Covered,
         ClientHoldsWhatItTracks

\* The three ways a channel to the client changes.
LEMMA WireTail ==
  ASSUME TypeOK, TypeOK', WireOK, NEW type, Receive(type), UNCHANGED serverDb
  PROVE  WireOK'
  <1>1. socket \in Socket /\ toClient \in [Socket -> Seq(Message)] /\ toClient[socket] # <<>>
    BY DEF TypeOK, Socket, Receive
  <1>2. toClient' = [toClient EXCEPT ![socket] = Tail(@)]
    BY DEF Receive
  <1>3. SUFFICES ASSUME NEW s \in Socket, NEW i \in 1 .. Len(toClient'[s]),
                        toClient'[s][i].type = "changes"
                 PROVE  toClient'[s][i].hi > 0
                        /\ \E c \in ServerChange : serverDb'[c] = toClient'[s][i].hi
    BY DEF WireOK, IsServerVersion
  <1>4. \E k \in 1 .. Len(toClient[s]) : toClient'[s][i] = toClient[s][k]
    <2>1. CASE s # socket
      BY <1>1, <1>2, <2>1
    <2>2. CASE s = socket
      <3>1. toClient'[s] = Tail(toClient[s])
        BY <1>1, <1>2, <2>2
      <3>2. toClient[s] \in Seq(Message) /\ toClient[s] # <<>>
        BY <1>1, <2>2
      <3>3. i + 1 \in 1 .. Len(toClient[s]) /\ toClient'[s][i] = toClient[s][i + 1]
        BY <3>1, <3>2, HeadTail
      <3> QED BY <3>3
    <2> QED BY <2>1, <2>2
  <1> QED BY <1>3, <1>4 DEF WireOK, IsServerVersion

LEMMA WireSame ==
  ASSUME WireOK, UNCHANGED toClient,
         \A c \in ServerChange : serverDb[c] > 0 => serverDb'[c] = serverDb[c]
  PROVE  WireOK'
  BY DEF WireOK, IsServerVersion

LEMMA WireEmptied ==
  ASSUME TypeOK, WireOK, NEW s, toClient' = [toClient EXCEPT ![s] = <<>>], UNCHANGED serverDb
  PROVE  WireOK'
  BY DEF WireOK, IsServerVersion, TypeOK

LEMMA WireAppended ==
  ASSUME TypeOK, WireOK, NEW s \in Socket, NEW msgs \in Seq(Message), SendToClient(s, msgs),
         \A c \in ServerChange : serverDb[c] > 0 => serverDb'[c] = serverDb[c],
         \A i \in 1 .. Len(msgs) :
           msgs[i].type = "changes" => \E c \in ServerChange : serverDb[c] = msgs[i].hi /\ msgs[i].hi > 0
  PROVE  WireOK'
  <1>1. toClient \in [Socket -> Seq(Message)]
    BY DEF TypeOK
  <1>2. CASE ~Reachable(s)
    BY <1>2, WireSame DEF SendToClient
  <1>3. CASE Reachable(s)
    <2>1. toClient' = [toClient EXCEPT ![s] = @ \o msgs]
      BY <1>3 DEF SendToClient
    <2>2. SUFFICES ASSUME NEW t \in Socket, NEW i \in 1 .. Len(toClient'[t]),
                          toClient'[t][i].type = "changes"
                   PROVE  toClient'[t][i].hi > 0
                          /\ \E c \in ServerChange : serverDb'[c] = toClient'[t][i].hi
      BY DEF WireOK, IsServerVersion
    <2>3. CASE t # s
      <3>1. toClient'[t] = toClient[t]
        BY <1>1, <2>1, <2>3
      <3> QED BY <2>2, <3>1 DEF WireOK, IsServerVersion
    <2>4. CASE t = s
      <3>1. toClient'[t] = toClient[t] \o msgs /\ toClient[t] \in Seq(Message)
        BY <1>1, <2>1, <2>4
      <3>2. CASE i <= Len(toClient[t])
        <4>1. i \in 1 .. Len(toClient[t]) /\ toClient'[t][i] = toClient[t][i]
          BY <3>1, <3>2, ConcatProperties, LenProperties
        <4> QED BY <2>2, <4>1 DEF WireOK, IsServerVersion
      <3>3. CASE i > Len(toClient[t])
        <4>1. i - Len(toClient[t]) \in 1 .. Len(msgs) /\ toClient'[t][i] = msgs[i - Len(toClient[t])]
          BY <3>1, <3>3, ConcatProperties, LenProperties
        <4> QED BY <2>2, <4>1 DEF IsServerVersion
      <3> QED BY <3>1, <3>2, <3>3, LenProperties
    <2> QED BY <2>3, <2>4
  <1> QED BY <1>2, <1>3

\* Steps that leave the inbound stream of the client alone.
LEMMA DownstreamFrame ==
  ASSUME TypeOK, TypeOK', DownstreamInv, WireOK', UNCHANGED <<clientTracked, applying, lastSeen>>,
         \A c \in ServerChange : serverDb[c] > 0 => serverDb'[c] = serverDb[c],
         \A c \in ServerChange : serverDb'[c] # serverDb[c] => serverDb'[c] > clientTracked,
         \A c \in Change : serverDb'[c] <= serverVersion',
         serverVersion' >= serverVersion,
         \A c \in ServerChange : clientDb[c] > 0 => clientDb'[c] > 0
  PROVE  DownstreamInv'
  <1>1. VersionsBounded'
    BY DEF VersionsBounded, DownstreamInv, TypeOK
  <1>2. ApplyingOK'
    BY DEF ApplyingOK, DownstreamInv, Covered, IsServerVersion
  <1>3. ClientHoldsWhatItTracks'
    <2> SUFFICES ASSUME NEW c \in ServerChange, 0 < serverDb'[c], serverDb'[c] <= clientTracked
                 PROVE  clientDb'[c] > 0
      BY DEF ClientHoldsWhatItTracks
    <2>1. serverDb'[c] = serverDb[c]
      BY DEF TypeOK, Change
    <2> QED BY <2>1 DEF ClientHoldsWhatItTracks, DownstreamInv
  <1> QED BY <1>1, <1>2, <1>3 DEF DownstreamInv

LEMMA DownstreamUnchanged ==
  ASSUME TypeOK, DownstreamInv, WireOK',
         UNCHANGED <<clientTracked, applying, lastSeen, serverDb, serverVersion, clientDb>>
  PROVE  DownstreamInv'
  BY DEF VersionsBounded, DownstreamInv, ApplyingOK, Covered, IsServerVersion,
         ClientHoldsWhatItTracks

\* The queue of accepted messages, and what is left when the first is applied.
LEMMA ApplyingEntries ==
  ASSUME TypeOK
  PROVE  /\ Len(applying) \in Nat
         /\ \A i \in 1 .. Len(applying) : applying[i].since \in Nat /\ applying[i].hi \in Nat
  <1> DEFINE Entry == [since : Nat, hi : Nat, old : Nat]
  <1>1. applying \in Seq(Entry)
    BY DEF TypeOK
  <1>2. Len(applying) \in Nat /\ \A i \in 1 .. Len(applying) : applying[i] \in Entry
    BY <1>1, LenProperties, ElementOfSeq
  <1> QED BY <1>2

LEMMA ApplyingHead ==
  ASSUME TypeOK, applying # <<>>
  PROVE  /\ Head(applying) = applying[1] /\ 1 \in 1 .. Len(applying)
         /\ Head(applying) \in [since : Nat, hi : Nat, old : Nat]
         /\ Len(Tail(applying)) = Len(applying) - 1
         /\ \A i \in 1 .. Len(Tail(applying)) : Tail(applying)[i] = applying[i + 1]
  <1> DEFINE Entry == [since : Nat, hi : Nat, old : Nat]
  <1>1. applying \in Seq(Entry)
    BY DEF TypeOK
  <1> HIDE DEF Entry
  <1>2. /\ Head(applying) \in Entry /\ Head(applying) = applying[1] /\ Len(applying) > 0
        /\ Len(Tail(applying)) = Len(applying) - 1
        /\ \A i \in 1 .. Len(Tail(applying)) : Tail(applying)[i] = applying[i + 1]
    BY <1>1, HeadTail
  <1> QED BY <1>2, ApplyingEntries DEF Entry

\* The batch of a transaction completes what the client held below its start.
LEMMA ApplyFacts ==
  ASSUME TypeOK, DownstreamInv, Apply
  PROVE  LET hi == Head(applying).hi IN
         /\ IsServerVersion(hi)
         /\ \A c \in ServerChange : clientDb'[c] > 0 <=>
              clientDb[c] > 0 \/ (0 < serverDb[c] /\ serverDb[c] <= hi)
         /\ clientTracked' = Higher(clientTracked, hi)
  <1> DEFINE hi == Head(applying).hi
             since == Head(applying).since
             batch == Between(serverDb, ServerChange, since, hi)
  <1>1. Head(applying) = applying[1] /\ 1 \in 1 .. Len(applying)
        /\ Head(applying) \in [since : Nat, hi : Nat, old : Nat]
    BY ApplyingHead DEF Apply
  <1>2. IsServerVersion(hi) /\ since <= clientTracked
    BY <1>1 DEF DownstreamInv, ApplyingOK, Covered
  <1>3. batch \in SUBSET Change
    BY DEF Between, Change
  <1>4. clientDb' = Merge(clientDb, clientVersion, batch)
    BY DEF Apply
  <1> HIDE DEF batch
  <1>5. \A c \in Change : clientDb'[c] > 0 <=> clientDb[c] > 0 \/ c \in batch
    <2>1. clientDb \in [Change -> Nat] /\ clientVersion \in Nat
      BY DEF TypeOK
    <2> QED BY <1>3, <1>4, <2>1, MergeFacts
  <1>6. ASSUME NEW c \in ServerChange
        PROVE  clientDb'[c] > 0 <=> clientDb[c] > 0 \/ (0 < serverDb[c] /\ serverDb[c] <= hi)
    <2>1. c \in batch <=> since < serverDb[c] /\ serverDb[c] <= hi
      BY DEF batch, Between
    <2>2. 0 < serverDb[c] /\ serverDb[c] <= since => clientDb[c] > 0
      BY <1>1, <1>2 DEF DownstreamInv, ClientHoldsWhatItTracks, TypeOK, Change
    <2> QED BY <1>1, <1>5, <2>1, <2>2 DEF TypeOK, Change
  <1> QED BY <1>2, <1>6 DEF Apply

LEMMA DownstreamClient ==
  ASSUME TypeOK, TypeOK', DownstreamInv, ClientNext, ~ClientApplyMayFail
  PROVE  DownstreamInv'
  <1> USE DEF clientFile, inbound, outbound, link, wires, serverFile, conns
  <1>0. WireOK
    BY DEF DownstreamInv
  <1>1. ASSUME NEW c \in ClientChange, ClientWrite(c) PROVE DownstreamInv'
    <2>1. \A d \in Change : clientDb[d] > 0 => clientDb'[d] > 0
      BY <1>1 DEF ClientWrite, TypeOK
    <2>2. WireOK'
      BY <1>0, <1>1, WireSame DEF ClientWrite
    <2> QED BY <1>1, <2>1, <2>2, DownstreamFrame
            DEF ClientWrite, Change, DownstreamInv, VersionsBounded, TypeOK
  <1>2. CASE OpenSocket
    BY <1>0, <1>2, WireSame, DownstreamUnchanged DEF OpenSocket
  <1>3. CASE SocketCloses
    BY <1>0, <1>3, WireEmptied, DownstreamUnchanged DEF SocketCloses
  <1>4. CASE ReceiveStartStreaming
    BY <1>0, <1>4, WireTail, DownstreamUnchanged DEF ReceiveStartStreaming
  <1>5. CASE ChangeNotification \/ TimerFires \/ PullReads \/ PullEmpty \/ PullSent \/ PullDeferred
    BY <1>0, <1>5, WireSame, DownstreamUnchanged
       DEF ChangeNotification, TimerFires, PullReads, PullEmpty, PullSent, PullDeferred
  <1>6. CASE ReceiveReject
    BY <1>0, <1>6, WireTail, DownstreamUnchanged DEF ReceiveReject
  <1>7. CASE RejectChanges
    BY <1>0, <1>7, WireTail, DownstreamUnchanged DEF RejectChanges
  <1>8. CASE AcceptChanges
    <2> DEFINE msg == Head(toClient[socket])
    <2>1. WireOK'
      BY <1>0, <1>8, WireTail DEF AcceptChanges
    <2>2. msg \in Message /\ IsServerVersion(msg.hi)
      <3>1. socket \in Socket /\ toClient[socket] \in Seq(Message) /\ toClient[socket] # <<>>
            /\ msg.type = "changes"
        BY <1>8 DEF AcceptChanges, Receive, TypeOK, Socket
      <3>2. msg \in Message /\ msg = toClient[socket][1] /\ 1 \in 1 .. Len(toClient[socket])
        BY <3>1, HeadTail
      <3> QED BY <1>0, <3>1, <3>2 DEF WireOK
    <2>3. /\ lastSeen >= msg.since
          /\ lastSeen' = msg.hi
          /\ applying' = Append(applying, [since |-> msg.since, hi |-> msg.hi, old |-> lastSeen])
          /\ UNCHANGED <<clientTracked, serverDb, serverVersion, clientDb>>
      BY <1>8 DEF AcceptChanges, GreaterThanOrEqual
    <2> HIDE DEF msg
    <2>4. /\ Len(applying') = Len(applying) + 1 /\ Len(applying) \in Nat
          /\ applying'[Len(applying) + 1].hi = msg.hi
          /\ applying'[Len(applying) + 1].since = msg.since
          /\ \A i \in 1 .. Len(applying) : applying'[i] = applying[i]
      BY <2>3 DEF TypeOK
    <2>5. Covered(Len(applying), msg.since)
      <3>1. Covered(Len(applying), lastSeen)
        BY DEF DownstreamInv, ApplyingOK
      <3>2. /\ msg.since \in Nat /\ lastSeen \in Nat /\ clientTracked \in Nat
            /\ \A j \in 1 .. Len(applying) : applying[j].hi \in Nat
        BY <2>2, ApplyingEntries DEF TypeOK, Message
      <3> QED BY <2>3, <3>1, <3>2 DEF Covered
    <2>6. ApplyingOK'
      <3>1. ASSUME NEW i \in 1 .. Len(applying')
            PROVE  /\ applying'[i].hi > 0 /\ \E c \in ServerChange : serverDb'[c] = applying'[i].hi
                   /\ applying'[i].since <= clientTracked'
                      \/ \E j \in 1 .. i - 1 : applying'[i].since <= applying'[j].hi
        <4>1. CASE i = Len(applying) + 1
          BY <2>2, <2>3, <2>4, <2>5, <4>1 DEF IsServerVersion, Covered
        <4>2. CASE i # Len(applying) + 1
          <5>1. i \in 1 .. Len(applying)
            BY <2>4, <4>2
          <5> QED BY <2>3, <2>4, <5>1 DEF DownstreamInv, ApplyingOK, IsServerVersion, Covered
        <4> QED BY <4>1, <4>2
      <3>2. Covered(Len(applying), lastSeen)'
        <4>1. lastSeen' <= applying'[Len(applying')].hi /\ Len(applying') \in 1 .. Len(applying')
          BY <2>2, <2>3, <2>4 DEF Message
        <4> QED BY <4>1 DEF Covered
      <3> QED BY <3>1, <3>2 DEF ApplyingOK, IsServerVersion, Covered
    <2> QED BY <2>1, <2>3, <2>6 DEF DownstreamInv, VersionsBounded, ClientHoldsWhatItTracks
  <1>9. CASE Apply
    <2> DEFINE hi == Head(applying).hi
    <2>1. WireOK'
      BY <1>0, <1>9, WireSame DEF Apply
    <2>2. /\ IsServerVersion(hi)
          /\ \A c \in ServerChange : clientDb'[c] > 0 <=>
               clientDb[c] > 0 \/ (0 < serverDb[c] /\ serverDb[c] <= hi)
          /\ clientTracked' = Higher(clientTracked, hi)
      BY <1>9, ApplyFacts
    <2>3. /\ hi = applying[1].hi /\ hi \in Nat /\ clientTracked \in Nat
          /\ Len(applying') = Len(applying) - 1 /\ Len(applying) \in Nat
          /\ \A i \in 1 .. Len(applying') : applying'[i] = applying[i + 1]
      BY <1>9, ApplyingHead, ApplyingEntries DEF Apply, TypeOK
    <2>4. UNCHANGED <<lastSeen, serverDb, serverVersion>>
      BY <1>9 DEF Apply
    <2> HIDE DEF hi
    <2>5. VersionsBounded'
      BY <2>2, <2>3, <2>4 DEF DownstreamInv, VersionsBounded, IsServerVersion, Higher, Change
    <2>6. ClientHoldsWhatItTracks'
      BY <2>2, <2>3, <2>4 DEF DownstreamInv, ClientHoldsWhatItTracks, Higher, TypeOK, Change
    <2>7. ASSUME NEW n \in 0 .. Len(applying'), NEW v \in Nat, Covered(n + 1, v)
          PROVE  v <= clientTracked' \/ \E j \in 1 .. n : v <= applying'[j].hi
      <3>1. CASE v <= clientTracked \/ v <= applying[1].hi
        BY <2>2, <2>3, <3>1 DEF Higher
      <3>2. CASE \E j \in 2 .. n + 1 : v <= applying[j].hi
        <4>1. PICK j \in 2 .. n + 1 : v <= applying[j].hi
          BY <3>2
        <4>2. j - 1 \in 1 .. n /\ applying'[j - 1] = applying[j]
          BY <2>3
        <4> QED BY <4>1, <4>2
      <3> QED BY <2>7, <3>1, <3>2 DEF Covered
    <2>8. ApplyingOK'
      <3>1. ASSUME NEW i \in 1 .. Len(applying')
            PROVE  /\ applying'[i].hi > 0 /\ \E c \in ServerChange : serverDb'[c] = applying'[i].hi
                   /\ applying'[i].since <= clientTracked'
                      \/ \E j \in 1 .. i - 1 : applying'[i].since <= applying'[j].hi
        <4>1. i + 1 \in 1 .. Len(applying) /\ applying'[i] = applying[i + 1]
          BY <2>3
        <4>2. IsServerVersion(applying[i + 1].hi) /\ Covered(i, applying[i + 1].since)
          BY <4>1 DEF DownstreamInv, ApplyingOK
        <4>3. applying[i + 1].since \in Nat /\ i - 1 \in 0 .. Len(applying')
          BY <4>1, <2>3, ApplyingEntries
        <4>4. applying'[i].since <= clientTracked'
              \/ \E j \in 1 .. i - 1 : applying'[i].since <= applying'[j].hi
          <5>1. (i - 1) + 1 = i
            OBVIOUS
          <5>2. Covered((i - 1) + 1, applying[i + 1].since)
            BY <4>2, <5>1
          <5> QED BY <2>7, <4>1, <4>3, <5>2
        <4> QED BY <2>4, <4>1, <4>2, <4>4 DEF IsServerVersion
      <3>2. lastSeen' <= clientTracked'
            \/ \E j \in 1 .. Len(applying') : lastSeen' <= applying'[j].hi
        <4>1. Covered(Len(applying), lastSeen) /\ lastSeen \in Nat
          BY DEF DownstreamInv, ApplyingOK, TypeOK
        <4>2. Len(applying') \in 0 .. Len(applying') /\ Len(applying') + 1 = Len(applying)
          <5>1. Len(applying') \in Nat
            BY DEF TypeOK
          <5> QED BY <2>3, <5>1
        <4> QED BY <2>4, <2>7, <4>1, <4>2
      <3> QED BY <3>1, <3>2 DEF ApplyingOK, IsServerVersion, Covered
    <2> QED BY <2>1, <2>5, <2>6, <2>8 DEF DownstreamInv
  <1>10. CASE ApplyFails
    BY <1>10 DEF ApplyFails
  <1>11. CASE Restart
    <2>1. WireOK'
      BY <1>0, <1>11, WireEmptied DEF Restart
    <2>2. ApplyingOK'
      BY <1>11 DEF Restart, ApplyingOK, Covered, TypeOK
    <2> QED BY <1>11, <2>1, <2>2
            DEF Restart, DownstreamInv, VersionsBounded, ClientHoldsWhatItTracks
  <1> QED BY <1>1, <1>2, <1>3, <1>4, <1>5, <1>6, <1>7, <1>8, <1>9, <1>10, <1>11 DEF ClientNext

\* Merging the client's changes gives the server's own no other version.
LEMMA MergeKeepsServerChanges ==
  ASSUME TypeOK, NEW s \in Socket, ReceiveChanges(s)
  PROVE  \A c \in ServerChange : serverDb'[c] = serverDb[c]
  <1> DEFINE batch == Between(clientDb, ClientChange, Head(toServer[s]).since, Head(toServer[s]).hi)
  <1>1. batch \in SUBSET Change /\ batch \in SUBSET ClientChange
    BY DEF Between, Change
  <1>2. serverDb' = Merge(serverDb, serverVersion, batch)
    BY DEF ReceiveChanges
  <1> HIDE DEF batch
  <1>3. serverDb \in [Change -> Nat] /\ serverVersion \in Nat
    BY DEF TypeOK
  <1>4. \A c \in Change \ batch : Merge(serverDb, serverVersion, batch)[c] = serverDb[c]
    BY <1>1, <1>3, MergeFacts
  <1>5. \A c \in ServerChange : c \in Change \ batch
    BY <1>1, ConstantsAssumption DEF Change
  <1> QED BY <1>2, <1>4, <1>5

LEMMA DownstreamServer ==
  ASSUME TypeOK, TypeOK', DownstreamInv, ServerNext
  PROVE  DownstreamInv'
  <1> USE DEF clientFile, inbound, outbound, link, wires, serverFile, conns
  <1>0. WireOK
    BY DEF DownstreamInv
  <1>1. ASSUME NEW c \in ServerChange, ServerWrite(c) PROVE DownstreamInv'
    <2>1. /\ serverDb' = [serverDb EXCEPT ![c] = serverVersion + 1]
          /\ serverVersion' = serverVersion + 1 /\ serverDb[c] = 0
          /\ UNCHANGED <<clientTracked, applying, lastSeen, clientDb, toClient>>
      BY <1>1 DEF ServerWrite
    <2>2. \A d \in ServerChange : serverDb[d] > 0 => serverDb'[d] = serverDb[d]
      BY <2>1 DEF TypeOK
    <2>3. \A d \in ServerChange : serverDb'[d] # serverDb[d] => serverDb'[d] > clientTracked
      BY <2>1 DEF TypeOK, DownstreamInv, VersionsBounded, Change
    <2>4. \A d \in Change : serverDb'[d] <= serverVersion'
      BY <2>1 DEF TypeOK, DownstreamInv, VersionsBounded
    <2>5. WireOK'
      BY <1>0, <2>1, <2>2, WireSame
    <2>6. serverVersion' >= serverVersion
      BY <2>1 DEF TypeOK
    <2> QED BY <2>1, <2>2, <2>3, <2>4, <2>5, <2>6, DownstreamFrame
  <1>2. ASSUME NEW s \in Socket, ConnectionCreated(s) PROVE DownstreamInv'
    <2>1. PICK hi \in {0} \cup {serverDb[c] : c \in ServerChange} :
            SendToClient(s, IF hi > outSent[s]
                            THEN <<Msg("start", serverTracked), Changes(outSent[s], hi)>>
                            ELSE <<Msg("start", serverTracked)>>)
      BY <1>2 DEF ConnectionCreated
    <2>2. hi \in Nat /\ outSent[s] \in Nat /\ serverTracked \in Nat
      <3>1. serverDb \in [Change -> Nat] /\ outSent[s] \in Nat /\ serverTracked \in Nat
        BY DEF TypeOK
      <3>2. hi \in {0} \cup {serverDb[c] : c \in ServerChange}
        BY <2>1
      <3> QED BY <3>1, <3>2 DEF Change
    <2>3. CASE hi > outSent[s]
      <3> DEFINE msgs == <<Msg("start", serverTracked), Changes(outSent[s], hi)>>
      <3>1. msgs \in Seq(Message) /\ SendToClient(s, msgs)
        BY <2>1, <2>2, <2>3, MsgType
      <3>2. \A i \in 1 .. Len(msgs) :
              msgs[i].type = "changes" => \E c \in ServerChange : serverDb[c] = msgs[i].hi /\ msgs[i].hi > 0
        BY <2>1, <2>2, <2>3 DEF Msg, Changes
      <3> HIDE DEF msgs
      <3>3. WireOK'
        BY <1>0, <1>2, <3>1, <3>2, WireAppended DEF ConnectionCreated
      <3> QED BY <1>2, <3>3, DownstreamUnchanged DEF ConnectionCreated
    <2>4. CASE ~(hi > outSent[s])
      <3> DEFINE msgs == <<Msg("start", serverTracked)>>
      <3>1. msgs \in Seq(Message) /\ SendToClient(s, msgs)
        BY <2>1, <2>2, <2>4, MsgType
      <3>2. \A i \in 1 .. Len(msgs) :
              msgs[i].type = "changes" => \E c \in ServerChange : serverDb[c] = msgs[i].hi /\ msgs[i].hi > 0
        BY DEF Msg
      <3> HIDE DEF msgs
      <3>3. WireOK'
        BY <1>0, <1>2, <3>1, <3>2, WireAppended DEF ConnectionCreated
      <3> QED BY <1>2, <3>3, DownstreamUnchanged DEF ConnectionCreated
    <2> QED BY <2>3, <2>4
  <1>3. ASSUME NEW s \in Socket, OutboundSent(s) PROVE DownstreamInv'
    <2>1. PICK hi \in {serverDb[c] : c \in ServerChange} :
            hi > outSent[s] /\ SendToClient(s, <<Changes(outSent[s], hi)>>)
      BY <1>3 DEF OutboundSent
    <2>2. hi \in Nat /\ outSent[s] \in Nat
      BY <2>1 DEF TypeOK, Change
    <2> DEFINE msgs == <<Changes(outSent[s], hi)>>
    <2>3. msgs \in Seq(Message) /\ SendToClient(s, msgs)
      BY <2>1, <2>2, MsgType
    <2>4. \A i \in 1 .. Len(msgs) :
            msgs[i].type = "changes" => \E c \in ServerChange : serverDb[c] = msgs[i].hi /\ msgs[i].hi > 0
      BY <2>1, <2>2 DEF Changes
    <2> HIDE DEF msgs
    <2>5. WireOK'
      BY <1>0, <1>3, <2>3, <2>4, WireAppended DEF OutboundSent
    <2> QED BY <1>3, <2>5, DownstreamUnchanged DEF OutboundSent
  <1>4. ASSUME NEW s \in Socket, ReceiveChanges(s) PROVE DownstreamInv'
    <2> DEFINE batch == Between(clientDb, ClientChange, Head(toServer[s]).since, Head(toServer[s]).hi)
               msgs == IF GreaterThanOrEqual(inSeen[s], Head(toServer[s]).since) THEN <<>>
                       ELSE <<Msg("reject", inSeen[s])>>
    <2>1. batch \in SUBSET ClientChange /\ batch \in SUBSET Change
      BY DEF Between, Change
    <2>2. /\ SendToClient(s, msgs)
          /\ serverDb' = Merge(serverDb, serverVersion, batch)
          /\ serverVersion' = MergedVersion(serverDb, serverVersion, batch)
          /\ UNCHANGED <<clientTracked, applying, lastSeen, clientDb>>
      BY <1>4 DEF ReceiveChanges
    <2>3. msgs \in Seq(Message)
      BY RejectionType
    <2>4. \A i \in 1 .. Len(msgs) : msgs[i].type # "changes"
      BY DEF Msg
    <2> HIDE DEF batch, msgs
    <2>5. \A c \in ServerChange : serverDb'[c] = serverDb[c]
      BY <1>4, MergeKeepsServerChanges
    <2>6. serverVersion' >= serverVersion /\ \A c \in Change : serverDb'[c] <= serverVersion'
      BY <2>1, <2>2, MergeFacts DEF TypeOK, DownstreamInv, VersionsBounded
    <2>7. WireOK'
      BY <1>0, <2>2, <2>3, <2>4, <2>5, WireAppended
    <2> QED BY <2>2, <2>5, <2>6, <2>7, DownstreamFrame
  <1>5. ASSUME NEW s \in Socket, ReceiveChangesFails(s) PROVE DownstreamInv'
    <2> DEFINE msgs == IF GreaterThanOrEqual(inSeen[s], Head(toServer[s]).since) THEN <<>>
                       ELSE <<Msg("reject", inSeen[s])>>
    <2>1. msgs \in Seq(Message) /\ SendToClient(s, msgs)
      BY <1>5, RejectionType DEF ReceiveChangesFails
    <2>2. \A i \in 1 .. Len(msgs) : msgs[i].type # "changes"
      BY DEF Msg
    <2> HIDE DEF msgs
    <2>3. WireOK'
      BY <1>0, <1>5, <2>1, <2>2, WireAppended DEF ReceiveChangesFails
    <2> QED BY <1>5, <2>3, DownstreamUnchanged DEF ReceiveChangesFails
  <1>6. ASSUME NEW s \in Socket,
               ReceiveAnnounce(s) \/ OutboundEmpty(s) \/ OutboundBufferFull(s) \/ SettleLastSeen(s)
               \/ DropEarlyChanges(s) \/ ReceiveRejected(s) \/ ConnectionCloses(s)
        PROVE  DownstreamInv'
    <2>1. UNCHANGED <<clientTracked, applying, lastSeen, serverDb, serverVersion, clientDb, toClient>>
      BY <1>6 DEF ReceiveAnnounce, OutboundEmpty, OutboundBufferFull, SettleLastSeen,
                  DropEarlyChanges, ReceiveRejected, ConnectionCloses
    <2> QED BY <1>0, <2>1, WireSame, DownstreamUnchanged
  <1> QED BY <1>1, <1>2, <1>3, <1>4, <1>5, <1>6 DEF ServerNext, ServerStep

LEMMA DownstreamInvariant ==
  ASSUME ~ClientApplyMayFail
  PROVE  Spec => []DownstreamInv
  <1>1. DownstreamInv /\ UNCHANGED vars => DownstreamInv'
    BY DEF vars, clientFile, inbound, outbound, link, wires, serverFile, conns, DownstreamInv,
           VersionsBounded, WireOK, ApplyingOK, Covered, IsServerVersion, ClientHoldsWhatItTracks
  <1>2. TypeOK /\ TypeOK' /\ DownstreamInv /\ [Next]_vars => DownstreamInv'
    BY <1>1, DownstreamClient, DownstreamServer DEF Next
  <1> QED BY TypeCorrect, DownstreamInit, <1>2, PTL DEF Spec

(***************************************************************************)
(* If no client transaction fails, the client holds every server change    *)
(* its tracked_peers row covers: after any drops, restarts, resends and    *)
(* server failures it may announce that row.                               *)
(***************************************************************************)
THEOREM ClientNeverSkips ==
  ASSUME ~ClientApplyMayFail
  PROVE  Spec => []ClientHoldsWhatItTracks
  <1>1. DownstreamInv => ClientHoldsWhatItTracks
    BY DEF DownstreamInv
  <1> QED BY <1>1, DownstreamInvariant, PTL

-----------------------------------------------------------------------------
\* Sync from the server to the client implements in-order replication.

LEMMA WriteRefines ==
  ASSUME TypeOK, DownstreamInv, NEW c \in ServerChange, ServerWrite(c)
  PROVE  ServerToClient!Write(c)
  <1>1. /\ serverDb \in [Change -> Nat] /\ serverVersion \in Nat /\ clientTracked \in Nat
        /\ clientTracked <= serverVersion /\ \A d \in Change : serverDb[d] <= serverVersion
    BY DEF TypeOK, DownstreamInv, VersionsBounded
  <1>2. /\ serverDb[c] = 0 /\ serverDb' = [serverDb EXCEPT ![c] = serverVersion + 1]
        /\ clientDb' = clientDb /\ clientTracked' = clientTracked
    BY DEF ServerWrite, clientFile
  <1>3. serverDb'[c] = serverVersion + 1 /\ \A d \in ServerChange : d # c => serverDb'[d] = serverDb[d]
    BY <1>1, <1>2 DEF Change
  <1>4. \A d \in ServerChange : serverDb'[c] > serverDb[d]
    BY <1>1, <1>3 DEF Change
  <1>5. [d \in ServerChange |-> serverDb'[d]]
          = [[d \in ServerChange |-> serverDb[d]] EXCEPT ![c] = serverDb'[c]]
    BY <1>3
  <1> QED BY <1>1, <1>2, <1>3, <1>4, <1>5 DEF ServerToClient!Write

LEMMA DeliverRefines ==
  ASSUME TypeOK, DownstreamInv, Apply
  PROVE  \E c \in ServerChange : ServerToClient!Deliver(c)
  <1> DEFINE hi == Head(applying).hi
  <1>1. /\ IsServerVersion(hi)
        /\ \A c \in ServerChange : clientDb'[c] > 0 <=>
             clientDb[c] > 0 \/ (0 < serverDb[c] /\ serverDb[c] <= hi)
        /\ clientTracked' = Higher(clientTracked, hi)
    BY ApplyFacts
  <1>2. serverDb' = serverDb
    BY DEF Apply, serverFile
  <1>3. hi \in Nat /\ clientTracked \in Nat
    BY ApplyingHead DEF Apply, TypeOK
  <1> HIDE DEF hi
  <1>4. PICK c \in ServerChange : serverDb[c] = hi /\ hi > 0
    BY <1>1 DEF IsServerVersion
  <1>5. {d \in ServerChange : clientDb'[d] > 0}
          = {d \in ServerChange : clientDb[d] > 0}
            \cup {d \in ServerChange : 0 < serverDb[d] /\ serverDb[d] <= hi}
    BY <1>1
  <1>6. clientTracked' = IF serverDb[c] > clientTracked THEN serverDb[c] ELSE clientTracked
    BY <1>1, <1>3, <1>4 DEF Higher
  <1> QED BY <1>2, <1>4, <1>5, <1>6 DEF ServerToClient!Deliver, ServerToClient!UpTo

\* What no step but ServerWrite and Apply changes.
LEMMA OtherStepsStutter ==
  ASSUME TypeOK, Next, ~Apply, \A c \in ServerChange : ~ServerWrite(c)
  PROVE  /\ clientTracked' = clientTracked
         /\ \A c \in ServerChange : serverDb'[c] = serverDb[c] /\ clientDb'[c] = clientDb[c]
  <1> USE DEF clientFile, inbound, outbound, link, wires, serverFile, conns
  <1>1. ASSUME NEW c \in ClientChange, ClientWrite(c)
        PROVE  /\ clientTracked' = clientTracked
               /\ \A d \in ServerChange : serverDb'[d] = serverDb[d] /\ clientDb'[d] = clientDb[d]
    <2>1. /\ UNCHANGED <<serverDb, clientTracked>> /\ clientDb \in [Change -> Nat]
          /\ clientDb' = [clientDb EXCEPT ![c] = clientVersion + 1]
      BY <1>1 DEF ClientWrite, TypeOK
    <2>2. \A d \in ServerChange : d \in Change /\ d # c
      BY ConstantsAssumption DEF Change
    <2> QED BY <2>1, <2>2
  <1>2. ASSUME ClientNext, \A c \in ClientChange : ~ClientWrite(c)
        PROVE  UNCHANGED <<clientTracked, serverDb, clientDb>>
    BY <1>2 DEF ClientNext, OpenSocket, SocketCloses, ReceiveStartStreaming, ChangeNotification,
                TimerFires, PullReads, PullEmpty, PullSent, PullDeferred, ReceiveReject,
                AcceptChanges, RejectChanges, ApplyFails, Restart
  <1>3. ASSUME NEW s \in Socket, ReceiveChanges(s)
        PROVE  UNCHANGED <<clientTracked, clientDb>>
    BY <1>3 DEF ReceiveChanges
  <1>4. ASSUME NEW s \in Socket, ServerStep(s), ~ReceiveChanges(s)
        PROVE  UNCHANGED <<clientTracked, serverDb, clientDb>>
    BY <1>4 DEF ServerStep, ReceiveAnnounce, ConnectionCreated, OutboundEmpty, OutboundSent,
                OutboundBufferFull, ReceiveChangesFails, SettleLastSeen, DropEarlyChanges,
                ReceiveRejected, ConnectionCloses
  <1>5. CASE ClientNext
    BY <1>1, <1>2, <1>5
  <1>6. CASE \E s \in Socket : ServerStep(s)
    BY <1>3, <1>4, <1>6, MergeKeepsServerChanges
  <1> QED BY <1>5, <1>6 DEF Next, ServerNext

(***************************************************************************)
(* If no client transaction fails, everything the client does with the     *)
(* server's changes is a Deliver of InOrderReplication, everything the     *)
(* server does to them is a Write, and all other steps of the protocol,    *)
(* on any number of connections, leave both replicas and the mark alone.   *)
(***************************************************************************)
THEOREM ServerToClientRefines ==
  ASSUME ~ClientApplyMayFail
  PROVE  Spec => ServerToClientIsInOrder
  <1>1. Init => ServerToClient!Init
    BY DEF Init, ServerToClient!Init, Change
  <1>2. TypeOK /\ DownstreamInv /\ [Next]_vars => [ServerToClient!Next]_(ServerToClient!vars)
    <2> SUFFICES ASSUME TypeOK, DownstreamInv, [Next]_vars
                 PROVE  ServerToClient!Next \/ UNCHANGED ServerToClient!vars
      OBVIOUS
    <2>1. ASSUME NEW c \in ServerChange, ServerWrite(c) PROVE ServerToClient!Next
      BY <2>1, WriteRefines DEF ServerToClient!Next
    <2>2. CASE Apply
      BY <2>2, DeliverRefines DEF ServerToClient!Next
    <2>3. ASSUME clientTracked' = clientTracked,
                 \A c \in ServerChange : serverDb'[c] = serverDb[c] /\ clientDb'[c] = clientDb[c]
          PROVE  UNCHANGED ServerToClient!vars
      BY <2>3 DEF ServerToClient!vars
    <2>4. CASE UNCHANGED vars
      BY <2>3, <2>4 DEF vars, clientFile, serverFile
    <2> QED BY <2>1, <2>2, <2>3, <2>4, OtherStepsStutter
  <1> QED BY <1>1, <1>2, TypeCorrect, DownstreamInvariant, PTL
          DEF Spec, ServerToClientIsInOrder, ServerToClient!Spec

(***************************************************************************)
(* What in-order replication is worth to whoever resumes from a mark in    *)
(* crsql_tracked_peers (SyncedDB.start announces it, SyncConnection.start  *)
(* asks from it): any behaviour that is in order, whatever protocol it     *)
(* comes from, leaves the client with all that the server has up to it.    *)
(***************************************************************************)
THEOREM MarkIsContiguous == ServerToClientIsInOrder => []ServerToClient!Contiguous
  <1> DEFINE Versions == clientTracked \in Nat /\ \A c \in ServerChange : serverDb[c] \in Nat
  <1>1. ServerToClient!Init => Versions /\ ServerToClient!Contiguous
    BY DEF ServerToClient!Init, ServerToClient!Contiguous, ServerToClient!UpTo
  <1>2. Versions /\ ServerToClient!Contiguous /\ [ServerToClient!Next]_(ServerToClient!vars)
          => Versions' /\ ServerToClient!Contiguous'
    <2> SUFFICES ASSUME Versions, ServerToClient!Contiguous,
                        [ServerToClient!Next]_(ServerToClient!vars)
                 PROVE  Versions' /\ ServerToClient!Contiguous'
      OBVIOUS
    <2>1. ASSUME NEW c \in ServerChange, ServerToClient!Write(c)
          PROVE  Versions' /\ ServerToClient!Contiguous'
      <3>1. /\ serverDb'[c] \in Nat /\ serverDb'[c] > clientTracked
            /\ clientTracked' = clientTracked
            /\ \A d \in ServerChange : clientDb'[d] > 0 <=> clientDb[d] > 0
        BY <2>1 DEF ServerToClient!Write
      <3>2. \A d \in ServerChange : d # c => serverDb'[d] = serverDb[d]
        BY <2>1 DEF ServerToClient!Write
      <3>3. Versions'
        BY <3>1, <3>2
      <3>4. ServerToClient!UpTo(clientTracked)' \subseteq ServerToClient!UpTo(clientTracked)
        BY <3>1, <3>2 DEF ServerToClient!UpTo
      <3> QED BY <3>1, <3>3, <3>4 DEF ServerToClient!Contiguous
    <2>2. ASSUME NEW c \in ServerChange, ServerToClient!Deliver(c)
          PROVE  Versions' /\ ServerToClient!Contiguous'
      BY <2>2 DEF ServerToClient!Deliver, ServerToClient!Contiguous, ServerToClient!UpTo
    <2>3. CASE UNCHANGED ServerToClient!vars
      BY <2>3 DEF ServerToClient!vars, ServerToClient!Contiguous, ServerToClient!UpTo
    <2> QED BY <2>1, <2>2, <2>3 DEF ServerToClient!Next
  <1> QED BY <1>1, <1>2, PTL DEF ServerToClientIsInOrder, ServerToClient!Spec

-----------------------------------------------------------------------------
(***************************************************************************)
(* The other direction, over sockets that close only when an end closes    *)
(* them and with a server whose transactions succeed.  What a message says *)
(* starts at or below what the server records, or the end of a message     *)
(* before it on the same socket, and so does what the client sends next.   *)
(***************************************************************************)
IsClientVersion(v) == v > 0 /\ \E c \in ClientChange : clientDb[c] = v

ClientVersionsBounded ==
  /\ \A c \in ClientChange : clientDb[c] <= clientVersion
  /\ serverTracked <= clientVersion

PullsOK ==
  /\ pulls # <<>> => streaming
  /\ \A i \in 1 .. Len(pulls) : pulls[i].hi = 0 \/ IsClientVersion(pulls[i].hi)

\* v is recorded, or covered by one of the first n messages on socket s.
Follows(s, n, v) ==
  \/ v <= serverTracked
  \/ \E j \in 1 .. n : toServer[s][j].type = "changes" /\ v <= toServer[s][j].hi

\* Nobody sends changes to a connection that does not exist yet.
QueueOK ==
  \A s \in Socket : \A i \in 1 .. Len(toServer[s]) :
    toServer[s][i].type = "changes" =>
      /\ phase[s] = "live"
      /\ IsClientVersion(toServer[s][i].hi)
      /\ Follows(s, i - 1, toServer[s][i].since)

StreamOK ==
  streaming => /\ open /\ phase[socket] = "live"
               /\ Follows(socket, Len(toServer[socket]), lastSent)

StartOK ==
  \A s \in Socket : \A i \in 1 .. Len(toClient[s]) :
    toClient[s][i].type = "start" =>
      Reachable(s) /\ phase[s] = "live" /\ toClient[s][i].since <= serverTracked

UpstreamInv ==
  ClientVersionsBounded /\ PullsOK /\ QueueOK /\ StreamOK /\ StartOK /\ ServerHoldsWhatItTracks

LEMMA UpstreamInit == Init => UpstreamInv
  BY DEF Init, UpstreamInv, ClientVersionsBounded, PullsOK, QueueOK, StreamOK, StartOK,
         ServerHoldsWhatItTracks, Change

\* What every step of the protocol keeps.
KeepsVersions == \A c \in ClientChange : clientDb[c] > 0 => clientDb'[c] = clientDb[c]

KeepsLive == \A s \in Socket : phase[s] = "live" => phase'[s] = "live" \/ toServer[s] = <<>>

LEMMA VersionsStay ==
  ASSUME KeepsVersions, NEW v, IsClientVersion(v)
  PROVE  IsClientVersion(v)'
  BY DEF KeepsVersions, IsClientVersion

\* What the messages on a socket to the server are.
LEMMA QueueEntries ==
  ASSUME TypeOK, NEW s \in Socket
  PROVE  /\ toServer[s] \in Seq(Message) /\ Len(toServer[s]) \in Nat
         /\ \A i \in 1 .. Len(toServer[s]) :
              toServer[s][i] \in Message /\ toServer[s][i].since \in Nat /\ toServer[s][i].hi \in Nat
  <1>1. toServer[s] \in Seq(Message)
    BY DEF TypeOK
  <1>2. Len(toServer[s]) \in Nat /\ \A i \in 1 .. Len(toServer[s]) : toServer[s][i] \in Message
    BY <1>1, LenProperties, ElementOfSeq
  <1> QED BY <1>1, <1>2 DEF Message

\* The three ways a channel to the server changes.
LEMMA QueueSame ==
  ASSUME TypeOK, QueueOK, KeepsVersions, KeepsLive, toServer' = toServer,
         serverTracked' = serverTracked
  PROVE  QueueOK'
  <1> SUFFICES ASSUME NEW s \in Socket, NEW i \in 1 .. Len(toServer[s]),
                      toServer[s][i].type = "changes"
               PROVE  /\ phase'[s] = "live"
                      /\ IsClientVersion(toServer[s][i].hi)'
                      /\ Follows(s, i - 1, toServer[s][i].since)'
    BY DEF QueueOK
  <1>1. /\ phase[s] = "live"
        /\ IsClientVersion(toServer[s][i].hi)
        /\ Follows(s, i - 1, toServer[s][i].since)
    BY DEF QueueOK
  <1>2. phase'[s] = "live"
    BY <1>1, QueueEntries DEF KeepsLive
  <1>3. IsClientVersion(toServer[s][i].hi)'
    BY <1>1, VersionsStay DEF IsClientVersion
  <1> QED BY <1>1, <1>2, <1>3 DEF Follows

\* The head of a channel was handled: what it covered is now recorded.
Handled(s) ==
  /\ s \in Socket
  /\ toServer[s] # <<>>
  /\ toServer' = [toServer EXCEPT ![s] = Tail(@)]
  /\ serverTracked' >= serverTracked
  /\ Head(toServer[s]).type = "changes" => serverTracked' >= Head(toServer[s]).hi

LEMMA HandledQueue ==
  ASSUME TypeOK, NEW s, Handled(s)
  PROVE  /\ s \in Socket /\ 1 \in 1 .. Len(toServer[s]) /\ Head(toServer[s]) = toServer[s][1]
         /\ Len(toServer'[s]) = Len(toServer[s]) - 1
         /\ \A i \in 1 .. Len(toServer'[s]) : i + 1 \in 1 .. Len(toServer[s])
                                              /\ toServer'[s][i] = toServer[s][i + 1]
         /\ \A t \in Socket : t # s => toServer'[t] = toServer[t]
  <1>1. s \in Socket /\ toServer[s] # <<>> /\ toServer \in [Socket -> Seq(Message)]
        /\ toServer' = [toServer EXCEPT ![s] = Tail(@)]
    BY DEF Handled, TypeOK
  <1>2. toServer'[s] = Tail(toServer[s]) /\ \A t \in Socket : t # s => toServer'[t] = toServer[t]
    BY <1>1
  <1>3. toServer[s] \in Seq(Message)
    BY <1>1
  <1>4. /\ Len(Tail(toServer[s])) = Len(toServer[s]) - 1
        /\ \A i \in 1 .. Len(Tail(toServer[s])) : Tail(toServer[s])[i] = toServer[s][i + 1]
        /\ Head(toServer[s]) = toServer[s][1]
        /\ Len(toServer[s]) > 0 /\ Len(toServer[s]) \in Nat
    BY <1>1, <1>3, HeadTail, LenProperties
  <1> QED BY <1>1, <1>2, <1>4

LEMMA FollowsHandled ==
  ASSUME TypeOK, TypeOK', NEW s, Handled(s), NEW n \in Nat, n < Len(toServer[s]), NEW v \in Nat,
         Follows(s, n + 1, v)
  PROVE  Follows(s, n, v)'
  <1>1. serverTracked \in Nat /\ serverTracked' \in Nat /\ serverTracked' >= serverTracked
    BY DEF TypeOK, Handled
  <1>2. /\ s \in Socket /\ Head(toServer[s]) = toServer[s][1] /\ 1 \in 1 .. Len(toServer[s])
        /\ Len(toServer'[s]) = Len(toServer[s]) - 1
        /\ \A i \in 1 .. Len(toServer'[s]) : toServer'[s][i] = toServer[s][i + 1]
    BY HandledQueue
  <1>3. CASE v <= serverTracked
    BY <1>1, <1>3 DEF Follows
  <1>4. ASSUME NEW j \in 1 .. n + 1, toServer[s][j].type = "changes", v <= toServer[s][j].hi
        PROVE  Follows(s, n, v)'
    <2>1. CASE j = 1
      <3>1. v <= Head(toServer[s]).hi /\ serverTracked' >= Head(toServer[s]).hi
        BY <1>2, <1>4, <2>1 DEF Handled
      <3>2. Head(toServer[s]).hi \in Nat
        BY <1>2, QueueEntries
      <3> QED BY <1>1, <3>1, <3>2 DEF Follows
    <2>2. CASE j # 1
      <3>1. Len(toServer[s]) \in Nat
        BY <1>2, QueueEntries
      <3>2. j - 1 \in 1 .. n /\ j - 1 \in 1 .. Len(toServer'[s]) /\ (j - 1) + 1 = j
        BY <1>2, <2>2, <3>1
      <3>3. toServer'[s][j - 1] = toServer[s][j]
        BY <1>2, <3>2
      <3> QED BY <1>4, <3>2, <3>3 DEF Follows
    <2> QED BY <2>1, <2>2
  <1> QED BY <1>3, <1>4 DEF Follows

LEMMA FollowsElsewhere ==
  ASSUME TypeOK, TypeOK', NEW s, Handled(s), NEW t \in Socket, t # s, NEW n \in Nat, NEW v \in Nat,
         Follows(t, n, v)
  PROVE  Follows(t, n, v)'
  <1>1. serverTracked \in Nat /\ serverTracked' \in Nat /\ serverTracked' >= serverTracked
    BY DEF TypeOK, Handled
  <1>2. toServer'[t] = toServer[t]
    BY HandledQueue
  <1> QED BY <1>1, <1>2 DEF Follows

LEMMA QueueTail ==
  ASSUME TypeOK, TypeOK', QueueOK, KeepsVersions, KeepsLive, NEW s, Handled(s)
  PROVE  QueueOK'
  <1>1. /\ s \in Socket /\ Len(toServer'[s]) = Len(toServer[s]) - 1
        /\ \A i \in 1 .. Len(toServer'[s]) : i + 1 \in 1 .. Len(toServer[s])
                                             /\ toServer'[s][i] = toServer[s][i + 1]
        /\ \A t \in Socket : t # s => toServer'[t] = toServer[t]
    BY HandledQueue
  <1> SUFFICES ASSUME NEW t \in Socket, NEW i \in 1 .. Len(toServer'[t]),
                      toServer'[t][i].type = "changes"
               PROVE  (/\ phase[t] = "live"
                       /\ IsClientVersion(toServer[t][i].hi)
                       /\ Follows(t, i - 1, toServer[t][i].since))'
    BY DEF QueueOK
  <1>2. CASE t = s
    <2>1. i + 1 \in 1 .. Len(toServer[s]) /\ toServer'[s][i] = toServer[s][i + 1]
      BY <1>1, <1>2
    <2>2. /\ phase[s] = "live"
          /\ IsClientVersion(toServer[s][i + 1].hi)
          /\ Follows(s, i, toServer[s][i + 1].since)
      BY <1>1, <1>2, <2>1 DEF QueueOK
    <2>3. phase'[s] = "live"
      BY <1>1, <2>2 DEF KeepsLive, Handled
    <2>4. PICK v : v = toServer[s][i + 1].since
      OBVIOUS
    <2>5. v \in Nat /\ Len(toServer[s]) \in Nat
      BY <1>1, <2>1, <2>4, QueueEntries
    <2>6. i - 1 \in Nat /\ i - 1 < Len(toServer[s]) /\ (i - 1) + 1 = i
      BY <2>1, <2>5
    <2>7. Follows(s, (i - 1) + 1, v)
      BY <2>2, <2>4, <2>6
    <2>8. Follows(s, i - 1, v)'
      BY <2>5, <2>6, <2>7, FollowsHandled
    <2>9. PICK h : h = toServer[s][i + 1].hi
      OBVIOUS
    <2>10. IsClientVersion(h)'
      BY <2>2, <2>9, VersionsStay
    <2> QED BY <1>2, <2>1, <2>3, <2>4, <2>8, <2>9, <2>10 DEF Follows, IsClientVersion
  <1>3. CASE t # s
    <2>1. toServer'[t] = toServer[t]
      BY <1>1, <1>3
    <2>2. /\ i \in 1 .. Len(toServer[t])
          /\ phase[t] = "live"
          /\ IsClientVersion(toServer[t][i].hi)
          /\ Follows(t, i - 1, toServer[t][i].since)
      BY <2>1 DEF QueueOK
    <2>3. phase'[t] = "live"
      BY <2>2, QueueEntries DEF KeepsLive
    <2>4. PICK v : v = toServer[t][i].since
      OBVIOUS
    <2>5. v \in Nat /\ i - 1 \in Nat
      BY <2>2, <2>4, QueueEntries
    <2>6. Follows(t, i - 1, v)'
      BY <1>3, <2>2, <2>4, <2>5, FollowsElsewhere
    <2>7. PICK h : h = toServer[t][i].hi
      OBVIOUS
    <2>8. IsClientVersion(h)'
      BY <2>2, <2>7, VersionsStay
    <2> QED BY <2>1, <2>3, <2>4, <2>6, <2>7, <2>8 DEF Follows, IsClientVersion
  <1> QED BY <1>2, <1>3

\* What one end of a message covers is covered when the message is on its way.
Fits(msg) ==
  msg.type = "changes" =>
    /\ phase[socket] = "live"
    /\ IsClientVersion(msg.hi)
    /\ Follows(socket, Len(toServer[socket]), msg.since)

LEMMA SentQueue ==
  ASSUME TypeOK, socket > 0, NEW msg \in Message, phase[socket] # "closed", SendToServer(msg)
  PROVE  /\ socket \in Socket
         /\ Len(toServer'[socket]) = Len(toServer[socket]) + 1
         /\ \A i \in 1 .. Len(toServer[socket]) : toServer'[socket][i] = toServer[socket][i]
         /\ toServer'[socket][Len(toServer[socket]) + 1] = msg
         /\ \A t \in Socket : t # socket => toServer'[t] = toServer[t]
  <1>1. socket \in Socket /\ toServer \in [Socket -> Seq(Message)]
    BY DEF TypeOK, Socket
  <1>2. toServer' = [toServer EXCEPT ![socket] = Append(toServer[socket], msg)]
    BY DEF SendToServer
  <1>3. toServer'[socket] = Append(toServer[socket], msg)
        /\ \A t \in Socket : t # socket => toServer'[t] = toServer[t]
    BY <1>1, <1>2
  <1>4. toServer[socket] \in Seq(Message)
    BY <1>1
  <1> QED BY <1>1, <1>3, <1>4

LEMMA FollowsSent ==
  ASSUME TypeOK, socket > 0, NEW msg \in Message, SendToServer(msg), serverTracked' = serverTracked,
         NEW t \in Socket, NEW n \in Nat, n <= Len(toServer[t]), NEW v, Follows(t, n, v)
  PROVE  Follows(t, n, v)'
  <1>1. CASE phase[socket] = "closed"
    BY <1>1 DEF SendToServer, Follows
  <1>2. CASE phase[socket] # "closed"
    <2>1. \A i \in 1 .. Len(toServer[t]) : toServer'[t][i] = toServer[t][i]
      BY <1>2, SentQueue
    <2>2. Len(toServer[t]) \in Nat
      BY QueueEntries
    <2>3. \A j \in 1 .. n : toServer'[t][j] = toServer[t][j]
      BY <2>1, <2>2
    <2> QED BY <2>3 DEF Follows
  <1> QED BY <1>1, <1>2

LEMMA QueueSent ==
  ASSUME TypeOK, TypeOK', QueueOK, KeepsVersions, socket > 0, NEW msg \in Message, Fits(msg),
         SendToServer(msg), phase' = phase, serverTracked' = serverTracked
  PROVE  QueueOK'
  <1>1. CASE phase[socket] = "closed"
    <2>1. toServer' = toServer
      BY <1>1 DEF SendToServer
    <2> QED BY <2>1, QueueSame DEF KeepsLive
  <1>2. CASE phase[socket] # "closed"
    <2>1. /\ socket \in Socket
          /\ Len(toServer'[socket]) = Len(toServer[socket]) + 1
          /\ \A i \in 1 .. Len(toServer[socket]) : toServer'[socket][i] = toServer[socket][i]
          /\ toServer'[socket][Len(toServer[socket]) + 1] = msg
          /\ \A t \in Socket : t # socket => toServer'[t] = toServer[t]
      BY <1>2, SentQueue
    <2> SUFFICES ASSUME NEW t \in Socket, NEW i \in 1 .. Len(toServer'[t]),
                        toServer'[t][i].type = "changes"
                 PROVE  (/\ phase[t] = "live"
                         /\ IsClientVersion(toServer[t][i].hi)
                         /\ Follows(t, i - 1, toServer[t][i].since))'
      BY DEF QueueOK
    <2>2. PICK v : v = toServer'[t][i].since
      OBVIOUS
    <2>3. PICK h : h = toServer'[t][i].hi
      OBVIOUS
    <2>4. Len(toServer[t]) \in Nat /\ i - 1 \in Nat
      BY QueueEntries
    <2>5. /\ i - 1 <= Len(toServer[t])
          /\ phase[t] = "live" /\ IsClientVersion(h) /\ Follows(t, i - 1, v)
      <3>1. CASE i \in 1 .. Len(toServer[t])
        <4>1. toServer'[t][i] = toServer[t][i]
          BY <2>1, <3>1
        <4> QED BY <2>2, <2>3, <2>4, <3>1, <4>1 DEF QueueOK
      <3>2. CASE i \notin 1 .. Len(toServer[t])
        <4>1. t = socket /\ i = Len(toServer[t]) + 1
          BY <2>1, <2>4, <3>2
        <4>2. toServer'[t][i] = msg /\ i - 1 = Len(toServer[t])
          BY <2>1, <2>4, <4>1
        <4> QED BY <2>2, <2>3, <2>4, <4>1, <4>2 DEF Fits
      <3> QED BY <3>1, <3>2
    <2>6. Follows(t, i - 1, v)'
      BY <2>4, <2>5, FollowsSent
    <2>7. IsClientVersion(h)'
      BY <2>5, VersionsStay
    <2> QED BY <2>2, <2>3, <2>5, <2>6, <2>7 DEF Follows, IsClientVersion
  <1> QED BY <1>1, <1>2

\* What the messages to the client that start a stream are, as channels change.
LEMMA StartSame ==
  ASSUME StartOK, toClient' = toClient, serverTracked' = serverTracked, KeepsLive,
         socket' = socket, open' = open,
         \A s \in Socket : Reachable(s) /\ phase[s] = "live" => phase'[s] = "live"
  PROVE  StartOK'
  BY DEF StartOK, Reachable

LEMMA StartReceived ==
  ASSUME TypeOK, TypeOK', StartOK, NEW type, Receive(type), serverTracked' = serverTracked,
         phase' = phase, socket' = socket, open' = open
  PROVE  /\ StartOK'
         /\ type = "start" => phase[socket] = "live" /\ Head(toClient[socket]).since <= serverTracked
  <1>1. socket \in Socket /\ toClient \in [Socket -> Seq(Message)] /\ toClient[socket] # <<>>
    BY DEF TypeOK, Socket, Receive
  <1>2. toClient' = [toClient EXCEPT ![socket] = Tail(@)]
    BY DEF Receive
  <1>3. toClient[socket] \in Seq(Message)
    BY <1>1
  <1>4. /\ Head(toClient[socket]) = toClient[socket][1] /\ 1 \in 1 .. Len(toClient[socket])
        /\ Len(Tail(toClient[socket])) = Len(toClient[socket]) - 1
        /\ \A i \in 1 .. Len(Tail(toClient[socket])) :
             Tail(toClient[socket])[i] = toClient[socket][i + 1]
    BY <1>1, <1>3, HeadTail, LenProperties
  <1>5. StartOK'
    <2> SUFFICES ASSUME NEW s \in Socket, NEW i \in 1 .. Len(toClient'[s]),
                        toClient'[s][i].type = "start"
                 PROVE  Reachable(s) /\ phase[s] = "live" /\ toClient'[s][i].since <= serverTracked
      BY DEF StartOK, Reachable
    <2>1. CASE s = socket
      <3>1. toClient'[s] = Tail(toClient[socket])
        BY <1>1, <1>2, <2>1
      <3>2. toClient'[s][i] = toClient[socket][i + 1] /\ i + 1 \in 1 .. Len(toClient[socket])
        BY <1>3, <1>4, <3>1, LenProperties
      <3> QED BY <1>1, <2>1, <3>2 DEF StartOK
    <2>2. CASE s # socket
      <3>1. toClient'[s] = toClient[s]
        BY <1>1, <1>2, <2>2
      <3> QED BY <3>1 DEF StartOK
    <2> QED BY <2>1, <2>2
  <1>6. type = "start" => phase[socket] = "live" /\ Head(toClient[socket]).since <= serverTracked
    BY <1>1, <1>4 DEF Receive, StartOK
  <1> QED BY <1>5, <1>6

\* No stream is asked to start on a socket that is not open.
LEMMA StartEmptied ==
  ASSUME TypeOK, StartOK, toClient' = [toClient EXCEPT ![socket] = <<>>]
  PROVE  StartOK'
  <1>1. SUFFICES ASSUME NEW s \in Socket, NEW i \in 1 .. Len(toClient'[s]),
                        toClient'[s][i].type = "start"
                 PROVE  FALSE
    BY DEF StartOK
  <1>2. toClient \in [Socket -> Seq(Message)]
    BY DEF TypeOK
  <1>3. CASE s = socket
    BY <1>1, <1>2, <1>3
  <1>4. CASE s # socket
    BY <1>1, <1>2, <1>4 DEF StartOK, Reachable
  <1> QED BY <1>3, <1>4

\* Steps that write to neither file.
LEMMA UpstreamFiles ==
  ASSUME UpstreamInv, clientDb' = clientDb, clientVersion' = clientVersion, serverDb' = serverDb,
         serverTracked' = serverTracked
  PROVE  ClientVersionsBounded' /\ ServerHoldsWhatItTracks' /\ KeepsVersions
  BY DEF UpstreamInv, ClientVersionsBounded, ServerHoldsWhatItTracks, KeepsVersions

\* Steps that leave the outbound stream of the client alone.
LEMMA StreamSame ==
  ASSUME TypeOK, PullsOK, StreamOK, KeepsVersions, KeepsLive, streaming' = streaming, pulls' = pulls,
         lastSent' = lastSent, socket' = socket, open' = open, toServer' = toServer,
         serverTracked' = serverTracked,
         phase[socket] = "live" /\ Reachable(socket) => phase'[socket] = "live"
  PROVE  PullsOK' /\ StreamOK'
  <1>1. PullsOK'
    <2> SUFFICES ASSUME NEW i \in 1 .. Len(pulls)
                 PROVE  pulls[i].hi = 0 \/ IsClientVersion(pulls[i].hi)'
      BY DEF PullsOK
    <2> QED BY VersionsStay DEF PullsOK
  <1>2. StreamOK'
    BY DEF StreamOK, Follows, Reachable
  <1> QED BY <1>1, <1>2

LEMMA PullEntries ==
  ASSUME TypeOK
  PROVE  /\ pulls \in Seq([read : BOOLEAN, hi : Nat]) /\ Len(pulls) \in Nat
         /\ \A i \in 1 .. Len(pulls) : pulls[i] \in [read : BOOLEAN, hi : Nat]
         /\ pulls # <<>> =>
              /\ Head(pulls) = pulls[1] /\ 1 \in 1 .. Len(pulls) /\ Head(pulls).hi \in Nat
              /\ Len(Tail(pulls)) = Len(pulls) - 1
              /\ \A i \in 1 .. Len(Tail(pulls)) : Tail(pulls)[i] = pulls[i + 1]
  <1> DEFINE Entry == [read : BOOLEAN, hi : Nat]
  <1>1. pulls \in Seq(Entry)
    BY DEF TypeOK
  <1>2. \A e \in Entry : e.hi \in Nat
    OBVIOUS
  <1> HIDE DEF Entry
  <1>3. Len(pulls) \in Nat /\ \A i \in 1 .. Len(pulls) : pulls[i] \in Entry
    BY <1>1, LenProperties, ElementOfSeq
  <1>4. pulls # <<>> =>
          /\ Head(pulls) \in Entry /\ Head(pulls) = pulls[1] /\ Len(pulls) > 0
          /\ Len(Tail(pulls)) = Len(pulls) - 1
          /\ \A i \in 1 .. Len(Tail(pulls)) : Tail(pulls)[i] = pulls[i + 1]
    BY <1>1, HeadTail
  <1> QED BY <1>1, <1>2, <1>3, <1>4 DEF Entry

\* The three ways the pulls in flight change.
LEMMA PullsIssued ==
  ASSUME TypeOK, PullsOK, streaming, KeepsVersions, streaming' = streaming,
         pulls' = Append(pulls, Unread)
  PROVE  PullsOK'
  <1>1. pulls \in Seq([read : BOOLEAN, hi : Nat]) /\ Len(pulls) \in Nat
    BY PullEntries
  <1>2. Len(pulls') = Len(pulls) + 1 /\ pulls'[Len(pulls) + 1] = Unread
        /\ \A i \in 1 .. Len(pulls) : pulls'[i] = pulls[i]
    BY <1>1
  <1> SUFFICES ASSUME NEW i \in 1 .. Len(pulls')
               PROVE  (pulls[i].hi = 0 \/ IsClientVersion(pulls[i].hi))'
    BY DEF PullsOK
  <1>3. CASE i = Len(pulls) + 1
    BY <1>2, <1>3 DEF Unread
  <1>4. CASE i # Len(pulls) + 1
    <2>1. i \in 1 .. Len(pulls) /\ pulls'[i] = pulls[i]
      BY <1>1, <1>2, <1>4
    <2>2. PICK h : h = pulls[i].hi
      OBVIOUS
    <2>3. h = 0 \/ IsClientVersion(h)'
      BY <2>1, <2>2, VersionsStay DEF PullsOK
    <2> QED BY <2>1, <2>2, <2>3 DEF IsClientVersion
  <1> QED BY <1>3, <1>4

LEMMA PullsAnswered ==
  ASSUME TypeOK, PullsOK, clientDb' = clientDb, streaming' = streaming, pulls # <<>>,
         pulls' = Tail(pulls)
  PROVE  PullsOK'
  <1>1. /\ Len(pulls') = Len(pulls) - 1 /\ Len(pulls) \in Nat
        /\ \A i \in 1 .. Len(pulls') : pulls'[i] = pulls[i + 1]
    BY PullEntries
  <1> QED BY <1>1 DEF PullsOK, IsClientVersion

LEMMA PullsRead ==
  ASSUME TypeOK, PullsOK, PullReads
  PROVE  PullsOK'
  <1>1. PICK i \in 1 .. Len(pulls) :
          \E hi \in {0} \cup {clientDb[c] : c \in ClientChange} :
            pulls' = [pulls EXCEPT ![i] = [read |-> TRUE, hi |-> hi]]
    BY DEF PullReads
  <1>2. PICK hi \in {0} \cup {clientDb[c] : c \in ClientChange} :
          pulls' = [pulls EXCEPT ![i] = [read |-> TRUE, hi |-> hi]]
    BY <1>1
  <1>3. streaming' = streaming /\ clientDb' = clientDb
    BY DEF PullReads, clientFile
  <1>4. Len(pulls') = Len(pulls)
        /\ \A k \in 1 .. Len(pulls) : pulls'[k] = IF k = i THEN [read |-> TRUE, hi |-> hi] ELSE pulls[k]
    BY <1>2, PullEntries
  <1>5. hi = 0 \/ (hi > 0 /\ \E c \in ClientChange : clientDb[c] = hi)
    BY <1>2 DEF TypeOK, Change
  <1>6. streaming /\ 1 \in 1 .. Len(pulls)
    BY <1>1, PullEntries DEF PullsOK
  <1> QED BY <1>3, <1>4, <1>5, <1>6 DEF PullsOK, IsClientVersion

\* Merging the server's changes gives the client's own no other version.
LEMMA MergeKeepsClientChanges ==
  ASSUME TypeOK, Apply
  PROVE  /\ \A c \in ClientChange : clientDb'[c] = clientDb[c]
         /\ clientVersion' >= clientVersion
  <1> DEFINE batch == Between(serverDb, ServerChange, Head(applying).since, Head(applying).hi)
  <1>1. batch \in SUBSET Change /\ batch \in SUBSET ServerChange
    BY DEF Between, Change
  <1>2. /\ clientDb' = Merge(clientDb, clientVersion, batch)
        /\ clientVersion' = MergedVersion(clientDb, clientVersion, batch)
    BY DEF Apply
  <1> HIDE DEF batch
  <1>3. clientDb \in [Change -> Nat] /\ clientVersion \in Nat
    BY DEF TypeOK
  <1>4. /\ \A c \in Change \ batch : Merge(clientDb, clientVersion, batch)[c] = clientDb[c]
        /\ MergedVersion(clientDb, clientVersion, batch) >= clientVersion
    BY <1>1, <1>3, MergeFacts
  <1>5. \A c \in ClientChange : c \in Change \ batch
    BY <1>1, ConstantsAssumption DEF Change
  <1> QED BY <1>2, <1>4, <1>5

LEMMA UpstreamClient ==
  ASSUME TypeOK, TypeOK', UpstreamInv, ClientNext, ~SocketsMayDrop
  PROVE  UpstreamInv'
  <1> USE DEF clientFile, inbound, outbound, link, wires, serverFile, conns
  <1>0. ClientVersionsBounded /\ PullsOK /\ QueueOK /\ StreamOK /\ StartOK /\ ServerHoldsWhatItTracks
    BY DEF UpstreamInv
  <1>1. ASSUME NEW c \in ClientChange, ClientWrite(c) PROVE UpstreamInv'
    <2>1. /\ clientDb[c] = 0 /\ clientDb' = [clientDb EXCEPT ![c] = clientVersion + 1]
          /\ clientVersion' = clientVersion + 1
          /\ serverTracked' = serverTracked /\ serverDb' = serverDb /\ phase' = phase
          /\ toServer' = toServer /\ toClient' = toClient /\ socket' = socket /\ open' = open
          /\ streaming' = streaming /\ lastSent' = lastSent /\ pulls' = pulls
      BY <1>1 DEF ClientWrite
    <2>2. c \in Change /\ clientDb \in [Change -> Nat] /\ clientVersion \in Nat /\ serverTracked \in Nat
      BY DEF Change, TypeOK
    <2>3. clientDb'[c] = clientVersion + 1
          /\ \A d \in ClientChange : d # c => clientDb'[d] = clientDb[d]
      BY <2>1, <2>2 DEF Change
    <2>4. KeepsVersions /\ KeepsLive
      BY <2>1, <2>3 DEF KeepsVersions, KeepsLive
    <2>5. ClientVersionsBounded'
      BY <1>0, <2>1, <2>2, <2>3 DEF ClientVersionsBounded, Change
    <2>6. ServerHoldsWhatItTracks'
      BY <1>0, <2>1, <2>2, <2>3 DEF ServerHoldsWhatItTracks, ClientVersionsBounded
    <2>7. QueueOK' /\ PullsOK' /\ StreamOK' /\ StartOK'
      BY <1>0, <2>1, <2>4, QueueSame, StreamSame, StartSame
    <2> QED BY <2>5, <2>6, <2>7 DEF UpstreamInv
  <1>2. CASE OpenSocket
    <2>1. /\ ~open /\ socket + 1 \in Socket
          /\ toServer' = [toServer EXCEPT ![socket + 1] = <<Msg("announce", announced)>>]
          /\ UNCHANGED <<clientDb, clientVersion, serverDb, serverTracked, pulls, streaming,
                         toClient, phase>>
      BY <1>2 DEF OpenSocket, Socket, TypeOK
    <2>2. ~streaming /\ \A s \in Socket : ~Reachable(s)
      BY <1>0, <2>1 DEF StreamOK, Reachable
    <2>3. ClientVersionsBounded' /\ ServerHoldsWhatItTracks'
      BY <2>1, UpstreamFiles
    <2>4. PullsOK' /\ StreamOK'
      BY <1>0, <2>1, <2>2 DEF PullsOK, StreamOK, IsClientVersion
    <2>5. StartOK'
      BY <1>0, <2>1, <2>2 DEF StartOK
    <2>6. QueueOK'
      <3> SUFFICES ASSUME NEW s \in Socket, NEW i \in 1 .. Len(toServer'[s]),
                          toServer'[s][i].type = "changes"
                   PROVE  (/\ phase[s] = "live"
                           /\ IsClientVersion(toServer[s][i].hi)
                           /\ Follows(s, i - 1, toServer[s][i].since))'
        BY DEF QueueOK
      <3>1. toServer \in [Socket -> Seq(Message)]
        BY DEF TypeOK
      <3>2. s # socket + 1
        <4>1. SUFFICES ASSUME s = socket + 1 PROVE FALSE
          OBVIOUS
        <4>2. toServer'[s] = <<Msg("announce", announced)>>
          BY <2>1, <3>1, <4>1
        <4> QED BY <4>2 DEF Msg
      <3>3. toServer'[s] = toServer[s]
        BY <2>1, <3>1, <3>2
      <3> QED BY <1>0, <2>1, <3>3 DEF QueueOK, IsClientVersion, Follows
    <2> QED BY <2>3, <2>4, <2>5, <2>6 DEF UpstreamInv
  <1>3. CASE SocketCloses
    <2>1. /\ phase[socket] = "closed" /\ toClient' = [toClient EXCEPT ![socket] = <<>>]
          /\ UNCHANGED <<clientDb, clientVersion, serverDb, serverTracked, pulls, streaming,
                         toServer, phase>>
      BY <1>3 DEF SocketCloses
    <2>2. ~streaming
      BY <1>0, <2>1 DEF StreamOK
    <2>3. ClientVersionsBounded' /\ ServerHoldsWhatItTracks' /\ KeepsVersions /\ KeepsLive
      BY <2>1, UpstreamFiles DEF KeepsLive
    <2>4. PullsOK' /\ StreamOK'
      BY <1>0, <2>1, <2>2 DEF PullsOK, StreamOK, IsClientVersion
    <2>5. QueueOK' /\ StartOK'
      BY <1>0, <2>1, <2>3, QueueSame, StartEmptied
    <2> QED BY <2>3, <2>4, <2>5 DEF UpstreamInv
  <1>4. CASE ReceiveStartStreaming
    <2>1. /\ Receive("start") /\ streaming' = TRUE /\ lastSent' = Head(toClient[socket]).since
          /\ pulls' = <<Unread>>
          /\ serverTracked' = serverTracked /\ phase' = phase /\ socket' = socket /\ open' = open
          /\ UNCHANGED <<clientDb, clientVersion, serverDb, toServer>>
      BY <1>4 DEF ReceiveStartStreaming
    <2>2. StartOK' /\ phase[socket] = "live" /\ Head(toClient[socket]).since <= serverTracked
      BY <1>0, <2>1, StartReceived
    <2>3. ClientVersionsBounded' /\ ServerHoldsWhatItTracks' /\ KeepsVersions /\ KeepsLive
      BY <2>1, UpstreamFiles DEF KeepsLive
    <2>4. StreamOK'
      BY <2>1, <2>2 DEF StreamOK, Follows, Receive
    <2>5. PullsOK'
      BY <2>1 DEF PullsOK, Unread
    <2>6. QueueOK'
      BY <1>0, <2>1, <2>3, QueueSame
    <2> QED BY <2>2, <2>3, <2>4, <2>5, <2>6 DEF UpstreamInv
  <1>5. ASSUME ChangeNotification \/ TimerFires \/ PullReads \/ PullEmpty \/ PullDeferred
        PROVE  UpstreamInv'
    <2>1. /\ serverTracked' = serverTracked /\ phase' = phase /\ socket' = socket /\ open' = open
          /\ streaming' = streaming /\ lastSent' = lastSent /\ toClient' = toClient
          /\ UNCHANGED <<clientDb, clientVersion, serverDb, toServer>>
      BY <1>5 DEF ChangeNotification, TimerFires, PullReads, PullEmpty, PullDeferred
    <2>2. ClientVersionsBounded' /\ ServerHoldsWhatItTracks' /\ KeepsVersions /\ KeepsLive
      BY <2>1, UpstreamFiles DEF KeepsLive
    <2>3. QueueOK' /\ StartOK'
      BY <1>0, <2>1, <2>2, QueueSame, StartSame
    <2>4. StreamOK'
      BY <1>0, <2>1 DEF StreamOK, Follows
    <2>5. PullsOK'
      <3>1. CASE ChangeNotification \/ TimerFires
        <4>1. DbChanged
          BY <3>1 DEF ChangeNotification, TimerFires
        <4>2. CASE streaming
          BY <1>0, <2>1, <2>2, <4>1, <4>2, PullsIssued DEF DbChanged
        <4>3. CASE ~streaming
          BY <1>0, <2>1, <4>1, <4>3 DEF DbChanged, PullsOK, IsClientVersion
        <4> QED BY <4>2, <4>3
      <3>2. CASE PullReads
        BY <1>0, <3>2, PullsRead
      <3>3. CASE PullEmpty \/ PullDeferred
        <4>1. pulls # <<>> /\ pulls' = Tail(pulls)
          BY <3>3 DEF PullEmpty, PullDeferred, Pulled
        <4> QED BY <1>0, <2>1, <4>1, PullsAnswered
      <3> QED BY <1>5, <3>1, <3>2, <3>3
    <2> QED BY <2>2, <2>3, <2>4, <2>5 DEF UpstreamInv
  <1>6. CASE PullSent
    <2>1. PICK msg : msg = Changes(lastSent, Head(pulls).hi)
      OBVIOUS
    <2>2. PICK hi : hi = Head(pulls).hi
      OBVIOUS
    <2>3. /\ pulls # <<>> /\ hi > lastSent /\ open /\ SendToServer(msg)
          /\ lastSent' = hi /\ pulls' = <<>>
          /\ serverTracked' = serverTracked /\ phase' = phase /\ socket' = socket /\ open' = open
          /\ streaming' = streaming /\ toClient' = toClient
          /\ UNCHANGED <<clientDb, clientVersion, serverDb>>
      BY <1>6, <2>1, <2>2 DEF PullSent, Pulled
    <2>4. ClientVersionsBounded' /\ ServerHoldsWhatItTracks' /\ KeepsVersions /\ KeepsLive
      BY <2>3, UpstreamFiles DEF KeepsLive
    <2>5. hi \in Nat /\ lastSent \in Nat /\ IsClientVersion(hi)
      <3>1. hi = pulls[1].hi /\ 1 \in 1 .. Len(pulls) /\ hi \in Nat
        BY <2>2, <2>3, PullEntries
      <3>2. lastSent \in Nat /\ hi # 0
        BY <2>3, <3>1 DEF TypeOK
      <3> QED BY <1>0, <3>1, <3>2 DEF PullsOK
    <2>6. /\ msg \in Message /\ msg.type = "changes" /\ msg.hi = hi /\ msg.since = lastSent
      BY <2>1, <2>2, <2>5, MsgType DEF Changes
    <2>7. /\ phase[socket] = "live" /\ Follows(socket, Len(toServer[socket]), lastSent)
          /\ socket > 0
      BY <1>0, <2>3 DEF PullsOK, StreamOK, TypeOK
    <2>8. Fits(msg)
      BY <2>5, <2>6, <2>7 DEF Fits
    <2>9. QueueOK'
      BY <1>0, <2>3, <2>4, <2>6, <2>7, <2>8, QueueSent
    <2>10. StartOK' /\ PullsOK'
      BY <1>0, <2>3, <2>4, StartSame DEF PullsOK
    <2>11. StreamOK'
      <3>1. /\ socket \in Socket
            /\ Len(toServer'[socket]) = Len(toServer[socket]) + 1
            /\ toServer'[socket][Len(toServer[socket]) + 1] = msg
        BY <2>3, <2>6, <2>7, SentQueue
      <3>2. Len(toServer'[socket]) \in 1 .. Len(toServer'[socket])
        BY <3>1, QueueEntries
      <3> QED BY <2>3, <2>5, <2>6, <2>7, <3>1, <3>2 DEF StreamOK, Follows
    <2> QED BY <2>4, <2>9, <2>10, <2>11 DEF UpstreamInv
  <1>7. ASSUME ReceiveReject \/ AcceptChanges PROVE UpstreamInv'
    <2>1. PICK type : Receive(type)
      BY <1>7 DEF ReceiveReject, AcceptChanges
    <2>2. /\ serverTracked' = serverTracked /\ phase' = phase /\ socket' = socket /\ open' = open
          /\ streaming' = streaming /\ lastSent' = lastSent /\ pulls' = pulls /\ toServer' = toServer
          /\ UNCHANGED <<clientDb, clientVersion, serverDb>>
      BY <1>7 DEF ReceiveReject, AcceptChanges
    <2>3. ClientVersionsBounded' /\ ServerHoldsWhatItTracks' /\ KeepsVersions /\ KeepsLive
      BY <2>2, UpstreamFiles DEF KeepsLive
    <2>4. StartOK'
      BY <1>0, <2>1, <2>2, StartReceived
    <2>5. QueueOK' /\ PullsOK' /\ StreamOK'
      BY <1>0, <2>2, <2>3, QueueSame, StreamSame
    <2> QED BY <2>3, <2>4, <2>5 DEF UpstreamInv
  <1>8. CASE RejectChanges
    <2>1. PICK msg : msg = Msg("reject", lastSeen)
      OBVIOUS
    <2>2. /\ Receive("changes") /\ SendToServer(msg)
          /\ serverTracked' = serverTracked /\ phase' = phase /\ socket' = socket /\ open' = open
          /\ streaming' = streaming /\ lastSent' = lastSent /\ pulls' = pulls
          /\ UNCHANGED <<clientDb, clientVersion, serverDb>>
      BY <1>8, <2>1 DEF RejectChanges
    <2>3. ClientVersionsBounded' /\ ServerHoldsWhatItTracks' /\ KeepsVersions /\ KeepsLive
      BY <2>2, UpstreamFiles DEF KeepsLive
    <2>4. msg \in Message /\ msg.type = "reject" /\ socket > 0
      <3>1. lastSeen \in Nat
        BY DEF TypeOK
      <3> QED BY <2>1, <2>2, <3>1, MsgType, ReceiveType DEF Msg
    <2>5. Fits(msg)
      BY <2>4 DEF Fits
    <2>6. QueueOK'
      BY <1>0, <2>2, <2>3, <2>4, <2>5, QueueSent
    <2>7. StartOK'
      BY <1>0, <2>2, StartReceived
    <2>8. PullsOK'
      BY <1>0, <2>2 DEF PullsOK, IsClientVersion
    <2>9. StreamOK'
      <3> SUFFICES ASSUME streaming
                   PROVE  /\ open /\ phase[socket] = "live"
                          /\ Follows(socket, Len(toServer[socket]), lastSent)'
        BY <2>2 DEF StreamOK, Follows
      <3>1. /\ open /\ phase[socket] = "live" /\ Follows(socket, Len(toServer[socket]), lastSent)
        BY <1>0 DEF StreamOK
      <3>2. /\ socket \in Socket
            /\ Len(toServer'[socket]) = Len(toServer[socket]) + 1
            /\ \A i \in 1 .. Len(toServer[socket]) : toServer'[socket][i] = toServer[socket][i]
        BY <2>2, <2>4, <3>1, SentQueue
      <3>3. Len(toServer[socket]) \in Nat
        BY <3>2, QueueEntries
      <3>4. \A j \in 1 .. Len(toServer[socket]) : j \in 1 .. Len(toServer'[socket])
        BY <3>2, <3>3
      <3> QED BY <2>2, <3>1, <3>2, <3>4 DEF Follows
    <2> QED BY <2>3, <2>6, <2>7, <2>8, <2>9 DEF UpstreamInv
  <1>9. CASE Apply
    <2>1. /\ \A c \in ClientChange : clientDb'[c] = clientDb[c]
          /\ clientVersion' >= clientVersion
      BY <1>9, MergeKeepsClientChanges
    <2>2. /\ serverTracked' = serverTracked /\ phase' = phase /\ socket' = socket /\ open' = open
          /\ streaming' = streaming /\ lastSent' = lastSent /\ pulls' = pulls /\ toServer' = toServer
          /\ toClient' = toClient /\ serverDb' = serverDb
      BY <1>9 DEF Apply
    <2>3. KeepsVersions /\ KeepsLive
      BY <2>1, <2>2 DEF KeepsVersions, KeepsLive
    <2>4. ServerHoldsWhatItTracks'
      BY <1>0, <2>1, <2>2 DEF ServerHoldsWhatItTracks
    <2>5. ClientVersionsBounded'
      <3>1. clientVersion \in Nat /\ clientVersion' \in Nat /\ serverTracked \in Nat
            /\ \A c \in ClientChange : clientDb[c] \in Nat
        BY DEF TypeOK, Change
      <3> QED BY <1>0, <2>1, <2>2, <3>1 DEF ClientVersionsBounded
    <2>6. QueueOK' /\ PullsOK' /\ StreamOK' /\ StartOK'
      BY <1>0, <2>2, <2>3, QueueSame, StreamSame, StartSame
    <2> QED BY <2>4, <2>5, <2>6 DEF UpstreamInv
  <1>10. CASE ApplyFails
    <2>1. /\ serverTracked' = serverTracked /\ phase' = phase /\ socket' = socket /\ open' = open
          /\ streaming' = streaming /\ lastSent' = lastSent /\ pulls' = pulls /\ toServer' = toServer
          /\ toClient' = toClient
          /\ UNCHANGED <<clientDb, clientVersion, serverDb>>
      BY <1>10 DEF ApplyFails
    <2>2. ClientVersionsBounded' /\ ServerHoldsWhatItTracks' /\ KeepsVersions /\ KeepsLive
      BY <2>1, UpstreamFiles DEF KeepsLive
    <2>3. QueueOK' /\ PullsOK' /\ StreamOK' /\ StartOK'
      BY <1>0, <2>1, <2>2, QueueSame, StreamSame, StartSame
    <2> QED BY <2>2, <2>3 DEF UpstreamInv
  <1>11. CASE Restart
    <2>1. /\ streaming' = FALSE /\ pulls' = <<>> /\ toClient' = [toClient EXCEPT ![socket] = <<>>]
          /\ UNCHANGED <<clientDb, clientVersion, serverDb, serverTracked, toServer, phase>>
      BY <1>11 DEF Restart
    <2>2. ClientVersionsBounded' /\ ServerHoldsWhatItTracks' /\ KeepsVersions /\ KeepsLive
      BY <2>1, UpstreamFiles DEF KeepsLive
    <2>3. QueueOK' /\ PullsOK' /\ StreamOK'
      BY <1>0, <2>1, <2>2, QueueSame DEF PullsOK, StreamOK
    <2>4. StartOK'
      BY <1>0, <2>1, StartEmptied
    <2> QED BY <2>2, <2>3, <2>4 DEF UpstreamInv
  <1> QED BY <1>1, <1>2, <1>3, <1>4, <1>5, <1>6, <1>7, <1>8, <1>9, <1>10, <1>11 DEF ClientNext

\* A stream goes on from where it was when the server handles a message.
LEMMA StreamHandled ==
  ASSUME TypeOK, TypeOK', StreamOK, NEW s, Handled(s), streaming' = streaming, lastSent' = lastSent,
         socket' = socket, open' = open,
         \A t \in Socket : phase[t] = "live" => phase'[t] = "live"
  PROVE  StreamOK'
  <1> SUFFICES ASSUME streaming
               PROVE  /\ open /\ phase'[socket] = "live"
                      /\ Follows(socket, Len(toServer[socket]), lastSent)'
    BY DEF StreamOK, Follows
  <1>1. /\ open /\ phase[socket] = "live" /\ Follows(socket, Len(toServer[socket]), lastSent)
        /\ socket \in Socket
    BY DEF StreamOK, TypeOK, Socket
  <1>2. PICK t : t = socket
    OBVIOUS
  <1>3. PICK v : v = lastSent
    OBVIOUS
  <1>4. PICK n : n = Len(toServer'[t])
    OBVIOUS
  <1>5. t \in Socket /\ v \in Nat
    BY <1>1, <1>2, <1>3 DEF TypeOK
  <1>6. n \in Nat
    <2>1. toServer'[t] \in Seq(Message)
      BY <1>5 DEF TypeOK
    <2> QED BY <1>4, <2>1, LenProperties
  <1>7. CASE t = s
    <2>1. Len(toServer[s]) = n + 1 /\ Len(toServer[s]) \in Nat
      BY <1>4, <1>5, <1>6, <1>7, HandledQueue, QueueEntries
    <2>2. Follows(s, n + 1, v) /\ n < Len(toServer[s])
      BY <1>1, <1>2, <1>3, <1>6, <1>7, <2>1
    <2>3. Follows(s, n, v)'
      BY <1>5, <1>6, <2>2, FollowsHandled
    <2> QED BY <1>1, <1>2, <1>3, <1>4, <1>7, <2>3 DEF Follows
  <1>8. CASE t # s
    <2>1. toServer'[t] = toServer[t]
      BY <1>5, <1>8, HandledQueue
    <2>2. Follows(t, n, v)
      BY <1>1, <1>2, <1>3, <1>4, <2>1
    <2>3. Follows(t, n, v)'
      BY <1>5, <1>6, <1>8, <2>2, FollowsElsewhere
    <2> QED BY <1>1, <1>2, <1>3, <1>4, <2>3 DEF Follows
  <1> QED BY <1>7, <1>8

\* A set of positions that is not empty has a first.
LEMMA LeastIndex ==
  ASSUME NEW S \in SUBSET Nat, S # {}
  PROVE  \E i \in S : \A j \in S : i <= j
  <1> DEFINE R == OpToRel(<, Nat)
  <1>1. IsWellFoundedOn(R, Nat)
    BY NatLessThanWellFounded
  <1>2. \A i, j \in Nat : j < i => <<j, i>> \in R
    BY DEF OpToRel
  <1> HIDE DEF R
  <1>3. PICK i \in S : \A j \in S : ~(<<j, i>> \in R)
    BY <1>1, WFMin
  <1>4. ASSUME NEW j \in S PROVE i <= j
    <2>1. ~(j < i)
      BY <1>2, <1>3, Zenon
    <2> QED BY <2>1
  <1> QED BY <1>4

\* The batch of a transaction completes what the server held below its start.
LEMMA ReceiveFacts ==
  ASSUME TypeOK, UpstreamInv, NEW s \in Socket, ReceiveChanges(s)
  PROVE  LET hi == Head(toServer[s]).hi IN
         /\ hi \in Nat /\ IsClientVersion(hi)
         /\ \A c \in ClientChange : serverDb'[c] > 0 <=>
              serverDb[c] > 0 \/ (0 < clientDb[c] /\ clientDb[c] <= hi)
         /\ serverTracked' = Higher(serverTracked, hi)
  <1> DEFINE hi == Head(toServer[s]).hi
             since == Head(toServer[s]).since
             batch == Between(clientDb, ClientChange, since, hi)
  <1>1. /\ Head(toServer[s]) = toServer[s][1] /\ 1 \in 1 .. Len(toServer[s])
        /\ Head(toServer[s]).type = "changes" /\ since \in Nat /\ hi \in Nat
    <2>1. toServer[s] \in Seq(Message) /\ toServer[s] # <<>> /\ Head(toServer[s]).type = "changes"
      BY QueueEntries DEF ReceiveChanges, Arrives
    <2>2. Head(toServer[s]) = toServer[s][1] /\ Len(toServer[s]) > 0 /\ Len(toServer[s]) \in Nat
      BY <2>1, HeadTail, LenProperties
    <2> QED BY <2>1, <2>2, QueueEntries
  <1>2. IsClientVersion(hi) /\ since <= serverTracked
    BY <1>1 DEF UpstreamInv, QueueOK, Follows
  <1>3. batch \in SUBSET Change
    BY DEF Between, Change
  <1>4. serverDb' = Merge(serverDb, serverVersion, batch)
    BY DEF ReceiveChanges
  <1> HIDE DEF batch
  <1>5. \A c \in Change : serverDb'[c] > 0 <=> serverDb[c] > 0 \/ c \in batch
    <2>1. serverDb \in [Change -> Nat] /\ serverVersion \in Nat
      BY DEF TypeOK
    <2> QED BY <1>3, <1>4, <2>1, MergeFacts
  <1>6. ASSUME NEW c \in ClientChange
        PROVE  serverDb'[c] > 0 <=> serverDb[c] > 0 \/ (0 < clientDb[c] /\ clientDb[c] <= hi)
    <2>1. c \in batch <=> since < clientDb[c] /\ clientDb[c] <= hi
      BY DEF batch, Between
    <2>2. 0 < clientDb[c] /\ clientDb[c] <= since => serverDb[c] > 0
      BY <1>1, <1>2 DEF UpstreamInv, ServerHoldsWhatItTracks, TypeOK, Change
    <2> QED BY <1>1, <1>5, <2>1, <2>2 DEF TypeOK, Change
  <1> QED BY <1>1, <1>2, <1>6 DEF ReceiveChanges

LEMMA StartAppended ==
  ASSUME TypeOK, StartOK, NEW s \in Socket, NEW msgs \in Seq(Message), SendToClient(s, msgs),
         serverTracked' >= serverTracked, serverTracked' \in Nat, socket' = socket, open' = open,
         \A t \in Socket : phase[t] = "live" => phase'[t] = "live",
         \A i \in 1 .. Len(msgs) :
           msgs[i].type = "start" => phase'[s] = "live" /\ msgs[i].since <= serverTracked'
  PROVE  StartOK'
  <1>1. toClient \in [Socket -> Seq(Message)] /\ serverTracked \in Nat
    BY DEF TypeOK
  <1>2. SUFFICES ASSUME NEW t \in Socket, NEW i \in 1 .. Len(toClient'[t]),
                        toClient'[t][i].type = "start"
                 PROVE  Reachable(t) /\ phase'[t] = "live" /\ toClient'[t][i].since <= serverTracked'
    BY DEF StartOK, Reachable
  <1>3. ASSUME NEW k \in 1 .. Len(toClient[t]), toClient'[t][i] = toClient[t][k]
        PROVE  Reachable(t) /\ phase'[t] = "live" /\ toClient'[t][i].since <= serverTracked'
    <2>1. Reachable(t) /\ phase[t] = "live" /\ toClient[t][k].since <= serverTracked
      BY <1>2, <1>3 DEF StartOK
    <2>2. toClient[t] \in Seq(Message)
      BY <1>1
    <2>3. toClient[t][k] \in Message
      BY <1>3, <2>2, ElementOfSeq
    <2>4. toClient[t][k].since \in Nat
      BY <2>3 DEF Message
    <2> QED BY <1>1, <1>3, <2>1, <2>4
  <1>4. CASE ~Reachable(s) \/ t # s
    <2>1. toClient'[t] = toClient[t]
      BY <1>1, <1>4 DEF SendToClient
    <2> QED BY <1>3, <2>1
  <1>5. CASE Reachable(s) /\ t = s
    <2>1. toClient'[t] = toClient[t] \o msgs /\ toClient[t] \in Seq(Message)
      BY <1>1, <1>5 DEF SendToClient
    <2>2. CASE i <= Len(toClient[t])
      <3>1. i \in 1 .. Len(toClient[t]) /\ toClient'[t][i] = toClient[t][i]
        BY <2>1, <2>2, ConcatProperties, LenProperties
      <3> QED BY <1>3, <3>1
    <2>3. CASE i > Len(toClient[t])
      <3>1. i - Len(toClient[t]) \in 1 .. Len(msgs) /\ toClient'[t][i] = msgs[i - Len(toClient[t])]
        BY <2>1, <2>3, ConcatProperties, LenProperties
      <3> QED BY <1>2, <1>5, <3>1
    <2> QED BY <2>1, <2>2, <2>3, LenProperties
  <1> QED BY <1>4, <1>5

LEMMA UpstreamServer ==
  ASSUME TypeOK, TypeOK', UpstreamInv, ServerNext, ~SocketsMayDrop, ~ServerApplyMayFail
  PROVE  UpstreamInv'
  <1> USE DEF clientFile, inbound, outbound, link, wires, serverFile, conns
  <1>0. ClientVersionsBounded /\ PullsOK /\ QueueOK /\ StreamOK /\ StartOK /\ ServerHoldsWhatItTracks
    BY DEF UpstreamInv
  <1>1. ASSUME NEW c \in ServerChange, ServerWrite(c) PROVE UpstreamInv'
    <2>1. /\ serverTracked' = serverTracked /\ phase' = phase /\ socket' = socket /\ open' = open
          /\ streaming' = streaming /\ lastSent' = lastSent /\ pulls' = pulls /\ toServer' = toServer
          /\ toClient' = toClient /\ clientDb' = clientDb /\ clientVersion' = clientVersion
          /\ serverDb' = [serverDb EXCEPT ![c] = serverVersion + 1]
      BY <1>1 DEF ServerWrite
    <2>2. \A d \in ClientChange : serverDb'[d] = serverDb[d]
      BY <2>1, ConstantsAssumption DEF TypeOK, Change
    <2>3. ServerHoldsWhatItTracks' /\ ClientVersionsBounded' /\ KeepsVersions /\ KeepsLive
      BY <1>0, <2>1, <2>2 DEF ServerHoldsWhatItTracks, ClientVersionsBounded, KeepsVersions, KeepsLive
    <2>4. QueueOK' /\ PullsOK' /\ StreamOK' /\ StartOK'
      BY <1>0, <2>1, <2>3, QueueSame, StreamSame, StartSame
    <2> QED BY <2>3, <2>4 DEF UpstreamInv
  <1>2. ASSUME NEW s \in Socket, ReceiveAnnounce(s) \/ DropEarlyChanges(s) \/ ReceiveRejected(s)
        PROVE  UpstreamInv'
    <2>1. /\ serverTracked' = serverTracked /\ socket' = socket /\ open' = open
          /\ streaming' = streaming /\ lastSent' = lastSent /\ pulls' = pulls /\ toClient' = toClient
          /\ UNCHANGED <<clientDb, clientVersion, serverDb>>
          /\ \E type : Arrives(s, type)
      BY <1>2 DEF ReceiveAnnounce, DropEarlyChanges, ReceiveRejected
    <2>2. ClientVersionsBounded' /\ ServerHoldsWhatItTracks' /\ KeepsVersions
      BY <2>1, UpstreamFiles
    <2>3. \A t \in Socket : phase[t] = "live" => phase'[t] = "live"
      <3>1. phase' = phase \/ (phase[s] = "none" /\ phase' = [phase EXCEPT ![s] = "creating"])
        BY <1>2 DEF ReceiveAnnounce, DropEarlyChanges, ReceiveRejected
      <3> QED BY <3>1 DEF TypeOK
    <2>4. KeepsLive
      BY <2>3 DEF KeepsLive
    <2>5. Head(toServer[s]).type # "changes"
      <3>1. CASE DropEarlyChanges(s)
        <4>1. toServer[s] # <<>> /\ Head(toServer[s]).type = "changes" /\ phase[s] # "live"
          BY <3>1 DEF DropEarlyChanges, Arrives, HasStream
        <4>2. toServer[s] \in Seq(Message)
          BY QueueEntries
        <4>3. Head(toServer[s]) = toServer[s][1] /\ 1 \in 1 .. Len(toServer[s])
          BY <4>1, <4>2, HeadTail, LenProperties
        <4> QED BY <1>0, <4>1, <4>3 DEF QueueOK
      <3>2. CASE ~DropEarlyChanges(s)
        BY <1>2, <3>2 DEF ReceiveAnnounce, ReceiveRejected, Arrives
      <3> QED BY <3>1, <3>2
    <2>6. Handled(s)
      <3>1. serverTracked' >= serverTracked
        BY <2>1 DEF TypeOK
      <3> QED BY <2>1, <2>5, <3>1 DEF Handled, Arrives
    <2>7. QueueOK'
      BY <1>0, <2>2, <2>4, <2>6, QueueTail
    <2>8. StreamOK'
      BY <1>0, <2>1, <2>3, <2>6, StreamHandled
    <2>9. PullsOK' /\ StartOK'
      BY <1>0, <2>1, <2>3, <2>4, StartSame DEF PullsOK, IsClientVersion
    <2> QED BY <2>2, <2>7, <2>8, <2>9 DEF UpstreamInv
  <1>3. ASSUME NEW s \in Socket, ConnectionCreated(s) PROVE UpstreamInv'
    <2>1. /\ serverTracked' = serverTracked /\ socket' = socket /\ open' = open
          /\ streaming' = streaming /\ lastSent' = lastSent /\ pulls' = pulls /\ toServer' = toServer
          /\ phase' = [phase EXCEPT ![s] = "live"]
          /\ UNCHANGED <<clientDb, clientVersion, serverDb>>
      BY <1>3 DEF ConnectionCreated
    <2>2. phase'[s] = "live" /\ \A t \in Socket : phase[t] = "live" => phase'[t] = "live"
      BY <2>1 DEF TypeOK
    <2>3. ClientVersionsBounded' /\ ServerHoldsWhatItTracks' /\ KeepsVersions /\ KeepsLive
      BY <2>1, <2>2, UpstreamFiles DEF KeepsLive
    <2>4. QueueOK' /\ PullsOK' /\ StreamOK'
      <3>1. phase[socket] = "live" /\ Reachable(socket) => phase'[socket] = "live"
        BY <2>2 DEF TypeOK, Socket, Phase, Reachable
      <3> QED BY <1>0, <2>1, <2>3, <3>1, QueueSame, StreamSame
    <2>5. serverTracked' >= serverTracked /\ serverTracked' \in Nat
      BY <2>1 DEF TypeOK
    <2>6. PICK hi \in {0} \cup {serverDb[c] : c \in ServerChange} :
            SendToClient(s, IF hi > outSent[s]
                            THEN <<Msg("start", serverTracked), Changes(outSent[s], hi)>>
                            ELSE <<Msg("start", serverTracked)>>)
      BY <1>3 DEF ConnectionCreated
    <2>7. hi \in Nat /\ outSent[s] \in Nat /\ serverTracked \in Nat
      <3>1. serverDb \in [Change -> Nat] /\ outSent[s] \in Nat /\ serverTracked \in Nat
        BY DEF TypeOK
      <3>2. hi \in {0} \cup {serverDb[c] : c \in ServerChange}
        BY <2>6
      <3> QED BY <3>1, <3>2 DEF Change
    <2>8. StartOK'
      <3>1. CASE hi > outSent[s]
        <4> DEFINE msgs == <<Msg("start", serverTracked), Changes(outSent[s], hi)>>
        <4>1. msgs \in Seq(Message) /\ SendToClient(s, msgs)
          BY <2>6, <2>7, <3>1, MsgType
        <4>2. \A i \in 1 .. Len(msgs) : msgs[i].type = "start" => msgs[i].since = serverTracked
          BY DEF Msg, Changes
        <4> HIDE DEF msgs
        <4>3. \A i \in 1 .. Len(msgs) :
                msgs[i].type = "start" => phase'[s] = "live" /\ msgs[i].since <= serverTracked'
          BY <2>1, <2>2, <2>7, <4>2
        <4> QED BY <1>0, <2>1, <2>2, <2>5, <4>1, <4>3, StartAppended
      <3>2. CASE ~(hi > outSent[s])
        <4> DEFINE msgs == <<Msg("start", serverTracked)>>
        <4>1. msgs \in Seq(Message) /\ SendToClient(s, msgs)
          BY <2>6, <2>7, <3>2, MsgType
        <4>2. \A i \in 1 .. Len(msgs) : msgs[i].type = "start" => msgs[i].since = serverTracked
          BY DEF Msg
        <4> HIDE DEF msgs
        <4>3. \A i \in 1 .. Len(msgs) :
                msgs[i].type = "start" => phase'[s] = "live" /\ msgs[i].since <= serverTracked'
          BY <2>1, <2>2, <2>7, <4>2
        <4> QED BY <1>0, <2>1, <2>2, <2>5, <4>1, <4>3, StartAppended
      <3> QED BY <3>1, <3>2
    <2> QED BY <2>3, <2>4, <2>8 DEF UpstreamInv
  <1>4. ASSUME NEW s \in Socket, OutboundSent(s) PROVE UpstreamInv'
    <2>1. /\ serverTracked' = serverTracked /\ phase' = phase /\ socket' = socket /\ open' = open
          /\ streaming' = streaming /\ lastSent' = lastSent /\ pulls' = pulls /\ toServer' = toServer
          /\ UNCHANGED <<clientDb, clientVersion, serverDb>>
      BY <1>4 DEF OutboundSent
    <2>2. ClientVersionsBounded' /\ ServerHoldsWhatItTracks' /\ KeepsVersions /\ KeepsLive
      BY <2>1, UpstreamFiles DEF KeepsLive
    <2>3. QueueOK' /\ PullsOK' /\ StreamOK'
      BY <1>0, <2>1, <2>2, QueueSame, StreamSame
    <2>4. PICK hi \in {serverDb[c] : c \in ServerChange} : SendToClient(s, <<Changes(outSent[s], hi)>>)
      BY <1>4 DEF OutboundSent
    <2>5. hi \in Nat /\ outSent[s] \in Nat
      BY <2>4 DEF TypeOK, Change
    <2> DEFINE msgs == <<Changes(outSent[s], hi)>>
    <2>6. msgs \in Seq(Message) /\ SendToClient(s, msgs)
      BY <2>4, <2>5, MsgType
    <2>7. \A i \in 1 .. Len(msgs) : msgs[i].type # "start"
      BY DEF Changes
    <2> HIDE DEF msgs
    <2>8. serverTracked' >= serverTracked /\ serverTracked' \in Nat
      BY <2>1 DEF TypeOK
    <2>9. StartOK'
      BY <1>0, <2>1, <2>6, <2>7, <2>8, StartAppended
    <2> QED BY <2>2, <2>3, <2>9 DEF UpstreamInv
  <1>5. ASSUME NEW s \in Socket, ReceiveChanges(s) PROVE UpstreamInv'
    <2>1. PICK hi : hi = Head(toServer[s]).hi
      OBVIOUS
    <2>2. /\ hi \in Nat /\ IsClientVersion(hi)
          /\ \A c \in ClientChange : serverDb'[c] > 0 <=>
               serverDb[c] > 0 \/ (0 < clientDb[c] /\ clientDb[c] <= hi)
          /\ serverTracked' = Higher(serverTracked, hi)
      BY <1>5, <2>1, ReceiveFacts
    <2>3. /\ phase' = phase /\ socket' = socket /\ open' = open
          /\ streaming' = streaming /\ lastSent' = lastSent /\ pulls' = pulls
          /\ clientDb' = clientDb /\ clientVersion' = clientVersion
          /\ Arrives(s, "changes")
      BY <1>5 DEF ReceiveChanges
    <2>4. serverTracked \in Nat /\ serverTracked' \in Nat /\ clientVersion \in Nat
      BY DEF TypeOK
    <2>5. serverTracked' >= serverTracked /\ serverTracked' >= hi
      BY <2>2, <2>4 DEF Higher
    <2>6. Handled(s)
      BY <2>1, <2>3, <2>5 DEF Handled, Arrives
    <2>7. KeepsVersions /\ KeepsLive
      BY <2>3 DEF KeepsVersions, KeepsLive
    <2>8. QueueOK' /\ StreamOK'
      BY <1>0, <2>3, <2>6, <2>7, QueueTail, StreamHandled
    <2>9. PullsOK'
      BY <1>0, <2>3 DEF PullsOK, IsClientVersion
    <2>10. ClientVersionsBounded'
      BY <1>0, <2>2, <2>3, <2>4 DEF ClientVersionsBounded, IsClientVersion, Higher
    <2>11. ServerHoldsWhatItTracks'
      <3> SUFFICES ASSUME NEW c \in ClientChange, 0 < clientDb[c], clientDb[c] <= serverTracked'
                   PROVE  serverDb'[c] > 0
        BY <2>3 DEF ServerHoldsWhatItTracks
      <3> QED BY <1>0, <2>2, <2>4 DEF ServerHoldsWhatItTracks, Higher
    <2>12. StartOK'
      <3> DEFINE msgs == IF GreaterThanOrEqual(inSeen[s], Head(toServer[s]).since) THEN <<>>
                         ELSE <<Msg("reject", inSeen[s])>>
      <3>1. msgs \in Seq(Message) /\ SendToClient(s, msgs)
        BY <1>5, RejectionType DEF ReceiveChanges
      <3>2. \A i \in 1 .. Len(msgs) : msgs[i].type # "start"
        BY DEF Msg
      <3> HIDE DEF msgs
      <3> QED BY <1>0, <2>3, <2>4, <2>5, <3>1, <3>2, StartAppended
    <2> QED BY <2>8, <2>9, <2>10, <2>11, <2>12 DEF UpstreamInv
  <1>6. ASSUME NEW s \in Socket, ReceiveChangesFails(s) PROVE UpstreamInv'
    BY <1>6 DEF ReceiveChangesFails
  <1>7. ASSUME NEW s \in Socket,
               OutboundEmpty(s) \/ OutboundBufferFull(s) \/ SettleLastSeen(s)
        PROVE  UpstreamInv'
    <2>1. /\ serverTracked' = serverTracked /\ phase' = phase /\ socket' = socket /\ open' = open
          /\ streaming' = streaming /\ lastSent' = lastSent /\ pulls' = pulls /\ toServer' = toServer
          /\ toClient' = toClient
          /\ UNCHANGED <<clientDb, clientVersion, serverDb>>
      BY <1>7 DEF OutboundEmpty, OutboundBufferFull, SettleLastSeen
    <2>2. ClientVersionsBounded' /\ ServerHoldsWhatItTracks' /\ KeepsVersions /\ KeepsLive
      BY <2>1, UpstreamFiles DEF KeepsLive
    <2>3. QueueOK' /\ PullsOK' /\ StreamOK' /\ StartOK'
      BY <1>0, <2>1, <2>2, QueueSame, StreamSame, StartSame
    <2> QED BY <2>2, <2>3 DEF UpstreamInv
  <1>8. ASSUME NEW s \in Socket, ConnectionCloses(s) PROVE UpstreamInv'
    <2>1. /\ ~Reachable(s) /\ toServer[s] = <<>>
          /\ serverTracked' = serverTracked /\ socket' = socket /\ open' = open
          /\ streaming' = streaming /\ lastSent' = lastSent /\ pulls' = pulls /\ toClient' = toClient
          /\ phase' = [phase EXCEPT ![s] = "closed"]
          /\ UNCHANGED <<clientDb, clientVersion, serverDb>>
      BY <1>8 DEF ConnectionCloses
    <2>2. toServer' = toServer
      BY <1>8, <2>1 DEF ConnectionCloses, TypeOK
    <2>3. \A t \in Socket : t # s => phase'[t] = phase[t]
      BY <2>1 DEF TypeOK
    <2>4. ClientVersionsBounded' /\ ServerHoldsWhatItTracks' /\ KeepsVersions /\ KeepsLive
      BY <2>1, <2>3, UpstreamFiles DEF KeepsLive
    <2>5. phase[socket] = "live" /\ Reachable(socket) => phase'[socket] = "live"
      BY <2>1 DEF TypeOK
    <2>6. \A t \in Socket : Reachable(t) /\ phase[t] = "live" => phase'[t] = "live"
      BY <2>1, <2>3
    <2> QED BY <1>0, <2>1, <2>2, <2>4, <2>5, <2>6, QueueSame, StreamSame, StartSame DEF UpstreamInv
  <1> QED BY <1>1, <1>2, <1>3, <1>4, <1>5, <1>6, <1>7, <1>8 DEF ServerNext, ServerStep

LEMMA UpstreamInvariant ==
  ASSUME ~SocketsMayDrop, ~ServerApplyMayFail
  PROVE  Spec => []UpstreamInv
  <1>1. UpstreamInv /\ UNCHANGED vars => UpstreamInv'
    BY DEF vars, clientFile, inbound, outbound, link, wires, serverFile, conns, UpstreamInv,
           ClientVersionsBounded, PullsOK, QueueOK, StreamOK, StartOK, Follows, IsClientVersion,
           Reachable, ServerHoldsWhatItTracks
  <1>2. TypeOK /\ TypeOK' /\ UpstreamInv /\ [Next]_vars => UpstreamInv'
    BY <1>1, UpstreamClient, UpstreamServer DEF Next
  <1> QED BY TypeCorrect, UpstreamInit, <1>2, PTL DEF Spec

(***************************************************************************)
(* If sockets close only when an end closes them and no server transaction *)
(* fails, the server holds every client change its tracked_peers row       *)
(* covers, whatever restarts and rejected messages it applied anyway: it   *)
(* may ask a new connection to start there.                                *)
(***************************************************************************)
THEOREM ServerNeverSkips ==
  ASSUME ~SocketsMayDrop, ~ServerApplyMayFail
  PROVE  Spec => []ServerHoldsWhatItTracks
  <1>1. UpstreamInv => ServerHoldsWhatItTracks
    BY DEF UpstreamInv
  <1> QED BY <1>1, UpstreamInvariant, PTL

\* What follows is there, or in the first message that reaches it.
LEMMA FollowsIsThere ==
  ASSUME TypeOK, UpstreamInv, NEW s \in Socket, NEW c \in ClientChange, 0 < clientDb[c],
         Follows(s, Len(toServer[s]), clientDb[c])
  PROVE  \/ serverDb[c] > 0
         \/ \E i \in 1 .. Len(toServer[s]) :
              /\ toServer[s][i].type = "changes"
              /\ c \in Between(clientDb, ClientChange, toServer[s][i].since, toServer[s][i].hi)
  <1> DEFINE Reaches == {j \in 1 .. Len(toServer[s]) :
                           toServer[s][j].type = "changes" /\ clientDb[c] <= toServer[s][j].hi}
  <1>1. clientDb[c] \in Nat /\ serverTracked \in Nat /\ Len(toServer[s]) \in Nat
    BY QueueEntries DEF TypeOK, Change
  <1>2. clientDb[c] <= serverTracked => serverDb[c] > 0
    BY DEF UpstreamInv, ServerHoldsWhatItTracks
  <1>3. CASE Reaches = {}
    <2>1. clientDb[c] <= serverTracked
      BY <1>3 DEF Follows
    <2> QED BY <1>2, <2>1
  <1>4. CASE Reaches # {}
    <2> HIDE DEF Reaches
    <2>0. Reaches \in SUBSET Nat
      BY <1>1 DEF Reaches
    <2>1. PICK i \in Reaches : \A j \in Reaches : i <= j
      BY <1>4, <2>0, LeastIndex
    <2> USE DEF Reaches
    <2>2. /\ i \in 1 .. Len(toServer[s]) /\ toServer[s][i].type = "changes"
          /\ clientDb[c] <= toServer[s][i].hi /\ Follows(s, i - 1, toServer[s][i].since)
          /\ toServer[s][i].since \in Nat
      BY <2>1, QueueEntries DEF UpstreamInv, QueueOK
    <2>3. CASE toServer[s][i].since < clientDb[c]
      BY <2>2, <2>3 DEF Between
    <2>4. CASE clientDb[c] <= toServer[s][i].since
      <3>1. CASE toServer[s][i].since <= serverTracked
        BY <1>1, <1>2, <2>2, <2>4, <3>1
      <3>2. CASE ~(toServer[s][i].since <= serverTracked)
        <4>1. PICK j \in 1 .. i - 1 :
                toServer[s][j].type = "changes" /\ toServer[s][i].since <= toServer[s][j].hi
          BY <2>2, <3>2 DEF Follows
        <4>2. j \in 1 .. Len(toServer[s]) /\ j < i /\ toServer[s][j].hi \in Nat
          BY <1>1, <2>2, <4>1, QueueEntries
        <4>3. j \in Reaches
          BY <1>1, <2>2, <2>4, <4>1, <4>2
        <4> QED BY <2>1, <2>2, <4>2, <4>3
      <3> QED BY <3>1, <3>2
    <2> QED BY <1>1, <2>2, <2>3, <2>4
  <1> QED BY <1>3, <1>4

(***************************************************************************)
(* Under the same assumption nothing is lost between #lastSent of a stream *)
(* and the server while its socket lives: every change the client counts   *)
(* as sent is held by the server or on the way to it.                      *)
(***************************************************************************)
THEOREM SentIsNotLost ==
  ASSUME ~SocketsMayDrop, ~ServerApplyMayFail
  PROVE  Spec => []SentIsOnTheWayOrThere
  <1>1. TypeOK /\ UpstreamInv => SentIsOnTheWayOrThere
    <2> SUFFICES ASSUME TypeOK, UpstreamInv, streaming, NEW c \in ClientChange,
                        0 < clientDb[c], clientDb[c] <= lastSent
                 PROVE  serverDb[c] > 0 \/ OnTheWay(c)
      BY DEF SentIsOnTheWayOrThere
    <2>1. socket \in Socket /\ Follows(socket, Len(toServer[socket]), lastSent)
      BY DEF UpstreamInv, StreamOK, TypeOK, Socket
    <2>2. clientDb[c] \in Nat /\ lastSent \in Nat /\ serverTracked \in Nat
      BY DEF TypeOK, Change
    <2>3. Follows(socket, Len(toServer[socket]), clientDb[c])
      BY <2>1, <2>2, QueueEntries DEF Follows
    <2> QED BY <2>1, <2>3, FollowsIsThere DEF OnTheWay
  <1> QED BY <1>1, TypeCorrect, UpstreamInvariant, PTL

LEMMA ClientWriteRefines ==
  ASSUME TypeOK, UpstreamInv, NEW c \in ClientChange, ClientWrite(c)
  PROVE  ClientToServer!Write(c)
  <1>1. /\ clientDb \in [Change -> Nat] /\ clientVersion \in Nat /\ serverTracked \in Nat
        /\ serverTracked <= clientVersion /\ \A d \in ClientChange : clientDb[d] <= clientVersion
    BY DEF TypeOK, UpstreamInv, ClientVersionsBounded
  <1>2. /\ clientDb[c] = 0 /\ clientDb' = [clientDb EXCEPT ![c] = clientVersion + 1]
        /\ serverDb' = serverDb /\ serverTracked' = serverTracked
    BY DEF ClientWrite, serverFile
  <1>3. clientDb'[c] = clientVersion + 1 /\ \A d \in ClientChange : d # c => clientDb'[d] = clientDb[d]
    BY <1>1, <1>2 DEF Change
  <1>4. \A d \in ClientChange : clientDb'[c] > clientDb[d]
    BY <1>1, <1>3 DEF Change
  <1>5. [d \in ClientChange |-> clientDb'[d]]
          = [[d \in ClientChange |-> clientDb[d]] EXCEPT ![c] = clientDb'[c]]
    BY <1>3
  <1> QED BY <1>1, <1>2, <1>3, <1>4, <1>5 DEF ClientToServer!Write

LEMMA ReceiveRefines ==
  ASSUME TypeOK, UpstreamInv, NEW s \in Socket, ReceiveChanges(s)
  PROVE  \E c \in ClientChange : ClientToServer!Deliver(c)
  <1>1. PICK hi : hi = Head(toServer[s]).hi
    OBVIOUS
  <1>2. /\ hi \in Nat /\ IsClientVersion(hi)
        /\ \A c \in ClientChange : serverDb'[c] > 0 <=>
             serverDb[c] > 0 \/ (0 < clientDb[c] /\ clientDb[c] <= hi)
        /\ serverTracked' = Higher(serverTracked, hi)
    BY <1>1, ReceiveFacts
  <1>3. clientDb' = clientDb /\ serverTracked \in Nat
    BY DEF ReceiveChanges, clientFile, TypeOK
  <1>4. PICK c \in ClientChange : clientDb[c] = hi /\ hi > 0
    BY <1>2 DEF IsClientVersion
  <1>5. {d \in ClientChange : serverDb'[d] > 0}
          = {d \in ClientChange : serverDb[d] > 0}
            \cup {d \in ClientChange : 0 < clientDb[d] /\ clientDb[d] <= hi}
    BY <1>2
  <1>6. serverTracked' = IF clientDb[c] > serverTracked THEN clientDb[c] ELSE serverTracked
    BY <1>2, <1>3, <1>4 DEF Higher
  <1> QED BY <1>3, <1>4, <1>5, <1>6 DEF ClientToServer!Deliver, ClientToServer!UpTo

\* What no step but ClientWrite and ReceiveChanges changes.
LEMMA OtherStepsStutterUpstream ==
  ASSUME TypeOK, Next, \A c \in ClientChange : ~ClientWrite(c), \A s \in Socket : ~ReceiveChanges(s)
  PROVE  /\ serverTracked' = serverTracked
         /\ \A c \in ClientChange : serverDb'[c] = serverDb[c] /\ clientDb'[c] = clientDb[c]
  <1> USE DEF clientFile, inbound, outbound, link, wires, serverFile, conns
  <1>1. ASSUME NEW c \in ServerChange, ServerWrite(c)
        PROVE  /\ serverTracked' = serverTracked
               /\ \A d \in ClientChange : serverDb'[d] = serverDb[d] /\ clientDb'[d] = clientDb[d]
    <2>1. /\ UNCHANGED <<clientDb, serverTracked>> /\ serverDb \in [Change -> Nat]
          /\ serverDb' = [serverDb EXCEPT ![c] = serverVersion + 1]
      BY <1>1 DEF ServerWrite, TypeOK
    <2>2. \A d \in ClientChange : d \in Change /\ d # c
      BY ConstantsAssumption DEF Change
    <2> QED BY <2>1, <2>2
  <1>2. CASE Apply
    BY <1>2, MergeKeepsClientChanges DEF Apply
  <1>3. ASSUME ClientNext, ~Apply
        PROVE  UNCHANGED <<serverTracked, serverDb, clientDb>>
    BY <1>3 DEF ClientNext, OpenSocket, SocketCloses, ReceiveStartStreaming, ChangeNotification,
                TimerFires, PullReads, PullEmpty, PullSent, PullDeferred, ReceiveReject,
                AcceptChanges, RejectChanges, ApplyFails, Restart
  <1>4. ASSUME NEW s \in Socket, ServerStep(s)
        PROVE  UNCHANGED <<serverTracked, serverDb, clientDb>>
    BY <1>4 DEF ServerStep, ReceiveAnnounce, ConnectionCreated, OutboundEmpty, OutboundSent,
                OutboundBufferFull, ReceiveChangesFails, SettleLastSeen, DropEarlyChanges,
                ReceiveRejected, ConnectionCloses
  <1> QED BY <1>1, <1>2, <1>3, <1>4 DEF Next, ServerNext

(***************************************************************************)
(* Under the same assumption the other direction implements in-order       *)
(* replication too: every message the server applies, rejected or not, is  *)
(* a Deliver, and every other step leaves the client's changes and the     *)
(* server's mark for them alone.                                           *)
(***************************************************************************)
THEOREM ClientToServerRefines ==
  ASSUME ~SocketsMayDrop, ~ServerApplyMayFail
  PROVE  Spec => ClientToServerIsInOrder
  <1>1. Init => ClientToServer!Init
    BY DEF Init, ClientToServer!Init, Change
  <1>2. TypeOK /\ UpstreamInv /\ [Next]_vars => [ClientToServer!Next]_(ClientToServer!vars)
    <2> SUFFICES ASSUME TypeOK, UpstreamInv, [Next]_vars
                 PROVE  ClientToServer!Next \/ UNCHANGED ClientToServer!vars
      OBVIOUS
    <2>1. ASSUME NEW c \in ClientChange, ClientWrite(c) PROVE ClientToServer!Next
      BY <2>1, ClientWriteRefines DEF ClientToServer!Next
    <2>2. ASSUME NEW s \in Socket, ReceiveChanges(s) PROVE ClientToServer!Next
      BY <2>2, ReceiveRefines DEF ClientToServer!Next
    <2>3. ASSUME serverTracked' = serverTracked,
                 \A c \in ClientChange : serverDb'[c] = serverDb[c] /\ clientDb'[c] = clientDb[c]
          PROVE  UNCHANGED ClientToServer!vars
      BY <2>3 DEF ClientToServer!vars
    <2>4. CASE UNCHANGED vars
      BY <2>3, <2>4 DEF vars, clientFile, serverFile
    <2> QED BY <2>1, <2>2, <2>3, <2>4, OtherStepsStutterUpstream
  <1> QED BY <1>1, <1>2, TypeCorrect, UpstreamInvariant, PTL
          DEF Spec, ClientToServerIsInOrder, ClientToServer!Spec

-----------------------------------------------------------------------------
(***************************************************************************)
(* No wake-up is lost.  The messages of a stream on the wire form a chain: *)
(* the first starts no higher than what the client has seen, each later    *)
(* one where the one before it ends, and #lastSent is the end of the last. *)
(***************************************************************************)
NoChanges(wire, from, to) == \A i \in from .. to : wire[i].type # "changes"

\* What the first n messages leave the client with is v, or at least v when
\* there is no Changes message among them.
LeadsTo(wire, n, seen, v) ==
  \/ v <= seen /\ NoChanges(wire, 1, n)
  \/ \E i \in 1 .. n : /\ wire[i].type = "changes" /\ wire[i].hi = v
                       /\ NoChanges(wire, i + 1, n)

InOrder(wire, first, seen) ==
  \A i \in 1 .. Len(wire) : wire[i].type = "changes" =>
    /\ first <= wire[i].since /\ wire[i].since <= wire[i].hi
    /\ LeadsTo(wire, i - 1, seen, wire[i].since)

\* The first message is taken off.
LEMMA WireEntries ==
  ASSUME NEW wire \in Seq(Message)
  PROVE  /\ Len(wire) \in Nat
         /\ \A i \in 1 .. Len(wire) : /\ wire[i] \in Message
                                      /\ wire[i].since \in Nat /\ wire[i].hi \in Nat
  <1>1. Len(wire) \in Nat /\ \A i \in 1 .. Len(wire) : wire[i] \in Message
    BY LenProperties, ElementOfSeq
  <1> QED BY <1>1 DEF Message

LEMMA FirstTaken ==
  ASSUME NEW wire \in Seq(Message), wire # <<>>
  PROVE  LET rest == Tail(wire) IN
         /\ rest \in Seq(Message) /\ Head(wire) = wire[1] /\ 1 \in 1 .. Len(wire)
         /\ Len(rest) = Len(wire) - 1
         /\ \A i \in 1 .. Len(rest) : i + 1 \in 1 .. Len(wire) /\ rest[i] = wire[i + 1]
  <1>1. /\ Tail(wire) \in Seq(Message) /\ Head(wire) = wire[1] /\ Len(wire) > 0
        /\ Len(Tail(wire)) = Len(wire) - 1
        /\ \A i \in 1 .. Len(Tail(wire)) : Tail(wire)[i] = wire[i + 1]
    BY HeadTail
  <1> QED BY <1>1, WireEntries

\* What the client has seen once it took the first message.
SeenAfter(wire, seen) == IF Head(wire).type = "changes" THEN Head(wire).hi ELSE seen

LEMMA LeadsToTaken ==
  ASSUME NEW wire \in Seq(Message), wire # <<>>, NEW seen \in Nat, NEW v \in Nat,
         NEW n \in 1 .. Len(wire), LeadsTo(wire, n, seen, v)
  PROVE  LeadsTo(Tail(wire), n - 1, SeenAfter(wire, seen), v)
  <1> DEFINE rest == Tail(wire)
  <1>1. /\ Head(wire) = wire[1] /\ Len(rest) = Len(wire) - 1 /\ Len(wire) \in Nat
        /\ \A i \in 1 .. Len(rest) : i + 1 \in 1 .. Len(wire) /\ rest[i] = wire[i + 1]
    BY FirstTaken, WireEntries
  <1> HIDE DEF rest
  <1>2. ASSUME NEW from \in 1 .. n, NoChanges(wire, from + 1, n)
        PROVE  NoChanges(rest, from, n - 1)
    BY <1>1, <1>2 DEF NoChanges
  <1>3. CASE v <= seen /\ NoChanges(wire, 1, n)
    <2>1. wire[1].type # "changes" /\ NoChanges(wire, 2, n)
      BY <1>3 DEF NoChanges
    <2>2. NoChanges(rest, 1, n - 1)
      BY <1>2, <2>1
    <2> QED BY <1>1, <1>3, <2>1, <2>2 DEF LeadsTo, SeenAfter, rest
  <1>4. ASSUME NEW i \in 1 .. n, wire[i].type = "changes", wire[i].hi = v, NoChanges(wire, i + 1, n)
        PROVE  LeadsTo(rest, n - 1, SeenAfter(wire, seen), v)
    <2>1. CASE i = 1
      <3>1. SeenAfter(wire, seen) = v
        BY <1>1, <1>4, <2>1 DEF SeenAfter
      <3>2. NoChanges(rest, 1, n - 1)
        BY <1>2, <1>4, <2>1
      <3> QED BY <3>1, <3>2 DEF LeadsTo
    <2>2. CASE i # 1
      <3>1. i - 1 \in 1 .. n - 1 /\ rest[i - 1] = wire[i]
        BY <1>1, <2>2
      <3>2. NoChanges(rest, i, n - 1)
        BY <1>2, <1>4
      <3>3. (i - 1) + 1 = i
        OBVIOUS
      <3> QED BY <1>4, <3>1, <3>2, <3>3 DEF LeadsTo
    <2> QED BY <2>1, <2>2
  <1> QED BY <1>3, <1>4 DEF LeadsTo, rest

LEMMA OrderTaken ==
  ASSUME NEW wire \in Seq(Message), wire # <<>>, NEW seen \in Nat, NEW first \in Nat,
         InOrder(wire, first, seen)
  PROVE  /\ InOrder(Tail(wire), first, SeenAfter(wire, seen))
         /\ Head(wire).type = "changes" => Head(wire).since <= seen /\ first <= Head(wire).hi
  <1> DEFINE rest == Tail(wire)
  <1>1. /\ Head(wire) = wire[1] /\ 1 \in 1 .. Len(wire) /\ Len(wire) \in Nat
        /\ Len(rest) = Len(wire) - 1
        /\ \A i \in 1 .. Len(rest) : i + 1 \in 1 .. Len(wire) /\ rest[i] = wire[i + 1]
    BY FirstTaken, WireEntries
  <1> HIDE DEF rest
  <1>2. ASSUME NEW i \in 1 .. Len(rest), rest[i].type = "changes"
        PROVE  /\ first <= rest[i].since /\ rest[i].since <= rest[i].hi
               /\ LeadsTo(rest, i - 1, SeenAfter(wire, seen), rest[i].since)
    <2>1. /\ first <= rest[i].since /\ rest[i].since <= rest[i].hi
          /\ LeadsTo(wire, i, seen, rest[i].since) /\ i \in 1 .. Len(wire)
      <3>1. i + 1 \in 1 .. Len(wire) /\ rest[i] = wire[i + 1] /\ (i + 1) - 1 = i
            /\ i \in 1 .. Len(wire)
        BY <1>1
      <3>2. /\ first <= wire[i + 1].since /\ wire[i + 1].since <= wire[i + 1].hi
            /\ LeadsTo(wire, (i + 1) - 1, seen, wire[i + 1].since)
        BY <1>2, <3>1 DEF InOrder
      <3> QED BY <3>1, <3>2
    <2>2. rest[i].since \in Nat
      BY <1>1, WireEntries
    <2> QED BY <2>1, <2>2, LeadsToTaken DEF rest
  <1>3. ASSUME Head(wire).type = "changes"
        PROVE  Head(wire).since <= seen /\ first <= Head(wire).hi
    <2>1. first <= wire[1].since /\ wire[1].since <= wire[1].hi /\ LeadsTo(wire, 0, seen, wire[1].since)
      BY <1>1, <1>3 DEF InOrder
    <2>2. wire[1].since \in Nat /\ wire[1].hi \in Nat
      BY <1>1, WireEntries
    <2> QED BY <1>1, <2>1, <2>2 DEF LeadsTo
  <1> QED BY <1>2, <1>3 DEF InOrder, rest

LEMMA BringsTaken ==
  ASSUME NEW wire \in Seq(Message), wire # <<>>, NEW v, Brings(wire, v)
  PROVE  Brings(Tail(wire), v) \/ (Head(wire).type = "changes" /\ Carries(Head(wire), v))
  <1> DEFINE rest == Tail(wire)
  <1>1. /\ Head(wire) = wire[1] /\ Len(rest) = Len(wire) - 1 /\ Len(wire) \in Nat
        /\ \A i \in 1 .. Len(rest) : rest[i] = wire[i + 1]
    BY FirstTaken, WireEntries
  <1> HIDE DEF rest
  <1>2. PICK i \in 1 .. Len(wire) : wire[i].type = "changes" /\ Carries(wire[i], v)
    BY DEF Brings
  <1>3. CASE i = 1
    BY <1>1, <1>2, <1>3
  <1>4. CASE i # 1
    <2>1. i - 1 \in 1 .. Len(rest) /\ rest[i - 1] = wire[i]
      BY <1>1, <1>4
    <2> QED BY <1>2, <2>1 DEF Brings, rest
  <1> QED BY <1>3, <1>4

\* A message is written at the end.
LEMMA LeadsToWritten ==
  ASSUME NEW wire \in Seq(Message), NEW msg \in Message, NEW seen, NEW v,
         NEW n \in 0 .. Len(wire)
  PROVE  LeadsTo(Append(wire, msg), n, seen, v) <=> LeadsTo(wire, n, seen, v)
  <1>1. Len(wire) \in Nat /\ \A i \in 1 .. Len(wire) : Append(wire, msg)[i] = wire[i]
    BY WireEntries, AppendProperties
  <1>2. \A i \in 1 .. n : Append(wire, msg)[i] = wire[i]
    BY <1>1
  <1>3. \A from \in Nat \ {0} : NoChanges(Append(wire, msg), from, n) <=> NoChanges(wire, from, n)
    BY <1>1, <1>2 DEF NoChanges
  <1>4. \A i \in 1 .. n : i + 1 \in Nat \ {0}
    BY <1>1
  <1> QED BY <1>2, <1>3, <1>4 DEF LeadsTo

LEMMA OrderWritten ==
  ASSUME NEW wire \in Seq(Message), NEW msg \in Message, NEW seen \in Nat, NEW first \in Nat,
         InOrder(wire, first, seen),
         msg.type = "changes" => /\ first <= msg.since /\ msg.since <= msg.hi
                                 /\ LeadsTo(wire, Len(wire), seen, msg.since)
  PROVE  InOrder(Append(wire, msg), first, seen)
  <1> DEFINE more == Append(wire, msg)
  <1>1. /\ Len(wire) \in Nat /\ Len(more) = Len(wire) + 1 /\ more[Len(wire) + 1] = msg
        /\ \A i \in 1 .. Len(wire) : more[i] = wire[i]
    BY WireEntries, AppendProperties
  <1>2. \A n \in 0 .. Len(wire) : \A v : LeadsTo(more, n, seen, v) <=> LeadsTo(wire, n, seen, v)
    BY LeadsToWritten
  <1> HIDE DEF more
  <1> SUFFICES ASSUME NEW i \in 1 .. Len(more), more[i].type = "changes"
               PROVE  /\ first <= more[i].since /\ more[i].since <= more[i].hi
                      /\ LeadsTo(more, i - 1, seen, more[i].since)
    BY DEF InOrder, more
  <1>3. i - 1 \in 0 .. Len(wire)
    BY <1>1
  <1>4. CASE i = Len(wire) + 1
    BY <1>1, <1>2, <1>3, <1>4
  <1>5. CASE i # Len(wire) + 1
    <2>1. i \in 1 .. Len(wire) /\ more[i] = wire[i]
      BY <1>1, <1>5
    <2> QED BY <1>2, <1>3, <2>1 DEF InOrder
  <1> QED BY <1>4, <1>5

LEMMA EndWritten ==
  ASSUME NEW wire \in Seq(Message), NEW msg \in Message, NEW seen \in Nat, NEW v
  PROVE  LET more == Append(wire, msg) IN
         /\ msg.type # "changes" /\ LeadsTo(wire, Len(wire), seen, v) => LeadsTo(more, Len(more), seen, v)
         /\ msg.type = "changes" => LeadsTo(more, Len(more), seen, msg.hi)
         /\ \A w : Brings(wire, w) \/ (msg.type = "changes" /\ Carries(msg, w)) => Brings(more, w)
  <1> DEFINE more == Append(wire, msg)
  <1>1. /\ Len(wire) \in Nat /\ Len(more) = Len(wire) + 1 /\ more[Len(wire) + 1] = msg
        /\ \A i \in 1 .. Len(wire) : more[i] = wire[i]
    BY WireEntries, AppendProperties
  <1>2. LeadsTo(wire, Len(wire), seen, v) => LeadsTo(more, Len(wire), seen, v)
    <2>1. Len(wire) \in 0 .. Len(wire)
      BY <1>1
    <2> QED BY <2>1, LeadsToWritten
  <1> HIDE DEF more
  <1>3. ASSUME msg.type # "changes", LeadsTo(more, Len(wire), seen, v)
        PROVE  LeadsTo(more, Len(more), seen, v)
    <2>1. \A from \in 1 .. Len(wire) + 1 :
            NoChanges(more, from, Len(wire)) => NoChanges(more, from, Len(more))
      BY <1>1, <1>3 DEF NoChanges
    <2>2. \A i \in 1 .. Len(wire) : i \in 1 .. Len(more) /\ i + 1 \in 1 .. Len(wire) + 1
      BY <1>1
    <2>3. 1 \in 1 .. Len(wire) + 1
      BY <1>1
    <2> QED BY <1>3, <2>1, <2>2, <2>3 DEF LeadsTo
  <1>4. ASSUME msg.type = "changes" PROVE LeadsTo(more, Len(more), seen, msg.hi)
    <2>1. NoChanges(more, Len(more) + 1, Len(more)) /\ Len(more) \in 1 .. Len(more)
      BY <1>1 DEF NoChanges
    <2> QED BY <1>1, <1>4, <2>1 DEF LeadsTo
  <1>5. \A w : Brings(wire, w) \/ (msg.type = "changes" /\ Carries(msg, w)) => Brings(more, w)
    <2>1. Len(wire) + 1 \in 1 .. Len(more) /\ \A i \in 1 .. Len(wire) : i \in 1 .. Len(more)
      BY <1>1
    <2> QED BY <1>1, <2>1 DEF Brings
  <1> QED BY <1>2, <1>3, <1>4, <1>5 DEF more

\* A socket not opened yet has carried nothing.
NothingSentYet == \A s \in Socket : s > socket => phase[s] = "none" /\ toClient[s] = <<>>

InHand(c) == clientDb[c] > 0 \/ BeingApplied(serverDb[c])

SeenIsInHand ==
  /\ announced <= lastSeen
  /\ \A c \in ServerChange : 0 < serverDb[c] /\ serverDb[c] <= lastSeen => InHand(c)

\* A connection that has no stream yet will get one that starts from what was announced.
StreamIsAnnounced ==
  open =>
    /\ phase[socket] = "none" =>
         toServer[socket] # <<>> /\ Head(toServer[socket]) = Msg("announce", announced)
    /\ phase[socket] = "creating" => outSent[socket] = announced
    /\ phase[socket] \in {"none", "creating"} => toClient[socket] = <<>>

StreamIsComplete ==
  open =>
    /\ InOrder(toClient[socket], announced, lastSeen)
    /\ HasStream(socket) =>
         /\ announced <= outSent[socket]
         /\ LeadsTo(toClient[socket], Len(toClient[socket]), lastSeen, outSent[socket])
         /\ \A c \in ServerChange :
              0 < serverDb[c] /\ serverDb[c] <= outSent[socket]
                => InHand(c) \/ Brings(toClient[socket], serverDb[c])

RestIsDue ==
  open /\ phase[socket] = "live" =>
    \A c \in ServerChange :
      serverDb[c] > outSent[socket] => outNotified[socket] \/ outTimer[socket]

DeliveryInv ==
  NothingSentYet /\ SeenIsInHand /\ StreamIsAnnounced /\ StreamIsComplete /\ RestIsDue

LEMMA DeliveryInit == Init => DeliveryInv
  <1>1. Init => NothingSentYet /\ SeenIsInHand
    BY DEF Init, NothingSentYet, SeenIsInHand, Change
  <1>2. Init => StreamIsAnnounced /\ StreamIsComplete /\ RestIsDue
    BY DEF Init, StreamIsAnnounced, StreamIsComplete, RestIsDue
  <1> QED BY <1>1, <1>2 DEF DeliveryInv

\* Steps that leave what the invariant speaks of alone.
KeepsHand == \A c \in ServerChange : serverDb'[c] = serverDb[c] /\ (InHand(c) => InHand(c)')

LEMMA HandFrame ==
  ASSUME UNCHANGED <<applying, clientDb>>, \A c \in ServerChange : serverDb'[c] = serverDb[c]
  PROVE  KeepsHand
  BY DEF KeepsHand, InHand, BeingApplied

LEMMA SeenFrame ==
  ASSUME SeenIsInHand, KeepsHand, UNCHANGED <<announced, lastSeen>>
  PROVE  SeenIsInHand'
  BY DEF SeenIsInHand, KeepsHand

KeepsLink ==
  /\ UNCHANGED <<announced, lastSeen, socket, open>>
  /\ phase'[socket] = phase[socket] /\ outSent'[socket] = outSent[socket]
  /\ toClient'[socket] = toClient[socket]
  /\ outNotified[socket] => outNotified'[socket]
  /\ outTimer'[socket] = outTimer[socket]
  /\ toServer[socket] # <<>> =>
       \/ toServer'[socket] # <<>> /\ Head(toServer'[socket]) = Head(toServer[socket])
       \/ Head(toServer[socket]).type # "announce"
  /\ KeepsHand

LEMMA LinkFrame ==
  ASSUME StreamIsAnnounced, StreamIsComplete, RestIsDue, KeepsLink
  PROVE  StreamIsAnnounced' /\ StreamIsComplete' /\ RestIsDue'
  <1>1. StreamIsAnnounced'
    <2>1. Msg("announce", announced).type = "announce"
      BY DEF Msg
    <2>2. Msg("announce", announced)' = Msg("announce", announced)
      BY DEF KeepsLink, Msg
    <2> QED BY <2>1, <2>2 DEF StreamIsAnnounced, KeepsLink
  <1>2. StreamIsComplete'
    BY DEF StreamIsComplete, KeepsLink, KeepsHand, HasStream
  <1>3. RestIsDue'
    BY DEF RestIsDue, KeepsLink, KeepsHand
  <1> QED BY <1>1, <1>2, <1>3

\* A socket that is closed at the client's end carries nothing to it.
LEMMA ClosedLink ==
  ASSUME ~open'
  PROVE  StreamIsAnnounced' /\ StreamIsComplete' /\ RestIsDue'
  BY DEF StreamIsAnnounced, StreamIsComplete, RestIsDue

LEMMA OpenSocketIs ==
  ASSUME TypeOK, open
  PROVE  /\ socket \in Socket /\ toClient[socket] \in Seq(Message)
         /\ toServer[socket] \in Seq(Message) /\ phase[socket] \in Phase
         /\ outSent[socket] \in Nat /\ lastSeen \in Nat /\ announced \in Nat
         /\ \A c \in ServerChange : c \in Change /\ serverDb[c] \in Nat /\ clientDb[c] \in Nat
  <1>1. socket \in Socket
    BY DEF TypeOK, Socket
  <1>2. toClient[socket] \in Seq(Message) /\ toServer[socket] \in Seq(Message)
    BY <1>1 DEF TypeOK
  <1>3. phase[socket] \in Phase /\ outSent[socket] \in Nat /\ lastSeen \in Nat /\ announced \in Nat
    BY <1>1 DEF TypeOK
  <1>4. \A c \in ServerChange : c \in Change /\ serverDb[c] \in Nat /\ clientDb[c] \in Nat
    BY DEF TypeOK, Change
  <1> QED BY <1>1, <1>2, <1>3, <1>4

-----------------------------------------------------------------------------
\* The client takes a message that is not Changes.
LEMMA OtherTaken ==
  ASSUME TypeOK, StreamIsAnnounced, StreamIsComplete, RestIsDue, NEW type, Receive(type),
         type # "changes",
         UNCHANGED <<announced, lastSeen, socket, open, phase, outSent, outTimer, outNotified,
                     serverDb, clientDb, applying>>
  PROVE  StreamIsAnnounced' /\ StreamIsComplete' /\ RestIsDue'
  <1> DEFINE wire == toClient[socket]
  <1>1. /\ open /\ socket \in Socket /\ wire \in Seq(Message) /\ wire # <<>>
        /\ Head(wire).type # "changes" /\ toClient'[socket] = Tail(wire)
    BY OpenSocketIs DEF Receive, TypeOK
  <1>2. /\ lastSeen \in Nat /\ announced \in Nat /\ outSent[socket] \in Nat
    BY <1>1, OpenSocketIs
  <1>3. SeenAfter(wire, lastSeen) = lastSeen
    BY <1>1 DEF SeenAfter
  <1>4. phase[socket] \notin {"none", "creating"}
    BY <1>1 DEF StreamIsAnnounced
  <1>5. StreamIsAnnounced' /\ RestIsDue'
    BY <1>1, <1>4 DEF StreamIsAnnounced, RestIsDue
  <1>6. InOrder(Tail(wire), announced, lastSeen)
    BY <1>1, <1>2, <1>3, OrderTaken DEF StreamIsComplete
  <1>7. ASSUME HasStream(socket)
        PROVE  /\ LeadsTo(Tail(wire), Len(Tail(wire)), lastSeen, outSent[socket])
               /\ \A c \in ServerChange :
                    0 < serverDb[c] /\ serverDb[c] <= outSent[socket]
                      => InHand(c) \/ Brings(Tail(wire), serverDb[c])
    <2>1. Len(wire) \in 1 .. Len(wire) /\ Len(Tail(wire)) = Len(wire) - 1
      BY <1>1, FirstTaken, WireEntries
    <2>2. LeadsTo(wire, Len(wire), lastSeen, outSent[socket])
      BY <1>1, <1>7 DEF StreamIsComplete
    <2>3. LeadsTo(Tail(wire), Len(wire) - 1, lastSeen, outSent[socket])
      BY <1>1, <1>2, <1>3, <2>1, <2>2, LeadsToTaken
    <2>4. \A c \in ServerChange : Brings(wire, serverDb[c]) => Brings(Tail(wire), serverDb[c])
      BY <1>1, BringsTaken
    <2> QED BY <1>1, <1>7, <2>1, <2>3, <2>4 DEF StreamIsComplete
  <1>8. StreamIsComplete'
    <2>1. HasStream(socket)' => HasStream(socket) /\ announced <= outSent[socket]
      BY <1>1 DEF HasStream, StreamIsComplete
    <2>2. KeepsHand
      BY HandFrame
    <2> QED BY <1>1, <1>6, <1>7, <2>1, <2>2 DEF StreamIsComplete, KeepsHand
  <1> QED BY <1>5, <1>8

LEMMA ChangesTaken ==
  ASSUME TypeOK, DeliveryInv, AcceptChanges
  PROVE  DeliveryInv'
  <1> USE DEF outbound, link, serverFile, conns, clientFile
  <1> DEFINE wire == toClient[socket]
             msg == Head(wire)
  <1>1. /\ open /\ socket \in Socket /\ wire \in Seq(Message) /\ wire # <<>>
        /\ msg.type = "changes" /\ toClient' = [toClient EXCEPT ![socket] = Tail(wire)]
        /\ toClient \in [Socket -> Seq(Message)]
    BY OpenSocketIs DEF AcceptChanges, Receive, TypeOK
  <1>2. /\ toClient'[socket] = Tail(wire)
        /\ \A s \in Socket : s # socket => toClient'[s] = toClient[s]
    BY <1>1
  <1>3. /\ msg.since \in Nat /\ msg.hi \in Nat /\ lastSeen \in Nat /\ announced \in Nat
        /\ outSent[socket] \in Nat
        /\ \A c \in ServerChange : serverDb[c] \in Nat
    BY <1>1, FirstTaken, WireEntries, OpenSocketIs
  <1>4. /\ lastSeen >= msg.since /\ lastSeen' = msg.hi
        /\ applying' = Append(applying, [since |-> msg.since, hi |-> msg.hi, old |-> lastSeen])
        /\ UNCHANGED <<clientDb, announced, socket, open, toServer, serverDb, phase, outSent,
                       outTimer, outNotified>>
    BY DEF AcceptChanges, GreaterThanOrEqual
  <1>5. SeenAfter(wire, lastSeen) = msg.hi
    BY <1>1 DEF SeenAfter
  <1>6. /\ InOrder(Tail(wire), announced, msg.hi) /\ announced <= msg.hi
    BY <1>1, <1>3, <1>5, OrderTaken DEF DeliveryInv, StreamIsComplete
  <1> HIDE DEF msg
  <1>7. NothingSentYet'
    BY <1>2, <1>4 DEF DeliveryInv, NothingSentYet, TypeOK
  <1>7c. /\ Len(applying') = Len(applying) + 1 /\ Len(applying) \in Nat
         /\ applying'[Len(applying) + 1].hi = msg.hi
         /\ applying'[Len(applying) + 1].since = msg.since
         /\ \A i \in 1 .. Len(applying) : applying'[i] = applying[i]
    BY <1>4 DEF TypeOK
  <1>7a. \A v : BeingApplied(v) => \E j \in 1 .. Len(applying') : Carries(applying'[j], v)
    BY <1>7c DEF BeingApplied, Carries
  <1>7b. \A v : msg.since < v /\ v <= msg.hi => \E j \in 1 .. Len(applying') : Carries(applying'[j], v)
    <2>1. Len(applying) + 1 \in 1 .. Len(applying')
      BY <1>7c
    <2> QED BY <1>7c, <2>1 DEF Carries
  <1>8. SeenIsInHand'
    <2>1. ASSUME NEW c \in ServerChange, 0 < serverDb[c], serverDb[c] <= msg.hi
          PROVE  clientDb[c] > 0 \/ \E j \in 1 .. Len(applying') : Carries(applying'[j], serverDb[c])
      BY <1>3, <1>4, <1>7a, <1>7b, <2>1 DEF DeliveryInv, SeenIsInHand, InHand
    <2> QED BY <1>4, <1>6, <2>1 DEF SeenIsInHand, InHand, BeingApplied
  <1>9. phase[socket] \notin {"none", "creating"}
    BY <1>1 DEF DeliveryInv, StreamIsAnnounced
  <1>10. StreamIsAnnounced' /\ RestIsDue'
    BY <1>4, <1>9 DEF DeliveryInv, StreamIsAnnounced, RestIsDue
  <1>11. ASSUME HasStream(socket)
         PROVE  /\ announced <= outSent[socket]
                /\ LeadsTo(Tail(wire), Len(Tail(wire)), msg.hi, outSent[socket])
                /\ \A c \in ServerChange :
                     0 < serverDb[c] /\ serverDb[c] <= outSent[socket]
                       => InHand(c)' \/ Brings(Tail(wire), serverDb[c])
    <2>1. Len(wire) \in 1 .. Len(wire) /\ Len(Tail(wire)) = Len(wire) - 1
      BY <1>1, FirstTaken, WireEntries
    <2>2. announced <= outSent[socket] /\ LeadsTo(wire, Len(wire), lastSeen, outSent[socket])
      BY <1>1, <1>11 DEF DeliveryInv, StreamIsComplete
    <2>3. LeadsTo(Tail(wire), Len(wire) - 1, msg.hi, outSent[socket])
      BY <1>1, <1>3, <1>5, <2>1, <2>2, LeadsToTaken
    <2>4. ASSUME NEW c \in ServerChange, 0 < serverDb[c], serverDb[c] <= outSent[socket]
          PROVE  InHand(c)' \/ Brings(Tail(wire), serverDb[c])
      <3>1. InHand(c) \/ Brings(wire, serverDb[c])
        BY <1>1, <1>11, <2>4 DEF DeliveryInv, StreamIsComplete
      <3>2. CASE InHand(c)
        BY <1>4, <1>7a, <3>2 DEF InHand, BeingApplied
      <3>3. CASE Brings(wire, serverDb[c])
        <4>1. Brings(Tail(wire), serverDb[c]) \/ Carries(msg, serverDb[c])
          BY <1>1, <3>3, BringsTaken DEF msg
        <4>2. CASE Carries(msg, serverDb[c])
          <5>1. InHand(c)'
            BY <1>4, <1>7b, <4>2 DEF InHand, BeingApplied, Carries
          <5> QED BY <5>1
        <4> QED BY <4>1, <4>2
      <3> QED BY <3>1, <3>2, <3>3
    <2> QED BY <2>1, <2>2, <2>3, <2>4
  <1>12. StreamIsComplete'
    <2>1. HasStream(socket)' <=> HasStream(socket)
      BY <1>4 DEF HasStream
    <2> QED BY <1>2, <1>4, <1>6, <1>11, <2>1 DEF StreamIsComplete
  <1> QED BY <1>7, <1>8, <1>10, <1>12 DEF DeliveryInv

\* The transaction of the first accepted message commits.
LEMMA HandApplied ==
  ASSUME TypeOK, DownstreamInv, Apply
  PROVE  KeepsHand
  <1>1. /\ \A c \in ServerChange : clientDb'[c] > 0 <=>
             clientDb[c] > 0 \/ (0 < serverDb[c] /\ serverDb[c] <= Head(applying).hi)
        /\ UNCHANGED serverDb
    BY ApplyFacts DEF Apply, serverFile
  <1>2. /\ Head(applying) = applying[1] /\ 1 \in 1 .. Len(applying) /\ Len(applying) \in Nat
        /\ Len(applying') = Len(applying) - 1
        /\ \A i \in 1 .. Len(applying') : applying'[i] = applying[i + 1]
        /\ \A i \in 1 .. Len(applying) : applying[i].since \in Nat
    BY ApplyingHead, ApplyingEntries DEF Apply
  <1> SUFFICES ASSUME NEW c \in ServerChange, InHand(c)
               PROVE  InHand(c)'
    BY <1>1 DEF KeepsHand
  <1>3. CASE clientDb[c] > 0
    BY <1>1, <1>3 DEF InHand
  <1>4. ASSUME NEW j \in 1 .. Len(applying), Carries(applying[j], serverDb[c])
        PROVE  InHand(c)'
    <2>1. CASE j = 1
      <3>0. applying[1].since < serverDb[c] /\ serverDb[c] <= applying[1].hi
        BY <1>4, <2>1 DEF Carries
      <3>1. 0 < serverDb[c] /\ serverDb[c] <= Head(applying).hi
        <4>1. serverDb[c] \in Nat /\ applying[1].since \in Nat
          BY <1>2 DEF TypeOK, Change
        <4> QED BY <1>2, <3>0, <4>1
      <3> QED BY <1>1, <3>1 DEF InHand
    <2>2. CASE j # 1
      <3>1. j - 1 \in 1 .. Len(applying') /\ applying'[j - 1] = applying[j]
        BY <1>2, <2>2
      <3>2. Carries(applying'[j - 1], serverDb'[c])
        BY <1>1, <1>4, <3>1 DEF Carries
      <3> QED BY <3>1, <3>2 DEF InHand, BeingApplied, Carries
    <2> QED BY <2>1, <2>2
  <1> QED BY <1>3, <1>4 DEF InHand, BeingApplied

LEMMA DeliveryClient ==
  ASSUME TypeOK, DownstreamInv, DeliveryInv, ClientNext, ~ClientApplyMayFail
  PROVE  DeliveryInv'
  <1> USE DEF clientFile, inbound, outbound, link, wires, serverFile, conns
  <1>0. /\ NothingSentYet /\ SeenIsInHand /\ StreamIsAnnounced /\ StreamIsComplete /\ RestIsDue
        /\ toClient \in [Socket -> Seq(Message)] /\ toServer \in [Socket -> Seq(Message)]
        /\ phase \in [Socket -> Phase] /\ socket \in 0 .. MaxSockets
    BY DEF DeliveryInv, TypeOK
  <1>1. ASSUME NEW c \in ClientChange, ClientWrite(c) PROVE DeliveryInv'
    <2>1. /\ UNCHANGED <<announced, applying, lastSeen, link, wires, serverDb, conns>>
          /\ \A d \in ServerChange : clientDb'[d] = clientDb[d]
      BY <1>1, ConstantsAssumption DEF ClientWrite, TypeOK, Change
    <2>2. KeepsHand
      BY <2>1 DEF KeepsHand, InHand, BeingApplied
    <2>3. KeepsLink
      BY <2>1, <2>2 DEF KeepsLink
    <2>4. NothingSentYet'
      BY <1>0, <2>1 DEF NothingSentYet
    <2> QED BY <1>0, <2>1, <2>2, <2>3, <2>4, SeenFrame, LinkFrame DEF DeliveryInv
  <1>2. CASE OpenSocket
    <2>1. /\ UNCHANGED <<announced, applying, lastSeen, toClient, serverDb, clientDb, phase>>
          /\ socket + 1 \in Socket /\ socket' = socket + 1
          /\ toServer' = [toServer EXCEPT ![socket + 1] = <<Msg("announce", announced)>>]
      BY <1>0, <1>2, ConstantsAssumption DEF OpenSocket, Socket
    <2>2. /\ phase'[socket'] = "none" /\ toClient'[socket'] = <<>>
          /\ toServer'[socket'] = <<Msg("announce", announced)>>
      BY <1>0, <2>1 DEF NothingSentYet
    <2>3. NothingSentYet'
      BY <1>0, <2>1 DEF NothingSentYet, Socket
    <2>4. SeenIsInHand'
      BY <1>0, <2>1, HandFrame, SeenFrame
    <2>5. StreamIsAnnounced'
      <3>1. Head(toServer'[socket']) = Msg("announce", announced) /\ toServer'[socket'] # <<>>
        BY <2>2
      <3> QED BY <2>1, <2>2, <3>1 DEF StreamIsAnnounced, Msg
    <2>6. StreamIsComplete' /\ RestIsDue'
      BY <2>2 DEF StreamIsComplete, RestIsDue, InOrder, HasStream
    <2> QED BY <2>3, <2>4, <2>5, <2>6 DEF DeliveryInv
  <1>3. CASE SocketCloses
    <2>1. /\ UNCHANGED <<announced, applying, lastSeen, serverDb, clientDb, phase, socket>>
          /\ ~open' /\ toClient' = [toClient EXCEPT ![socket] = <<>>]
      BY <1>3 DEF SocketCloses
    <2>2. NothingSentYet'
      BY <1>0, <2>1 DEF NothingSentYet
    <2> QED BY <1>0, <2>1, <2>2, HandFrame, SeenFrame, ClosedLink DEF DeliveryInv
  <1>4. CASE ReceiveStartStreaming \/ ReceiveReject
    <2>1. /\ UNCHANGED <<announced, applying, lastSeen, serverDb, clientDb, phase, socket, open,
                         outSent, outTimer, outNotified>>
          /\ toClient' = [toClient EXCEPT ![socket] = Tail(@)]
          /\ Receive("start") \/ Receive("reject")
      BY <1>4 DEF ReceiveStartStreaming, ReceiveReject, Receive
    <2>2. NothingSentYet'
      BY <1>0, <2>1 DEF NothingSentYet
    <2>3. SeenIsInHand'
      BY <1>0, <2>1, HandFrame, SeenFrame
    <2>4. StreamIsAnnounced' /\ StreamIsComplete' /\ RestIsDue'
      BY <1>0, <2>1, OtherTaken
    <2> QED BY <2>2, <2>3, <2>4 DEF DeliveryInv
  <1>5. CASE ChangeNotification \/ TimerFires \/ PullReads \/ PullEmpty \/ PullDeferred
    <2>1. UNCHANGED <<announced, applying, lastSeen, serverDb, clientDb, link, wires, conns>>
      BY <1>5 DEF ChangeNotification, TimerFires, PullReads, PullEmpty, PullDeferred
    <2>2. KeepsHand /\ KeepsLink
      <3>1. KeepsHand
        BY <2>1, HandFrame
      <3> QED BY <2>1, <3>1 DEF KeepsLink
    <2>3. NothingSentYet'
      BY <1>0, <2>1 DEF NothingSentYet
    <2> QED BY <1>0, <2>1, <2>2, <2>3, SeenFrame, LinkFrame DEF DeliveryInv
  <1>6. CASE PullSent
    <2>1. /\ UNCHANGED <<announced, applying, lastSeen, serverDb, clientDb, link, toClient, conns>>
          /\ open /\ socket \in Socket
          /\ SendToServer(Changes(lastSent, Head(pulls).hi))
      BY <1>6, OpenSocketIs DEF PullSent
    <2>2. PICK msg : SendToServer(msg)
      BY <2>1
    <2>3. toServer[socket] # <<>> =>
            toServer'[socket] # <<>> /\ Head(toServer'[socket]) = Head(toServer[socket])
      <3>1. toServer' = toServer \/ toServer'[socket] = Append(toServer[socket], msg)
        BY <1>0, <2>1, <2>2 DEF SendToServer
      <3>2. toServer[socket] \in Seq(Message)
        BY <1>0, <2>1
      <3> HIDE DEF Message
      <3> QED BY <3>1, <3>2
    <2>4. KeepsHand /\ KeepsLink
      <3>1. KeepsHand
        BY <2>1, HandFrame
      <3> QED BY <2>1, <2>3, <3>1 DEF KeepsLink
    <2>5. NothingSentYet'
      BY <1>0, <2>1 DEF NothingSentYet
    <2> QED BY <1>0, <2>1, <2>4, <2>5, SeenFrame, LinkFrame DEF DeliveryInv
  <1>7. CASE RejectChanges
    <2>1. /\ open /\ toClient[socket] # <<>> /\ Head(toClient[socket]).type = "changes"
          /\ ~(lastSeen >= Head(toClient[socket]).since)
      BY <1>7 DEF RejectChanges, Receive, GreaterThanOrEqual
    <2>2. Head(toClient[socket]).since <= lastSeen
      BY <1>0, <2>1, OpenSocketIs, OrderTaken DEF StreamIsComplete
    <2>3. Head(toClient[socket]).since \in Nat /\ lastSeen \in Nat
      BY <2>1, OpenSocketIs, FirstTaken, WireEntries
    <2> QED BY <2>1, <2>2, <2>3
  <1>8. CASE Apply
    <2>1. /\ UNCHANGED <<announced, lastSeen, link, wires, conns>> /\ KeepsHand
      BY <1>8, HandApplied DEF Apply
    <2>2. KeepsLink
      BY <2>1 DEF KeepsLink
    <2>3. NothingSentYet'
      BY <1>0, <2>1 DEF NothingSentYet
    <2> QED BY <1>0, <2>1, <2>2, <2>3, SeenFrame, LinkFrame DEF DeliveryInv
  <1>9. CASE Restart
    <2>1. /\ announced' = clientTracked /\ lastSeen' = clientTracked /\ ~open'
          /\ toClient' = [toClient EXCEPT ![socket] = <<>>]
          /\ UNCHANGED <<clientDb, serverDb, phase, socket>>
      BY <1>9 DEF Restart
    <2>2. SeenIsInHand'
      BY <2>1 DEF SeenIsInHand, InHand, DownstreamInv, ClientHoldsWhatItTracks, TypeOK
    <2>3. NothingSentYet'
      BY <1>0, <2>1 DEF NothingSentYet
    <2> QED BY <2>1, <2>2, <2>3, ClosedLink DEF DeliveryInv
  <1>10. CASE ApplyFails
    BY <1>10 DEF ApplyFails
  <1> QED BY <1>1, <1>2, <1>3, <1>4, <1>5, <1>6, <1>7, <1>8, <1>9, <1>10, ChangesTaken DEF ClientNext

\* Steps of the server that the current connection does not take part in.
LEMMA ServerKeepsHand ==
  ASSUME TypeOK, NEW s \in Socket, ServerStep(s)
  PROVE  KeepsHand /\ UNCHANGED <<announced, lastSeen, socket, open>>
  <1> USE DEF clientFile, inbound, outbound, link, wires, serverFile, conns
  <1>1. UNCHANGED <<announced, lastSeen, socket, open, applying, clientDb>>
    BY DEF ServerStep, ReceiveAnnounce, ConnectionCreated, OutboundEmpty, OutboundSent,
           OutboundBufferFull, ReceiveChanges, ReceiveChangesFails, SettleLastSeen,
           DropEarlyChanges, ReceiveRejected, ConnectionCloses
  <1>2. CASE ReceiveChanges(s)
    BY <1>1, <1>2, MergeKeepsServerChanges, HandFrame
  <1>3. CASE ~ReceiveChanges(s)
    <2>1. serverDb' = serverDb
      BY <1>3 DEF ServerStep, ReceiveAnnounce, ConnectionCreated, OutboundEmpty, OutboundSent,
                  OutboundBufferFull, ReceiveChangesFails, SettleLastSeen,
                  DropEarlyChanges, ReceiveRejected, ConnectionCloses
    <2> QED BY <1>1, <2>1, HandFrame
  <1> QED BY <1>1, <1>2, <1>3

LEMMA SentElsewhere ==
  ASSUME TypeOK, NEW s \in Socket, NEW msgs, SendToClient(s, msgs), NEW t \in Socket, t # s
  PROVE  toClient'[t] = toClient[t]
  BY DEF SendToClient, TypeOK

LEMMA ServerElsewhere ==
  ASSUME TypeOK, NEW s \in Socket, ServerStep(s), NEW t \in Socket, t # s
  PROVE  /\ phase'[t] = phase[t] /\ outSent'[t] = outSent[t] /\ outTimer'[t] = outTimer[t]
         /\ outNotified[t] => outNotified'[t]
         /\ toServer'[t] = toServer[t] /\ toClient'[t] = toClient[t]
  <1> USE DEF clientFile, inbound, outbound, link, wires, serverFile, conns
  <1>0. /\ phase \in [Socket -> Phase] /\ outSent \in [Socket -> Nat]
        /\ outTimer \in [Socket -> BOOLEAN] /\ outNotified \in [Socket -> BOOLEAN]
        /\ toServer \in [Socket -> Seq(Message)] /\ toClient \in [Socket -> Seq(Message)]
    BY DEF TypeOK
  <1>1. CASE ReceiveAnnounce(s) \/ DropEarlyChanges(s) \/ ReceiveRejected(s)
    BY <1>0, <1>1 DEF ReceiveAnnounce, DropEarlyChanges, ReceiveRejected, Arrives
  <1>2. CASE ConnectionCreated(s)
    <2>1. /\ phase' = [phase EXCEPT ![s] = "live"] /\ UNCHANGED <<toServer, outTimer, outNotified>>
          /\ \E v : outSent' = [outSent EXCEPT ![s] = v]
          /\ \E msgs : SendToClient(s, msgs)
      BY <1>2 DEF ConnectionCreated
    <2> QED BY <1>0, <2>1, SentElsewhere
  <1>3. CASE OutboundEmpty(s) \/ OutboundBufferFull(s)
    BY <1>0, <1>3 DEF OutboundEmpty, OutboundBufferFull, WakeOutbound
  <1>4. CASE OutboundSent(s)
    <2>1. /\ UNCHANGED <<toServer, phase>>
          /\ \E v : outSent' = [outSent EXCEPT ![s] = v]
          /\ \E msgs : SendToClient(s, msgs)
          /\ outNotified' = [outNotified EXCEPT ![s] = FALSE]
          /\ outTimer' = [outTimer EXCEPT ![s] = FALSE]
      BY <1>4 DEF OutboundSent, WakeOutbound
    <2> QED BY <1>0, <2>1, SentElsewhere
  <1>5. CASE ReceiveChanges(s)
    <2>1. /\ UNCHANGED <<phase, outSent, outTimer>> /\ toServer' = [toServer EXCEPT ![s] = Tail(@)]
          /\ \E msgs : SendToClient(s, msgs)
          /\ outNotified' = [r \in Socket |-> outNotified[r] \/ phase[r] = "live"]
      BY <1>5 DEF ReceiveChanges, Arrives, NotifyLive
    <2> QED BY <1>0, <2>1, SentElsewhere
  <1>6. CASE ReceiveChangesFails(s)
    <2>1. /\ UNCHANGED <<outSent, outTimer>> /\ toServer' = [toServer EXCEPT ![s] = Tail(@)]
          /\ \E msgs : SendToClient(s, msgs)
          /\ phase' = [phase EXCEPT ![s] = "failed"]
          /\ outNotified' = [outNotified EXCEPT ![s] = FALSE]
      BY <1>6 DEF ReceiveChangesFails, Arrives
    <2> QED BY <1>0, <2>1, SentElsewhere
  <1>7. CASE SettleLastSeen(s)
    BY <1>7 DEF SettleLastSeen
  <1>8. CASE ConnectionCloses(s)
    BY <1>0, <1>8 DEF ConnectionCloses
  <1> QED BY <1>1, <1>2, <1>3, <1>4, <1>5, <1>6, <1>7, <1>8 DEF ServerStep

LEMMA ServerSpeaksInTurn ==
  ASSUME TypeOK, NothingSentYet, NEW s \in Socket, ServerStep(s)
  PROVE  NothingSentYet'
  <1> USE DEF clientFile, inbound, outbound, link, wires, serverFile, conns
  <1>1. socket' = socket
    BY ServerKeepsHand
  <1>2. \A t \in Socket : t # s => phase'[t] = phase[t] /\ toClient'[t] = toClient[t]
    BY ServerElsewhere
  <1>3. CASE s <= socket
    BY <1>1, <1>2, <1>3 DEF NothingSentYet, TypeOK, Socket
  <1>4. CASE ~(s <= socket)
    <2>1. phase[s] = "none" /\ toClient[s] = <<>>
      BY <1>4 DEF NothingSentYet, TypeOK, Socket
    <2>2. SettleLastSeen(s)
      BY <1>4, <2>1 DEF ServerStep, ReceiveAnnounce, ConnectionCreated, OutboundEmpty, OutboundSent,
           OutboundBufferFull, ReceiveChanges, ReceiveChangesFails, OutboundDue, HasStream,
           DropEarlyChanges, ReceiveRejected, ConnectionCloses, Arrives
    <2>3. UNCHANGED <<phase, toClient>>
      BY <2>2 DEF SettleLastSeen
    <2> QED BY <1>1, <2>3 DEF NothingSentYet
  <1> QED BY <1>3, <1>4

\* The stream of the current connection writes a message.
LEMMA StreamWrites ==
  ASSUME TypeOK, open, StreamIsComplete, HasStream(socket), KeepsHand,
         UNCHANGED <<announced, lastSeen, socket, open>>,
         NEW msg \in Message, toClient'[socket] = Append(toClient[socket], msg),
         \/ msg.type # "changes" /\ outSent'[socket] = outSent[socket]
         \/ /\ msg.type = "changes" /\ msg.since = outSent[socket] /\ msg.hi = outSent'[socket]
            /\ outSent'[socket] > outSent[socket]
  PROVE  StreamIsComplete'
  <1> DEFINE wire == toClient[socket]
             more == Append(wire, msg)
             sent == outSent'[socket]
  <1>1. /\ wire \in Seq(Message) /\ announced \in Nat /\ lastSeen \in Nat /\ outSent[socket] \in Nat
        /\ \A c \in ServerChange : serverDb[c] \in Nat
        /\ msg.since \in Nat /\ msg.hi \in Nat
    BY OpenSocketIs DEF Message
  <1>2. /\ InOrder(wire, announced, lastSeen) /\ announced <= outSent[socket]
        /\ LeadsTo(wire, Len(wire), lastSeen, outSent[socket])
        /\ \A c \in ServerChange : 0 < serverDb[c] /\ serverDb[c] <= outSent[socket]
                                     => InHand(c) \/ Brings(wire, serverDb[c])
    BY DEF StreamIsComplete
  <1>3. sent \in Nat /\ announced <= sent
    BY <1>1, <1>2
  <1> HIDE DEF wire
  <1>4. InOrder(more, announced, lastSeen)
    BY <1>1, <1>2, OrderWritten
  <1>5. LeadsTo(more, Len(more), lastSeen, sent)
    BY <1>1, <1>2, EndWritten
  <1>6. ASSUME NEW c \in ServerChange, 0 < serverDb[c], serverDb[c] <= sent
        PROVE  InHand(c)' \/ Brings(more, serverDb[c])
    <2>1. CASE serverDb[c] <= outSent[socket]
      <3>1. InHand(c) \/ Brings(wire, serverDb[c])
        BY <1>2, <1>6, <2>1
      <3>2. Brings(wire, serverDb[c]) => Brings(more, serverDb[c])
        BY <1>1, EndWritten
      <3> QED BY <3>1, <3>2 DEF KeepsHand
    <2>2. CASE ~(serverDb[c] <= outSent[socket])
      <3>1. msg.type = "changes" /\ Carries(msg, serverDb[c])
        BY <1>1, <1>6, <2>2 DEF Carries
      <3> QED BY <1>1, <3>1, EndWritten
    <2> QED BY <2>1, <2>2
  <1>7. toClient'[socket] = more
    BY DEF wire
  <1> HIDE DEF more, sent
  <1> QED BY <1>3, <1>4, <1>5, <1>6, <1>7 DEF StreamIsComplete, KeepsHand, sent

\* Nothing seen or sent is newer than the room.
LEMMA SeenIsNotNewer ==
  ASSUME TypeOK, DownstreamInv, StreamIsComplete
  PROVE  /\ lastSeen <= serverVersion
         /\ open /\ HasStream(socket) => outSent[socket] <= serverVersion
  <1>1. \A v : IsServerVersion(v) => v \in Nat /\ v <= serverVersion
    BY DEF IsServerVersion, DownstreamInv, VersionsBounded, Change, TypeOK
  <1>2. /\ lastSeen \in Nat /\ clientTracked \in Nat /\ serverVersion \in Nat
        /\ clientTracked <= serverVersion
        /\ \A j \in 1 .. Len(applying) : IsServerVersion(applying[j].hi)
    BY DEF TypeOK, DownstreamInv, VersionsBounded, ApplyingOK
  <1>3. lastSeen <= serverVersion
    BY <1>1, <1>2 DEF DownstreamInv, ApplyingOK, Covered
  <1>4. ASSUME open, HasStream(socket) PROVE outSent[socket] <= serverVersion
    <2>1. socket \in Socket /\ outSent[socket] \in Nat
      BY <1>4, OpenSocketIs
    <2>2. LeadsTo(toClient[socket], Len(toClient[socket]), lastSeen, outSent[socket])
      BY <1>4 DEF StreamIsComplete
    <2>3. \A i \in 1 .. Len(toClient[socket]) : toClient[socket][i].type = "changes" =>
            IsServerVersion(toClient[socket][i].hi)
      BY <2>1 DEF DownstreamInv, WireOK
    <2> QED BY <1>1, <1>2, <1>3, <2>1, <2>2, <2>3 DEF LeadsTo
  <1> QED BY <1>3, <1>4

LEMMA DeliveryWrite ==
  ASSUME TypeOK, DownstreamInv, DeliveryInv, NEW c \in ServerChange, ServerWrite(c)
  PROVE  DeliveryInv'
  <1> USE DEF clientFile, inbound, outbound, link, wires, serverFile, conns
  <1>1. /\ serverDb[c] = 0 /\ serverDb' = [serverDb EXCEPT ![c] = serverVersion + 1]
        /\ outNotified' = [s \in Socket |-> outNotified[s] \/ phase[s] = "live"]
        /\ UNCHANGED <<clientDb, announced, lastSeen, applying, link, wires, phase, outSent, outTimer>>
    BY DEF ServerWrite, NotifyLive
  <1>2. /\ serverDb'[c] = serverVersion + 1 /\ serverVersion \in Nat /\ lastSeen \in Nat
        /\ \A d \in ServerChange : d # c => serverDb'[d] = serverDb[d]
    BY <1>1 DEF TypeOK, Change
  <1>3. /\ lastSeen <= serverVersion
        /\ open /\ HasStream(socket) => outSent[socket] <= serverVersion /\ outSent[socket] \in Nat
    BY SeenIsNotNewer, OpenSocketIs DEF DeliveryInv
  <1>4. \A d \in ServerChange : d # c /\ InHand(d) => InHand(d)'
    BY <1>1, <1>2 DEF InHand, BeingApplied
  <1>5. NothingSentYet' /\ StreamIsAnnounced'
    <2>1. Msg("announce", announced)' = Msg("announce", announced)
      BY <1>1 DEF Msg
    <2> QED BY <1>1, <2>1 DEF DeliveryInv, NothingSentYet, StreamIsAnnounced
  <1>6. SeenIsInHand'
    BY <1>1, <1>2, <1>3, <1>4 DEF DeliveryInv, SeenIsInHand
  <1>7. StreamIsComplete'
    <2>1. HasStream(socket)' <=> HasStream(socket)
      BY <1>1 DEF HasStream
    <2>2. ASSUME open, HasStream(socket), NEW d \in ServerChange, 0 < serverDb'[d],
                 serverDb'[d] <= outSent[socket]
          PROVE  InHand(d)' \/ Brings(toClient[socket], serverDb'[d])
      <3>1. d # c
        BY <1>2, <1>3, <2>2
      <3> QED BY <1>2, <1>4, <2>2, <3>1 DEF DeliveryInv, StreamIsComplete
    <2> QED BY <1>1, <2>1, <2>2 DEF DeliveryInv, StreamIsComplete
  <1>8. RestIsDue'
    <2>1. open => socket \in Socket
      BY OpenSocketIs
    <2> QED BY <1>1, <2>1 DEF RestIsDue
  <1> QED BY <1>5, <1>6, <1>7, <1>8 DEF DeliveryInv

LEMMA DeliveryCreated ==
  ASSUME TypeOK, DeliveryInv, open, ConnectionCreated(socket), KeepsHand
  PROVE  StreamIsAnnounced' /\ StreamIsComplete' /\ RestIsDue'
  <1> USE DEF clientFile, inbound, outbound, link, wires, serverFile, conns
  <1>1. /\ socket \in Socket /\ toClient[socket] = <<>> /\ outSent[socket] = announced
        /\ announced \in Nat /\ lastSeen \in Nat /\ announced <= lastSeen
        /\ \A c \in ServerChange : serverDb[c] \in Nat
        /\ \A c \in ServerChange : 0 < serverDb[c] /\ serverDb[c] <= lastSeen => InHand(c)
    BY OpenSocketIs DEF DeliveryInv, StreamIsAnnounced, SeenIsInHand, ConnectionCreated
  <1>2. /\ phase'[socket] = "live" /\ UNCHANGED <<announced, lastSeen, socket, open, serverDb>>
    BY <1>1 DEF ConnectionCreated, TypeOK
  <1>3. PICK hi \in {0} \cup {serverDb[c] : c \in ServerChange} :
          /\ IsLast(serverDb, ServerChange, hi)
          /\ outSent' = [outSent EXCEPT ![socket] = Higher(@, hi)]
          /\ SendToClient(socket, IF hi > outSent[socket]
                                  THEN <<Msg("start", serverTracked), Changes(outSent[socket], hi)>>
                                  ELSE <<Msg("start", serverTracked)>>)
    BY DEF ConnectionCreated
  <1>4. hi \in Nat /\ outSent'[socket] = Higher(announced, hi) /\ serverTracked \in Nat
    BY <1>1, <1>3 DEF TypeOK
  <1>5. \A c \in ServerChange : serverDb[c] <= outSent'[socket]
    BY <1>1, <1>3, <1>4 DEF IsLast, Higher
  <1>6. RestIsDue'
    <2>1. \A c \in ServerChange : ~(serverDb[c] > outSent'[socket])
      BY <1>1, <1>4, <1>5 DEF Higher
    <2> QED BY <1>2, <2>1 DEF RestIsDue
  <1>7. StreamIsAnnounced'
    BY <1>2 DEF StreamIsAnnounced
  <1> DEFINE wire == toClient'[socket]
  <1>8. /\ InOrder(wire, announced, lastSeen)
        /\ LeadsTo(wire, Len(wire), lastSeen, outSent'[socket])
        /\ \A c \in ServerChange : announced < serverDb[c] => Brings(wire, serverDb[c])
    <2>1. CASE hi > announced
      <3> DEFINE msgs == <<Msg("start", serverTracked), Changes(announced, hi)>>
      <3>1. toClient' = [toClient EXCEPT ![socket] = @ \o msgs]
        BY <1>1, <1>3, <2>1 DEF SendToClient, Reachable
      <3>2. msgs \in Seq(Message)
        BY <1>1, <1>4, MsgType
      <3>3. wire = msgs
        BY <1>1, <3>1, <3>2 DEF TypeOK
      <3>4. /\ Len(msgs) = 2 /\ msgs[1].type = "start" /\ msgs[2].type = "changes"
            /\ msgs[2].since = announced /\ msgs[2].hi = hi
        BY DEF Msg, Changes
      <3>5. outSent'[socket] = hi
        BY <1>1, <1>4, <2>1 DEF Higher
      <3> HIDE DEF msgs, wire
      <3>6. NoChanges(msgs, 1, 1) /\ NoChanges(msgs, 3, 2)
        BY <3>4 DEF NoChanges
      <3>7. LeadsTo(msgs, 1, lastSeen, announced)
        BY <1>1, <3>6 DEF LeadsTo
      <3>8. LeadsTo(msgs, 2, lastSeen, hi)
        BY <3>4, <3>6 DEF LeadsTo
      <3>9. InOrder(msgs, announced, lastSeen)
        <4>1. \A i \in 1 .. Len(msgs) : msgs[i].type = "changes" => i = 2
          BY <3>4
        <4>2. 2 - 1 = 1
          OBVIOUS
        <4> QED BY <1>1, <1>4, <2>1, <3>4, <3>7, <4>1, <4>2 DEF InOrder
      <3>10. ASSUME NEW c \in ServerChange, announced < serverDb[c] PROVE Brings(msgs, serverDb[c])
        <4>1. serverDb[c] <= hi
          BY <1>5, <3>5
        <4> QED BY <3>4, <3>10, <4>1 DEF Brings, Carries
      <3> QED BY <3>3, <3>4, <3>5, <3>8, <3>9, <3>10
    <2>2. CASE ~(hi > announced)
      <3> DEFINE msgs == <<Msg("start", serverTracked)>>
      <3>1. toClient' = [toClient EXCEPT ![socket] = @ \o msgs]
        BY <1>1, <1>3, <2>2 DEF SendToClient, Reachable
      <3>2. msgs \in Seq(Message)
        BY <1>1, <1>4, MsgType
      <3>3. wire = msgs
        BY <1>1, <3>1, <3>2 DEF TypeOK
      <3>4. Len(msgs) = 1 /\ msgs[1].type = "start"
        BY DEF Msg
      <3>5. outSent'[socket] = announced
        BY <1>1, <1>4, <2>2 DEF Higher
      <3> HIDE DEF msgs, wire
      <3>6. LeadsTo(msgs, 1, lastSeen, announced)
        BY <1>1, <3>4 DEF LeadsTo, NoChanges
      <3>7. InOrder(msgs, announced, lastSeen)
        BY <3>4 DEF InOrder
      <3>8. \A c \in ServerChange : ~(announced < serverDb[c])
        BY <1>1, <1>5, <3>5
      <3> QED BY <3>3, <3>4, <3>5, <3>6, <3>7, <3>8
    <2> QED BY <1>1, <1>4, <2>1, <2>2
  <1> HIDE DEF wire
  <1>9. StreamIsComplete'
    <2>1. announced <= outSent'[socket]
      BY <1>1, <1>4 DEF Higher
    <2>2. ASSUME NEW c \in ServerChange, 0 < serverDb[c] PROVE InHand(c)' \/ Brings(wire, serverDb[c])
      BY <1>1, <1>8, <2>2 DEF KeepsHand
    <2> QED BY <1>2, <1>8, <2>1, <2>2 DEF StreamIsComplete, wire
  <1> QED BY <1>6, <1>7, <1>9

LEMMA DeliveryStep ==
  ASSUME TypeOK, DownstreamInv, DeliveryInv, open, socket \in Socket, ServerStep(socket), KeepsHand
  PROVE  StreamIsAnnounced' /\ StreamIsComplete' /\ RestIsDue'
  <1> USE DEF clientFile, inbound, outbound, link, wires, serverFile, conns
  <1>0. /\ StreamIsAnnounced /\ StreamIsComplete /\ RestIsDue
        /\ UNCHANGED <<announced, lastSeen, socket, open>>
        /\ \A c \in ServerChange : serverDb'[c] = serverDb[c] /\ serverDb[c] \in Nat
        /\ toClient[socket] \in Seq(Message) /\ toServer[socket] \in Seq(Message)
        /\ outSent[socket] \in Nat
    BY ServerKeepsHand, OpenSocketIs DEF DeliveryInv, KeepsHand
  <1>1. CASE ReceiveAnnounce(socket)
    <2>1. /\ phase[socket] = "none" /\ phase' = [phase EXCEPT ![socket] = "creating"]
          /\ outSent' = [outSent EXCEPT ![socket] = Head(toServer[socket]).since]
          /\ toClient' = toClient
      BY <1>1 DEF ReceiveAnnounce
    <2>2. Head(toServer[socket]).since = announced /\ toClient[socket] = <<>>
      BY <1>0, <2>1 DEF StreamIsAnnounced, Msg
    <2>3. phase'[socket] = "creating" /\ outSent'[socket] = announced
      BY <2>1, <2>2 DEF TypeOK
    <2> QED BY <1>0, <2>1, <2>2, <2>3 DEF StreamIsAnnounced, StreamIsComplete, RestIsDue, HasStream
  <1>2. CASE ConnectionCreated(socket)
    BY <1>2, DeliveryCreated
  <1>3. CASE OutboundEmpty(socket)
    <2>1. /\ UNCHANGED <<toClient, toServer, phase, outSent>> /\ HasStream(socket)
          /\ \A c \in ServerChange : serverDb[c] <= outSent[socket]
      BY <1>3 DEF OutboundEmpty, OutboundDue, HasStream
    <2>2. RestIsDue'
      BY <1>0, <2>1 DEF RestIsDue
    <2>3. StreamIsAnnounced' /\ StreamIsComplete'
      BY <1>0, <2>1 DEF StreamIsAnnounced, StreamIsComplete, KeepsHand, HasStream
    <2> QED BY <2>2, <2>3
  <1>4. CASE OutboundBufferFull(socket)
    <2>1. /\ UNCHANGED <<toClient, toServer, phase, outSent>> /\ HasStream(socket)
          /\ outTimer'[socket]
      BY <1>4 DEF OutboundBufferFull, OutboundDue, HasStream, TypeOK
    <2>2. RestIsDue'
      BY <1>0, <2>1 DEF RestIsDue
    <2>3. StreamIsAnnounced' /\ StreamIsComplete'
      BY <1>0, <2>1 DEF StreamIsAnnounced, StreamIsComplete, KeepsHand, HasStream
    <2> QED BY <2>2, <2>3
  <1>5. CASE OutboundSent(socket)
    <2>1. PICK hi \in {serverDb[c] : c \in ServerChange} :
            /\ IsLast(serverDb, ServerChange, hi) /\ hi > outSent[socket]
            /\ SendToClient(socket, <<Changes(outSent[socket], hi)>>)
            /\ outSent' = [outSent EXCEPT ![socket] = hi]
      BY <1>5 DEF OutboundSent
    <2>2. PICK msg : msg = Changes(outSent[socket], hi)
      OBVIOUS
    <2>3. /\ hi \in Nat /\ outSent'[socket] = hi
      BY <1>0, <2>1 DEF TypeOK
    <2>4. /\ msg \in Message /\ msg.type = "changes" /\ msg.since = outSent[socket] /\ msg.hi = hi
      BY <1>0, <2>2, <2>3, MsgType DEF Changes
    <2>5. toClient'[socket] = Append(toClient[socket], msg)
      <3>1. toClient' = [toClient EXCEPT ![socket] = @ \o <<msg>>]
        BY <2>1, <2>2 DEF SendToClient, Reachable
      <3>2. toClient'[socket] = toClient[socket] \o <<msg>>
        BY <3>1 DEF TypeOK
      <3> HIDE DEF Message
      <3> QED BY <1>0, <2>4, <3>2
    <2>6. /\ phase' = phase /\ HasStream(socket)
      BY <1>5 DEF OutboundSent, OutboundDue, HasStream
    <2>7. StreamIsComplete'
      BY <1>0, <2>1, <2>3, <2>4, <2>5, <2>6, StreamWrites
    <2>8. StreamIsAnnounced'
      BY <1>0, <2>6 DEF StreamIsAnnounced, HasStream
    <2>9. RestIsDue'
      <3>1. \A c \in ServerChange : ~(serverDb[c] > outSent'[socket])
        BY <1>0, <2>1, <2>3 DEF IsLast
      <3> QED BY <1>0, <3>1 DEF RestIsDue
    <2> QED BY <2>7, <2>8, <2>9
  <1>6. CASE ReceiveChanges(socket) \/ ReceiveChangesFails(socket)
    <2> DEFINE msgs == IF GreaterThanOrEqual(inSeen[socket], Head(toServer[socket]).since) THEN <<>>
                       ELSE <<Msg("reject", inSeen[socket])>>
    <2>1. /\ SendToClient(socket, msgs) /\ HasStream(socket)
          /\ UNCHANGED <<outSent, outTimer>>
          /\ \/ phase' = phase /\ outNotified' = NotifyLive
             \/ phase' = [phase EXCEPT ![socket] = "failed"]
      BY <1>6 DEF ReceiveChanges, ReceiveChangesFails
    <2>2. HasStream(socket)' /\ phase'[socket] \in {"live", "failed"}
      BY <1>0, <2>1 DEF HasStream, TypeOK
    <2>3. StreamIsAnnounced'
      BY <1>0, <2>2 DEF StreamIsAnnounced
    <2>4. RestIsDue'
      <3>1. phase'[socket] = "live" => phase[socket] = "live" /\ outNotified'[socket]
        BY <2>1 DEF TypeOK, NotifyLive
      <3> QED BY <1>0, <3>1 DEF RestIsDue
    <2>5. StreamIsComplete'
      <3>1. toClient' = [toClient EXCEPT ![socket] = @ \o msgs]
        BY <2>1 DEF SendToClient, Reachable
      <3>2. toClient'[socket] = toClient[socket] \o msgs
        BY <3>1 DEF TypeOK
      <3>3. CASE msgs = <<>>
        <4>1. toClient'[socket] = toClient[socket]
          <5> HIDE DEF msgs, Message
          <5> QED BY <1>0, <3>2, <3>3
        <4> QED BY <1>0, <2>1, <2>2, <4>1 DEF StreamIsComplete, KeepsHand, HasStream
      <3>4. CASE msgs # <<>>
        <4>1. PICK msg : msg = Msg("reject", inSeen[socket])
          OBVIOUS
        <4>2. /\ msg \in Message /\ msg.type # "changes" /\ msgs = <<msg>>
          BY <3>4, <4>1, MsgType DEF Msg, TypeOK
        <4>3. toClient'[socket] = Append(toClient[socket], msg)
          <5> HIDE DEF msgs, Message
          <5> QED BY <1>0, <3>2, <4>2
        <4> QED BY <1>0, <2>1, <4>2, <4>3, StreamWrites
      <3> QED BY <3>3, <3>4
    <2> QED BY <2>3, <2>4, <2>5
  <1>7. CASE SettleLastSeen(socket)
    <2>1. UNCHANGED <<toClient, toServer, phase, outSent, outTimer, outNotified>>
      BY <1>7 DEF SettleLastSeen
    <2> QED BY <1>0, <2>1, LinkFrame DEF KeepsLink
  <1>8. CASE DropEarlyChanges(socket) \/ ReceiveRejected(socket)
    <2>1. /\ UNCHANGED <<toClient, phase, outSent, outTimer, outNotified>>
          /\ Head(toServer[socket]).type # "announce"
      BY <1>8 DEF DropEarlyChanges, ReceiveRejected, Arrives
    <2> QED BY <1>0, <2>1, LinkFrame DEF KeepsLink
  <1>9. CASE ConnectionCloses(socket)
    <2>1. phase'[socket] = "closed" /\ toClient' = toClient
      BY <1>9 DEF ConnectionCloses, TypeOK
    <2> QED BY <1>0, <2>1 DEF StreamIsAnnounced, StreamIsComplete, RestIsDue, HasStream
  <1> QED BY <1>1, <1>2, <1>3, <1>4, <1>5, <1>6, <1>7, <1>8, <1>9 DEF ServerStep

LEMMA DeliveryServer ==
  ASSUME TypeOK, DownstreamInv, DeliveryInv, NEW s \in Socket, ServerStep(s)
  PROVE  DeliveryInv'
  <1>1. KeepsHand /\ UNCHANGED <<announced, lastSeen, socket, open>>
    BY ServerKeepsHand
  <1>2. NothingSentYet' /\ SeenIsInHand'
    BY <1>1, ServerSpeaksInTurn, SeenFrame DEF DeliveryInv
  <1>3. StreamIsAnnounced' /\ StreamIsComplete' /\ RestIsDue'
    <2>1. CASE ~open
      BY <1>1, <2>1, ClosedLink
    <2>2. CASE open /\ s = socket
      BY <1>1, <2>2, DeliveryStep
    <2>3. CASE open /\ s # socket
      <3>1. socket \in Socket
        BY <2>3, OpenSocketIs
      <3>2. KeepsLink
        BY <1>1, <2>3, <3>1, ServerElsewhere DEF KeepsLink
      <3> QED BY <3>2, LinkFrame DEF DeliveryInv
    <2> QED BY <2>1, <2>2, <2>3
  <1> QED BY <1>2, <1>3 DEF DeliveryInv

LEMMA DeliveryInvariant ==
  ASSUME ~ClientApplyMayFail
  PROVE  Spec => []DeliveryInv
  <1>1. DeliveryInv /\ UNCHANGED vars => DeliveryInv'
    <2> SUFFICES ASSUME DeliveryInv, UNCHANGED vars PROVE DeliveryInv'
      OBVIOUS
    <2>1. /\ UNCHANGED <<clientDb, announced, lastSeen, applying, socket, open, toServer, toClient,
                         serverDb, phase, outSent, outTimer, outNotified>>
      BY DEF vars, clientFile, inbound, outbound, link, wires, serverFile, conns
    <2>2. KeepsHand /\ KeepsLink
      BY <2>1, HandFrame DEF KeepsLink
    <2>3. NothingSentYet'
      BY <2>1 DEF DeliveryInv, NothingSentYet
    <2> QED BY <2>1, <2>2, <2>3, SeenFrame, LinkFrame DEF DeliveryInv
  <1>2. TypeOK /\ DownstreamInv /\ DeliveryInv /\ [Next]_vars => DeliveryInv'
    BY <1>1, DeliveryClient, DeliveryServer, DeliveryWrite DEF Next, ServerNext
  <1> QED BY DeliveryInit, <1>2, TypeCorrect, DownstreamInvariant, PTL DEF Spec

(***************************************************************************)
(* If no client transaction fails, nothing the server's stream sends on a  *)
(* working socket is ever out of order for the client, however often the   *)
(* socket broke, the worker restarted or a full buffer put #lastSent back. *)
(* It has to be so: a rejection would stop the stream for good.            *)
(***************************************************************************)
THEOREM ServerSendsInOrder ==
  ASSUME ~ClientApplyMayFail
  PROVE  Spec => []NothingIsOutOfOrder
  <1>1. TypeOK /\ DeliveryInv => NothingIsOutOfOrder
    <2> SUFFICES ASSUME TypeOK, DeliveryInv, open, toClient[socket] # <<>>,
                        Head(toClient[socket]).type = "changes"
                 PROVE  lastSeen >= Head(toClient[socket]).since
      BY DEF NothingIsOutOfOrder, GreaterThanOrEqual
    <2>1. Head(toClient[socket]).since <= lastSeen
      BY OpenSocketIs, OrderTaken DEF DeliveryInv, StreamIsComplete
    <2>2. Head(toClient[socket]).since \in Nat /\ lastSeen \in Nat
      BY OpenSocketIs, FirstTaken, WireEntries
    <2> QED BY <2>1, <2>2
  <1> QED BY <1>1, TypeCorrect, DeliveryInvariant, PTL

(***************************************************************************)
(* Under the same assumption no wake-up of the server's stream is lost: a  *)
(* change the client lacks is being applied, on the wire, above where the  *)
(* stream will start, or above #lastSent with a notification or a timer    *)
(* due.  It is what ServerChangesReachClient needs besides fairness: while *)
(* the client lacks something, some step that brings it nearer is left.    *)
(***************************************************************************)
THEOREM NoServerWakeUpIsLost ==
  ASSUME ~ClientApplyMayFail
  PROVE  Spec => []NoServerChangeIsForgotten
  <1>1. TypeOK /\ DeliveryInv => NoServerChangeIsForgotten
    <2> SUFFICES ASSUME TypeOK, DeliveryInv, open, phase[socket] \in {"none", "creating", "live"},
                        NEW c \in ServerChange, serverDb[c] > 0
                 PROVE  \/ clientDb[c] > 0 \/ BeingApplied(serverDb[c])
                        \/ Brings(toClient[socket], serverDb[c])
                        \/ StreamWillStartBelow(serverDb[c]) \/ StreamIsDueBelow(serverDb[c])
      BY DEF NoServerChangeIsForgotten
    <2>1. /\ serverDb[c] \in Nat /\ announced \in Nat /\ lastSeen \in Nat /\ outSent[socket] \in Nat
          /\ announced <= lastSeen /\ (serverDb[c] <= lastSeen => InHand(c))
      BY OpenSocketIs DEF DeliveryInv, SeenIsInHand
    <2>2. CASE phase[socket] = "none"
      <3>1. /\ toServer[socket] # <<>> /\ Head(toServer[socket]) = Msg("announce", announced)
        BY <2>2 DEF DeliveryInv, StreamIsAnnounced
      <3>2. Msg("announce", announced).type = "announce" /\ Msg("announce", announced).since = announced
        BY DEF Msg
      <3> QED BY <2>1, <2>2, <3>1, <3>2 DEF InHand, StreamWillStartBelow
    <2>3. CASE phase[socket] = "creating"
      BY <2>1, <2>3 DEF DeliveryInv, StreamIsAnnounced, InHand, StreamWillStartBelow
    <2>4. CASE phase[socket] = "live"
      BY <2>1, <2>4 DEF DeliveryInv, StreamIsComplete, RestIsDue, HasStream, InHand, StreamIsDueBelow
    <2> QED BY <2>2, <2>3, <2>4
  <1> QED BY <1>1, TypeCorrect, DeliveryInvariant, PTL
=============================================================================
