-------------------------------- MODULE LiteFS --------------------------------
(***************************************************************************)
(* The LiteFS front of the server, seen from one node, for one room:       *)
(* PrimaryConnection follows the node's .primary file and keeps a          *)
(* PrimarySocket to the primary, over which LiteFSDBFactory and LiteFSDB   *)
(* forward the creation of the room and its writes; the primary answers    *)
(* through its LiteFSWriteService.  LiteFS itself is external: it moves    *)
(* the primary, maybe losing transactions nobody has copied, and copies    *)
(* the room's transactions to the node.                                    *)
(*                                                                         *)
(* A node is one event loop: an action is what runs between two awaits.    *)
(* A request is named by the number of the write it carries, or 0 when it  *)
(* asks for the room: no two that are pending at once have the same name.  *)
(***************************************************************************)
EXTENDS Naturals, Sequences, SequencesExt

CONSTANTS
  Peer,      \* the other nodes
  Here,      \* this node; where the code has null, "I am the primary"
  FirstOnes, \* bound: the nodes that may be the primary at first
  MaxWrites, \* bound: the writes clients send to this node, in order
  MaxMoves,  \* bound: how often LiteFS moves the primary
  MaxFaults  \* bound: connections that break or time out, and swallowed messages

ASSUME ConstantsAssumption ==
  /\ Here \notin Peer /\ FirstOnes \subseteq Peer \cup {Here}
  /\ {MaxWrites, MaxMoves, MaxFaults} \subseteq Nat

VARIABLES
  primary,      \* LiteFS: the node that may write
  log,          \* LiteFS: the primary's transactions of the room
  pos,          \* LiteFS: how many of them this node has (its -pos file)
  fileNews,     \* an event of the .primary file is due
  reads,        \* what the reads of the file under way have found
  current,      \* #currentPrimary
  socket,       \* #primarySocket
  older,        \* the ones before it that still carry requests
  reconnecting, \* a timer will connect again
  db,           \* the room's database at this node, or the createDB call for it
  posNews,      \* waitUntil's listener is due
  outcome,      \* what the sender of each write has been told
  committed,    \* history: these writes, as they committed at a primary
  moves, faults, \* counters, for the bounds
  excused       \* history: what a property may have to be excused for

litefs == <<primary, log, pos>>
connection == <<fileNews, reads, current, socket, older, reconnecting>>
room == <<db, posNews, outcome>>
history == <<committed, moves, faults, excused>>
vars == <<litefs, connection, room, history>>

Node == Peer \cup {Here}
Write == 1 .. MaxWrites
CreateDb == 0
Excuse == {"overtaken",  \* a read of the file returned before an older one
           "returned",   \* a primary came back after this node had been it
           "swallowed"}  \* a message came in one data event with another

NewSocket(peer) ==
  [to |-> peer, closed |-> FALSE, up |-> TRUE, room |-> "unknown", requests |-> <<>>, answers |-> <<>>]

\* #primarySocket before this node has ever followed another.
NoSocket == [NewSocket(Here) EXCEPT !.closed = TRUE]

\* The room exists with an older schema; this node may not have it yet.
Init ==
  /\ primary \in FirstOnes
  /\ log = <<"old">>
  /\ pos \in 0 .. Len(log) /\ (primary = Here => pos = Len(log))
  /\ fileNews = TRUE /\ reads = <<>> /\ current = primary
  /\ socket = (IF current = Here THEN NoSocket ELSE NewSocket(current)) /\ older = {}
  /\ reconnecting = FALSE
  /\ db = [status |-> "none", txid |-> 0] /\ posNews = FALSE
  /\ outcome = [w \in Write |-> "todo"]
  /\ committed = <<>> /\ moves = 0 /\ faults = 0 /\ excused = {}

-----------------------------------------------------------------------------
\* LiteFS.

\* Transactions the new primary had not copied are gone; .primary, which is on
\* every node but the primary, names it.
MovePrimary ==
  /\ moves < MaxMoves /\ moves' = moves + 1
  /\ \E n \in Node \ {primary}, kept \in 0 .. Len(log) :
       /\ n = Here => kept = pos
       /\ primary' = n
       /\ log' = SubSeq(log, 1, kept)
       /\ pos' = IF pos <= kept THEN pos ELSE kept
  /\ fileNews' = TRUE
  /\ UNCHANGED <<reads, current, socket, older, reconnecting, room, committed, faults, excused>>

Replicate ==
  /\ pos < Len(log)
  /\ pos' = pos + 1 /\ posNews' = (db.status = "waiting")
  /\ UNCHANGED <<primary, log, connection, db, outcome, history>>

HasSchema(transactions) == Contains(transactions, "schema")

\* A transaction commits at the primary.
Transact(kind) ==
  /\ log' = Append(log, kind)
  /\ pos' = IF primary = Here THEN Len(log) + 1 ELSE pos

-----------------------------------------------------------------------------
\* PrimaryConnection and PrimarySocket.

HasSocket == ~socket.closed

\* A peer may still read what was sent over a socket that is closed here.
Closed(s) == [s EXCEPT !.closed = TRUE, !.answers = <<>>, !.up = @ /\ s.requests # <<>>]

Carrying(s) == IF s.requests = <<>> THEN {} ELSE {s}

\* #primarySocket, whose state is s by now, is replaced.
Replaced(s, peer) == socket' = NewSocket(peer) /\ older' = older \cup Carrying(s)

RejectPending ==
  /\ outcome' = [w \in Write |-> IF outcome[w] = "pending" THEN "failed" ELSE outcome[w]]
  /\ db' = IF db.status = "asking" THEN [db EXCEPT !.status = "none"] ELSE db

ReadPrimaryFile ==
  /\ fileNews /\ fileNews' = FALSE
  /\ reads' = Append(reads, primary)
  /\ UNCHANGED <<litefs, current, socket, older, reconnecting, room, history>>

\* A mutant of PrimaryFileRead: the socket is closed, its requests left pending.
PrimaryFileReadForgets ==
  \E i \in DOMAIN reads :
    /\ reads' = RemoveAt(reads, i)
    /\ current' = reads[i]
    /\ IF current' = socket.to THEN UNCHANGED <<socket, older>>
       ELSE IF current' = Here THEN socket' = Closed(socket) /\ UNCHANGED older
       ELSE Replaced(Closed(socket), current')
    /\ UNCHANGED <<litefs, fileNews, reconnecting, room, history>>

\* #primaryFileCreatedOrRemoved after its await: reads may return in any order.
PrimaryFileRead ==
  \E i \in DOMAIN reads :
    LET stays == current' = socket.to
        connects == current' # Here /\ ~reconnecting
    IN  /\ reads' = RemoveAt(reads, i)
        /\ current' = reads[i]
        /\ excused' = excused \cup (IF i > 1 THEN {"overtaken"} ELSE {})
             \cup (IF stays /\ current' # Here /\ ~HasSocket /\ ~reconnecting THEN {"returned"} ELSE {})
        /\ IF stays THEN UNCHANGED <<socket, older, db, outcome>>
           ELSE /\ RejectPending
                /\ IF connects THEN Replaced(Closed(socket), current')
                   ELSE socket' = Closed(socket) /\ UNCHANGED older
        /\ UNCHANGED <<litefs, fileNews, reconnecting, posNews, committed, moves, faults>>

\* A mutant of SocketLost: the requests it carried are left pending.
SocketLostForgets ==
  /\ HasSocket /\ ~socket.up
  /\ socket' = Closed(socket) /\ UNCHANGED older
  /\ reconnecting' = (reconnecting \/ current # Here)
  /\ UNCHANGED <<litefs, fileNews, reads, current, room, history>>

\* A mutant of SocketLost: no timer is set.
SocketLostGivesUp ==
  /\ HasSocket /\ ~socket.up
  /\ socket' = Closed(socket) /\ UNCHANGED older
  /\ RejectPending
  /\ UNCHANGED <<litefs, fileNews, reads, current, reconnecting, posNews, history>>

\* The socket ends, or no pong came for five seconds: #onSocketPrematurelyClosed.
SocketLost ==
  /\ HasSocket
  /\ IF socket.up THEN faults < MaxFaults /\ faults' = faults + 1 ELSE UNCHANGED faults
  /\ socket' = Closed(socket) /\ UNCHANGED older
  /\ RejectPending
  /\ reconnecting' = (reconnecting \/ current # Here)
  /\ UNCHANGED <<litefs, fileNews, reads, current, posNews, committed, moves, excused>>

\* The timer of #connect.
Reconnect ==
  /\ reconnecting /\ reconnecting' = FALSE
  /\ IF current = Here THEN UNCHANGED <<socket, older>> ELSE Replaced(socket, current)
  /\ UNCHANGED <<litefs, fileNews, reads, current, room, history>>

\* A write to a destroyed socket calls back with an error.
Send(request) ==
  /\ socket' = IF HasSocket THEN [socket EXCEPT !.requests = Append(@, request)] ELSE socket
  /\ UNCHANGED older

-----------------------------------------------------------------------------
\* The room's database at this node: LiteFSDBFactory and LiteFSDB.

Opened(transactions) == [status |-> IF HasSchema(transactions) THEN "open" ELSE "refused", txid |-> 0]

\* The primary makes the room, or brings it to the schema asked for, by itself;
\* on a copy LiteFS refuses the transaction that would.
CreateHere ==
  /\ db.status \notin {"asking", "waiting", "open"}
  /\ current = Here
  /\ IF primary = Here /\ ~HasSchema(log) THEN Transact("schema") ELSE UNCHANGED <<log, pos>>
  /\ db' = Opened(SubSeq(log', 1, pos'))
  /\ UNCHANGED <<primary, connection, posNews, outcome, history>>

\* Bound: not while an earlier call is still on its way over a closed socket.
AskForDb ==
  /\ db.status \notin {"asking", "waiting", "open"}
  /\ current # Here
  /\ \A s \in older \cup {socket} : ~Contains(s.requests, CreateDb)
  /\ Send(CreateDb)
  /\ db' = [status |-> IF HasSocket THEN "asking" ELSE "none", txid |-> 0]
  /\ UNCHANGED <<litefs, fileNews, reads, current, reconnecting, posNews, outcome, history>>

\* A mutant of CatchUp: the copy is opened as soon as the room's file is there.
CatchUpToAnything ==
  /\ db.status = "waiting" /\ posNews /\ posNews' = FALSE
  /\ db' = IF pos = 0 THEN [status |-> "missing", txid |-> 0] ELSE Opened(SubSeq(log, 1, pos))
  /\ UNCHANGED <<litefs, connection, outcome, history>>

\* waitUntil's listener: reading the -pos file of a room that has not reached
\* this node fails, and with it createDB.
CatchUp ==
  /\ db.status = "waiting" /\ posNews /\ posNews' = FALSE
  /\ db' = IF pos = 0 THEN [status |-> "missing", txid |-> 0]
           ELSE IF pos >= db.txid THEN Opened(SubSeq(log, 1, pos))
           ELSE db
  /\ UNCHANGED <<litefs, connection, outcome, history>>

\* Clients' writes are applied in the order they came, without waiting.
NextWrite(w) == outcome[w] = "todo" /\ \A v \in 1 .. w - 1 : outcome[v] # "todo"

ApplyHere(w) ==
  /\ db.status = "open" /\ NextWrite(w) /\ current = Here
  /\ IF primary = Here /\ HasSchema(log)
     THEN /\ Transact("write")
          /\ committed' = Append(committed, w)
          /\ outcome' = [outcome EXCEPT ![w] = "ok"]
     ELSE /\ outcome' = [outcome EXCEPT ![w] = "failed"]
          /\ UNCHANGED <<log, pos, committed>>
  /\ UNCHANGED <<primary, connection, db, posNews, moves, faults, excused>>

\* A mutant of Forward: it does not wait for the primary to make the room.
ForwardEarly(w) ==
  /\ db.status \in {"none", "open"} /\ NextWrite(w) /\ current # Here
  /\ Send(w)
  /\ outcome' = [outcome EXCEPT ![w] = IF HasSocket THEN "pending" ELSE "failed"]
  /\ UNCHANGED <<litefs, fileNews, reads, current, reconnecting, db, posNews, history>>

Forward(w) ==
  /\ db.status = "open" /\ NextWrite(w) /\ current # Here
  /\ Send(w)
  /\ outcome' = [outcome EXCEPT ![w] = IF HasSocket THEN "pending" ELSE "failed"]
  /\ UNCHANGED <<litefs, fileNews, reads, current, reconnecting, db, posNews, history>>

\* #handleMessage of PrimarySocket; only an open socket has events.
Answered ==
  /\ HasSocket /\ socket.answers # <<>>
  /\ LET answer == Head(socket.answers)
     IN  IF answer.of = CreateDb
         THEN /\ db' = IF answer.ok THEN [status |-> "waiting", txid |-> answer.txid]
                       ELSE [status |-> "none", txid |-> 0]
              /\ posNews' = answer.ok
              /\ UNCHANGED outcome
         ELSE /\ outcome' = [outcome EXCEPT ![answer.of] = "ok"]
              /\ UNCHANGED <<db, posNews>>
  /\ socket' = [socket EXCEPT !.answers = Tail(@)]
  /\ UNCHANGED <<older, litefs, fileNews, reads, current, reconnecting, history>>

-----------------------------------------------------------------------------
\* The LiteFSWriteService at the other end of a socket s.

Requested(s, request) == s.up /\ s.requests # <<>> /\ Head(s.requests) = request

\* The socket s becomes t.
Becomes(s, t) ==
  \/ s = socket /\ socket' = t /\ UNCHANGED older
  \/ s \in older /\ older' = (older \ {s}) \cup Carrying(t) /\ UNCHANGED socket

\* What s is once its first request is answered.
Reply(s, status, of, ok, txid) ==
  [s EXCEPT !.requests = Tail(@), !.room = status,
            !.answers = IF s.closed THEN @ ELSE Append(@, [of |-> of, ok |-> ok, txid |-> txid])]

\* Its database is made by its own factory: a peer that is not the primary
\* asks the primary in turn, which may fail.  The failure is remembered.
ServeCreate(s) ==
  /\ Requested(s, CreateDb)
  /\ \/ /\ s.room # "broken"
        /\ IF HasSchema(log) THEN UNCHANGED <<log, pos>>
           ELSE s.room = "unknown" /\ Transact("schema")
        /\ Becomes(s, Reply(s, "ready", CreateDb, TRUE, Len(log')))
     \/ /\ s.room = "broken" \/ primary # s.to
        /\ Becomes(s, Reply(s, "broken", CreateDb, FALSE, 0))
        /\ UNCHANGED <<log, pos>>
  /\ UNCHANGED <<primary, fileNews, reads, current, reconnecting, room, history>>

\* A mutant of ServeApply: it answers before the transaction.
ServeApplyAnswersFirst(s) ==
  \E w \in Write :
    /\ Requested(s, w) /\ s.room = "ready" /\ HasSchema(log)
    /\ Becomes(s, Reply(s, "ready", w, TRUE, 0))
    /\ UNCHANGED <<litefs, fileNews, reads, current, reconnecting, room, history>>

ServeApply(s) ==
  \E w \in Write :
    /\ Requested(s, w) /\ s.room = "ready" /\ HasSchema(log)
    /\ Transact("write")
    /\ committed' = Append(committed, w)
    /\ Becomes(s, Reply(s, "ready", w, TRUE, 0))
    /\ UNCHANGED <<primary, fileNews, reads, current, reconnecting, room, moves, faults, excused>>

\* The connection was never asked for the room (TypeError in #getDB), its
\* database was not made, or LiteFS refuses the transaction: nothing catches
\* the rejection of #handleMessage, and the peer's process ends.
ServeThrows(s) ==
  /\ s.up /\ s.requests # <<>>
  /\ IF Head(s.requests) = CreateDb
     THEN s.room = "ready" /\ ~HasSchema(log)
     ELSE s.room # "ready" \/ primary # s.to \/ ~HasSchema(log)
  /\ socket' = IF socket.to = s.to THEN [socket EXCEPT !.up = FALSE, !.requests = <<>>] ELSE socket
  /\ older' = {t \in older : t.to # s.to}
  /\ UNCHANGED <<litefs, fileNews, reads, current, reconnecting, room, history>>

\* Two messages arrive in one data event: only the first is decoded, be it a
\* ping or a pong.
Swallowed(s) ==
  /\ faults < MaxFaults /\ faults' = faults + 1
  /\ \/ s.up /\ s.requests # <<>>
        /\ Becomes(s, [s EXCEPT !.requests = Tail(@)])
     \/ s = socket /\ HasSocket /\ s.answers # <<>>
        /\ socket' = [s EXCEPT !.answers = Tail(@)] /\ UNCHANGED older
  /\ excused' = excused \cup {"swallowed"}
  /\ UNCHANGED <<litefs, fileNews, reads, current, reconnecting, room, committed, moves>>

Serve(s) == ServeCreate(s) \/ ServeApply(s) \/ ServeThrows(s)
Follow == ReadPrimaryFile \/ PrimaryFileRead \/ SocketLost \/ Reconnect
UseRoom == CreateHere \/ AskForDb \/ CatchUp \/ Answered \/ \E w \in Write : ApplyHere(w) \/ Forward(w)

Next ==
  \/ MovePrimary \/ Replicate
  \/ Follow \/ UseRoom
  \/ \E s \in older \cup {socket} : Serve(s) \/ Swallowed(s)

Spec == Init /\ [][Next]_vars

\* Events are delivered, promises settle, timers fire and pings time out; the
\* primary answers what reaches it, and LiteFS copies what it commits.
FairSpec ==
  /\ Spec
  /\ WF_vars(ReadPrimaryFile) /\ WF_vars(PrimaryFileRead)
  /\ WF_vars(HasSocket /\ ~socket.up /\ SocketLost) /\ WF_vars(Reconnect)
  /\ WF_vars(Answered) /\ WF_vars(CatchUp) /\ WF_vars(Replicate)
  /\ WF_vars(Serve(socket))

-----------------------------------------------------------------------------
Socket ==
  [to : Node, closed : BOOLEAN, up : BOOLEAN, room : {"unknown", "ready", "broken"},
   requests : Seq(0 .. MaxWrites), answers : Seq([of : 0 .. MaxWrites, ok : BOOLEAN, txid : Nat])]

TypeOK ==
  /\ primary \in Node /\ current \in Node /\ reads \in Seq(Node)
  /\ log \in Seq({"old", "schema", "write"}) /\ pos \in 0 .. Len(log)
  /\ older \cup {socket} \subseteq Socket
  /\ {fileNews, reconnecting, posNews} \subseteq BOOLEAN
  /\ db \in [status : {"none", "asking", "waiting", "open", "missing", "refused"}, txid : Nat]
  /\ outcome \in [Write -> {"todo", "pending", "ok", "failed"}]
  /\ committed \in Seq(Write) /\ excused \subseteq Excuse
  /\ moves \in 0 .. MaxMoves /\ faults \in 0 .. MaxFaults

\* One socket at most is open, it goes to the primary the node believes in, and
\* no timer is about to make another: whatever the order of file events, lost
\* connections and timers (PrimaryConnection.ts:142-213).
OneSocketToThePrimary ==
  /\ \A s \in older : s.closed
  /\ HasSocket => socket.to = current /\ ~reconnecting

\* A node that is not the primary always has a #primarySocket to forward to
\* (the non-null assertions of PrimaryConnection.ts:112 and 131).
FollowersHaveASocket == current # Here => socket.to # Here

\* Every answer finds its request still registered: PrimarySocket.ts would
\* throw out of a data handler (lines 122-125, 140-142, 145-149).
AnswersFindTheirRequest ==
  HasSocket =>
    \A i \in DOMAIN socket.answers :
      LET of == socket.answers[i].of
      IN  IF of = CreateDb THEN db.status = "asking" ELSE outcome[of] = "pending"

\* A write whose sender is told it was applied has committed, and after every
\* earlier one that was (LiteFSDB.ts:55-73, LiteFSWriteService.ts:109-122).
AckedInOrder ==
  \A w \in Write : outcome[w] = "ok" =>
    \E i \in DOMAIN committed :
      /\ committed[i] = w
      /\ \A v \in 1 .. w - 1 : outcome[v] = "ok" => \E j \in 1 .. i - 1 : committed[j] = v

\* The primary has no write without the ones before it unless their senders
\* were told, or a message was swallowed (LiteFSDB.ts:55-73).
GapOnlyAfterFailure ==
  \A i \in DOMAIN committed : \A v \in 1 .. committed[i] - 1 :
    Contains(committed, v) \/ outcome[v] = "failed" \/ "swallowed" \in excused

\* While the primary stays, a copy is opened only once it holds the schema: the
\* constructor of DB never writes a copy (LiteFSDBFactory.ts:35-44).
NoCopyIsWritten == moves = 0 => db.status # "refused"

\* While nothing moves or breaks, the primary never throws: it is asked for the
\* room before it is sent writes (LiteFSWriteService.ts:128-138).
SteadyPrimaryServes == moves = 0 /\ faults = 0 => \A s \in older \cup {socket} : s.up

\* The node knows who the primary is, and has a socket to it.
Follows == current = primary /\ (current = Here \/ HasSocket)

\* "Follows the primary as it moves." (PrimaryConnection.ts:17)
FollowsThePrimary == <>[]Follows

\* It does, unless reads of the file overtook each other or a primary returned.
FollowsUnlessExcused == <>[](Follows \/ excused \cap {"overtaken", "returned"} # {})

\* Once there is nothing of the .primary file left to read and no timer is set, it does,
\* unless it is excused: no order of file events, lost connections and timers leaves it
\* with a primary of before, or without a socket (PrimaryConnection.ts:142-213).
FollowsAtRest ==
  ~fileNews /\ reads = <<>> /\ ~reconnecting =>
    Follows \/ excused \cap {"overtaken", "returned"} # {}

\* Whoever waits for the primary is told in the end, unless the message was
\* swallowed (PrimarySocket.ts:157-169, 189-207).
RequestsSettle ==
  /\ \A w \in Write : outcome[w] = "pending" ~> (outcome[w] # "pending" \/ "swallowed" \in excused)
  /\ db.status = "asking" ~> (db.status # "asking" \/ "swallowed" \in excused)

\* Whoever waits has a request or its answer on the open socket, or that socket is gone at
\* the other end and will be lost here, or a message was swallowed: nobody's promise is left
\* on a socket that was replaced (PrimarySocket.ts:157-169, 189-207).
WaitersAreCarried ==
  \A of \in Write \cup {CreateDb} :
    (IF of = CreateDb THEN db.status = "asking" ELSE outcome[of] = "pending") =>
      /\ HasSocket
      /\ \/ Contains(socket.requests, of)
         \/ \E i \in DOMAIN socket.answers : socket.answers[i].of = of
         \/ ~socket.up \/ "swallowed" \in excused

\* "it will wait for the leader to create the DB" (LiteFSDBFactory.ts:13)
WaitsForTheRoom == db.status # "missing"
=============================================================================
