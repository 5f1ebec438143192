----------------------------- MODULE LiteFSProofs -----------------------------
(***************************************************************************)
(* Theorems about the LiteFS front for any peers, writes, moves and        *)
(* faults.                                                                 *)
(*                                                                         *)
(* What connects the two ends is the one socket that may be open: its      *)
(* requests and its answers name, in order and once, what this node waits  *)
(* for.  WritesOK says so, and what of it has committed; RoomOK and        *)
(* SteadyOK are about the schema of the room, RestOK about what the node   *)
(* will have read of the .primary file, AskedOK about the request for the  *)
(* room.  Each has one lemma for each kind of step.                        *)
(***************************************************************************)
EXTENDS LiteFS, SequenceTheorems, TLAPS

-----------------------------------------------------------------------------
\* Lemmas about sequences.

LEMMA RemovedFrom ==
  ASSUME NEW S, NEW s \in Seq(S), NEW i \in DOMAIN s
  PROVE  RemoveAt(s, i) \in Seq(S)
  <1>1. i \in 1 .. Len(s) /\ Len(s) \in Nat
    BY LenProperties
  <1>2. SubSeq(s, 1, i - 1) \in Seq(S)
    BY <1>1, \A j \in 1 .. i - 1 : s[j] \in S, SubSeqProperties
  <1>3. SubSeq(s, i + 1, Len(s)) \in Seq(S)
    BY <1>1, \A j \in i + 1 .. Len(s) : s[j] \in S, SubSeqProperties
  <1> QED BY <1>2, <1>3, ConcatProperties DEF RemoveAt

LEMMA Beginning ==
  ASSUME NEW S, NEW s \in Seq(S), NEW n \in 0 .. Len(s)
  PROVE  /\ SubSeq(s, 1, n) \in Seq(S) /\ Len(SubSeq(s, 1, n)) = n
         /\ \A i \in 1 .. n : SubSeq(s, 1, n)[i] = s[i]
  <1>1. Len(s) \in Nat
    BY LenProperties
  <1>2. \A j \in 1 .. n : s[j] \in S
    BY <1>1
  <1> QED BY <1>1, <1>2, SubSeqProperties

-----------------------------------------------------------------------------
\* What becomes of the record of a socket.

LEMMA NewSocketIs ==
  ASSUME NEW peer \in Node
  PROVE  /\ NewSocket(peer) \in Socket
         /\ NewSocket(peer).to = peer /\ ~NewSocket(peer).closed /\ NewSocket(peer).up
         /\ NewSocket(peer).room = "unknown"
         /\ NewSocket(peer).requests = <<>> /\ NewSocket(peer).answers = <<>>
  BY DEF NewSocket, Socket

LEMMA NoSocketIs ==
  /\ NoSocket \in Socket
  /\ NoSocket.to = Here /\ NoSocket.closed /\ NoSocket.up
  /\ NoSocket.room = "unknown" /\ NoSocket.requests = <<>> /\ NoSocket.answers = <<>>
  <1>1. Here \in Node
    BY DEF Node
  <1> QED BY <1>1, NewSocketIs DEF NoSocket, Socket

LEMMA ClosedIs ==
  ASSUME NEW s \in Socket
  PROVE  /\ Closed(s) \in Socket
         /\ Closed(s).to = s.to /\ Closed(s).closed = TRUE /\ Closed(s).room = s.room
         /\ Closed(s).requests = s.requests /\ Closed(s).answers = <<>>
  <1> DEFINE up == s.up /\ s.requests # <<>>
  <1>1. up \in BOOLEAN
    BY DEF Socket
  <1>2. Closed(s) = [s EXCEPT !.closed = TRUE, !.answers = <<>>, !.up = up]
    BY DEF Closed
  <1>3. <<>> \in Seq([of : 0 .. MaxWrites, ok : BOOLEAN, txid : Nat])
    OBVIOUS
  <1> DEFINE t == Closed(s)
  <1> HIDE DEF up, t
  <1>4. /\ t \in Socket /\ t.to = s.to /\ t.closed = TRUE /\ t.room = s.room
        /\ t.requests = s.requests /\ t.answers = <<>>
    BY <1>1, <1>2, <1>3 DEF Socket, t
  <1> QED BY <1>4 DEF t

\* The sender's end: a request more, or an answer less.
LEMMA SentIs ==
  ASSUME NEW s \in Socket, NEW request \in 0 .. MaxWrites, NEW t,
         t = [s EXCEPT !.requests = Append(@, request)]
  PROVE  /\ t \in Socket
         /\ t.to = s.to /\ t.closed = s.closed /\ t.up = s.up /\ t.room = s.room
         /\ t.requests = Append(s.requests, request) /\ t.answers = s.answers
  <1> DEFINE requests == Append(s.requests, request)
  <1>1. requests \in Seq(0 .. MaxWrites)
    BY AppendProperties DEF Socket
  <1>2. t = [s EXCEPT !.requests = requests]
    OBVIOUS
  <1> HIDE DEF requests
  <1>3. /\ t \in Socket
        /\ t.to = s.to /\ t.closed = s.closed /\ t.up = s.up /\ t.room = s.room
        /\ t.requests = requests /\ t.answers = s.answers
    BY <1>1, <1>2 DEF Socket
  <1> QED BY <1>3 DEF requests

LEMMA ReadIs ==
  ASSUME NEW s \in Socket, s.answers # <<>>, NEW t, t = [s EXCEPT !.answers = Tail(@)]
  PROVE  /\ t \in Socket
         /\ t.to = s.to /\ t.closed = s.closed /\ t.up = s.up /\ t.room = s.room
         /\ t.requests = s.requests /\ t.answers = Tail(s.answers)
         /\ Head(s.answers) \in [of : 0 .. MaxWrites, ok : BOOLEAN, txid : Nat]
  <1> DEFINE answers == Tail(s.answers)
  <1>1. answers \in Seq([of : 0 .. MaxWrites, ok : BOOLEAN, txid : Nat])
        /\ Head(s.answers) \in [of : 0 .. MaxWrites, ok : BOOLEAN, txid : Nat]
    BY HeadTailProperties DEF Socket
  <1>2. t = [s EXCEPT !.answers = answers]
    OBVIOUS
  <1> HIDE DEF answers
  <1>3. /\ t \in Socket
        /\ t.to = s.to /\ t.closed = s.closed /\ t.up = s.up /\ t.room = s.room
        /\ t.requests = s.requests /\ t.answers = answers
    BY <1>1, <1>2 DEF Socket
  <1> QED BY <1>1, <1>3 DEF answers

\* The peer's end: a request less, and perhaps an answer more.
LEMMA DroppedIs ==
  ASSUME NEW s \in Socket, s.requests # <<>>, NEW t, t = [s EXCEPT !.requests = Tail(@)]
  PROVE  /\ t \in Socket
         /\ t.to = s.to /\ t.closed = s.closed /\ t.up = s.up /\ t.room = s.room
         /\ t.requests = Tail(s.requests) /\ t.answers = s.answers
  <1> DEFINE requests == Tail(s.requests)
  <1>1. requests \in Seq(0 .. MaxWrites)
    BY HeadTailProperties DEF Socket
  <1>2. t = [s EXCEPT !.requests = requests]
    OBVIOUS
  <1> HIDE DEF requests
  <1>3. /\ t \in Socket
        /\ t.to = s.to /\ t.closed = s.closed /\ t.up = s.up /\ t.room = s.room
        /\ t.requests = requests /\ t.answers = s.answers
    BY <1>1, <1>2 DEF Socket
  <1> QED BY <1>3 DEF requests

LEMMA ReplyIs ==
  ASSUME NEW s \in Socket, s.requests # <<>>, NEW status \in {"ready", "broken"},
         NEW of \in 0 .. MaxWrites, NEW ok \in BOOLEAN, NEW txid \in Nat
  PROVE  LET t == Reply(s, status, of, ok, txid)
             answer == [of |-> of, ok |-> ok, txid |-> txid]
         IN  /\ t \in Socket
             /\ t.to = s.to /\ t.closed = s.closed /\ t.up = s.up /\ t.room = status
             /\ t.requests = Tail(s.requests)
             /\ t.answers = IF s.closed THEN s.answers ELSE Append(s.answers, answer)
             /\ answer.of = of /\ answer.ok = ok /\ answer.txid = txid
             /\ answer \in [of : 0 .. MaxWrites, ok : BOOLEAN, txid : Nat]
  <1> DEFINE requests == Tail(s.requests)
             answer == [of |-> of, ok |-> ok, txid |-> txid]
             answers == IF s.closed THEN s.answers ELSE Append(s.answers, answer)
             t == Reply(s, status, of, ok, txid)
  <1>1. requests \in Seq(0 .. MaxWrites)
    BY HeadTailProperties DEF Socket
  <1>2. /\ answer \in [of : 0 .. MaxWrites, ok : BOOLEAN, txid : Nat]
        /\ answer.of = of /\ answer.ok = ok /\ answer.txid = txid
    OBVIOUS
  <1> HIDE DEF answer
  <1>3. answers \in Seq([of : 0 .. MaxWrites, ok : BOOLEAN, txid : Nat])
    BY <1>2, AppendProperties DEF Socket
  <1>4. t = [s EXCEPT !.requests = requests, !.room = status, !.answers = answers]
    BY DEF Reply, answer
  <1>5. /\ t \in Socket
        /\ t.to = s.to /\ t.closed = s.closed /\ t.up = s.up /\ t.room = status
        /\ t.requests = requests /\ t.answers = answers
    <2> HIDE DEF requests, answers, t
    <2> QED BY <1>1, <1>3, <1>4 DEF Socket
  <1> QED BY <1>2, <1>5 DEF answer

LEMMA DeadIs ==
  ASSUME NEW s \in Socket, NEW t, t = [s EXCEPT !.up = FALSE, !.requests = <<>>]
  PROVE  /\ t \in Socket
         /\ t.to = s.to /\ t.closed = s.closed /\ t.up = FALSE /\ t.room = s.room
         /\ t.requests = <<>> /\ t.answers = s.answers
  <1>1. <<>> \in Seq(0 .. MaxWrites)
    OBVIOUS
  <1> QED BY <1>1 DEF Socket

-----------------------------------------------------------------------------
\* Types.

LEMMA SocketsTyped ==
  ASSUME TypeOK
  PROVE  /\ socket \in Socket /\ older \subseteq Socket
         /\ socket.requests \in Seq(0 .. MaxWrites)
         /\ socket.answers \in Seq([of : 0 .. MaxWrites, ok : BOOLEAN, txid : Nat])
         /\ socket.to \in Node
         /\ \A s \in older : s.requests \in Seq(0 .. MaxWrites) /\ s.to \in Node
  BY DEF TypeOK, Socket

LEMMA RejectTyped ==
  ASSUME TypeOK, RejectPending
  PROVE  /\ outcome' \in [Write -> {"todo", "pending", "ok", "failed"}]
         /\ db' \in [status : {"none", "asking", "waiting", "open", "missing", "refused"}, txid : Nat]
  BY DEF TypeOK, RejectPending

LEMMA OpenedTyped ==
  ASSUME NEW transactions
  PROVE  Opened(transactions)
           \in [status : {"none", "asking", "waiting", "open", "missing", "refused"}, txid : Nat]
  BY DEF Opened

LEMMA ReplacedTyped ==
  ASSUME TypeOK, NEW s \in Socket, NEW peer \in Node, Replaced(s, peer)
  PROVE  older' \cup {socket'} \subseteq Socket
  BY NewSocketIs DEF TypeOK, Replaced, Carrying

LEMMA TransactTyped ==
  ASSUME TypeOK, NEW kind \in {"schema", "write"}, Transact(kind)
  PROVE  /\ log' \in Seq({"old", "schema", "write"}) /\ pos' \in 0 .. Len(log')
         /\ Len(log') = Len(log) + 1
  <1>1. log \in Seq({"old", "schema", "write"}) /\ pos \in 0 .. Len(log) /\ Len(log) \in Nat
    BY LenProperties DEF TypeOK
  <1> QED BY <1>1, AppendProperties DEF Transact

LEMMA BecomesTyped ==
  ASSUME TypeOK, NEW s, NEW t \in Socket, Becomes(s, t)
  PROVE  older' \cup {socket'} \subseteq Socket
  BY DEF TypeOK, Becomes, Carrying

LEMMA TypeInit == Init => TypeOK
  <1> SUFFICES ASSUME Init PROVE TypeOK
    OBVIOUS
  <1>1. primary \in Node /\ current \in Node
    BY ConstantsAssumption DEF Init, Node
  <1>2. older \cup {socket} \subseteq Socket
    BY <1>1, NoSocketIs, NewSocketIs DEF Init
  <1>3. reads \in Seq(Node) /\ committed \in Seq(Write) /\ log \in Seq({"old", "schema", "write"})
    BY DEF Init
  <1>4. pos \in 0 .. Len(log)
    BY DEF Init
  <1>5. outcome \in [Write -> {"todo", "pending", "ok", "failed"}]
    BY DEF Init
  <1>6. moves \in 0 .. MaxMoves /\ faults \in 0 .. MaxFaults
    BY ConstantsAssumption DEF Init
  <1> QED BY <1>1, <1>2, <1>3, <1>4, <1>5, <1>6 DEF Init, TypeOK, Excuse

LEMMA TypeLitefs == TypeOK /\ (MovePrimary \/ Replicate) => TypeOK'
  <1> SUFFICES ASSUME TypeOK PROVE (MovePrimary \/ Replicate) => TypeOK'
    OBVIOUS
  <1>0. log \in Seq({"old", "schema", "write"}) /\ pos \in 0 .. Len(log) /\ Len(log) \in Nat
    BY LenProperties DEF TypeOK
  <1>1. ASSUME MovePrimary PROVE TypeOK'
    <2>1. PICK n \in Node \ {primary}, kept \in 0 .. Len(log) :
            /\ n = Here => kept = pos
            /\ primary' = n
            /\ log' = SubSeq(log, 1, kept)
            /\ pos' = IF pos <= kept THEN pos ELSE kept
      BY <1>1 DEF MovePrimary
    <2>2. log' \in Seq({"old", "schema", "write"}) /\ Len(log') = kept
      BY <1>0, <2>1, Beginning
    <2>3. pos' \in 0 .. Len(log') /\ primary' \in Node
      BY <1>0, <2>1, <2>2
    <2>4. moves' \in 0 .. MaxMoves
      BY <1>1, ConstantsAssumption DEF MovePrimary, TypeOK
    <2> QED BY <1>1, <2>2, <2>3, <2>4 DEF MovePrimary, TypeOK, room
  <1>2. ASSUME Replicate PROVE TypeOK'
    <2>1. pos' \in 0 .. Len(log') /\ log' = log /\ posNews' \in BOOLEAN
      BY <1>0, <1>2 DEF Replicate
    <2> QED BY <1>2, <2>1 DEF Replicate, TypeOK, connection, history
  <1> QED BY <1>1, <1>2

LEMMA TypeFollow == TypeOK /\ Follow => TypeOK'
  <1> SUFFICES ASSUME TypeOK PROVE Follow => TypeOK'
    OBVIOUS
  <1> USE DEF litefs, room, history
  <1>1. ASSUME ReadPrimaryFile PROVE TypeOK'
    <2>1. reads' \in Seq(Node)
      BY <1>1, AppendProperties DEF ReadPrimaryFile, TypeOK
    <2> QED BY <1>1, <2>1 DEF ReadPrimaryFile, TypeOK
  <1>2. ASSUME PrimaryFileRead PROVE TypeOK'
    <2>1. PICK i \in DOMAIN reads :
            /\ reads' = RemoveAt(reads, i)
            /\ current' = reads[i]
            /\ excused' \subseteq excused \cup {"overtaken", "returned"}
            /\ IF current' = socket.to THEN UNCHANGED <<socket, older, db, outcome>>
               ELSE /\ RejectPending
                    /\ IF current' # Here /\ ~reconnecting THEN Replaced(Closed(socket), current')
                       ELSE socket' = Closed(socket) /\ UNCHANGED older
      BY <1>2 DEF PrimaryFileRead
    <2>2. UNCHANGED <<litefs, fileNews, reconnecting, posNews, committed, moves, faults>>
      BY <1>2 DEF PrimaryFileRead
    <2>3. reads \in Seq(Node) /\ socket \in Socket
      BY DEF TypeOK
    <2>4. reads' \in Seq(Node) /\ current' \in Node
      BY <2>1, <2>3, RemovedFrom, LenProperties
    <2>5. excused' \subseteq Excuse
      BY <2>1 DEF TypeOK, Excuse
    <2>6. /\ outcome' \in [Write -> {"todo", "pending", "ok", "failed"}]
          /\ db' \in [status : {"none", "asking", "waiting", "open", "missing", "refused"}, txid : Nat]
      BY <2>1, RejectTyped DEF TypeOK
    <2>7. older' \cup {socket'} \subseteq Socket
      <3>1. CASE Replaced(Closed(socket), current')
        BY <2>3, <2>4, <3>1, ClosedIs, ReplacedTyped
      <3>2. CASE older' = older /\ (socket' = socket \/ socket' = Closed(socket))
        <4>1. Closed(socket) \in Socket
          BY <2>3, ClosedIs
        <4> QED BY <3>2, <4>1 DEF TypeOK
      <3> QED BY <2>1, <3>1, <3>2
    <2> QED BY <2>2, <2>4, <2>5, <2>6, <2>7 DEF TypeOK
  <1>3. ASSUME SocketLost PROVE TypeOK'
    <2>1. older' \cup {socket'} \subseteq Socket
      BY <1>3, ClosedIs DEF SocketLost, TypeOK
    <2>2. /\ outcome' \in [Write -> {"todo", "pending", "ok", "failed"}]
          /\ db' \in [status : {"none", "asking", "waiting", "open", "missing", "refused"}, txid : Nat]
      BY <1>3, RejectTyped DEF SocketLost
    <2>3. faults' \in 0 .. MaxFaults
      BY <1>3, ConstantsAssumption DEF SocketLost, TypeOK
    <2> QED BY <1>3, <2>1, <2>2, <2>3 DEF SocketLost, TypeOK
  <1>4. ASSUME Reconnect PROVE TypeOK'
    <2>1. older' \cup {socket'} \subseteq Socket
      BY <1>4, ReplacedTyped DEF Reconnect, TypeOK
    <2> QED BY <1>4, <2>1 DEF Reconnect, TypeOK
  <1> QED BY <1>1, <1>2, <1>3, <1>4 DEF Follow

LEMMA SendTyped ==
  ASSUME TypeOK, NEW request \in 0 .. MaxWrites, Send(request)
  PROVE  older' \cup {socket'} \subseteq Socket
  BY SentIs DEF TypeOK, Send

LEMMA TypeUseRoom == TypeOK /\ UseRoom => TypeOK'
  <1> SUFFICES ASSUME TypeOK PROVE UseRoom => TypeOK'
    OBVIOUS
  <1> USE DEF litefs, connection, room, history
  <1>0. MaxWrites \in Nat /\ CreateDb \in 0 .. MaxWrites
    BY ConstantsAssumption DEF CreateDb
  <1>1. ASSUME CreateHere PROVE TypeOK'
    <2>1. log' \in Seq({"old", "schema", "write"}) /\ pos' \in 0 .. Len(log')
      BY <1>1, TransactTyped DEF CreateHere, TypeOK
    <2>2. db' \in [status : {"none", "asking", "waiting", "open", "missing", "refused"}, txid : Nat]
      BY <1>1, OpenedTyped DEF CreateHere
    <2> QED BY <1>1, <2>1, <2>2 DEF CreateHere, TypeOK
  <1>2. ASSUME AskForDb PROVE TypeOK'
    <2>1. older' \cup {socket'} \subseteq Socket
      BY <1>0, <1>2, SendTyped DEF AskForDb
    <2>2. db' \in [status : {"none", "asking", "waiting", "open", "missing", "refused"}, txid : Nat]
      BY <1>2 DEF AskForDb
    <2> QED BY <1>2, <2>1, <2>2 DEF AskForDb, TypeOK
  <1>3. ASSUME CatchUp PROVE TypeOK'
    <2>1. db' \in [status : {"none", "asking", "waiting", "open", "missing", "refused"}, txid : Nat]
      BY <1>3, OpenedTyped DEF CatchUp, TypeOK
    <2> QED BY <1>3, <2>1 DEF CatchUp, TypeOK
  <1>4. ASSUME Answered PROVE TypeOK'
    <2>1. /\ socket' \in Socket
          /\ Head(socket.answers) \in [of : 0 .. MaxWrites, ok : BOOLEAN, txid : Nat]
      BY <1>4, ReadIs DEF Answered, TypeOK
    <2>2. Head(socket.answers).of # CreateDb => Head(socket.answers).of \in Write
      BY <1>0, <2>1 DEF CreateDb, Write
    <2> DEFINE answer == Head(socket.answers)
    <2>3. /\ outcome' \in [Write -> {"todo", "pending", "ok", "failed"}]
          /\ db' \in [status : {"none", "asking", "waiting", "open", "missing", "refused"}, txid : Nat]
          /\ posNews' \in BOOLEAN
      <3>1. CASE answer.of = CreateDb
        <4>1. /\ outcome' = outcome /\ posNews' = answer.ok
              /\ db' = IF answer.ok THEN [status |-> "waiting", txid |-> answer.txid]
                       ELSE [status |-> "none", txid |-> 0]
          BY <1>4, <3>1 DEF Answered
        <4>2. answer.ok \in BOOLEAN /\ answer.txid \in Nat
          BY <2>1
        <4> HIDE DEF answer
        <4> QED BY <4>1, <4>2 DEF TypeOK
      <3>2. CASE answer.of # CreateDb
        <4>1. outcome' = [outcome EXCEPT ![answer.of] = "ok"] /\ UNCHANGED <<db, posNews>>
          BY <1>4, <3>2 DEF Answered
        <4> HIDE DEF answer
        <4> QED BY <4>1 DEF TypeOK
      <3> QED BY <3>1, <3>2
    <2> QED BY <1>4, <2>1, <2>3 DEF Answered, TypeOK
  <1>5. ASSUME NEW w \in Write, ApplyHere(w) PROVE TypeOK'
    <2>1. log' \in Seq({"old", "schema", "write"}) /\ pos' \in 0 .. Len(log')
      BY <1>5, TransactTyped DEF ApplyHere, TypeOK
    <2>2. committed' \in Seq(Write)
      <3>1. committed' = committed \/ committed' = Append(committed, w)
        BY <1>5 DEF ApplyHere
      <3>2. committed \in Seq(Write)
        BY DEF TypeOK
      <3>3. Append(committed, w) \in Seq(Write)
        BY <3>2, AppendProperties
      <3> QED BY <3>1, <3>2, <3>3
    <2>3. outcome' \in [Write -> {"todo", "pending", "ok", "failed"}]
      BY <1>5 DEF ApplyHere, TypeOK
    <2> QED BY <1>5, <2>1, <2>2, <2>3 DEF ApplyHere, TypeOK
  <1>6. ASSUME NEW w \in Write, Forward(w) PROVE TypeOK'
    <2>1. w \in 0 .. MaxWrites
      BY <1>0 DEF Write
    <2>2. older' \cup {socket'} \subseteq Socket
      BY <1>6, <2>1, SendTyped DEF Forward
    <2>3. outcome' \in [Write -> {"todo", "pending", "ok", "failed"}]
      BY <1>6 DEF Forward, TypeOK
    <2> QED BY <1>6, <2>2, <2>3 DEF Forward, TypeOK
  <1> QED BY <1>1, <1>2, <1>3, <1>4, <1>5, <1>6 DEF UseRoom

LEMMA TypeServe ==
  TypeOK /\ (\E s \in older \cup {socket} : Serve(s) \/ Swallowed(s)) => TypeOK'
  <1> SUFFICES ASSUME TypeOK, NEW s \in older \cup {socket}, Serve(s) \/ Swallowed(s) PROVE TypeOK'
    OBVIOUS
  <1> USE DEF litefs, connection, room, history
  <1>0. /\ MaxWrites \in Nat /\ CreateDb \in 0 .. MaxWrites /\ s \in Socket
        /\ log \in Seq({"old", "schema", "write"}) /\ pos \in 0 .. Len(log)
    BY ConstantsAssumption DEF CreateDb, TypeOK
  <1>1. ASSUME ServeCreate(s) PROVE TypeOK'
    <2>1. log' \in Seq({"old", "schema", "write"}) /\ pos' \in 0 .. Len(log') /\ Len(log') \in Nat
      BY <1>0, <1>1, TransactTyped, LenProperties DEF ServeCreate
    <2>2. s.requests # <<>>
      BY <1>1 DEF ServeCreate, Requested
    <2>3. /\ Reply(s, "ready", CreateDb, TRUE, Len(log')) \in Socket
          /\ Reply(s, "broken", CreateDb, FALSE, 0) \in Socket
      BY <1>0, <2>1, <2>2, ReplyIs
    <2>4. older' \cup {socket'} \subseteq Socket
      BY <1>1, <2>3, BecomesTyped DEF ServeCreate
    <2> QED BY <1>1, <2>1, <2>4 DEF ServeCreate, TypeOK
  <1>2. ASSUME ServeApply(s) PROVE TypeOK'
    <2>1. PICK w \in Write :
            /\ Requested(s, w)
            /\ Transact("write")
            /\ committed' = Append(committed, w)
            /\ Becomes(s, Reply(s, "ready", w, TRUE, 0))
      BY <1>2 DEF ServeApply
    <2>2. log' \in Seq({"old", "schema", "write"}) /\ pos' \in 0 .. Len(log')
      BY <2>1, TransactTyped
    <2>3. Reply(s, "ready", w, TRUE, 0) \in Socket
      <3>1. s.requests # <<>> /\ w \in 0 .. MaxWrites
        BY <1>0, <2>1 DEF Requested, Write
      <3> QED BY <1>0, <3>1, ReplyIs
    <2>4. older' \cup {socket'} \subseteq Socket
      BY <2>1, <2>3, BecomesTyped
    <2>5. committed' \in Seq(Write)
      BY <2>1, AppendProperties DEF TypeOK
    <2> QED BY <1>2, <2>2, <2>4, <2>5 DEF ServeApply, TypeOK
  <1>3. ASSUME ServeThrows(s) PROVE TypeOK'
    <2>1. socket' \in Socket /\ older' \subseteq Socket
      BY <1>3, DeadIs DEF ServeThrows, TypeOK
    <2> QED BY <1>3, <2>1 DEF ServeThrows, TypeOK
  <1>4. ASSUME Swallowed(s) PROVE TypeOK'
    <2>1. older' \cup {socket'} \subseteq Socket
      <3>1. CASE s.requests # <<>> /\ Becomes(s, [s EXCEPT !.requests = Tail(@)])
        BY <1>0, <3>1, DroppedIs, BecomesTyped
      <3>2. CASE s.answers # <<>> /\ socket' = [s EXCEPT !.answers = Tail(@)] /\ UNCHANGED older
        BY <1>0, <3>2, ReadIs DEF TypeOK
      <3> QED BY <1>4, <3>1, <3>2 DEF Swallowed
    <2>2. faults' \in 0 .. MaxFaults
      BY <1>4, ConstantsAssumption DEF Swallowed, TypeOK
    <2> QED BY <1>4, <2>1, <2>2 DEF Swallowed, TypeOK, Excuse
  <1> QED BY <1>1, <1>2, <1>3, <1>4 DEF Serve

LEMMA TypeStep == TypeOK /\ [Next]_vars => TypeOK'
  <1> SUFFICES ASSUME TypeOK, [Next]_vars PROVE TypeOK'
    OBVIOUS
  <1>1. CASE UNCHANGED vars
    BY <1>1 DEF vars, litefs, connection, room, history, TypeOK
  <1> QED BY <1>1, TypeLitefs, TypeFollow, TypeUseRoom, TypeServe DEF Next

(***************************************************************************)
(* Every variable keeps its type, whatever LiteFS moves and loses.         *)
(***************************************************************************)
THEOREM TypeCorrect == Spec => []TypeOK
  BY TypeInit, TypeStep, PTL DEF Spec

-----------------------------------------------------------------------------
\* The inductive invariants.

\* Only the last socket may be open, and only while the node follows another.
LinkOK ==
  /\ \A s \in older : s.closed
  /\ HasSocket => socket.to = current /\ current # Here /\ ~reconnecting
  /\ current # Here \/ reconnecting => socket.to # Here

\* What the open socket carries, by the names of the requests.
Names(requests) == {requests[i] : i \in DOMAIN requests}
Answers(answers) == {answers[i].of : i \in DOMAIN answers}
Asked == Names(socket.requests)
Replied == Answers(socket.answers)

\* A request is on the way once, and the writes are in order.
InOrder(requests) ==
  \A i, j \in DOMAIN requests : i < j =>
    /\ requests[i] # requests[j]
    /\ requests[i] \in Write /\ requests[j] \in Write => requests[i] < requests[j]

Once(answers) == \A i, j \in DOMAIN answers : i < j => answers[i].of # answers[j].of

Awaited(name) == IF name = CreateDb THEN db.status = "asking" ELSE outcome[name] = "pending"

\* The primary has applied the write, as far as this node will know.
Done(w) == outcome[w] = "ok" \/ w \in Replied

\* What the open socket carries is awaited, and the writes it carries come
\* after all that were applied.
QueueOK ==
  HasSocket =>
    /\ InOrder(socket.requests) /\ Once(socket.answers) /\ Asked \cap Replied = {}
    /\ \A name \in Asked \cup Replied : Awaited(name)
    /\ \A w \in Asked \cap Write : \A v \in Write : Done(v) => v < w

\* A socket that is closed has no answers.
ClosedOK == ~HasSocket => Replied = {}

\* Writes come in order.
TodoOK == \A v, w \in Write : v < w /\ outcome[v] = "todo" => outcome[w] = "todo"

\* What is awaited is on the open socket; what the others carry was given up
\* before any of it was sent.
PendingOK ==
  /\ \A v \in Write : outcome[v] = "pending" =>
       /\ HasSocket
       /\ v \in Asked \cup Replied \/ ~socket.up \/ "swallowed" \in excused
  /\ \A s \in older \cup {socket} : s.closed =>
       \A w \in Names(s.requests) \cap Write :
         outcome[w] # "todo" /\ \A v \in Write : outcome[v] = "pending" => w < v

\* The write w committed, and before it every earlier one that was applied.
Settled(w) ==
  \E i \in DOMAIN committed :
    /\ committed[i] = w
    /\ \A v \in Write : v < w /\ Done(v) => \E j \in DOMAIN committed : j < i /\ committed[j] = v

CommittedOK == \A w \in Write : Done(w) => Settled(w)

\* The first n of the transactions hold the schema.
SchemaIn(transactions, n) == \E i \in DOMAIN transactions : i <= n /\ transactions[i] = "schema"

\* Until the primary moves, whatever this node was told to wait for is enough.
RoomOK ==
  /\ primary = Here => pos = Len(log)
  /\ moves = 0 =>
       /\ \A i \in DOMAIN reads : reads[i] = primary
       /\ current = primary
       /\ db.status # "refused"
       /\ db.status = "waiting" => SchemaIn(log, db.txid)
       /\ \A i \in DOMAIN socket.answers :
            socket.answers[i].of = CreateDb /\ socket.answers[i].ok => SchemaIn(log, socket.answers[i].txid)

\* Until something fails, the primary has made the room before it is sent writes.
SteadyOK ==
  moves = 0 /\ faults = 0 =>
    /\ older = {} /\ socket.up /\ ~reconnecting
    /\ socket.to = primary /\ (socket.closed => primary = Here /\ socket.requests = <<>>)
    /\ socket.room # "broken" /\ (socket.room = "ready" => HasSchema(log))
    /\ primary # Here /\ db.status \in {"waiting", "open"} => socket.room = "ready"
    /\ \A i \in DOMAIN socket.answers :
         socket.answers[i].of = CreateDb /\ socket.answers[i].ok => socket.room = "ready"
    /\ \A i \in DOMAIN socket.requests : socket.requests[i] # CreateDb => socket.room = "ready"

-----------------------------------------------------------------------------
\* Lemmas about what a socket carries.

LEMMA NamesOf ==
  ASSUME NEW S, NEW q \in Seq(S)
  PROVE  /\ Names(q) \subseteq S /\ Names(<<>>) = {}
         /\ \A x \in S : Names(Append(q, x)) = Names(q) \cup {x}
         /\ q # <<>> => Names(q) = Names(Tail(q)) \cup {Head(q)}
  <1>0. Len(q) \in Nat /\ DOMAIN q = 1 .. Len(q)
    BY LenProperties
  <1>1. Names(q) \subseteq S /\ Names(<<>>) = {}
    BY <1>0 DEF Names
  <1>2. ASSUME NEW x \in S PROVE Names(Append(q, x)) = Names(q) \cup {x}
    <2> DEFINE r == Append(q, x)
    <2>1. /\ DOMAIN r = 1 .. Len(q) + 1 /\ r[Len(q) + 1] = x
          /\ \A i \in 1 .. Len(q) : r[i] = q[i]
      BY AppendProperties, LenProperties
    <2> HIDE DEF r
    <2>2. Names(r) \subseteq Names(q) \cup {x}
      BY <1>0, <2>1 DEF Names
    <2>3. Names(q) \subseteq Names(r) /\ x \in Names(r)
      BY <1>0, <2>1 DEF Names
    <2> QED BY <2>2, <2>3 DEF r
  <1>3. ASSUME q # <<>> PROVE Names(q) = Names(Tail(q)) \cup {Head(q)}
    <2> DEFINE r == Tail(q)
    <2>1. /\ Len(q) # 0 /\ DOMAIN r = 1 .. Len(q) - 1 /\ Head(q) = q[1]
          /\ \A i \in 1 .. Len(q) - 1 : r[i] = q[i + 1]
      BY <1>3, HeadTailProperties, EmptySeq, LenProperties
    <2> HIDE DEF r
    <2>2. Names(r) \cup {Head(q)} \subseteq Names(q)
      BY <1>0, <2>1 DEF Names
    <2>3. ASSUME NEW i \in DOMAIN q PROVE q[i] \in Names(r) \cup {Head(q)}
      <3>1. i # 1 => i - 1 \in DOMAIN r /\ r[i - 1] = q[i]
        BY <1>0, <2>1
      <3> QED BY <2>1, <3>1 DEF Names
    <2> QED BY <2>2, <2>3 DEF Names, r
  <1> QED BY <1>1, <1>2, <1>3

LEMMA InOrderAppended ==
  ASSUME NEW q \in Seq(0 .. MaxWrites), NEW x \in 0 .. MaxWrites, InOrder(q), x \notin Names(q),
         x \in Write => \A w \in Names(q) \cap Write : w < x
  PROVE  InOrder(Append(q, x))
  <1> DEFINE r == Append(q, x)
  <1>1. /\ Len(q) \in Nat /\ DOMAIN q = 1 .. Len(q) /\ DOMAIN r = 1 .. Len(q) + 1 /\ r[Len(q) + 1] = x
        /\ \A i \in 1 .. Len(q) : r[i] = q[i]
    BY AppendProperties, LenProperties
  <1> HIDE DEF r
  <1>2. ASSUME NEW i \in DOMAIN r, NEW j \in DOMAIN r, i < j
        PROVE  /\ r[i] # r[j]
               /\ r[i] \in Write /\ r[j] \in Write => r[i] < r[j]
    <2>1. i \in DOMAIN q /\ r[i] = q[i]
      BY <1>1, <1>2
    <2>2. CASE j \in DOMAIN q
      BY <1>1, <1>2, <2>1, <2>2 DEF InOrder
    <2>3. CASE j = Len(q) + 1
      BY <1>1, <2>1, <2>3 DEF Names
    <2> QED BY <1>1, <2>2, <2>3
  <1> QED BY <1>2 DEF InOrder, r

LEMMA InOrderRest ==
  ASSUME NEW q \in Seq(0 .. MaxWrites), q # <<>>, InOrder(q)
  PROVE  /\ InOrder(Tail(q)) /\ Head(q) \notin Names(Tail(q))
         /\ Head(q) \in Write => \A w \in Names(Tail(q)) \cap Write : Head(q) < w
  <1> DEFINE r == Tail(q)
  <1>1. /\ Len(q) \in Nat /\ Len(q) # 0 /\ DOMAIN q = 1 .. Len(q) /\ DOMAIN r = 1 .. Len(q) - 1
        /\ Head(q) = q[1] /\ \A i \in 1 .. Len(q) - 1 : r[i] = q[i + 1]
    BY HeadTailProperties, EmptySeq, LenProperties
  <1> HIDE DEF r
  <1>2. \A i, j \in DOMAIN r : i < j => i + 1 \in DOMAIN q /\ j + 1 \in DOMAIN q /\ i + 1 < j + 1
    BY <1>1
  <1>3. InOrder(r)
    BY <1>1, <1>2 DEF InOrder
  <1>4. \A j \in DOMAIN r : /\ q[1] # r[j]
                            /\ q[1] \in Write /\ r[j] \in Write => q[1] < r[j]
    <2>1. \A j \in DOMAIN r : j + 1 \in DOMAIN q /\ 1 \in DOMAIN q /\ 1 < j + 1 /\ r[j] = q[j + 1]
      BY <1>1
    <2> QED BY <2>1 DEF InOrder
  <1> QED BY <1>1, <1>3, <1>4 DEF Names, r

\* An answer of the primary.
Answer == [of : 0 .. MaxWrites, ok : BOOLEAN, txid : Nat]

LEMMA AnswersAppended ==
  ASSUME NEW q \in Seq(Answer), NEW x \in Answer
  PROVE  /\ Answers(Append(q, x)) = Answers(q) \cup {x.of}
         /\ Once(q) /\ x.of \notin Answers(q) => Once(Append(q, x))
  <1> DEFINE r == Append(q, x)
  <1>1. /\ Len(q) \in Nat /\ DOMAIN q = 1 .. Len(q) /\ DOMAIN r = 1 .. Len(q) + 1 /\ r[Len(q) + 1] = x
        /\ \A i \in 1 .. Len(q) : r[i] = q[i]
    BY AppendProperties, LenProperties
  <1> HIDE DEF r
  <1>2. Answers(r) \subseteq Answers(q) \cup {x.of}
    BY <1>1 DEF Answers
  <1>3. Answers(q) \subseteq Answers(r) /\ x.of \in Answers(r)
    BY <1>1 DEF Answers
  <1>4. ASSUME Once(q), x.of \notin Answers(q), NEW i \in DOMAIN r, NEW j \in DOMAIN r, i < j
        PROVE  r[i].of # r[j].of
    <2>1. i \in DOMAIN q /\ r[i] = q[i]
      BY <1>1, <1>4
    <2>2. CASE j \in DOMAIN q
      BY <1>1, <1>4, <2>1, <2>2 DEF Once
    <2>3. CASE j = Len(q) + 1
      BY <1>1, <1>4, <2>1, <2>3 DEF Answers
    <2> QED BY <1>1, <2>2, <2>3
  <1> QED BY <1>2, <1>3, <1>4 DEF Once, r

LEMMA AnswersRest ==
  ASSUME NEW q \in Seq(Answer), q # <<>>
  PROVE  /\ Answers(q) = Answers(Tail(q)) \cup {Head(q).of}
         /\ Once(q) => Once(Tail(q)) /\ Head(q).of \notin Answers(Tail(q))
  <1> DEFINE r == Tail(q)
  <1>1. /\ Len(q) \in Nat /\ Len(q) # 0 /\ DOMAIN q = 1 .. Len(q) /\ DOMAIN r = 1 .. Len(q) - 1
        /\ Head(q) = q[1] /\ \A i \in 1 .. Len(q) - 1 : r[i] = q[i + 1]
    BY HeadTailProperties, EmptySeq, LenProperties
  <1> HIDE DEF r
  <1>2. Answers(r) \cup {Head(q).of} \subseteq Answers(q)
    BY <1>1 DEF Answers
  <1>3. ASSUME NEW i \in DOMAIN q PROVE q[i].of \in Answers(r) \cup {Head(q).of}
    <2>1. i # 1 => i - 1 \in DOMAIN r /\ r[i - 1] = q[i]
      BY <1>1
    <2> QED BY <1>1, <2>1 DEF Answers
  <1>4. ASSUME Once(q) PROVE Once(r) /\ Head(q).of \notin Answers(r)
    <2>1. \A i, j \in DOMAIN r : i < j => i + 1 \in DOMAIN q /\ j + 1 \in DOMAIN q /\ i + 1 < j + 1
      BY <1>1
    <2>2. \A j \in DOMAIN r : j + 1 \in DOMAIN q /\ 1 \in DOMAIN q /\ 1 < j + 1 /\ r[j] = q[j + 1]
      BY <1>1
    <2>3. \A j \in DOMAIN r : q[1].of # r[j].of
      BY <1>4, <2>2 DEF Once
    <2>4. Once(r)
      BY <1>1, <1>4, <2>1 DEF Once
    <2> QED BY <1>1, <2>3, <2>4 DEF Answers
  <1> QED BY <1>2, <1>3, <1>4 DEF Answers, r

-----------------------------------------------------------------------------
\* What committed, and in which order.

LEMMA CommittedNames ==
  ASSUME TypeOK
  PROVE  /\ \A v \in Write : Contains(committed, v) <=> v \in Names(committed)
         /\ Names(committed) \subseteq Write
         /\ \A v \in Write : Settled(v) => v \in Names(committed)
  <1>1. committed \in Seq(Write) /\ DOMAIN committed = 1 .. Len(committed)
    BY LenProperties DEF TypeOK
  <1> QED BY <1>1, NamesOf DEF Contains, Names, Settled

LEMMA CommittedKept ==
  ASSUME CommittedOK, committed' = committed, \A v \in Write : Done(v)' => Done(v)
  PROVE  CommittedOK'
  <1> SUFFICES ASSUME NEW w \in Write, Done(w)' PROVE Settled(w)'
    BY DEF CommittedOK
  <1>1. Settled(w)
    BY DEF CommittedOK
  <1> QED BY <1>1 DEF Settled

LEMMA CommittedGrows ==
  ASSUME TypeOK, CommittedOK, NEW w \in Write, committed' = Append(committed, w),
         \A v \in Write : Done(v) => v < w,
         \A v \in Write : Done(v)' => Done(v) \/ v = w
  PROVE  CommittedOK'
  <1>1. /\ Len(committed) \in Nat /\ DOMAIN committed = 1 .. Len(committed)
        /\ DOMAIN committed' = 1 .. Len(committed) + 1 /\ committed'[Len(committed) + 1] = w
        /\ \A i \in 1 .. Len(committed) : committed'[i] = committed[i]
    BY AppendProperties, LenProperties DEF TypeOK
  <1> SUFFICES ASSUME NEW u \in Write, Done(u)' PROVE Settled(u)'
    BY DEF CommittedOK
  <1>2. CASE u = w
    <2>1. ASSUME NEW v \in Write, v < u, Done(v)'
          PROVE  \E j \in DOMAIN committed' : j < Len(committed) + 1 /\ committed'[j] = v
      <3>1. Done(v)
        BY <1>2, <2>1 DEF Write
      <3>2. PICK j \in DOMAIN committed : committed[j] = v
        BY <3>1 DEF CommittedOK, Settled
      <3> QED BY <1>1, <3>2
    <2> QED BY <1>1, <1>2, <2>1 DEF Settled
  <1>3. CASE u # w
    <2>1. Done(u) /\ u < w
      BY <1>3
    <2>2. PICK i \in DOMAIN committed :
            /\ committed[i] = u
            /\ \A v \in Write : v < u /\ Done(v) => \E j \in DOMAIN committed : j < i /\ committed[j] = v
      BY <2>1 DEF CommittedOK, Settled
    <2>3. ASSUME NEW v \in Write, v < u, Done(v)'
          PROVE  \E j \in DOMAIN committed' : j < i /\ committed'[j] = v
      <3>1. Done(v)
        BY <2>1, <2>3 DEF Write
      <3>2. PICK j \in DOMAIN committed : j < i /\ committed[j] = v
        BY <2>2, <2>3, <3>1
      <3> QED BY <1>1, <3>2
    <2>4. i \in DOMAIN committed' /\ committed'[i] = u
      BY <1>1, <2>2
    <2> QED BY <2>3, <2>4 DEF Settled
  <1> QED BY <1>2, <1>3

LEMMA CommittedStays ==
  ASSUME TypeOK, CommittedOK, NEW w \in Write, committed' = Append(committed, w),
         \A v \in Write : Done(v)' => Done(v)
  PROVE  CommittedOK'
  <1>1. \A i \in DOMAIN committed : i \in DOMAIN committed' /\ committed'[i] = committed[i]
    BY AppendProperties, LenProperties DEF TypeOK
  <1> SUFFICES ASSUME NEW u \in Write, Done(u)' PROVE Settled(u)'
    BY DEF CommittedOK
  <1>2. PICK i \in DOMAIN committed :
          /\ committed[i] = u
          /\ \A v \in Write : v < u /\ Done(v) => \E j \in DOMAIN committed : j < i /\ committed[j] = v
    BY DEF CommittedOK, Settled
  <1>3. ASSUME NEW v \in Write, v < u, Done(v)'
        PROVE  \E j \in DOMAIN committed' : j < i /\ committed'[j] = v
    <2>1. PICK j \in DOMAIN committed : j < i /\ committed[j] = v
      BY <1>2, <1>3
    <2> QED BY <1>1, <2>1
  <1>4. i \in DOMAIN committed' /\ committed'[i] = u
    BY <1>1, <1>2
  <1> QED BY <1>3, <1>4 DEF Settled

LEMMA GapKept ==
  ASSUME TypeOK, TypeOK', CommittedOK, GapOnlyAfterFailure,
         committed' = committed, excused \subseteq excused',
         \A v \in Write : outcome[v] = "failed" => outcome'[v] = "failed" \/ Done(v)
  PROVE  GapOnlyAfterFailure'
  <1>1. committed \in Seq(Write) /\ MaxWrites \in Nat
    BY ConstantsAssumption DEF TypeOK
  <1> SUFFICES ASSUME NEW i \in DOMAIN committed, NEW v \in 1 .. committed[i] - 1
               PROVE  Contains(committed, v) \/ outcome'[v] = "failed" \/ "swallowed" \in excused'
    BY DEF GapOnlyAfterFailure
  <1>2. v \in Write
    BY <1>1, LenProperties DEF Write
  <1>3. Contains(committed, v) \/ outcome[v] = "failed" \/ "swallowed" \in excused
    BY DEF GapOnlyAfterFailure
  <1>4. Done(v) => Contains(committed, v)
    BY <1>2, CommittedNames DEF CommittedOK
  <1> QED BY <1>2, <1>3, <1>4

LEMMA GapGrows ==
  ASSUME TypeOK, TypeOK', CommittedOK, GapOnlyAfterFailure, NEW w \in Write,
         committed' = Append(committed, w), excused \subseteq excused',
         \A v \in Write : outcome[v] = "failed" => outcome'[v] = "failed",
         \A v \in Write : v < w => Done(v) \/ outcome'[v] = "failed" \/ "swallowed" \in excused'
  PROVE  GapOnlyAfterFailure'
  <1>1. committed \in Seq(Write) /\ MaxWrites \in Nat
    BY ConstantsAssumption DEF TypeOK
  <1>2. /\ Len(committed) \in Nat /\ DOMAIN committed = 1 .. Len(committed)
        /\ DOMAIN committed' = 1 .. Len(committed) + 1 /\ committed'[Len(committed) + 1] = w
        /\ \A i \in 1 .. Len(committed) : committed'[i] = committed[i]
    BY <1>1, AppendProperties, LenProperties
  <1>3. \A v \in Write : Contains(committed, v) => Contains(committed', v)
    <2>1. \A v \in Write : v \in Names(committed) => v \in Names(committed')
      BY <1>1, NamesOf
    <2>2. \A v \in Write : Contains(committed', v) <=> v \in Names(committed')
      <3>0. committed' \in Seq(Write)
        BY DEF TypeOK
      <3>1. DOMAIN committed' = 1 .. Len(committed')
        BY <3>0, LenProperties
      <3> QED BY <3>1 DEF Contains, Names
    <2> QED BY <2>1, <2>2, CommittedNames
  <1> SUFFICES ASSUME NEW i \in DOMAIN committed', NEW v \in 1 .. committed'[i] - 1
               PROVE  Contains(committed', v) \/ outcome'[v] = "failed" \/ "swallowed" \in excused'
    BY DEF GapOnlyAfterFailure
  <1>4. CASE i = Len(committed) + 1
    <2>1. v \in Write /\ v < w
      BY <1>1, <1>2, <1>4 DEF Write
    <2>2. Done(v) => Contains(committed, v)
      BY <2>1, CommittedNames DEF CommittedOK
    <2> QED BY <1>3, <2>1, <2>2
  <1>5. CASE i \in DOMAIN committed
    <2>1. v \in 1 .. committed[i] - 1
      BY <1>2, <1>5
    <2>2. v \in Write
      BY <1>1, <1>5, <2>1, LenProperties DEF Write
    <2>3. Contains(committed, v) \/ outcome[v] = "failed" \/ "swallowed" \in excused
      BY <1>5, <2>1 DEF GapOnlyAfterFailure
    <2> QED BY <1>3, <2>2, <2>3
  <1> QED BY <1>2, <1>4, <1>5

-----------------------------------------------------------------------------
\* The writes: steps of this node.

\* The inductive invariant of the writes.
WritesOK ==
  LinkOK /\ QueueOK /\ ClosedOK /\ TodoOK /\ PendingOK /\ CommittedOK /\ GapOnlyAfterFailure

LEMMA Carried ==
  ASSUME TypeOK
  PROVE  /\ Asked \subseteq 0 .. MaxWrites /\ Replied \subseteq 0 .. MaxWrites
         /\ \A w \in Write : w # CreateDb /\ w \in 0 .. MaxWrites /\ w \in Nat
         /\ \A n \in 0 .. MaxWrites : n # CreateDb => n \in Write
         /\ socket.requests \in Seq(0 .. MaxWrites) /\ socket.answers \in Seq(Answer)
  <1>1. socket.requests \in Seq(0 .. MaxWrites) /\ socket.answers \in Seq(Answer)
    BY SocketsTyped DEF Answer
  <1>2. Replied \subseteq 0 .. MaxWrites
    <2>1. \A i \in DOMAIN socket.answers : socket.answers[i] \in Answer
      BY <1>1, LenProperties
    <2> QED BY <2>1 DEF Replied, Answers, Answer
  <1>3. Asked \subseteq 0 .. MaxWrites
    BY <1>1, NamesOf DEF Asked
  <1> QED BY <1>1, <1>2, <1>3, ConstantsAssumption DEF Write, CreateDb

\* What an event about something else leaves alone.
LEMMA WritesElsewhere ==
  ASSUME TypeOK, TypeOK', WritesOK, LinkOK',
         UNCHANGED <<socket, older, outcome, committed, excused>>,
         db.status = "asking" => db'.status = "asking"
  PROVE  WritesOK'
  <1> USE DEF WritesOK
  <1>1. Asked' = Asked /\ Replied' = Replied /\ HasSocket' = HasSocket /\ (\A w : Done(w)' <=> Done(w))
    BY DEF Asked, Replied, HasSocket, Done
  <1>2. QueueOK'
    BY <1>1 DEF QueueOK, Awaited
  <1>3. ClosedOK' /\ TodoOK'
    BY <1>1 DEF ClosedOK, TodoOK
  <1>4. PendingOK'
    BY <1>1 DEF PendingOK
  <1>5. CommittedOK'
    BY <1>1, CommittedKept
  <1>6. GapOnlyAfterFailure'
    BY GapKept
  <1> QED BY <1>2, <1>3, <1>4, <1>5, <1>6

\* A socket is closed, and whatever was pending is given up.
LEMMA WritesCut ==
  ASSUME TypeOK, TypeOK', WritesOK, LinkOK', UNCHANGED committed, excused \subseteq excused',
         outcome' = [w \in Write |-> IF outcome[w] = "pending" THEN "failed" ELSE outcome[w]],
         socket'.answers = <<>>, HasSocket' => socket'.requests = <<>>,
         \A s \in older' \cup {socket'} : s.closed =>
           s.requests = <<>> \/ \E t \in older \cup {socket} : s.requests = t.requests
  PROVE  WritesOK'
  <1> USE DEF WritesOK
  <1>1. Replied' = {} /\ (HasSocket' => Asked' = {})
    BY DEF Replied, Asked, Answers, Names
  <1>2. \A w \in Write : outcome'[w] = IF outcome[w] = "pending" THEN "failed" ELSE outcome[w]
    OBVIOUS
  <1>3. \A w \in Write : Done(w)' => Done(w)
    BY <1>1, <1>2 DEF Done
  <1>4. QueueOK'
    BY <1>1 DEF QueueOK, InOrder, Once
  <1>5. ClosedOK'
    BY <1>1 DEF ClosedOK
  <1>6. TodoOK'
    BY <1>2 DEF TodoOK
  <1>7. PendingOK'
    <2>1. \A v \in Write : outcome'[v] # "pending"
      BY <1>2
    <2>2. ASSUME NEW s \in older' \cup {socket'}, s.closed, NEW w \in Names(s.requests) \cap Write
          PROVE  outcome'[w] # "todo"
      <3>1. PICK t \in older \cup {socket} : s.requests = t.requests
        BY <2>2 DEF Names
      <3>2. outcome[w] # "todo"
        <4>1. CASE t.closed
          BY <2>2, <3>1, <4>1 DEF PendingOK
        <4>2. CASE ~t.closed
          <5>1. t = socket /\ HasSocket /\ w \in Asked
            BY <2>2, <3>1, <4>2 DEF LinkOK, HasSocket, Asked
          <5>2. Awaited(w)
            BY <5>1 DEF QueueOK
          <5> QED BY <2>2, <5>2, Carried DEF Awaited
        <4> QED BY <4>1, <4>2
      <3> QED BY <1>2, <3>2
    <2> QED BY <2>1, <2>2 DEF PendingOK
  <1>8. CommittedOK'
    BY <1>3, CommittedKept
  <1>9. GapOnlyAfterFailure'
    BY <1>2, GapKept
  <1> QED BY <1>4, <1>5, <1>6, <1>7, <1>8, <1>9

LEMMA AskedAppended ==
  ASSUME NEW q \in Seq(0 .. MaxWrites), NEW x \in 0 .. MaxWrites
  PROVE  Names(Append(q, x)) = Names(q) \cup {x}
  <1> DEFINE S == 0 .. MaxWrites
  <1>1. q \in Seq(S) /\ x \in S
    OBVIOUS
  <1> HIDE DEF S
  <1>2. \A y \in S : Names(Append(q, y)) = Names(q) \cup {y}
    BY <1>1, NamesOf
  <1> QED BY <1>1, <1>2

\* Whatever was sent, applied or given up came before the next write.
LEMMA NextIsLast ==
  ASSUME TypeOK, WritesOK, NEW w \in Write, NextWrite(w)
  PROVE  /\ outcome[w] = "todo"
         /\ \A v \in Write : outcome[v] # "todo" <=> v < w
         /\ \A v \in Write : Done(v) => v < w
         /\ HasSocket => w \notin Asked \cup Replied /\ \A v \in Asked \cap Write : v < w
  <1> USE DEF WritesOK
  <1>0. MaxWrites \in Nat
    BY ConstantsAssumption
  <1>1. outcome[w] = "todo" /\ \A v \in Write : v < w => outcome[v] # "todo"
    BY <1>0 DEF NextWrite, Write
  <1>2. \A v \in Write : outcome[v] # "todo" => v < w
    <2>1. \A v \in Write : v < w \/ v = w \/ w < v
      BY <1>0 DEF Write
    <2> QED BY <1>1, <2>1 DEF TodoOK
  <1>3. ASSUME HasSocket, NEW v \in Write, v \in Asked \cup Replied PROVE outcome[v] # "todo"
    BY <1>3, Carried DEF QueueOK, Awaited
  <1>4. \A v \in Write : v \in Replied => outcome[v] # "todo"
    BY <1>3 DEF ClosedOK
  <1>5. \A v \in Write : Done(v) => v < w
    BY <1>2, <1>4 DEF Done
  <1>6. ~(w < w)
    BY <1>0 DEF Write
  <1> QED BY <1>1, <1>2, <1>3, <1>5, <1>6

LEMMA WritesForward ==
  ASSUME TypeOK, TypeOK', WritesOK, NEW w \in Write, Forward(w)
  PROVE  WritesOK'
  <1> USE DEF WritesOK
  <1>1. /\ UNCHANGED <<older, current, reconnecting, db, committed, excused>>
        /\ outcome' = [outcome EXCEPT ![w] = IF HasSocket THEN "pending" ELSE "failed"]
        /\ socket' = IF HasSocket THEN [socket EXCEPT !.requests = Append(@, w)] ELSE socket
    BY DEF Forward, Send, history
  <1>2. NextWrite(w) /\ w \in 0 .. MaxWrites /\ w # CreateDb
    BY Carried DEF Forward
  <1>3. /\ outcome'[w] = IF HasSocket THEN "pending" ELSE "failed"
        /\ \A v \in Write : v # w => outcome'[v] = outcome[v]
    BY <1>1 DEF TypeOK
  <1>4. /\ socket'.to = socket.to /\ socket'.closed = socket.closed /\ socket'.up = socket.up
        /\ socket'.answers = socket.answers
        /\ socket'.requests = IF HasSocket THEN Append(socket.requests, w) ELSE socket.requests
    BY <1>1, <1>2, SocketsTyped, SentIs
  <1>5. HasSocket' = HasSocket /\ Replied' = Replied
    BY <1>4 DEF HasSocket, Replied
  <1>6. Asked' = IF HasSocket THEN Asked \cup {w} ELSE Asked
    <2>1. Names(Append(socket.requests, w)) = Names(socket.requests) \cup {w}
      BY <1>2, Carried, AskedAppended
    <2>2. Asked' = Names(socket'.requests)
      BY DEF Asked, Names
    <2> QED BY <1>4, <2>1, <2>2 DEF Asked
  <1>7. \A v \in Write : Done(v)' => Done(v)
    BY <1>3, <1>5 DEF Done
  <1>8. LinkOK'
    BY <1>1, <1>4, <1>5 DEF LinkOK
  <1>9. QueueOK'
    <2> SUFFICES ASSUME HasSocket PROVE QueueOK'
      BY <1>5 DEF QueueOK
    <2>1. InOrder(socket'.requests)
      BY <1>2, <1>4, Carried, NextIsLast, InOrderAppended DEF QueueOK, Asked
    <2>2. Once(socket'.answers) /\ Asked' \cap Replied' = {}
      BY <1>2, <1>4, <1>5, <1>6, NextIsLast DEF QueueOK
    <2>3. ASSUME NEW name \in Asked' \cup Replied' PROVE Awaited(name)'
      <3>1. CASE name = w
        BY <1>2, <1>3, <3>1 DEF Awaited
      <3>2. CASE name # w
        <4>1. Awaited(name) /\ name \in 0 .. MaxWrites
          BY <1>5, <1>6, <2>3, <3>2, Carried DEF QueueOK
        <4> QED BY <1>1, <1>3, <3>2, <4>1, Carried DEF Awaited
      <3> QED BY <3>1, <3>2
    <2>4. ASSUME NEW u \in Asked' \cap Write, NEW v \in Write, Done(v)' PROVE v < u
      <3>1. Done(v)
        BY <1>7, <2>4
      <3>2. CASE u = w
        BY <1>2, <3>1, <3>2, NextIsLast
      <3>3. CASE u # w
        BY <1>6, <2>4, <3>1, <3>3 DEF QueueOK
      <3> QED BY <3>2, <3>3
    <2> QED BY <2>1, <2>2, <2>3, <2>4 DEF QueueOK
  <1>10. ClosedOK'
    BY <1>5 DEF ClosedOK
  <1>11. TodoOK'
    BY <1>2, <1>3, NextIsLast DEF TodoOK
  <1>12. PendingOK'
    <2>1. ASSUME NEW v \in Write, outcome'[v] = "pending"
          PROVE  HasSocket' /\ (v \in Asked' \cup Replied' \/ ~socket'.up \/ "swallowed" \in excused')
      <3>1. CASE v = w
        BY <1>3, <1>5, <1>6, <2>1, <3>1
      <3>2. CASE v # w
        BY <1>1, <1>3, <1>4, <1>5, <1>6, <2>1, <3>2 DEF PendingOK
      <3> QED BY <3>1, <3>2
    <2>2. ASSUME NEW s \in older' \cup {socket'}, s.closed, NEW u \in Names(s.requests) \cap Write
          PROVE  outcome'[u] # "todo" /\ \A v \in Write : outcome'[v] = "pending" => u < v
      <3>1. s \in older \cup {socket}
        BY <1>1, <1>4, <2>2 DEF HasSocket
      <3>2. outcome[u] # "todo" /\ \A v \in Write : outcome[v] = "pending" => u < v
        BY <2>2, <3>1 DEF PendingOK
      <3>3. u < w /\ u # w
        BY <1>2, <3>2, NextIsLast
      <3> QED BY <1>3, <3>2, <3>3
    <2> QED BY <2>1, <2>2 DEF PendingOK
  <1>13. CommittedOK'
    BY <1>1, <1>7, CommittedKept
  <1>14. GapOnlyAfterFailure'
    BY <1>1, <1>2, <1>3, NextIsLast, GapKept
  <1> QED BY <1>8, <1>9, <1>10, <1>11, <1>12, <1>13, <1>14

LEMMA WritesAskForDb ==
  ASSUME TypeOK, TypeOK', WritesOK, AskForDb
  PROVE  WritesOK'
  <1> USE DEF WritesOK
  <1>1. /\ UNCHANGED <<older, current, reconnecting, outcome, committed, excused>>
        /\ db.status # "asking" /\ CreateDb \notin Asked
        /\ socket' = IF HasSocket THEN [socket EXCEPT !.requests = Append(@, CreateDb)] ELSE socket
        /\ db' = [status |-> IF HasSocket THEN "asking" ELSE "none", txid |-> 0]
    <2>1. ~Contains(socket.requests, CreateDb)
      BY DEF AskForDb
    <2>2. CreateDb \notin Asked
      BY <2>1, Carried, LenProperties DEF Contains, Asked, Names
    <2> QED BY <2>2 DEF AskForDb, Send, history
  <1>2. CreateDb \in 0 .. MaxWrites /\ CreateDb \notin Write
    BY ConstantsAssumption DEF CreateDb, Write
  <1>3. CASE ~HasSocket
    <2>1. LinkOK' /\ socket' = socket
      BY <1>1, <1>3 DEF LinkOK, HasSocket
    <2> QED BY <1>1, <2>1, WritesElsewhere
  <1>4. CASE HasSocket
    <2>1. /\ socket'.to = socket.to /\ socket'.closed = socket.closed /\ socket'.up = socket.up
          /\ socket'.answers = socket.answers /\ socket'.requests = Append(socket.requests, CreateDb)
      BY <1>1, <1>2, <1>4, SocketsTyped, SentIs
    <2>2. /\ HasSocket' /\ Replied' = Replied /\ Asked' = Asked \cup {CreateDb}
          /\ \A w : Done(w)' <=> Done(w)
      <3>1. Names(Append(socket.requests, CreateDb)) = Names(socket.requests) \cup {CreateDb}
        BY <1>2, Carried, AskedAppended
      <3>2. Asked' = Names(socket'.requests)
        BY DEF Asked, Names
      <3>3. HasSocket' /\ Replied' = Replied /\ Asked' = Asked \cup {CreateDb}
        BY <1>4, <2>1, <3>1, <3>2 DEF HasSocket, Replied, Asked
      <3> QED BY <1>1, <3>3 DEF Done
    <2>3. LinkOK'
      BY <1>1, <1>4, <2>1, <2>2 DEF LinkOK
    <2>4. CreateDb \notin Replied
      BY <1>1, <1>4 DEF QueueOK, Awaited
    <2>5. InOrder(socket'.requests)
      BY <1>1, <1>2, <1>4, <2>1, Carried, InOrderAppended DEF QueueOK, Asked
    <2>6. ASSUME NEW name \in Asked' \cup Replied' PROVE Awaited(name)'
      <3>1. CASE name = CreateDb
        BY <1>1, <1>4, <3>1 DEF Awaited
      <3>2. CASE name # CreateDb
        BY <1>1, <1>4, <2>2, <2>6, <3>2 DEF QueueOK, Awaited
      <3> QED BY <3>1, <3>2
    <2>7. QueueOK'
      BY <1>2, <1>4, <2>1, <2>2, <2>4, <2>5, <2>6 DEF QueueOK
    <2>8. ClosedOK' /\ TodoOK'
      BY <1>1, <2>2 DEF ClosedOK, TodoOK
    <2>9. PendingOK'
      <3>1. \A s \in older' \cup {socket'} : s.closed => s \in older \cup {socket}
        BY <1>1, <2>2 DEF HasSocket
      <3> QED BY <1>1, <1>4, <2>1, <2>2, <3>1 DEF PendingOK
    <2>10. CommittedOK' /\ GapOnlyAfterFailure'
      BY <1>1, <2>2, CommittedKept, GapKept
    <2> QED BY <2>3, <2>7, <2>8, <2>9, <2>10
  <1> QED BY <1>3, <1>4

LEMMA WritesAnswered ==
  ASSUME TypeOK, TypeOK', WritesOK, Answered
  PROVE  WritesOK'
  <1> USE DEF WritesOK
  <1> DEFINE of == Head(socket.answers).of
  <1>1. /\ HasSocket /\ socket.answers # <<>>
        /\ UNCHANGED <<older, current, reconnecting, committed, excused>>
        /\ socket' = [socket EXCEPT !.answers = Tail(@)]
        /\ of = CreateDb => outcome' = outcome
        /\ of # CreateDb => outcome' = [outcome EXCEPT ![of] = "ok"] /\ db' = db
    BY DEF Answered, history
  <1>2. /\ socket'.to = socket.to /\ socket'.closed = socket.closed /\ socket'.up = socket.up
        /\ socket'.requests = socket.requests /\ socket'.answers = Tail(socket.answers)
    BY <1>1, SocketsTyped, ReadIs
  <1>3. Replied = Answers(Tail(socket.answers)) \cup {of} /\ of \notin Answers(Tail(socket.answers))
        /\ Once(Tail(socket.answers))
    BY <1>1, Carried, AnswersRest DEF QueueOK, Replied
  <1>4. /\ Replied' = Replied \ {of} /\ of \in Replied /\ of \notin Asked
        /\ Asked' = Asked /\ HasSocket'
    <2>1. Replied' = Answers(socket'.answers) /\ Asked' = Names(socket'.requests)
      BY DEF Replied, Answers, Asked, Names
    <2>2. of \in Replied /\ of \notin Asked
      BY <1>1, <1>3 DEF QueueOK
    <2> QED BY <1>1, <1>2, <1>3, <2>1, <2>2 DEF Asked, HasSocket
  <1>5. of # CreateDb => of \in Write /\ outcome[of] = "pending" /\ outcome'[of] = "ok"
    <2>1. of \in 0 .. MaxWrites
      BY <1>4, Carried
    <2>2. Awaited(of)
      BY <1>1, <1>4 DEF QueueOK
    <2> HIDE DEF of
    <2> QED BY <1>1, <2>1, <2>2, Carried DEF Awaited, TypeOK
  <1>6. \A v \in Write : v # of => outcome'[v] = outcome[v]
    <2> HIDE DEF of
    <2> QED BY <1>1 DEF TypeOK
  <1>7. CreateDb \notin Write
    BY ConstantsAssumption DEF CreateDb, Write
  <1> HIDE DEF of
  <1>8. \A v \in Write : Done(v)' => Done(v)
    BY <1>4, <1>6 DEF Done
  <1>9. LinkOK'
    BY <1>1, <1>2, <1>4 DEF LinkOK
  <1>10. QueueOK'
    <2>1. ASSUME NEW name \in Asked' \cup Replied' PROVE Awaited(name)'
      <3>1. name # of /\ Awaited(name) /\ name \in 0 .. MaxWrites
        BY <1>1, <1>4, <2>1, Carried DEF QueueOK
      <3>2. CASE name = CreateDb
        BY <1>1, <3>1, <3>2 DEF Awaited
      <3>3. CASE name # CreateDb
        BY <1>6, <3>1, <3>3, Carried DEF Awaited
      <3> QED BY <3>2, <3>3
    <2>2. InOrder(socket'.requests) /\ Once(socket'.answers) /\ Asked' \cap Replied' = {}
      BY <1>1, <1>2, <1>3, <1>4 DEF QueueOK
    <2>3. \A w \in Asked' \cap Write : \A v \in Write : Done(v)' => v < w
      BY <1>1, <1>4, <1>8 DEF QueueOK
    <2> QED BY <2>1, <2>2, <2>3 DEF QueueOK
  <1>11. ClosedOK'
    BY <1>4 DEF ClosedOK
  <1>12. TodoOK'
    <2>1. \A v \in Write : outcome'[v] = "todo" <=> outcome[v] = "todo"
      BY <1>5, <1>6, <1>7
    <2> QED BY <2>1 DEF TodoOK
  <1>13. PendingOK'
    <2>1. \A v \in Write : /\ outcome'[v] = "pending" => v # of /\ outcome[v] = "pending"
                           /\ outcome'[v] = "todo" => outcome[v] = "todo"
      BY <1>5, <1>6, <1>7
    <2>2. \A s \in older' \cup {socket'} : s.closed => s \in older \cup {socket}
      BY <1>1, <1>4 DEF HasSocket
    <2> QED BY <1>1, <1>2, <1>4, <2>1, <2>2 DEF PendingOK
  <1>14. CommittedOK'
    BY <1>1, <1>8, CommittedKept
  <1>15. GapOnlyAfterFailure'
    <2>1. \A v \in Write : outcome[v] = "failed" => outcome'[v] = "failed" \/ Done(v)
      BY <1>4, <1>6 DEF Done
    <2> QED BY <1>1, <2>1, GapKept
  <1> QED BY <1>9, <1>10, <1>11, <1>12, <1>13, <1>14, <1>15

LEMMA WritesApplyHere ==
  ASSUME TypeOK, TypeOK', WritesOK, NEW w \in Write, ApplyHere(w)
  PROVE  WritesOK'
  <1> USE DEF WritesOK
  <1>1. /\ UNCHANGED <<socket, older, current, reconnecting, db, excused>>
        /\ NextWrite(w) /\ current = Here
        /\ \/ committed' = Append(committed, w) /\ outcome' = [outcome EXCEPT ![w] = "ok"]
           \/ committed' = committed /\ outcome' = [outcome EXCEPT ![w] = "failed"]
    BY DEF ApplyHere, connection
  <1>2. ~HasSocket /\ ~HasSocket' /\ Replied = {} /\ Replied' = {}
    <2>1. ~HasSocket /\ Replied = {}
      BY <1>1 DEF LinkOK, ClosedOK
    <2> QED BY <1>1, <2>1 DEF HasSocket, Replied
  <1>3. \A v \in Write : v # w => outcome'[v] = outcome[v]
    <2>1. CASE outcome' = [outcome EXCEPT ![w] = "ok"]
      BY <2>1 DEF TypeOK
    <2>2. CASE outcome' = [outcome EXCEPT ![w] = "failed"]
      BY <2>2 DEF TypeOK
    <2> QED BY <1>1, <2>1, <2>2
  <1>4. outcome'[w] = "ok" \/ outcome'[w] = "failed"
    BY <1>1 DEF TypeOK
  <1>5. LinkOK' /\ QueueOK' /\ ClosedOK'
    BY <1>1, <1>2 DEF LinkOK, QueueOK, ClosedOK, HasSocket
  <1>6. TodoOK'
    BY <1>1, <1>3, <1>4, NextIsLast DEF TodoOK
  <1>7. PendingOK'
    <2>1. \A v \in Write : /\ outcome[v] # "pending" /\ outcome'[v] # "pending"
                           /\ outcome'[v] = "todo" => outcome[v] = "todo"
      BY <1>2, <1>3, <1>4 DEF PendingOK
    <2> QED BY <1>1, <1>2, <2>1 DEF PendingOK
  <1>8. \A v \in Write : Done(v)' => Done(v) \/ v = w
    BY <1>2, <1>3 DEF Done
  <1>9. CASE committed' = Append(committed, w)
    <2>1. CommittedOK'
      BY <1>1, <1>8, <1>9, NextIsLast, CommittedGrows
    <2>2. \A v \in Write : v < w => Done(v) \/ outcome'[v] = "failed" \/ "swallowed" \in excused'
      <3> SUFFICES ASSUME NEW v \in Write, v < w PROVE Done(v) \/ outcome'[v] = "failed"
        OBVIOUS
      <3>1. outcome[v] # "todo" /\ outcome[v] # "pending" /\ v # w
        BY <1>1, <1>2, NextIsLast DEF PendingOK
      <3>2. outcome[v] \in {"todo", "pending", "ok", "failed"}
        BY DEF TypeOK
      <3> QED BY <1>3, <3>1, <3>2 DEF Done
    <2>3. \A v \in Write : outcome[v] = "failed" => outcome'[v] = "failed"
      BY <1>1, <1>3, NextIsLast
    <2>4. GapOnlyAfterFailure'
      BY <1>1, <1>9, <2>2, <2>3, GapGrows
    <2> QED BY <1>5, <1>6, <1>7, <2>1, <2>4
  <1>10. CASE committed' = committed /\ outcome' = [outcome EXCEPT ![w] = "failed"]
    <2>1. \A v \in Write : Done(v)' => Done(v)
      <3>1. outcome'[w] = "failed"
        BY <1>10 DEF TypeOK
      <3> QED BY <1>2, <1>3, <3>1 DEF Done
    <2>2. CommittedOK'
      BY <1>10, <2>1, CommittedKept
    <2>3. \A v \in Write : outcome[v] = "failed" => outcome'[v] = "failed"
      BY <1>1, <1>3, NextIsLast
    <2>4. GapOnlyAfterFailure'
      BY <1>1, <1>10, <2>3, GapKept
    <2> QED BY <1>5, <1>6, <1>7, <2>2, <2>4
  <1> QED BY <1>1, <1>9, <1>10

LEMMA WritesUseRoom == TypeOK /\ TypeOK' /\ WritesOK /\ UseRoom => WritesOK'
  <1> SUFFICES ASSUME TypeOK, TypeOK', WritesOK, UseRoom PROVE WritesOK'
    OBVIOUS
  <1>1. ASSUME CreateHere \/ CatchUp PROVE WritesOK'
    <2>1. /\ UNCHANGED <<socket, older, outcome, committed, excused, current, reconnecting>>
          /\ db.status # "asking"
      BY <1>1 DEF CreateHere, CatchUp, connection, history
    <2>2. LinkOK'
      BY <2>1 DEF WritesOK, LinkOK, HasSocket
    <2> QED BY <2>1, <2>2, WritesElsewhere
  <1> QED BY <1>1, WritesAskForDb, WritesAnswered, WritesApplyHere, WritesForward DEF UseRoom

LEMMA WritesFollow == TypeOK /\ TypeOK' /\ WritesOK /\ Follow => WritesOK'
  <1> SUFFICES ASSUME TypeOK, TypeOK', WritesOK PROVE Follow => WritesOK'
    OBVIOUS
  <1> USE DEF litefs, room, history
  <1>0. socket \in Socket /\ current \in Node
    BY DEF TypeOK
  <1>1. ASSUME ReadPrimaryFile PROVE WritesOK'
    <2>1. LinkOK'
      BY <1>1 DEF ReadPrimaryFile, WritesOK, LinkOK, HasSocket
    <2> QED BY <1>1, <2>1, WritesElsewhere DEF ReadPrimaryFile
  <1>2. ASSUME PrimaryFileRead PROVE WritesOK'
    <2>1. /\ UNCHANGED <<reconnecting, committed>> /\ excused \subseteq excused'
          /\ IF current' = socket.to THEN UNCHANGED <<socket, older, db, outcome>>
             ELSE /\ RejectPending
                  /\ IF current' # Here /\ ~reconnecting THEN Replaced(Closed(socket), current')
                     ELSE socket' = Closed(socket) /\ UNCHANGED older
      BY <1>2 DEF PrimaryFileRead
    <2>2. CASE current' = socket.to
      <3>1. LinkOK'
        BY <2>1, <2>2 DEF WritesOK, LinkOK, HasSocket
      <3>2. \A w \in Write : Done(w)' <=> Done(w)
        BY <2>1, <2>2 DEF Done, Replied
      <3>3. QueueOK' /\ ClosedOK' /\ TodoOK'
        BY <2>1, <2>2, <3>2 DEF WritesOK, QueueOK, Awaited, ClosedOK, TodoOK, HasSocket, Asked, Replied
      <3>4. PendingOK'
        BY <2>1, <2>2 DEF WritesOK, PendingOK, HasSocket, Asked, Replied
      <3>5. CommittedOK' /\ GapOnlyAfterFailure'
        BY <2>1, <2>2, <3>2, CommittedKept, GapKept DEF WritesOK
      <3> QED BY <3>1, <3>3, <3>4, <3>5 DEF WritesOK
    <2>3. CASE current' # socket.to
      <3>1. /\ Closed(socket).to = socket.to /\ Closed(socket).closed = TRUE
            /\ Closed(socket).requests = socket.requests /\ Closed(socket).answers = <<>>
        BY <1>0, ClosedIs
      <3>2. CASE current' # Here /\ ~reconnecting
        <4>1. socket' = NewSocket(current') /\ older' = older \cup Carrying(Closed(socket))
          BY <2>1, <2>3, <3>2 DEF Replaced
        <4>2. /\ socket'.to = current' /\ ~socket'.closed
              /\ socket'.requests = <<>> /\ socket'.answers = <<>>
          BY <4>1, NewSocketIs DEF TypeOK
        <4>3. older' \subseteq older \cup {Closed(socket)}
          BY <4>1 DEF Carrying
        <4>4. LinkOK'
          BY <2>1, <3>1, <3>2, <4>2, <4>3 DEF WritesOK, LinkOK, HasSocket
        <4>5. \A s \in older' \cup {socket'} :
                s.requests = <<>> \/ \E t \in older \cup {socket} : s.requests = t.requests
          BY <3>1, <4>2, <4>3
        <4> QED BY <2>1, <2>3, <4>2, <4>4, <4>5, WritesCut DEF RejectPending
      <3>3. CASE ~(current' # Here /\ ~reconnecting)
        <4>1. socket' = Closed(socket) /\ older' = older
          BY <2>1, <2>3, <3>3
        <4>2. LinkOK'
          BY <2>1, <3>1, <3>3, <4>1 DEF WritesOK, LinkOK, HasSocket
        <4>3. \A s \in older' \cup {socket'} :
                s.requests = <<>> \/ \E t \in older \cup {socket} : s.requests = t.requests
          BY <3>1, <4>1
        <4> QED BY <2>1, <2>3, <3>1, <4>1, <4>2, <4>3, WritesCut DEF RejectPending, HasSocket
      <3> QED BY <3>2, <3>3
    <2> QED BY <2>2, <2>3
  <1>3. ASSUME SocketLost PROVE WritesOK'
    <2>1. /\ socket' = Closed(socket) /\ UNCHANGED <<older, current, committed, excused>> /\ RejectPending
          /\ HasSocket /\ reconnecting' = (reconnecting \/ current # Here)
      BY <1>3 DEF SocketLost
    <2>2. /\ socket'.to = socket.to /\ socket'.closed = TRUE
          /\ socket'.requests = socket.requests /\ socket'.answers = <<>>
      BY <1>0, <2>1, ClosedIs
    <2>3. LinkOK'
      BY <2>1, <2>2 DEF WritesOK, LinkOK, HasSocket
    <2>4. \A s \in older' \cup {socket'} :
            s.requests = <<>> \/ \E t \in older \cup {socket} : s.requests = t.requests
      BY <2>1, <2>2
    <2> QED BY <2>1, <2>2, <2>3, <2>4, WritesCut DEF RejectPending, HasSocket
  <1>4. ASSUME Reconnect PROVE WritesOK'
    <2>1. /\ reconnecting /\ ~reconnecting' /\ ~HasSocket
          /\ UNCHANGED <<current, db, outcome, committed, excused>>
          /\ IF current = Here THEN UNCHANGED <<socket, older>> ELSE Replaced(socket, current)
      BY <1>4 DEF Reconnect, WritesOK, LinkOK
    <2>2. CASE current = Here
      <3>1. LinkOK'
        BY <2>1, <2>2 DEF WritesOK, LinkOK, HasSocket
      <3> QED BY <2>1, <2>2, <3>1, WritesElsewhere
    <2>3. CASE current # Here
      <3>1. socket' = NewSocket(current) /\ older' \subseteq older \cup {socket}
        BY <2>1, <2>3 DEF Replaced, Carrying
      <3>2. /\ socket'.to = current /\ ~socket'.closed
            /\ socket'.requests = <<>> /\ socket'.answers = <<>>
        BY <1>0, <3>1, NewSocketIs
      <3>3. LinkOK'
        BY <2>1, <2>3, <3>1, <3>2 DEF WritesOK, LinkOK, HasSocket
      <3>4. outcome' = [w \in Write |-> IF outcome[w] = "pending" THEN "failed" ELSE outcome[w]]
        <4>1. \A w \in Write : outcome[w] # "pending"
          BY <2>1 DEF WritesOK, PendingOK
        <4> QED BY <2>1, <4>1 DEF TypeOK
      <3>5. \A s \in older' \cup {socket'} :
              s.requests = <<>> \/ \E t \in older \cup {socket} : s.requests = t.requests
        BY <3>1, <3>2
      <3> QED BY <2>1, <3>2, <3>3, <3>4, <3>5, WritesCut
    <2> QED BY <2>2, <2>3
  <1> QED BY <1>1, <1>2, <1>3, <1>4 DEF Follow

-----------------------------------------------------------------------------
\* The writes: steps of the other end.

\* A socket that is closed never carries more than it did.
NothingNew ==
  \A s \in older' \cup {socket'} : s.closed =>
    \E t \in older \cup {socket} : t.closed /\ Names(s.requests) \subseteq Names(t.requests)

LEMMA PendingKept ==
  ASSUME PendingOK, NothingNew, UNCHANGED outcome, HasSocket' = HasSocket,
         \A v \in Write : outcome[v] = "pending" =>
           v \in Asked' \cup Replied' \/ ~socket'.up \/ "swallowed" \in excused'
  PROVE  PendingOK'
  <1>1. ASSUME NEW s \in older' \cup {socket'}, s.closed, NEW w \in Names(s.requests) \cap Write
        PROVE  outcome[w] # "todo" /\ \A v \in Write : outcome[v] = "pending" => w < v
    <2>1. PICK t \in older \cup {socket} : t.closed /\ w \in Names(t.requests)
      BY <1>1 DEF NothingNew
    <2> QED BY <2>1 DEF PendingOK
  <1> QED BY <1>1 DEF PendingOK

\* What the other end has lost.
LEMMA WritesLost ==
  ASSUME TypeOK, TypeOK', WritesOK, LinkOK', NothingNew, HasSocket' = HasSocket,
         UNCHANGED <<db, outcome, committed>>, excused \subseteq excused',
         Asked' \subseteq Asked, Replied' \subseteq Replied,
         InOrder(socket.requests) => InOrder(socket'.requests),
         Once(socket.answers) => Once(socket'.answers),
         \A v \in Write : outcome[v] = "pending" =>
           v \in Asked' \cup Replied' \/ ~socket'.up \/ "swallowed" \in excused'
  PROVE  WritesOK'
  <1> USE DEF WritesOK
  <1>1. \A v \in Write : Done(v)' => Done(v)
    BY DEF Done
  <1>2. QueueOK'
    <2> SUFFICES ASSUME HasSocket PROVE QueueOK'
      BY DEF QueueOK
    <2>1. \A name \in Asked' \cup Replied' : Awaited(name)'
      BY DEF QueueOK, Awaited
    <2>2. \A w \in Asked' \cap Write : \A v \in Write : Done(v)' => v < w
      BY <1>1 DEF QueueOK
    <2> QED BY <2>1, <2>2 DEF QueueOK
  <1>3. ClosedOK' /\ TodoOK'
    BY DEF ClosedOK, TodoOK
  <1>4. PendingOK'
    BY PendingKept
  <1>5. CommittedOK' /\ GapOnlyAfterFailure'
    BY <1>1, CommittedKept, GapKept
  <1> QED BY <1>2, <1>3, <1>4, <1>5

LEMMA AskedRest ==
  ASSUME NEW q \in Seq(0 .. MaxWrites), q # <<>>
  PROVE  Names(q) = Names(Tail(q)) \cup {Head(q)}
  <1> DEFINE S == 0 .. MaxWrites
  <1>1. q \in Seq(S)
    OBVIOUS
  <1> HIDE DEF S
  <1> QED BY <1>1, NamesOf

\* A socket is replaced by one that carries less of the same.
LEMMA BecomesLink ==
  ASSUME TypeOK, LinkOK, UNCHANGED <<current, reconnecting>>, NEW s, NEW t, Becomes(s, t),
         t.to = s.to, t.closed = s.closed, Names(t.requests) \subseteq Names(s.requests)
  PROVE  LinkOK' /\ NothingNew /\ HasSocket' = HasSocket
  <1>1. CASE s = socket /\ socket' = t /\ older' = older
    BY <1>1 DEF LinkOK, NothingNew, HasSocket
  <1>2. CASE s \in older /\ older' = (older \ {s}) \cup Carrying(t) /\ socket' = socket
    <2>1. older' \subseteq older \cup {t}
      BY <1>2 DEF Carrying
    <2>2. LinkOK' /\ HasSocket' = HasSocket
      BY <1>2, <2>1 DEF LinkOK, HasSocket
    <2> QED BY <1>2, <2>1, <2>2 DEF NothingNew, LinkOK
  <1> QED BY <1>1, <1>2 DEF Becomes

LEMMA WritesServeThrows ==
  ASSUME TypeOK, TypeOK', WritesOK, NEW s \in older \cup {socket}, ServeThrows(s)
  PROVE  WritesOK'
  <1>1. /\ UNCHANGED <<current, reconnecting, db, outcome, committed, excused>>
        /\ older' \subseteq older
        /\ socket' = socket \/ socket' = [socket EXCEPT !.up = FALSE, !.requests = <<>>]
    BY DEF ServeThrows, room, history
  <1>2. CASE socket' = socket
    <2>1. LinkOK' /\ NothingNew /\ HasSocket' = HasSocket /\ Asked' = Asked /\ Replied' = Replied
      BY <1>1, <1>2 DEF WritesOK, LinkOK, NothingNew, HasSocket, Asked, Replied
    <2> QED BY <1>1, <1>2, <2>1, WritesLost DEF WritesOK, PendingOK
  <1>3. CASE socket' = [socket EXCEPT !.up = FALSE, !.requests = <<>>]
    <2>1. /\ socket'.to = socket.to /\ socket'.closed = socket.closed /\ socket'.up = FALSE
          /\ socket'.requests = <<>> /\ socket'.answers = socket.answers
      BY <1>3, SocketsTyped, DeadIs
    <2>2. Names(<<>>) = {} /\ InOrder(<<>>)
      BY DEF Names, InOrder
    <2>3. LinkOK' /\ HasSocket' = HasSocket /\ Asked' = {} /\ Replied' = Replied
      BY <1>1, <2>1, <2>2 DEF WritesOK, LinkOK, HasSocket, Asked, Replied
    <2>4. NothingNew
      BY <1>1, <2>1, <2>2 DEF NothingNew
    <2> QED BY <1>1, <2>1, <2>2, <2>3, <2>4, WritesLost
  <1> QED BY <1>1, <1>2, <1>3

LEMMA WritesSwallowed ==
  ASSUME TypeOK, TypeOK', WritesOK, NEW s \in older \cup {socket}, Swallowed(s)
  PROVE  WritesOK'
  <1>1. /\ UNCHANGED <<current, reconnecting, db, outcome, committed>>
        /\ excused \subseteq excused' /\ "swallowed" \in excused'
    BY DEF Swallowed, room
  <1>0. s \in Socket /\ s.requests \in Seq(0 .. MaxWrites)
    BY DEF TypeOK, Socket
  <1>2. CASE s.requests # <<>> /\ Becomes(s, [s EXCEPT !.requests = Tail(@)])
    <2> DEFINE t == [s EXCEPT !.requests = Tail(@)]
    <2>1. /\ t.to = s.to /\ t.closed = s.closed /\ t.requests = Tail(s.requests) /\ t.answers = s.answers
          /\ Becomes(s, t)
      BY <1>0, <1>2, DroppedIs
    <2> HIDE DEF t
    <2>2. Names(t.requests) \subseteq Names(s.requests)
      BY <1>0, <1>2, <2>1, AskedRest
    <2>3. LinkOK' /\ NothingNew /\ HasSocket' = HasSocket
      BY <1>1, <2>1, <2>2, BecomesLink DEF WritesOK
    <2>4. CASE socket' = socket
      <3>1. Asked' = Asked /\ Replied' = Replied
        BY <2>4 DEF Asked, Replied
      <3> QED BY <1>1, <2>3, <2>4, <3>1, WritesLost
    <2>5. CASE s = socket /\ socket' = t
      <3>1. Asked' = Names(socket'.requests) /\ Replied' = Answers(socket'.answers)
        BY DEF Asked, Names, Replied, Answers
      <3>2. Asked' \subseteq Asked /\ Replied' = Replied
        BY <2>1, <2>2, <2>5, <3>1 DEF Asked, Replied
      <3>3. InOrder(socket.requests) => InOrder(socket'.requests)
        BY <1>0, <1>2, <2>1, <2>5, InOrderRest
      <3> QED BY <1>1, <2>1, <2>3, <2>5, <3>2, <3>3, WritesLost
    <2> QED BY <2>1, <2>4, <2>5 DEF Becomes
  <1>3. CASE s = socket /\ s.answers # <<>> /\ socket' = [s EXCEPT !.answers = Tail(@)] /\ UNCHANGED older
    <2>1. /\ socket'.to = socket.to /\ socket'.closed = socket.closed /\ socket'.up = socket.up
          /\ socket'.requests = socket.requests /\ socket'.answers = Tail(socket.answers)
      BY <1>0, <1>3, ReadIs
    <2>2. Asked' = Names(socket'.requests) /\ Replied' = Answers(socket'.answers)
      BY DEF Asked, Names, Replied, Answers
    <2>3. Asked' = Asked /\ Replied' \subseteq Replied
      BY <1>3, <2>1, <2>2, Carried, AnswersRest DEF Asked, Replied
    <2>4. Once(socket.answers) => Once(socket'.answers)
      BY <1>3, <2>1, Carried, AnswersRest
    <2>5. LinkOK' /\ NothingNew /\ HasSocket' = HasSocket
      BY <1>1, <1>3, <2>1 DEF WritesOK, LinkOK, NothingNew, HasSocket
    <2> QED BY <1>1, <2>1, <2>3, <2>4, <2>5, WritesLost
  <1> QED BY <1>2, <1>3 DEF Swallowed

\* The first request of a socket is answered.
LEMMA Replies ==
  ASSUME TypeOK, TypeOK', WritesOK, NEW s \in older \cup {socket}, UNCHANGED <<current, reconnecting>>,
         NEW name \in 0 .. MaxWrites, Requested(s, name),
         NEW status \in {"ready", "broken"}, NEW ok \in BOOLEAN, NEW txid \in Nat,
         Becomes(s, Reply(s, status, name, ok, txid))
  PROVE  /\ LinkOK' /\ NothingNew /\ HasSocket' = HasSocket
         /\ \/ ~HasSocket /\ Replied' = Replied
            \/ s \in older /\ s.closed /\ socket' = socket
            \/ /\ s = socket /\ HasSocket /\ socket'.up = socket.up
               /\ name \in Asked /\ Asked' = Asked \ {name} /\ Replied' = Replied \cup {name}
               /\ InOrder(socket'.requests) /\ Once(socket'.answers)
               /\ name \in Write => \A w \in Asked' \cap Write : name < w
  <1> USE DEF WritesOK
  <1> DEFINE t == Reply(s, status, name, ok, txid)
             answer == [of |-> name, ok |-> ok, txid |-> txid]
  <1>0. /\ s \in Socket /\ s.requests \in Seq(0 .. MaxWrites) /\ s.requests # <<>>
        /\ Head(s.requests) = name /\ s.up
    BY DEF TypeOK, Socket, Requested
  <1>1. /\ t.to = s.to /\ t.closed = s.closed /\ t.up = s.up /\ t.requests = Tail(s.requests)
        /\ t.answers = IF s.closed THEN s.answers ELSE Append(s.answers, answer)
        /\ answer.of = name /\ answer \in Answer
    <2>1. /\ t.to = s.to /\ t.closed = s.closed /\ t.up = s.up /\ t.requests = Tail(s.requests)
          /\ t.answers = IF s.closed THEN s.answers ELSE Append(s.answers, answer)
      <3> DEFINE requests == Tail(s.requests)
                 answers == IF s.closed THEN s.answers ELSE Append(s.answers, answer)
      <3>1. t = [s EXCEPT !.requests = requests, !.room = status, !.answers = answers]
        BY DEF Reply
      <3>2. /\ t.to = s.to /\ t.closed = s.closed /\ t.up = s.up
            /\ t.requests = requests /\ t.answers = answers
        <4> HIDE DEF t, requests, answers
        <4> QED BY <1>0, <3>1 DEF Socket
      <3> QED BY <3>2
    <2>2. answer.of = name /\ answer \in Answer
      BY DEF Answer
    <2> QED BY <2>1, <2>2
  <1>2. Becomes(s, t)
    OBVIOUS
  <1> HIDE DEF t, answer
  <1>3. Names(s.requests) = Names(t.requests) \cup {name}
    BY <1>0, <1>1, AskedRest
  <1>4. LinkOK' /\ NothingNew /\ HasSocket' = HasSocket
    BY <1>1, <1>2, <1>3, BecomesLink
  <1>5. Asked' = Names(socket'.requests) /\ Replied' = Answers(socket'.answers)
    BY DEF Asked, Names, Replied, Answers
  <1>6. CASE s \in older /\ socket' = socket
    BY <1>4, <1>6 DEF LinkOK
  <1>7. CASE s = socket /\ socket' = t /\ s.closed
    <2>1. ~HasSocket /\ Replied' = Replied
      BY <1>1, <1>5, <1>7 DEF HasSocket, Replied
    <2> QED BY <1>4, <2>1
  <1>8. CASE s = socket /\ socket' = t /\ ~s.closed
    <2>1. HasSocket
      BY <1>8 DEF HasSocket
    <2>2. /\ name \notin Names(t.requests) /\ InOrder(t.requests)
          /\ name \in Write => \A w \in Names(t.requests) \cap Write : name < w
      BY <1>0, <1>1, <1>8, <2>1, InOrderRest DEF QueueOK
    <2>3. name \in Asked /\ Asked' = Asked \ {name}
      BY <1>3, <1>5, <1>8, <2>2 DEF Asked
    <2>4. name \notin Replied
      BY <2>1, <2>3 DEF QueueOK
    <2>5. /\ Answers(t.answers) = Answers(s.answers) \cup {name}
          /\ Once(t.answers)
      BY <1>1, <1>8, <2>1, <2>4, Carried, AnswersAppended DEF QueueOK, Replied
    <2>6. Replied' = Replied \cup {name}
      BY <1>5, <1>8, <2>5 DEF Replied
    <2> QED BY <1>1, <1>4, <1>5, <1>8, <2>1, <2>2, <2>3, <2>5, <2>6
  <1> QED BY <1>2, <1>6, <1>7, <1>8 DEF Becomes

LEMMA WritesServeCreate ==
  ASSUME TypeOK, TypeOK', WritesOK, NEW s \in older \cup {socket}, ServeCreate(s)
  PROVE  WritesOK'
  <1> USE DEF WritesOK
  <1>1. /\ UNCHANGED <<current, reconnecting, db, outcome, committed, excused>>
        /\ Requested(s, CreateDb)
        /\ \/ Becomes(s, Reply(s, "ready", CreateDb, TRUE, Len(log')))
           \/ Becomes(s, Reply(s, "broken", CreateDb, FALSE, 0))
    BY DEF ServeCreate, room, history
  <1>2. CreateDb \in 0 .. MaxWrites /\ CreateDb \notin Write /\ Len(log') \in Nat /\ 0 \in Nat
    BY ConstantsAssumption, LenProperties DEF CreateDb, Write, TypeOK
  <1>3. /\ LinkOK' /\ NothingNew /\ HasSocket' = HasSocket
        /\ \/ ~HasSocket /\ Replied' = Replied
           \/ socket' = socket
           \/ /\ HasSocket /\ socket'.up = socket.up
              /\ CreateDb \in Asked /\ Asked' = Asked \ {CreateDb} /\ Replied' = Replied \cup {CreateDb}
              /\ InOrder(socket'.requests) /\ Once(socket'.answers)
    <2>1. CASE Becomes(s, Reply(s, "ready", CreateDb, TRUE, Len(log')))
      BY <1>1, <1>2, <2>1, Replies
    <2>2. CASE Becomes(s, Reply(s, "broken", CreateDb, FALSE, 0))
      BY <1>1, <1>2, <2>2, Replies
    <2> QED BY <1>1, <2>1, <2>2
  <1>4. CASE ~HasSocket /\ Replied' = Replied
    <2>1. \A w \in Write : (Done(w)' <=> Done(w)) /\ outcome[w] # "pending"
      BY <1>1, <1>4 DEF Done, PendingOK
    <2>2. QueueOK' /\ ClosedOK' /\ TodoOK'
      BY <1>1, <1>3, <1>4 DEF QueueOK, ClosedOK, TodoOK
    <2>3. PendingOK'
      BY <1>1, <1>3, <2>1, PendingKept
    <2>4. CommittedOK' /\ GapOnlyAfterFailure'
      BY <1>1, <2>1, CommittedKept, GapKept
    <2> QED BY <1>3, <2>2, <2>3, <2>4
  <1>5. CASE socket' = socket
    <2>1. Asked' = Asked /\ Replied' = Replied
      BY <1>5 DEF Asked, Replied
    <2> QED BY <1>1, <1>3, <1>5, <2>1, WritesLost DEF PendingOK
  <1>6. CASE /\ HasSocket /\ socket'.up = socket.up
             /\ CreateDb \in Asked /\ Asked' = Asked \ {CreateDb} /\ Replied' = Replied \cup {CreateDb}
             /\ InOrder(socket'.requests) /\ Once(socket'.answers)
    <2>1. \A w \in Write : (Done(w)' <=> Done(w)) /\ (w \in Asked \cup Replied => w \in Asked' \cup Replied')
      BY <1>1, <1>2, <1>6 DEF Done
    <2>2. QueueOK'
      <3>1. \A name \in Asked' \cup Replied' : Awaited(name)'
        BY <1>1, <1>6 DEF QueueOK, Awaited
      <3>2. \A w \in Asked' \cap Write : \A v \in Write : Done(v)' => v < w
        BY <1>6, <2>1 DEF QueueOK
      <3> QED BY <1>6, <3>1, <3>2 DEF QueueOK
    <2>3. ClosedOK' /\ TodoOK'
      BY <1>1, <1>3, <1>6 DEF ClosedOK, TodoOK
    <2>4. PendingOK'
      BY <1>1, <1>3, <1>6, <2>1, PendingKept DEF PendingOK
    <2>5. CommittedOK' /\ GapOnlyAfterFailure'
      BY <1>1, <2>1, CommittedKept, GapKept
    <2> QED BY <1>3, <2>2, <2>3, <2>4, <2>5
  <1> QED BY <1>3, <1>4, <1>5, <1>6

LEMMA WritesServeApply ==
  ASSUME TypeOK, TypeOK', WritesOK, NEW s \in older \cup {socket}, ServeApply(s)
  PROVE  WritesOK'
  <1> USE DEF WritesOK
  <1>1. PICK w \in Write : Requested(s, w) /\ committed' = Append(committed, w)
                           /\ Becomes(s, Reply(s, "ready", w, TRUE, 0))
    BY DEF ServeApply
  <1>2. UNCHANGED <<current, reconnecting, db, outcome, excused>>
    BY DEF ServeApply, room
  <1>3. /\ LinkOK' /\ NothingNew /\ HasSocket' = HasSocket
        /\ \/ ~HasSocket /\ Replied' = Replied
           \/ s \in older /\ s.closed /\ socket' = socket
           \/ /\ s = socket /\ HasSocket /\ socket'.up = socket.up
              /\ w \in Asked /\ Asked' = Asked \ {w} /\ Replied' = Replied \cup {w}
              /\ InOrder(socket'.requests) /\ Once(socket'.answers)
              /\ \A u \in Asked' \cap Write : w < u
    <2>1. w \in 0 .. MaxWrites /\ 0 \in Nat
      BY Carried
    <2> QED BY <1>1, <1>2, <2>1, Replies
  <1>4. TodoOK'
    BY <1>2 DEF TodoOK
  <1>5. outcome \in [Write -> {"todo", "pending", "ok", "failed"}] /\ MaxWrites \in Nat
    BY ConstantsAssumption DEF TypeOK
  <1>6. CASE s.closed /\ (socket' = socket \/ ~HasSocket) /\ Replied' = Replied
    <2>1. \A v \in Write : Done(v)' <=> Done(v)
      BY <1>2, <1>6 DEF Done
    <2>2. QueueOK' /\ ClosedOK'
      <3>1. CASE socket' = socket
        BY <1>2, <3>1, <2>1 DEF QueueOK, ClosedOK, Awaited, Asked, Replied, HasSocket
      <3>2. CASE ~HasSocket
        BY <1>3, <1>6, <3>2 DEF QueueOK, ClosedOK
      <3> QED BY <1>6, <3>1, <3>2
    <2>3. PendingOK'
      <3>1. ASSUME NEW v \in Write, outcome[v] = "pending"
            PROVE  v \in Asked' \cup Replied' \/ ~socket'.up \/ "swallowed" \in excused'
        BY <1>2, <1>6, <3>1 DEF PendingOK, Asked, Replied
      <3> QED BY <1>2, <1>3, <3>1, PendingKept
    <2>4. CommittedOK'
      BY <1>1, <2>1, CommittedStays
    <2>5. outcome[w] # "todo" /\ \A v \in Write : outcome[v] = "pending" => w < v
      <3>1. w \in Names(s.requests)
        <4>1. s.requests \in Seq(0 .. MaxWrites) /\ s.requests # <<>> /\ Head(s.requests) = w
          BY <1>1 DEF Requested, TypeOK, Socket
        <4> QED BY <4>1, AskedRest
      <3> QED BY <1>6, <3>1 DEF PendingOK
    <2>6. \A v \in Write : v < w => Done(v) \/ outcome'[v] = "failed" \/ "swallowed" \in excused'
      <3> SUFFICES ASSUME NEW v \in Write, v < w PROVE Done(v) \/ outcome[v] = "failed"
        BY <1>2
      <3>1. outcome[v] # "todo"
        BY <2>5 DEF TodoOK
      <3>2. ~(w < v)
        BY <1>5 DEF Write
      <3> QED BY <1>5, <2>5, <3>1, <3>2 DEF Done
    <2>7. GapOnlyAfterFailure'
      BY <1>1, <1>2, <2>6, GapGrows
    <2> QED BY <1>3, <1>4, <2>2, <2>3, <2>4, <2>7
  <1>7. CASE /\ s = socket /\ HasSocket /\ socket'.up = socket.up
             /\ w \in Asked /\ Asked' = Asked \ {w} /\ Replied' = Replied \cup {w}
             /\ InOrder(socket'.requests) /\ Once(socket'.answers)
             /\ \A u \in Asked' \cap Write : w < u
    <2>1. \A v \in Write : /\ Done(v)' <=> Done(v) \/ v = w
                           /\ v \in Asked \cup Replied => v \in Asked' \cup Replied'
      BY <1>2, <1>7 DEF Done
    <2>2. \A v \in Write : Done(v) => v < w
      BY <1>7 DEF QueueOK
    <2>3. outcome[w] = "pending"
      BY <1>7, Carried DEF QueueOK, Awaited
    <2>4. QueueOK'
      <3>1. \A name \in Asked' \cup Replied' : Awaited(name)'
        BY <1>2, <1>7 DEF QueueOK, Awaited
      <3>2. \A u \in Asked' \cap Write : \A v \in Write : Done(v)' => v < u
        BY <1>7, <2>1 DEF QueueOK
      <3>3. Asked' \cap Replied' = {}
        BY <1>7 DEF QueueOK
      <3> QED BY <1>7, <3>1, <3>2, <3>3 DEF QueueOK
    <2>5. ClosedOK'
      BY <1>3, <1>7 DEF ClosedOK
    <2>6. PendingOK'
      BY <1>2, <1>3, <1>7, <2>1, PendingKept DEF PendingOK
    <2>7. CommittedOK'
      BY <1>1, <2>1, <2>2, CommittedGrows
    <2>8. \A v \in Write : v < w => Done(v) \/ outcome'[v] = "failed" \/ "swallowed" \in excused'
      <3> SUFFICES ASSUME NEW v \in Write, v < w, "swallowed" \notin excused
                   PROVE  Done(v) \/ outcome[v] = "failed"
        BY <1>2
      <3>1. outcome[v] # "todo"
        BY <2>3 DEF TodoOK
      <3>2. v \notin Asked
        <4>1. v # w /\ ~(w < v)
          BY <1>5 DEF Write
        <4> QED BY <1>7, <4>1
      <3>3. socket.up
        BY <1>1, <1>7 DEF Requested
      <3> QED BY <1>5, <3>1, <3>2, <3>3 DEF PendingOK, Done
    <2>9. GapOnlyAfterFailure'
      BY <1>1, <1>2, <2>8, GapGrows
    <2> QED BY <1>3, <1>4, <2>4, <2>5, <2>6, <2>7, <2>9
  <1>8. CASE s \in older /\ s.closed /\ socket' = socket
    BY <1>6, <1>8 DEF Replied
  <1>9. CASE ~HasSocket /\ Replied' = Replied
    BY <1>6, <1>9 DEF HasSocket, LinkOK
  <1> QED BY <1>3, <1>7, <1>8, <1>9

LEMMA WritesInit == Init => WritesOK
  <1> SUFFICES ASSUME Init PROVE WritesOK
    OBVIOUS
  <1>1. current \in Node /\ Here \in Node
    BY ConstantsAssumption DEF Init, Node
  <1>2. /\ socket.requests = <<>> /\ socket.answers = <<>>
        /\ socket.to = current /\ (socket.closed <=> current = Here)
    BY <1>1, NewSocketIs, NoSocketIs DEF Init
  <1>3. Asked = {} /\ Replied = {} /\ Names(<<>>) = {}
    BY <1>2 DEF Asked, Replied, Names, Answers
  <1>4. older = {} /\ reconnecting = FALSE /\ committed = <<>> /\ \A w \in Write : outcome[w] = "todo"
    BY DEF Init
  <1>5. LinkOK /\ ClosedOK /\ TodoOK
    BY <1>2, <1>3, <1>4 DEF LinkOK, HasSocket, ClosedOK, TodoOK
  <1>6. QueueOK /\ PendingOK
    BY <1>2, <1>3, <1>4 DEF QueueOK, PendingOK, InOrder, Once
  <1>7. CommittedOK /\ GapOnlyAfterFailure
    BY <1>3, <1>4 DEF CommittedOK, Done, GapOnlyAfterFailure
  <1> QED BY <1>5, <1>6, <1>7 DEF WritesOK

(***************************************************************************)
(* Whatever moves, breaks or is swallowed: one socket is open, to the      *)
(* node believed to be the primary; what it carries is awaited and in      *)
(* order; and what committed did so in the order it was acknowledged.      *)
(***************************************************************************)
THEOREM WritesInvariant == Spec => [](TypeOK /\ WritesOK)
  <1>1. Init => TypeOK /\ WritesOK
    BY TypeInit, WritesInit
  <1>2. TypeOK /\ WritesOK /\ [Next]_vars => (TypeOK /\ WritesOK)'
    <2> SUFFICES ASSUME TypeOK, WritesOK, [Next]_vars PROVE (TypeOK /\ WritesOK)'
      OBVIOUS
    <2>1. TypeOK'
      BY TypeStep
    <2>2. CASE UNCHANGED vars
      <3>1. LinkOK'
        BY <2>2 DEF WritesOK, LinkOK, HasSocket, vars, connection
      <3> QED BY <2>1, <2>2, <3>1, WritesElsewhere DEF vars, connection, room, history
    <2>3. CASE MovePrimary \/ Replicate
      <3>1. UNCHANGED <<socket, older, current, reconnecting, outcome, committed, excused, db>>
        BY <2>3 DEF MovePrimary, Replicate, connection, room, history
      <3>2. LinkOK'
        BY <3>1 DEF WritesOK, LinkOK, HasSocket
      <3> QED BY <2>1, <3>1, <3>2, WritesElsewhere
    <2>4. ASSUME NEW s \in older \cup {socket}, Serve(s) \/ Swallowed(s) PROVE WritesOK'
      BY <2>1, <2>4, WritesServeCreate, WritesServeApply, WritesServeThrows, WritesSwallowed DEF Serve
    <2> QED BY <2>1, <2>2, <2>3, <2>4, WritesFollow, WritesUseRoom DEF Next
  <1> QED BY <1>1, <1>2, PTL DEF Spec

(***************************************************************************)
(* A sender is told "applied" only of a write that committed, after every  *)
(* earlier one its sender was told of.                                     *)
(***************************************************************************)
THEOREM Acked == Spec => []AckedInOrder
  <1>1. TypeOK /\ WritesOK => AckedInOrder
    <2> SUFFICES ASSUME TypeOK, WritesOK, NEW w \in Write, outcome[w] = "ok"
                 PROVE  \E i \in DOMAIN committed :
                          /\ committed[i] = w
                          /\ \A v \in 1 .. w - 1 : outcome[v] = "ok" =>
                               \E j \in 1 .. i - 1 : committed[j] = v
      BY DEF AckedInOrder
    <2>1. PICK i \in DOMAIN committed :
            /\ committed[i] = w
            /\ \A v \in Write : v < w /\ Done(v) => \E j \in DOMAIN committed : j < i /\ committed[j] = v
      BY DEF WritesOK, CommittedOK, Settled, Done
    <2>2. DOMAIN committed = 1 .. Len(committed) /\ Len(committed) \in Nat /\ MaxWrites \in Nat
      BY ConstantsAssumption, LenProperties DEF TypeOK
    <2>3. ASSUME NEW v \in 1 .. w - 1, outcome[v] = "ok" PROVE \E j \in 1 .. i - 1 : committed[j] = v
      <3>1. v \in Write /\ v < w
        BY <2>2 DEF Write
      <3>2. PICK j \in DOMAIN committed : j < i /\ committed[j] = v
        BY <2>1, <2>3, <3>1 DEF Done
      <3> QED BY <2>2, <3>2
    <2> QED BY <2>1, <2>3
  <1> QED BY <1>1, WritesInvariant, PTL

(***************************************************************************)
(* The primary misses an earlier write only when its sender was told, or a *)
(* message was swallowed.                                                  *)
(***************************************************************************)
THEOREM NoGap == Spec => []GapOnlyAfterFailure
  <1>1. TypeOK /\ WritesOK => GapOnlyAfterFailure
    BY DEF WritesOK
  <1> QED BY <1>1, WritesInvariant, PTL

(***************************************************************************)
(* The primary's socket: at most one is open, to the node believed to be   *)
(* the primary; a follower always has one; and every answer finds its      *)
(* request.                                                                *)
(***************************************************************************)
THEOREM OneSocket == Spec => [](OneSocketToThePrimary /\ FollowersHaveASocket /\ AnswersFindTheirRequest)
  <1>1. TypeOK /\ WritesOK => OneSocketToThePrimary /\ FollowersHaveASocket /\ AnswersFindTheirRequest
    <2> SUFFICES ASSUME TypeOK, WritesOK
                 PROVE  OneSocketToThePrimary /\ FollowersHaveASocket /\ AnswersFindTheirRequest
      OBVIOUS
    <2>1. OneSocketToThePrimary /\ FollowersHaveASocket
      BY DEF WritesOK, LinkOK, OneSocketToThePrimary, FollowersHaveASocket
    <2>2. ASSUME HasSocket, NEW i \in DOMAIN socket.answers PROVE Awaited(socket.answers[i].of)
      BY <2>2 DEF WritesOK, QueueOK, Replied, Answers
    <2> QED BY <2>1, <2>2 DEF AnswersFindTheirRequest, Awaited
  <1> QED BY <1>1, WritesInvariant, PTL

-----------------------------------------------------------------------------
\* The room, until the primary moves.

LEMMA SchemaKept ==
  ASSUME TypeOK, NEW kind, log' = log \/ log' = Append(log, kind)
  PROVE  /\ \A n : SchemaIn(log, n) => SchemaIn(log', n)
         /\ HasSchema(log) => HasSchema(log')
         /\ HasSchema(log) <=> SchemaIn(log, Len(log))
  <1>1. Len(log) \in Nat /\ DOMAIN log = 1 .. Len(log) /\ log \in Seq({"old", "schema", "write"})
    BY LenProperties DEF TypeOK
  <1> DEFINE r == Append(log, kind)
  <1>2. Len(r) = Len(log) + 1 /\ DOMAIN r = 1 .. Len(log) + 1 /\ \A i \in 1 .. Len(log) : r[i] = log[i]
    OBVIOUS
  <1> HIDE DEF r
  <1>3. \A i \in DOMAIN log : i \in DOMAIN log' /\ log'[i] = log[i]
    BY <1>1, <1>2 DEF r
  <1>4. \A i \in 1 .. Len(log) : i \in 1 .. Len(log') /\ log'[i] = log[i]
    BY <1>1, <1>2 DEF r
  <1>5. HasSchema(log) => HasSchema(log')
    BY <1>4 DEF HasSchema, Contains
  <1>6. \A n : SchemaIn(log, n) => SchemaIn(log', n)
    BY <1>3 DEF SchemaIn
  <1>7. HasSchema(log) <=> SchemaIn(log, Len(log))
    BY <1>1 DEF HasSchema, Contains, SchemaIn
  <1> QED BY <1>5, <1>6, <1>7

\* What is opened at position n holds the schema.
LEMMA OpensWith ==
  ASSUME NEW q \in Seq({"old", "schema", "write"}), NEW n \in 0 .. Len(q),
         SchemaIn(q, n)
  PROVE  Opened(SubSeq(q, 1, n)).status = "open"
  <1> DEFINE r == SubSeq(q, 1, n)
  <1>1. Len(q) \in Nat /\ DOMAIN q = 1 .. Len(q)
    BY LenProperties
  <1>2. Len(r) = n /\ \A i \in 1 .. n : r[i] = q[i]
    BY Beginning
  <1> HIDE DEF r
  <1>3. HasSchema(r)
    BY <1>1, <1>2 DEF HasSchema, Contains, SchemaIn
  <1> QED BY <1>3 DEF Opened, r

LEMMA PromisedRest ==
  ASSUME NEW q \in Seq(Answer), q # <<>>
  PROVE  /\ Head(q) = q[1] /\ 1 \in DOMAIN q
         /\ \A i \in DOMAIN Tail(q) : i + 1 \in DOMAIN q /\ Tail(q)[i] = q[i + 1]
  <1>1. Len(q) \in Nat /\ Len(q) # 0 /\ DOMAIN q = 1 .. Len(q)
    BY EmptySeq, LenProperties
  <1> QED BY <1>1, HeadTailProperties, LenProperties

\* Neither the log nor what the node was promised gets less.
LEMMA RoomStays ==
  ASSUME TypeOK, TypeOK', RoomOK, UNCHANGED <<primary, log, moves>>,
         primary = Here => pos' = pos,
         moves = 0 =>
           /\ \A i \in DOMAIN reads' : reads'[i] = primary
           /\ current' = primary
           /\ db'.status # "refused"
           /\ db'.status = "waiting" => SchemaIn(log, db'.txid)
           /\ \A i \in DOMAIN socket'.answers :
                \/ socket'.answers[i].of # CreateDb \/ ~socket'.answers[i].ok
                \/ SchemaIn(log, socket'.answers[i].txid)
  PROVE  RoomOK'
  BY DEF RoomOK, SchemaIn

LEMMA RoomLitefs == TypeOK /\ TypeOK' /\ RoomOK /\ (MovePrimary \/ Replicate) => RoomOK'
  <1> SUFFICES ASSUME TypeOK, TypeOK', RoomOK PROVE (MovePrimary \/ Replicate) => RoomOK'
    OBVIOUS
  <1>0. pos \in 0 .. Len(log) /\ log \in Seq({"old", "schema", "write"}) /\ Len(log) \in Nat
    BY LenProperties DEF TypeOK
  <1>1. ASSUME MovePrimary PROVE RoomOK'
    <2>1. PICK n \in Node \ {primary}, kept \in 0 .. Len(log) :
            /\ n = Here => kept = pos
            /\ primary' = n
            /\ log' = SubSeq(log, 1, kept)
            /\ pos' = IF pos <= kept THEN pos ELSE kept
      BY <1>1 DEF MovePrimary
    <2>2. Len(log') = kept
      BY <1>0, <2>1, Beginning
    <2>3. moves' # 0
      BY <1>1 DEF MovePrimary, TypeOK
    <2> QED BY <1>0, <2>1, <2>2, <2>3 DEF RoomOK
  <1>2. ASSUME Replicate PROVE RoomOK'
    <2>1. UNCHANGED <<primary, log, moves, reads, current, db, socket>>
      BY <1>2 DEF Replicate, connection, history
    <2>2. primary # Here
      BY <1>0, <1>2 DEF Replicate, RoomOK
    <2> QED BY <2>1, <2>2, RoomStays DEF RoomOK
  <1> QED BY <1>1, <1>2

LEMMA RoomFollow == TypeOK /\ TypeOK' /\ RoomOK /\ Follow => RoomOK'
  <1> SUFFICES ASSUME TypeOK, TypeOK', RoomOK PROVE Follow => RoomOK'
    OBVIOUS
  <1> USE DEF litefs, room, history
  <1>0. socket \in Socket /\ current \in Node /\ reads \in Seq(Node) /\ Len(reads) \in Nat
    BY LenProperties DEF TypeOK
  <1>1. ASSUME ReadPrimaryFile PROVE RoomOK'
    <2>1. reads' = Append(reads, primary) /\ UNCHANGED <<primary, log, pos, moves, current, db, socket>>
      BY <1>1 DEF ReadPrimaryFile
    <2>2. moves = 0 => \A i \in DOMAIN reads' : reads'[i] = primary
      BY <1>0, <2>1, LenProperties DEF RoomOK
    <2> QED BY <2>1, <2>2, RoomStays DEF RoomOK
  <1>2. ASSUME NEW i \in DOMAIN reads, reads' = RemoveAt(reads, i)
        PROVE  moves = 0 => \A j \in DOMAIN reads' : reads'[j] = primary
    <2> SUFFICES ASSUME moves = 0 PROVE \A j \in DOMAIN reads' : reads'[j] = primary
      OBVIOUS
    <2>1. reads \in Seq({primary})
      <3>1. \A j \in 1 .. Len(reads) : reads[j] \in {primary}
        BY <1>0, LenProperties DEF RoomOK
      <3> QED BY <1>0, <3>1, SeqDef
    <2>2. reads' \in Seq({primary})
      BY <1>2, <2>1, RemovedFrom
    <2> QED BY <2>2, LenProperties
  <1>3. ASSUME PrimaryFileRead PROVE RoomOK'
    <2>1. PICK i \in DOMAIN reads :
            /\ reads' = RemoveAt(reads, i)
            /\ current' = reads[i]
            /\ UNCHANGED <<primary, log, pos, moves>>
            /\ IF current' = socket.to THEN UNCHANGED <<socket, db>>
               ELSE /\ RejectPending
                    /\ \/ socket' = Closed(socket)
                       \/ current' # Here /\ socket' = NewSocket(current')
      BY <1>3 DEF PrimaryFileRead, Replaced
    <2>2. moves = 0 => current' = primary
      BY <2>1 DEF RoomOK
    <2>3. CASE UNCHANGED <<socket, db>>
      BY <1>2, <2>1, <2>2, <2>3, RoomStays DEF RoomOK
    <2>4. CASE RejectPending /\ (socket' = Closed(socket) \/ socket' = NewSocket(current'))
      <3>1. socket'.answers = <<>>
        <4>1. current' \in Node
          BY DEF TypeOK
        <4>2. Closed(socket).answers = <<>> /\ NewSocket(current').answers = <<>>
          BY <1>0, <4>1, ClosedIs, NewSocketIs
        <4> QED BY <2>4, <4>2
      <3>2. moves = 0 => db'.status # "refused" /\ (db'.status = "waiting" => SchemaIn(log, db'.txid))
        <4>1. RejectPending
          BY <2>4
        <4> QED BY <4>1 DEF RejectPending, RoomOK, TypeOK
      <3> QED BY <1>2, <2>1, <2>2, <3>1, <3>2, RoomStays
    <2> QED BY <2>1, <2>3, <2>4
  <1>4. ASSUME SocketLost PROVE RoomOK'
    <2>1. socket'.answers = <<>>
      BY <1>0, <1>4, ClosedIs DEF SocketLost
    <2>2. moves = 0 => db'.status # "refused" /\ (db'.status = "waiting" => SchemaIn(log, db'.txid))
      BY <1>4 DEF SocketLost, RejectPending, RoomOK, TypeOK
    <2>3. UNCHANGED <<primary, log, pos, moves, reads, current>>
      BY <1>4 DEF SocketLost
    <2> QED BY <2>1, <2>2, <2>3, RoomStays DEF RoomOK
  <1>5. ASSUME Reconnect PROVE RoomOK'
    <2>1. UNCHANGED <<primary, log, pos, moves, reads, current, db>>
          /\ (socket' = socket \/ socket' = NewSocket(current))
      BY <1>5 DEF Reconnect, Replaced
    <2>2. socket' = socket \/ socket'.answers = <<>>
      BY <1>0, <2>1, NewSocketIs
    <2>3. CASE socket' = socket
      BY <2>1, <2>3, RoomStays DEF RoomOK
    <2>4. CASE socket'.answers = <<>>
      BY <2>1, <2>4, RoomStays DEF RoomOK
    <2> QED BY <2>2, <2>3, <2>4
  <1> QED BY <1>1, <1>3, <1>4, <1>5 DEF Follow

\* A transaction at the primary.
LEMMA RoomTransacted ==
  ASSUME TypeOK, TypeOK', RoomOK, NEW kind \in {"schema", "write"}, Transact(kind),
         UNCHANGED <<primary, moves, reads, current>>,
         moves = 0 =>
           /\ db'.status # "refused"
           /\ db'.status = "waiting" => db.status = "waiting" /\ db'.txid = db.txid
           /\ \A i \in DOMAIN socket'.answers :
                \/ socket'.answers[i].of # CreateDb \/ ~socket'.answers[i].ok
                \/ SchemaIn(log, socket'.answers[i].txid)
                \/ SchemaIn(log', socket'.answers[i].txid)
  PROVE  RoomOK'
  <1>1. log' = Append(log, kind) /\ (primary = Here => pos' = Len(log'))
    BY TransactTyped DEF Transact
  <1>2. \A n : SchemaIn(log, n) => SchemaIn(log', n)
    BY <1>1, SchemaKept
  <1>3. moves = 0 => /\ db'.status = "waiting" => SchemaIn(log', db'.txid)
                     /\ \A i \in DOMAIN socket'.answers :
                          socket'.answers[i].of = CreateDb /\ socket'.answers[i].ok
                            => SchemaIn(log', socket'.answers[i].txid)
    BY <1>2 DEF RoomOK
  <1> QED BY <1>1, <1>3 DEF RoomOK, SchemaIn

LEMMA RoomUseRoom == TypeOK /\ TypeOK' /\ RoomOK /\ UseRoom => RoomOK'
  <1> SUFFICES ASSUME TypeOK, TypeOK', RoomOK PROVE UseRoom => RoomOK'
    OBVIOUS
  <1> USE DEF litefs, connection, room, history
  <1>0. /\ socket \in Socket /\ socket.answers \in Seq(Answer) /\ CreateDb \in 0 .. MaxWrites
        /\ log \in Seq({"old", "schema", "write"}) /\ Len(log) \in Nat /\ pos \in 0 .. Len(log)
        /\ log' \in Seq({"old", "schema", "write"}) /\ Len(log') \in Nat /\ pos' \in 0 .. Len(log')
    BY SocketsTyped, Carried, ConstantsAssumption, LenProperties DEF TypeOK, Answer, CreateDb
  <1>1. ASSUME CreateHere PROVE RoomOK'
    <2>1. /\ UNCHANGED <<primary, reads, current, socket, moves>> /\ current = Here
          /\ db' = Opened(SubSeq(log', 1, pos'))
          /\ IF primary = Here /\ ~HasSchema(log) THEN Transact("schema") ELSE UNCHANGED <<log, pos>>
      BY <1>1 DEF CreateHere
    <2>2. db'.status # "waiting"
      BY <2>1 DEF Opened
    <2>3. CASE primary = Here /\ ~HasSchema(log)
      <3>1. log' = Append(log, "schema") /\ pos' = Len(log) + 1 /\ Len(log') = Len(log) + 1
        BY <2>1, <2>3, TransactTyped DEF Transact
      <3>2. SchemaIn(log', pos')
        BY <1>0, <3>1, AppendProperties DEF SchemaIn
      <3>3. db'.status = "open"
        BY <1>0, <2>1, <3>2, OpensWith
      <3> QED BY <2>1, <2>2, <2>3, <3>3, RoomTransacted DEF RoomOK
    <2>4. CASE ~(primary = Here /\ ~HasSchema(log))
      <3>1. UNCHANGED <<log, pos>>
        BY <2>1, <2>4
      <3>2. moves = 0 => db'.status = "open"
        <4> SUFFICES ASSUME moves = 0 PROVE db'.status = "open"
          OBVIOUS
        <4>1. primary = Here /\ HasSchema(log) /\ pos = Len(log)
          BY <2>1, <2>4 DEF RoomOK
        <4>2. SchemaIn(log, Len(log))
          BY <3>1, <4>1, SchemaKept
        <4> QED BY <1>0, <2>1, <3>1, <4>1, <4>2, OpensWith
      <3> QED BY <2>1, <2>2, <3>1, <3>2, RoomStays DEF RoomOK
    <2> QED BY <2>3, <2>4
  <1>2. ASSUME AskForDb PROVE RoomOK'
    <2>1. /\ UNCHANGED <<primary, log, pos, reads, current, moves>>
          /\ db'.status # "refused" /\ db'.status # "waiting"
          /\ socket' = socket \/ socket' = [socket EXCEPT !.requests = Append(@, CreateDb)]
      BY <1>2 DEF AskForDb, Send
    <2>2. socket'.answers = socket.answers
      BY <1>0, <2>1, SentIs
    <2> QED BY <2>1, <2>2, RoomStays DEF RoomOK
  <1>3. ASSUME CatchUp PROVE RoomOK'
    <2>1. /\ UNCHANGED <<primary, log, pos, reads, current, socket, moves>> /\ db.status = "waiting"
          /\ db' = IF pos = 0 THEN [status |-> "missing", txid |-> 0]
                   ELSE IF pos >= db.txid THEN Opened(SubSeq(log, 1, pos))
                   ELSE db
      BY <1>3 DEF CatchUp
    <2>2. CASE pos = 0
      <3>1. db'.status = "missing"
        BY <2>1, <2>2
      <3> QED BY <2>1, <3>1, RoomStays DEF RoomOK
    <2>3. CASE pos # 0 /\ pos >= db.txid
      <3>1. db' = Opened(SubSeq(log, 1, pos))
        BY <2>1, <2>3
      <3>2. moves = 0 => SchemaIn(log, pos)
        <4> SUFFICES ASSUME moves = 0 PROVE SchemaIn(log, pos)
          OBVIOUS
        <4>1. PICK i \in DOMAIN log : i <= db.txid /\ log[i] = "schema"
          BY <2>1 DEF RoomOK, SchemaIn
        <4>2. db.txid \in Nat /\ i \in Nat
          BY <1>0, LenProperties DEF TypeOK
        <4> QED BY <1>0, <2>3, <4>1, <4>2 DEF SchemaIn
      <3>3. moves = 0 => db'.status = "open"
        BY <1>0, <3>1, <3>2, OpensWith
      <3> QED BY <2>1, <3>3, RoomStays DEF RoomOK
    <2>4. CASE pos # 0 /\ ~(pos >= db.txid)
      <3>1. db' = db
        BY <2>1, <2>4
      <3> QED BY <2>1, <3>1, RoomStays DEF RoomOK
    <2> QED BY <2>2, <2>3, <2>4
  <1>4. ASSUME Answered PROVE RoomOK'
    <2> DEFINE answer == Head(socket.answers)
    <2>1. /\ UNCHANGED <<primary, log, pos, reads, current, moves>> /\ socket.answers # <<>>
          /\ IF answer.of = CreateDb
             THEN db' = IF answer.ok THEN [status |-> "waiting", txid |-> answer.txid]
                        ELSE [status |-> "none", txid |-> 0]
             ELSE db' = db
          /\ socket' = [socket EXCEPT !.answers = Tail(@)]
      BY <1>4 DEF Answered
    <2>2. socket'.answers = Tail(socket.answers)
      BY <1>0, <2>1, ReadIs
    <2>3. /\ answer = socket.answers[1] /\ 1 \in DOMAIN socket.answers
          /\ \A i \in DOMAIN socket'.answers : i + 1 \in DOMAIN socket.answers
                                               /\ socket'.answers[i] = socket.answers[i + 1]
      BY <1>0, <2>1, <2>2, PromisedRest
    <2> HIDE DEF answer
    <2>4. moves = 0 => db'.status # "refused" /\ (db'.status = "waiting" => SchemaIn(log, db'.txid))
      <3>1. CASE answer.of = CreateDb /\ answer.ok
        <4>1. db'.status = "waiting" /\ db'.txid = answer.txid
          BY <2>1, <3>1
        <4> QED BY <2>3, <3>1, <4>1 DEF RoomOK
      <3>2. CASE answer.of = CreateDb /\ ~answer.ok
        <4>1. db'.status = "none"
          BY <2>1, <3>2
        <4> QED BY <4>1
      <3>3. CASE answer.of # CreateDb
        BY <2>1, <3>3 DEF RoomOK
      <3> QED BY <3>1, <3>2, <3>3
    <2> QED BY <2>1, <2>3, <2>4, RoomStays DEF RoomOK
  <1>5. ASSUME NEW w \in Write, ApplyHere(w) PROVE RoomOK'
    <2>1. /\ UNCHANGED <<primary, reads, current, socket, db, moves>>
          /\ Transact("write") \/ UNCHANGED <<log, pos>>
      BY <1>5 DEF ApplyHere
    <2>2. CASE Transact("write")
      BY <2>1, <2>2, RoomTransacted DEF RoomOK
    <2>3. CASE UNCHANGED <<log, pos>>
      BY <2>1, <2>3, RoomStays DEF RoomOK
    <2> QED BY <2>1, <2>2, <2>3
  <1>6. ASSUME NEW w \in Write, Forward(w) PROVE RoomOK'
    <2>1. /\ UNCHANGED <<primary, log, pos, reads, current, db, moves>>
          /\ socket' = socket \/ socket' = [socket EXCEPT !.requests = Append(@, w)]
      BY <1>6 DEF Forward, Send
    <2>2. socket'.answers = socket.answers
      BY <1>0, <2>1, SentIs, Carried
    <2> QED BY <2>1, <2>2, RoomStays DEF RoomOK
  <1> QED BY <1>1, <1>2, <1>3, <1>4, <1>5, <1>6 DEF UseRoom

\* A request of a socket is answered: at most one answer more on #primarySocket.
LEMMA OneAnswerMore ==
  ASSUME TypeOK, NEW s \in older \cup {socket}, s.requests # <<>>,
         NEW status \in {"ready", "broken"}, NEW name \in 0 .. MaxWrites, NEW ok \in BOOLEAN,
         NEW txid \in Nat, Becomes(s, Reply(s, status, name, ok, txid))
  PROVE  \A i \in DOMAIN socket'.answers :
           \/ i \in DOMAIN socket.answers /\ socket'.answers[i] = socket.answers[i]
           \/ /\ socket'.answers[i].of = name /\ socket'.answers[i].txid = txid
              /\ ~ok => ~socket'.answers[i].ok
  <1> DEFINE answer == [of |-> name, ok |-> ok, txid |-> txid]
             t == Reply(s, status, name, ok, txid)
  <1>0. s \in Socket /\ socket.answers \in Seq(Answer)
    BY Carried DEF TypeOK
  <1>1. /\ t.answers = IF s.closed THEN s.answers ELSE Append(s.answers, answer)
        /\ answer.of = name /\ answer.ok = ok /\ answer.txid = txid
    BY <1>0, ReplyIs
  <1>2. answer \in Answer
    BY DEF Answer
  <1>3. socket' = socket \/ (s = socket /\ socket' = t)
    BY DEF Becomes
  <1> HIDE DEF answer, t
  <1> TAKE i \in DOMAIN socket'.answers
  <1>4. CASE socket'.answers = socket.answers
    BY <1>4
  <1>5. CASE socket'.answers = Append(socket.answers, answer)
    <2>1. \/ i \in DOMAIN socket.answers /\ socket'.answers[i] = socket.answers[i]
          \/ socket'.answers[i] = answer
      BY <1>0, <1>2, <1>5, AppendProperties, LenProperties
    <2> QED BY <1>1, <2>1
  <1> QED BY <1>1, <1>3, <1>4, <1>5

LEMMA OneAnswerNamed ==
  ASSUME TypeOK, NEW s \in older \cup {socket}, s.requests # <<>>,
         NEW status \in {"ready", "broken"}, NEW name \in 0 .. MaxWrites, NEW ok \in BOOLEAN,
         NEW txid \in Nat, Becomes(s, Reply(s, status, name, ok, txid))
  PROVE  \A i \in DOMAIN socket'.answers :
           \/ i \in DOMAIN socket.answers /\ socket'.answers[i] = socket.answers[i]
           \/ socket'.answers[i].of = name /\ socket'.answers[i].txid = txid
  BY OneAnswerMore

LEMMA RoomServe ==
  ASSUME TypeOK, TypeOK', RoomOK, NEW s \in older \cup {socket}, Serve(s) \/ Swallowed(s)
  PROVE  RoomOK'
  <1> USE DEF litefs, room, history
  <1>0. /\ s \in Socket /\ socket \in Socket /\ socket.answers \in Seq(Answer)
        /\ CreateDb \in 0 .. MaxWrites /\ CreateDb \notin Write
        /\ log \in Seq({"old", "schema", "write"}) /\ Len(log) \in Nat
        /\ log' \in Seq({"old", "schema", "write"}) /\ Len(log') \in Nat
    <2>1. s \in Socket /\ socket \in Socket /\ socket.answers \in Seq(Answer)
      BY SocketsTyped, Carried
    <2>2. CreateDb \in 0 .. MaxWrites /\ CreateDb \notin Write
      BY ConstantsAssumption DEF CreateDb, Write
    <2>3. log \in Seq({"old", "schema", "write"}) /\ log' \in Seq({"old", "schema", "write"})
      BY DEF TypeOK
    <2> QED BY <2>1, <2>2, <2>3, LenProperties
  <1>1. ASSUME ServeCreate(s) PROVE RoomOK'
    <2>1. UNCHANGED <<primary, reads, current, db, moves>> /\ s.requests # <<>>
      BY <1>1 DEF ServeCreate, Requested
    <2>2. CASE /\ IF HasSchema(log) THEN UNCHANGED <<log, pos>> ELSE Transact("schema")
               /\ Becomes(s, Reply(s, "ready", CreateDb, TRUE, Len(log')))
      <3>1. SchemaIn(log', Len(log'))
        <4>1. CASE HasSchema(log)
          BY <2>2, <4>1, SchemaKept
        <4>2. CASE Transact("schema")
          BY <1>0, <4>2, AppendProperties DEF Transact, SchemaIn
        <4> QED BY <2>2, <4>1, <4>2
      <3>2. ASSUME NEW i \in DOMAIN socket'.answers
            PROVE  \/ i \in DOMAIN socket.answers /\ socket'.answers[i] = socket.answers[i]
                   \/ socket'.answers[i].txid = Len(log')
        <4>1. PICK name \in 0 .. MaxWrites, ok \in BOOLEAN, n \in Nat : name = CreateDb /\ ok = TRUE /\ n = Len(log')
          BY <1>0
        <4>2. Becomes(s, Reply(s, "ready", name, ok, n))
          BY <2>2, <4>1
        <4>3. \A j \in DOMAIN socket'.answers :
                \/ j \in DOMAIN socket.answers /\ socket'.answers[j] = socket.answers[j]
                \/ socket'.answers[j].of = name /\ socket'.answers[j].txid = n
          <5>1. name \in 0 .. MaxWrites /\ ok \in BOOLEAN /\ n \in Nat
            BY <4>1
          <5> QED BY <2>1, <4>2, <5>1, OneAnswerNamed
        <4> QED BY <4>1, <4>3
      <3>3. CASE HasSchema(log)
        <4>1. UNCHANGED <<log, pos>>
          BY <2>2, <3>3
        <4> QED BY <2>1, <3>1, <3>2, <4>1, RoomStays DEF RoomOK
      <3>4. CASE Transact("schema")
        BY <2>1, <3>1, <3>2, <3>4, RoomTransacted DEF RoomOK
      <3> QED BY <2>2, <3>3, <3>4
    <2>3. CASE Becomes(s, Reply(s, "broken", CreateDb, FALSE, 0)) /\ UNCHANGED <<log, pos>>
      <3>1. ASSUME NEW i \in DOMAIN socket'.answers
            PROVE  \/ i \in DOMAIN socket.answers /\ socket'.answers[i] = socket.answers[i]
                   \/ ~socket'.answers[i].ok
        <4>1. \A j \in DOMAIN socket'.answers :
                \/ j \in DOMAIN socket.answers /\ socket'.answers[j] = socket.answers[j]
                \/ ~socket'.answers[j].ok
          BY <1>0, <2>1, <2>3, OneAnswerMore
        <4> QED BY <4>1
      <3> QED BY <2>1, <2>3, <3>1, RoomStays DEF RoomOK
    <2> QED BY <1>1, <2>2, <2>3 DEF ServeCreate
  <1>2. ASSUME ServeApply(s) PROVE RoomOK'
    <2>1. PICK w \in Write : Requested(s, w) /\ Transact("write") /\ Becomes(s, Reply(s, "ready", w, TRUE, 0))
      BY <1>2 DEF ServeApply
    <2>2. UNCHANGED <<primary, reads, current, db, moves>>
      BY <1>2 DEF ServeApply
    <2>3. w # CreateDb /\ w \in 0 .. MaxWrites /\ s.requests # <<>>
      BY <2>1, Carried DEF Requested
    <2>4. ASSUME NEW i \in DOMAIN socket'.answers
          PROVE  \/ i \in DOMAIN socket.answers /\ socket'.answers[i] = socket.answers[i]
                 \/ socket'.answers[i].of # CreateDb
      <3>1. \A j \in DOMAIN socket'.answers :
              \/ j \in DOMAIN socket.answers /\ socket'.answers[j] = socket.answers[j]
              \/ socket'.answers[j].of = w
        BY <2>1, <2>3, OneAnswerNamed
      <3> QED BY <3>1, <2>3
    <2> QED BY <2>1, <2>2, <2>4, RoomTransacted DEF RoomOK
  <1>3. ASSUME ServeThrows(s) PROVE RoomOK'
    <2>1. socket'.answers = socket.answers
      BY <1>0, <1>3, DeadIs DEF ServeThrows
    <2> QED BY <1>3, <2>1, RoomStays DEF ServeThrows, RoomOK
  <1>4. ASSUME Swallowed(s) PROVE RoomOK'
    <2>1. UNCHANGED <<primary, log, pos, reads, current, db, moves>>
      BY <1>4 DEF Swallowed
    <2>2. ASSUME NEW i \in DOMAIN socket'.answers
          PROVE  \E j \in DOMAIN socket.answers : socket'.answers[i] = socket.answers[j]
      <3>1. CASE s.requests # <<>> /\ Becomes(s, [s EXCEPT !.requests = Tail(@)])
        <4>1. socket'.answers = socket.answers
          BY <1>0, <3>1, DroppedIs DEF Becomes
        <4> QED BY <4>1
      <3>2. CASE s = socket /\ s.answers # <<>> /\ socket' = [s EXCEPT !.answers = Tail(@)]
        <4>1. socket'.answers = Tail(socket.answers)
          BY <1>0, <3>2, ReadIs
        <4> QED BY <1>0, <3>2, <4>1, PromisedRest
      <3> QED BY <1>4, <3>1, <3>2 DEF Swallowed
    <2> QED BY <2>1, <2>2, RoomStays DEF RoomOK
  <1> QED BY <1>1, <1>2, <1>3, <1>4 DEF Serve

LEMMA RoomInit == TypeOK /\ Init => RoomOK
  <1> SUFFICES ASSUME TypeOK, Init PROVE RoomOK
    OBVIOUS
  <1>1. current \in Node
    BY DEF TypeOK
  <1>2. socket.answers = <<>> /\ reads = <<>> /\ db.status = "none" /\ current = primary
    BY <1>1, NewSocketIs, NoSocketIs DEF Init
  <1> QED BY <1>2 DEF Init, RoomOK

(***************************************************************************)
(* Until the primary moves, the node is told to wait for a transaction     *)
(* that brings it the room.                                                *)
(***************************************************************************)
THEOREM RoomInvariant == Spec => []RoomOK
  <1>1. Init => TypeOK /\ RoomOK
    BY TypeInit, RoomInit
  <1>2. TypeOK /\ RoomOK /\ [Next]_vars => (TypeOK /\ RoomOK)'
    <2> SUFFICES ASSUME TypeOK, RoomOK, [Next]_vars PROVE (TypeOK /\ RoomOK)'
      OBVIOUS
    <2>1. TypeOK'
      BY TypeStep
    <2>2. CASE UNCHANGED vars
      <3>1. UNCHANGED <<primary, log, pos, moves, reads, current, db, socket>>
        BY <2>2 DEF vars, litefs, connection, room, history
      <3> QED BY <2>1, <3>1, RoomStays DEF RoomOK
    <2> QED BY <2>1, <2>2, RoomLitefs, RoomFollow, RoomUseRoom, RoomServe DEF Next
  <1> QED BY <1>1, <1>2, PTL DEF Spec

(***************************************************************************)
(* While the primary stays, a copy of the room is opened only once the     *)
(* node has the transaction that made it, so that it writes no copy.       *)
(***************************************************************************)
THEOREM CopiesAreNotWritten == Spec => []NoCopyIsWritten
  <1>1. RoomOK => NoCopyIsWritten
    BY DEF RoomOK, NoCopyIsWritten
  <1> QED BY <1>1, RoomInvariant, PTL

-----------------------------------------------------------------------------
\* The primary's answers, until something fails.

\* The socket, the log and the database as they were.
LEMMA SteadyKept ==
  ASSUME SteadyOK, UNCHANGED <<primary, older, socket, reconnecting, log>>,
         moves' = 0 /\ faults' = 0 => moves = 0 /\ faults = 0,
         moves = 0 /\ faults = 0 =>
           (primary # Here /\ db'.status \in {"waiting", "open"} => socket.room = "ready")
  PROVE  SteadyOK'
  BY DEF SteadyOK

LEMMA SteadyFollow == TypeOK /\ TypeOK' /\ RoomOK /\ SteadyOK /\ Follow => SteadyOK'
  <1> SUFFICES ASSUME TypeOK, TypeOK', RoomOK, SteadyOK PROVE Follow => SteadyOK'
    OBVIOUS
  <1> USE DEF litefs, room, history
  <1>1. ASSUME ReadPrimaryFile PROVE SteadyOK'
    BY <1>1, SteadyKept DEF ReadPrimaryFile, SteadyOK
  <1>2. ASSUME PrimaryFileRead PROVE SteadyOK'
    <2> SUFFICES ASSUME moves' = 0 /\ faults' = 0 PROVE SteadyOK'
      BY DEF SteadyOK
    <2>1. PICK i \in DOMAIN reads :
            /\ current' = reads[i]
            /\ UNCHANGED <<primary, log, reconnecting, moves, faults>>
            /\ current' = socket.to => UNCHANGED <<socket, older, db>>
      BY <1>2 DEF PrimaryFileRead
    <2>2. UNCHANGED <<socket, older, db>>
      BY <2>1 DEF RoomOK, SteadyOK
    <2> QED BY <2>1, <2>2, SteadyKept DEF SteadyOK
  <1>3. ASSUME SocketLost PROVE SteadyOK'
    <2>1. moves' = moves /\ faults \in Nat
      BY <1>3, ConstantsAssumption DEF SocketLost, TypeOK
    <2>2. ~(moves = 0 /\ faults' = 0)
      BY <1>3, <2>1 DEF SocketLost, SteadyOK
    <2> QED BY <2>1, <2>2 DEF SteadyOK
  <1>4. ASSUME Reconnect PROVE SteadyOK'
    <2>1. reconnecting /\ moves' = moves /\ faults' = faults
      BY <1>4 DEF Reconnect
    <2> QED BY <2>1 DEF SteadyOK
  <1> QED BY <1>1, <1>2, <1>3, <1>4 DEF Follow

\* A request more on #primarySocket.
LEMMA SteadySent ==
  ASSUME TypeOK, SteadyOK, NEW request \in 0 .. MaxWrites, Send(request),
         UNCHANGED <<primary, log, reconnecting, moves, faults>>,
         moves = 0 /\ faults = 0 =>
           /\ primary # Here /\ db'.status \in {"waiting", "open"} => socket.room = "ready"
           /\ request # CreateDb => socket.room = "ready"
  PROVE  SteadyOK'
  <1>1. older' = older
    BY DEF Send
  <1>2. CASE ~HasSocket
    <2>1. socket' = socket
      BY <1>2 DEF Send
    <2> QED BY <1>1, <2>1, SteadyKept
  <1>3. CASE HasSocket
    <2>1. /\ socket'.to = socket.to /\ socket'.closed = socket.closed /\ socket'.up = socket.up
          /\ socket'.room = socket.room
          /\ socket'.requests = Append(socket.requests, request) /\ socket'.answers = socket.answers
      BY <1>3, SentIs, SocketsTyped DEF Send
    <2>2. \A i \in DOMAIN socket'.requests :
            \/ i \in DOMAIN socket.requests /\ socket'.requests[i] = socket.requests[i]
            \/ socket'.requests[i] = request
      BY <2>1, Carried, AppendProperties, LenProperties
    <2> QED BY <1>1, <1>3, <2>1, <2>2 DEF SteadyOK, HasSocket
  <1> QED BY <1>2, <1>3

LEMMA SteadyUseRoom == TypeOK /\ TypeOK' /\ RoomOK /\ SteadyOK /\ UseRoom => SteadyOK'
  <1> SUFFICES ASSUME TypeOK, TypeOK', RoomOK, SteadyOK PROVE UseRoom => SteadyOK'
    OBVIOUS
  <1> USE DEF litefs, connection, room, history
  <1>0. CreateDb \in 0 .. MaxWrites /\ socket \in Socket /\ socket.answers \in Seq(Answer)
    BY Carried, ConstantsAssumption DEF CreateDb, TypeOK
  <1>1. ASSUME NEW kind \in {"schema", "write"}, Transact(kind) \/ UNCHANGED log,
               UNCHANGED <<primary, older, socket, reconnecting, moves, faults>>,
               moves = 0 => primary = Here
        PROVE  SteadyOK'
    <2>1. log' = log \/ log' = Append(log, kind)
      BY <1>1 DEF Transact
    <2>2. HasSchema(log) => HasSchema(log')
      BY <2>1, SchemaKept
    <2> QED BY <1>1, <2>2 DEF SteadyOK
  <1>2. ASSUME CreateHere PROVE SteadyOK'
    <2>1. Transact("schema") \/ UNCHANGED log
      BY <1>2 DEF CreateHere
    <2>2. UNCHANGED <<primary, older, socket, reconnecting, moves, faults>> /\ (moves = 0 => primary = Here)
      BY <1>2 DEF CreateHere, RoomOK
    <2> QED BY <1>1, <2>1, <2>2
  <1>3. ASSUME AskForDb PROVE SteadyOK'
    <2>1. Send(CreateDb) /\ UNCHANGED <<primary, log, reconnecting, moves, faults>>
          /\ db'.status \notin {"waiting", "open"}
      BY <1>3 DEF AskForDb
    <2> QED BY <1>0, <2>1, SteadySent
  <1>4. ASSUME CatchUp PROVE SteadyOK'
    <2>1. UNCHANGED <<primary, older, socket, reconnecting, log, moves, faults>> /\ db.status = "waiting"
      BY <1>4 DEF CatchUp
    <2> QED BY <2>1, SteadyKept DEF SteadyOK
  <1>5. ASSUME Answered PROVE SteadyOK'
    <2> DEFINE answer == Head(socket.answers)
    <2>1. /\ UNCHANGED <<primary, older, log, reconnecting, moves, faults>> /\ socket.answers # <<>>
          /\ IF answer.of = CreateDb
             THEN db' = IF answer.ok THEN [status |-> "waiting", txid |-> answer.txid]
                        ELSE [status |-> "none", txid |-> 0]
             ELSE db' = db
          /\ socket' = [socket EXCEPT !.answers = Tail(@)]
      BY <1>5 DEF Answered
    <2>2. /\ socket'.to = socket.to /\ socket'.closed = socket.closed /\ socket'.up = socket.up
          /\ socket'.room = socket.room
          /\ socket'.requests = socket.requests /\ socket'.answers = Tail(socket.answers)
      BY <1>0, <2>1, ReadIs
    <2>3. /\ answer = socket.answers[1] /\ 1 \in DOMAIN socket.answers
          /\ \A i \in DOMAIN socket'.answers : i + 1 \in DOMAIN socket.answers
                                               /\ socket'.answers[i] = socket.answers[i + 1]
      BY <1>0, <2>1, <2>2, PromisedRest
    <2> HIDE DEF answer
    <2>4. moves = 0 /\ faults = 0 =>
            (primary # Here /\ db'.status \in {"waiting", "open"} => socket.room = "ready")
      <3>1. CASE answer.of = CreateDb /\ answer.ok
        BY <2>3, <3>1 DEF SteadyOK
      <3>2. CASE answer.of = CreateDb /\ ~answer.ok
        <4>1. db'.status = "none"
          BY <2>1, <3>2
        <4> QED BY <4>1
      <3>3. CASE answer.of # CreateDb
        BY <2>1, <3>3 DEF SteadyOK
      <3> QED BY <3>1, <3>2, <3>3
    <2> QED BY <2>1, <2>2, <2>3, <2>4 DEF SteadyOK
  <1>6. ASSUME NEW w \in Write, ApplyHere(w) PROVE SteadyOK'
    <2>1. Transact("write") \/ UNCHANGED log
      BY <1>6 DEF ApplyHere
    <2>2. UNCHANGED <<primary, older, socket, reconnecting, moves, faults>> /\ (moves = 0 => primary = Here)
      BY <1>6 DEF ApplyHere, RoomOK
    <2> QED BY <1>1, <2>1, <2>2
  <1>7. ASSUME NEW w \in Write, Forward(w) PROVE SteadyOK'
    <2>1. Send(w) /\ UNCHANGED <<primary, log, reconnecting, db, moves, faults>>
          /\ db.status = "open" /\ current # Here /\ w \in 0 .. MaxWrites
      BY <1>7, Carried DEF Forward
    <2>2. moves = 0 /\ faults = 0 => socket.room = "ready"
      BY <2>1 DEF RoomOK, SteadyOK
    <2> QED BY <2>1, <2>2, SteadySent
  <1> QED BY <1>2, <1>3, <1>4, <1>5, <1>6, <1>7 DEF UseRoom

LEMMA SteadyServe ==
  ASSUME TypeOK, TypeOK', RoomOK, SteadyOK, NEW s \in older \cup {socket}, Serve(s) \/ Swallowed(s)
  PROVE  SteadyOK'
  <1> USE DEF litefs, room, history
  <1> SUFFICES ASSUME moves' = 0, faults' = 0 PROVE SteadyOK'
    BY DEF SteadyOK
  <1>0. ~Swallowed(s)
    BY ConstantsAssumption DEF Swallowed, TypeOK
  <1>1. moves = 0 /\ faults = 0 /\ UNCHANGED <<primary, reconnecting, db>>
    BY <1>0 DEF Serve, ServeCreate, ServeApply, ServeThrows
  <1>2. s = socket /\ older = {} /\ socket.room # "broken" /\ socket.to = primary
        /\ (socket.room = "ready" => HasSchema(log))
    BY <1>1 DEF SteadyOK
  <1>3. /\ s \in Socket /\ s.requests \in Seq(0 .. MaxWrites) /\ s.answers \in Seq(Answer)
        /\ CreateDb \in 0 .. MaxWrites /\ CreateDb \notin Write
        /\ log' \in Seq({"old", "schema", "write"}) /\ Len(log') \in Nat /\ Len(log) \in Nat
    <2>1. /\ s \in Socket /\ s.requests \in Seq(0 .. MaxWrites) /\ s.answers \in Seq(Answer)
          /\ CreateDb \in 0 .. MaxWrites /\ CreateDb \notin Write
      BY <1>2, Carried, SocketsTyped, ConstantsAssumption DEF CreateDb, Write
    <2>2. log \in Seq({"old", "schema", "write"}) /\ log' \in Seq({"old", "schema", "write"})
      BY DEF TypeOK
    <2> QED BY <2>1, <2>2, LenProperties
  <1>4. ASSUME NEW w \in Write, s.requests # <<>>, Head(s.requests) = w PROVE s.room = "ready"
    <2>1. 1 \in DOMAIN s.requests /\ s.requests[1] = w
      BY <1>3, <1>4, EmptySeq, LenProperties
    <2> QED BY <1>1, <1>2, <1>3, <2>1 DEF SteadyOK
  <1>5. ~ServeThrows(s)
    <2> SUFFICES ASSUME ServeThrows(s) PROVE FALSE
      OBVIOUS
    <2>1. s.requests # <<>> /\ Head(s.requests) \in 0 .. MaxWrites
      BY <1>3, HeadTailProperties DEF ServeThrows
    <2>2. Head(s.requests) # CreateDb => Head(s.requests) \in Write
      BY <2>1, Carried
    <2> QED BY <1>2, <1>4, <2>1, <2>2 DEF ServeThrows
  \* Whatever is answered, the primary's connection knows the room.
  <1>6. ASSUME NEW name \in 0 .. MaxWrites, NEW ok \in BOOLEAN, NEW txid \in Nat, NEW kind \in {"schema", "write"},
               Requested(s, name), Becomes(s, Reply(s, "ready", name, ok, txid)),
               log' = log \/ log' = Append(log, kind), HasSchema(log')
        PROVE  SteadyOK'
    <2> DEFINE t == Reply(s, "ready", name, ok, txid)
    <2>1. s.requests # <<>>
      BY <1>6 DEF Requested
    <2>2. t.to = s.to /\ t.closed = s.closed /\ t.up = s.up /\ t.room = "ready"
          /\ t.requests = Tail(s.requests)
      <3> DEFINE requests == Tail(s.requests)
                 answers == t.answers
      <3>1. t = [s EXCEPT !.requests = requests, !.room = "ready", !.answers = answers]
        BY <1>3 DEF Reply, Socket
      <3>2. /\ t.to = s.to /\ t.closed = s.closed /\ t.up = s.up /\ t.room = "ready"
            /\ t.requests = requests
        <4> HIDE DEF t, requests, answers
        <4> QED BY <1>3, <3>1 DEF Socket
      <3> QED BY <3>2
    <2>3. socket' = t /\ older' = older
      BY <1>2, <1>6 DEF Becomes
    <2> HIDE DEF t
    <2>4. ~socket.closed
      BY <1>1, <1>2, <2>1 DEF SteadyOK
    <2> QED BY <1>1, <1>2, <1>6, <2>2, <2>3, <2>4 DEF SteadyOK
  <1>7. ASSUME ServeCreate(s) PROVE SteadyOK'
    <2>1. /\ Requested(s, CreateDb)
          /\ IF HasSchema(log) THEN UNCHANGED <<log, pos>> ELSE Transact("schema")
          /\ Becomes(s, Reply(s, "ready", CreateDb, TRUE, Len(log')))
      BY <1>2, <1>7 DEF ServeCreate
    <2>2. (log' = log \/ log' = Append(log, "schema")) /\ HasSchema(log')
      <3>1. CASE HasSchema(log)
        BY <2>1, <3>1
      <3>2. CASE ~HasSchema(log)
        <4>1. log' = Append(log, "schema")
          BY <2>1, <3>2 DEF Transact
        <4>2. Len(log') = Len(log) + 1 /\ log'[Len(log) + 1] = "schema"
          BY <1>3, <4>1, AppendProperties DEF TypeOK
        <4> QED BY <1>3, <4>1, <4>2 DEF HasSchema, Contains
      <3> QED BY <3>1, <3>2
    <2> QED BY <1>3, <1>6, <2>1, <2>2
  <1>8. ASSUME ServeApply(s) PROVE SteadyOK'
    <2>1. PICK w \in Write : /\ Requested(s, w) /\ HasSchema(log) /\ Transact("write")
                             /\ Becomes(s, Reply(s, "ready", w, TRUE, 0))
      BY <1>8 DEF ServeApply
    <2>2. log' = Append(log, "write") /\ w \in 0 .. MaxWrites
      BY <2>1, Carried DEF Transact
    <2>3. HasSchema(log')
      BY <2>1, <2>2, SchemaKept
    <2> QED BY <1>6, <2>1, <2>2, <2>3
  <1> QED BY <1>0, <1>5, <1>7, <1>8 DEF Serve

LEMMA SteadyInit == TypeOK /\ Init => SteadyOK
  <1> SUFFICES ASSUME TypeOK, Init PROVE SteadyOK
    OBVIOUS
  <1>1. current \in Node
    BY DEF TypeOK
  <1>2. /\ socket.answers = <<>> /\ socket.requests = <<>> /\ socket.up /\ socket.room = "unknown"
        /\ socket.to = primary /\ (socket.closed => primary = Here)
    BY <1>1, NewSocketIs, NoSocketIs DEF Init
  <1> QED BY <1>2 DEF Init, SteadyOK

(***************************************************************************)
(* While nothing moves or breaks, the primary is asked for the room before *)
(* it is sent writes: no request makes it throw.                           *)
(***************************************************************************)
THEOREM SteadyServes == Spec => []SteadyPrimaryServes
  <1>1. Init => TypeOK /\ RoomOK /\ SteadyOK
    BY TypeInit, RoomInit, SteadyInit
  <1>2. TypeOK /\ RoomOK /\ SteadyOK /\ [Next]_vars => SteadyOK'
    <2> SUFFICES ASSUME TypeOK, RoomOK, SteadyOK, [Next]_vars PROVE SteadyOK'
      OBVIOUS
    <2>1. TypeOK'
      BY TypeStep
    <2>2. CASE UNCHANGED vars \/ Replicate
      <3>1. UNCHANGED <<primary, older, socket, reconnecting, log, db, moves, faults>>
        BY <2>2 DEF vars, Replicate, litefs, connection, room, history
      <3> QED BY <3>1, SteadyKept DEF SteadyOK
    <2>3. CASE MovePrimary
      <3>1. moves' # 0
        BY <2>3 DEF MovePrimary, TypeOK
      <3> QED BY <3>1 DEF SteadyOK
    <2> QED BY <2>1, <2>2, <2>3, SteadyFollow, SteadyUseRoom, SteadyServe DEF Next
  <1>3. SteadyOK => SteadyPrimaryServes
    BY DEF SteadyOK, SteadyPrimaryServes
  <1> QED BY <1>1, <1>2, <1>3, RoomInvariant, TypeCorrect, PTL DEF Spec

-----------------------------------------------------------------------------
\* Following the primary.

\* What the node will have read of the .primary file when the reads under way are done.
Latest == IF reads = <<>> THEN current ELSE reads[Len(reads)]

RestOK ==
  /\ fileNews \/ Latest = primary \/ "overtaken" \in excused
  /\ current # Here => HasSocket \/ reconnecting \/ "returned" \in excused

LEMMA RestFollow == TypeOK /\ TypeOK' /\ WritesOK /\ RestOK /\ Follow => RestOK'
  <1> SUFFICES ASSUME TypeOK, TypeOK', WritesOK, RestOK PROVE Follow => RestOK'
    OBVIOUS
  <1> USE DEF litefs, room, history
  <1>0. /\ socket \in Socket /\ current \in Node /\ current' \in Node /\ primary \in Node
        /\ reads \in Seq(Node) /\ Len(reads) \in Nat /\ DOMAIN reads = 1 .. Len(reads)
    BY LenProperties DEF TypeOK
  <1>1. ASSUME ReadPrimaryFile PROVE RestOK'
    <2>1. /\ reads' = Append(reads, primary)
          /\ UNCHANGED <<primary, current, socket, reconnecting, excused>>
      BY <1>1 DEF ReadPrimaryFile
    <2>2. Len(reads') = Len(reads) + 1 /\ reads'[Len(reads) + 1] = primary
      BY <1>0, <2>1, AppendProperties
    <2>3. reads' # <<>>
      BY <1>0, <2>2, EmptySeq
    <2>4. Latest' = primary'
      BY <2>1, <2>2, <2>3 DEF Latest
    <2> QED BY <2>1, <2>4 DEF RestOK, HasSocket
  <1>2. ASSUME PrimaryFileRead PROVE RestOK'
    <2>1. PICK i \in DOMAIN reads :
            /\ reads' = RemoveAt(reads, i) /\ current' = reads[i]
            /\ excused' = excused \cup (IF i > 1 THEN {"overtaken"} ELSE {})
                 \cup (IF current' = socket.to /\ current' # Here /\ ~HasSocket /\ ~reconnecting
                       THEN {"returned"} ELSE {})
            /\ IF current' = socket.to THEN UNCHANGED <<socket, older, db, outcome>>
               ELSE /\ RejectPending
                    /\ IF current' # Here /\ ~reconnecting THEN Replaced(Closed(socket), current')
                       ELSE socket' = Closed(socket) /\ UNCHANGED older
            /\ UNCHANGED <<primary, fileNews, reconnecting>>
      BY <1>2 DEF PrimaryFileRead
    <2>2. current' # Here => HasSocket' \/ reconnecting' \/ "returned" \in excused'
      <3>1. CASE current' = socket.to
        BY <2>1, <3>1 DEF HasSocket
      <3>2. CASE current' # socket.to /\ current' # Here /\ ~reconnecting
        <4>1. socket' = NewSocket(current')
          BY <2>1, <3>2 DEF Replaced
        <4>2. ~socket'.closed
          BY <1>0, <4>1, NewSocketIs
        <4> QED BY <4>2 DEF HasSocket
      <3> QED BY <2>1, <3>1, <3>2
    <2>3. CASE i > 1
      BY <2>1, <2>2, <2>3 DEF RestOK
    <2>4. CASE i = 1
      <3>1. Latest' = Latest
        <4>1. Len(reads) >= 1 /\ reads # <<>>
          BY <1>0, <2>1, EmptySeq
        <4>2. /\ reads' \in Seq(Node) /\ Len(reads') = Len(reads) - 1
              /\ \A j \in 1 .. Len(reads) - 1 : reads'[j] = reads[j + 1]
          <5> DEFINE none == SubSeq(reads, 1, 0)
                     rest == SubSeq(reads, 2, Len(reads))
          <5>1. reads' = none \o rest
            BY <2>1, <2>4 DEF RemoveAt
          <5>2. none \in Seq(Node) /\ Len(none) = 0
            BY <1>0, <4>1, Beginning
          <5>3. \A j \in 2 .. Len(reads) : reads[j] \in Node
            BY <1>0, ElementOfSeq
          <5>4. /\ rest \in Seq(Node) /\ Len(rest) = Len(reads) - 1
                /\ \A j \in 1 .. Len(reads) - 1 : rest[j] = reads[j + 1]
            <6>1. /\ rest \in Seq(Node)
                  /\ Len(rest) = IF 2 <= Len(reads) THEN Len(reads) - 2 + 1 ELSE 0
                  /\ \A j \in 1 .. Len(reads) - 2 + 1 : rest[j] = reads[2 + j - 1]
              BY <1>0, <5>3, SubSeqProperties
            <6>2. \A j \in 1 .. Len(reads) - 1 : j \in 1 .. Len(reads) - 2 + 1 /\ 2 + j - 1 = j + 1
              BY <1>0
            <6> HIDE DEF rest, none
            <6>3. Len(rest) = Len(reads) - 1
              <7>1. Len(reads) \in Nat /\ Len(reads) >= 1
                BY <1>0, <4>1
              <7>2. Len(rest) = IF 2 <= Len(reads) THEN Len(reads) - 2 + 1 ELSE 0
                BY <6>1
              <7>3. CASE 2 <= Len(reads)
                BY <7>1, <7>2, <7>3
              <7>4. CASE ~(2 <= Len(reads))
                <8>1. Len(rest) = 0
                  BY <7>2, <7>4
                <8>2. Len(reads) = 1
                  BY <7>1, <7>4
                <8> QED BY <8>1, <8>2
              <7> QED BY <7>3, <7>4
            <6>4. ASSUME NEW j \in 1 .. Len(reads) - 1 PROVE rest[j] = reads[j + 1]
              <7>1. j \in 1 .. Len(reads) - 2 + 1 /\ 2 + j - 1 = j + 1
                BY <6>2
              <7>2. rest[j] = reads[2 + j - 1]
                BY <6>1, <7>1
              <7> QED BY <7>1, <7>2
            <6> QED BY <6>1, <6>3, <6>4
          <5> HIDE DEF none, rest
          <5>5. /\ none \o rest \in Seq(Node) /\ Len(none \o rest) = Len(none) + Len(rest)
                /\ \A j \in 1 .. Len(none) + Len(rest) :
                     (none \o rest)[j] = IF j <= Len(none) THEN none[j] ELSE rest[j - Len(none)]
            BY <5>2, <5>4, ConcatProperties
          <5>6. \A j \in 1 .. Len(reads) - 1 : ~(j <= 0) /\ j - 0 = j
            BY <1>0
          <5> QED BY <1>0, <5>1, <5>2, <5>4, <5>5, <5>6
        <4>4. CASE Len(reads) = 1
          <5>1. reads' = <<>>
            BY <4>2, <4>4, EmptySeq
          <5> QED BY <2>1, <2>4, <4>1, <4>4, <5>1 DEF Latest
        <4>5. CASE Len(reads) > 1
          <5>1. Len(reads') = Len(reads) - 1 /\ Len(reads') # 0
            BY <1>0, <4>2, <4>5
          <5>4. reads' # <<>>
            BY <5>1, EmptySeq
          <5>2. reads'[Len(reads) - 1] = reads[(Len(reads) - 1) + 1]
            BY <1>0, <4>2, <4>5
          <5>3. (Len(reads) - 1) + 1 = Len(reads)
            BY <1>0
          <5> QED BY <4>1, <5>1, <5>2, <5>3, <5>4 DEF Latest
        <4> QED BY <1>0, <4>1, <4>4, <4>5
      <3>2. fileNews' \/ Latest' = primary' \/ "overtaken" \in excused'
        BY <2>1, <3>1 DEF RestOK
      <3> QED BY <2>2, <3>2 DEF RestOK
    <2> QED BY <1>0, <2>1, <2>3, <2>4
  <1>3. ASSUME SocketLost PROVE RestOK'
    <2>1. UNCHANGED <<primary, fileNews, reads, current, excused>>
          /\ reconnecting' = (reconnecting \/ current # Here)
      BY <1>3 DEF SocketLost
    <2>2. Latest' = Latest
      BY <2>1 DEF Latest
    <2> QED BY <2>1, <2>2 DEF RestOK
  <1>4. ASSUME Reconnect PROVE RestOK'
    <2>1. /\ UNCHANGED <<primary, fileNews, reads, current, excused>>
          /\ IF current = Here THEN UNCHANGED <<socket, older>> ELSE Replaced(socket, current)
      BY <1>4 DEF Reconnect
    <2>2. Latest' = Latest
      BY <2>1 DEF Latest
    <2>3. current # Here => HasSocket'
      <3> SUFFICES ASSUME current # Here PROVE HasSocket'
        OBVIOUS
      <3>1. socket' = NewSocket(current)
        BY <2>1 DEF Replaced
      <3>2. ~socket'.closed
        BY <1>0, <3>1, NewSocketIs
      <3> QED BY <3>2 DEF HasSocket
    <2> QED BY <2>1, <2>2, <2>3 DEF RestOK
  <1> QED BY <1>1, <1>2, <1>3, <1>4 DEF Follow

\* What is sent and answered over the socket keeps it open.
LEMMA RestKept ==
  ASSUME RestOK, UNCHANGED <<primary, fileNews, reads, current, reconnecting>>,
         excused \subseteq excused', HasSocket' = HasSocket
  PROVE  RestOK'
  <1>1. Latest' = Latest
    BY DEF Latest
  <1> QED BY <1>1 DEF RestOK

LEMMA StaysOpen ==
  TypeOK /\ (UseRoom \/ \E s \in older \cup {socket} : Serve(s) \/ Swallowed(s)) => HasSocket' = HasSocket
  <1> SUFFICES ASSUME TypeOK PROVE (UseRoom \/ \E s \in older \cup {socket} : Serve(s) \/ Swallowed(s)) => HasSocket' = HasSocket
    OBVIOUS
  <1>0. socket \in Socket /\ older \subseteq Socket
    BY DEF TypeOK
  <1>1. ASSUME NEW request, Send(request) PROVE HasSocket' = HasSocket
    BY <1>0, <1>1 DEF Send, HasSocket, Socket
  <1>2. ASSUME UseRoom PROVE HasSocket' = HasSocket
    <2>1. ASSUME Answered PROVE HasSocket' = HasSocket
      BY <1>0, <2>1 DEF Answered, HasSocket, Socket
    <2>2. ASSUME CreateHere \/ CatchUp \/ \E w \in Write : ApplyHere(w) PROVE HasSocket' = HasSocket
      BY <2>2 DEF CreateHere, CatchUp, ApplyHere, HasSocket, connection
    <2>3. ASSUME AskForDb \/ \E w \in Write : Forward(w) PROVE HasSocket' = HasSocket
      BY <1>1, <2>3 DEF AskForDb, Forward
    <2> QED BY <1>2, <2>1, <2>2, <2>3 DEF UseRoom
  <1>3. ASSUME NEW s \in older \cup {socket}, NEW t, Becomes(s, t), t.closed = s.closed
        PROVE  HasSocket' = HasSocket
    BY <1>3 DEF Becomes, HasSocket
  <1>5. ASSUME NEW s \in older \cup {socket}, Serve(s) PROVE HasSocket' = HasSocket
    <2>0. s \in Socket
      BY <1>0
    <2>1. ASSUME ServeCreate(s) PROVE HasSocket' = HasSocket
      <3> DEFINE t == Reply(s, "ready", CreateDb, TRUE, Len(log'))
                 u == Reply(s, "broken", CreateDb, FALSE, 0)
      <3>1. t.closed = s.closed /\ u.closed = s.closed
        BY <2>0 DEF Reply, Socket
      <3>2. Becomes(s, t) \/ Becomes(s, u)
        BY <2>1 DEF ServeCreate
      <3> HIDE DEF t, u
      <3> QED BY <1>3, <3>1, <3>2
    <2>2. ASSUME ServeApply(s) PROVE HasSocket' = HasSocket
      <3>1. PICK w \in Write : Becomes(s, Reply(s, "ready", w, TRUE, 0))
        BY <2>2 DEF ServeApply
      <3> DEFINE t == Reply(s, "ready", w, TRUE, 0)
      <3>2. t.closed = s.closed
        BY <2>0 DEF Reply, Socket
      <3> HIDE DEF t
      <3> QED BY <1>3, <3>1, <3>2 DEF t
    <2>3. ASSUME ServeThrows(s) PROVE HasSocket' = HasSocket
      BY <1>0, <2>3 DEF ServeThrows, HasSocket, Socket
    <2> QED BY <1>5, <2>1, <2>2, <2>3 DEF Serve
  <1>6. ASSUME NEW s \in older \cup {socket}, Swallowed(s) PROVE HasSocket' = HasSocket
    <2> DEFINE t == [s EXCEPT !.requests = Tail(@)]
    <2>1. s \in Socket
      BY <1>0
    <2>2. t.closed = s.closed
      BY <2>1 DEF Socket
    <2>3. CASE Becomes(s, t)
      <3> HIDE DEF t
      <3> QED BY <1>3, <2>2, <2>3
    <2>4. CASE s = socket /\ socket' = [s EXCEPT !.answers = Tail(@)]
      BY <2>1, <2>4 DEF HasSocket, Socket
    <2> QED BY <1>6, <2>3, <2>4 DEF Swallowed
  <1> QED BY <1>2, <1>5, <1>6

(***************************************************************************)
(* At rest a node follows the primary (FollowsAtRest): whatever the order  *)
(* of file events, lost connections and timers, the last read of the file  *)
(* that is under way finds the primary of now, and a node that knows of    *)
(* one has a socket, or a timer that will make it.  It is the safety half  *)
(* of FollowsUnlessExcused.                                                *)
(***************************************************************************)
THEOREM AtRestItFollows == Spec => []FollowsAtRest
  <1>1. TypeOK /\ Init => RestOK
    <2> SUFFICES ASSUME TypeOK, Init PROVE RestOK
      OBVIOUS
    <2>1. current # Here => HasSocket
      BY NewSocketIs DEF Init, TypeOK, HasSocket
    <2> QED BY <2>1 DEF Init, RestOK
  <1>2. TypeOK /\ TypeOK' /\ WritesOK /\ RestOK /\ [Next]_vars => RestOK'
    <2> SUFFICES ASSUME TypeOK, TypeOK', WritesOK, RestOK, [Next]_vars PROVE RestOK'
      OBVIOUS
    <2>1. CASE UNCHANGED vars \/ Replicate
      <3>1. UNCHANGED <<primary, fileNews, reads, current, reconnecting, excused, socket>>
        BY <2>1 DEF vars, Replicate, litefs, connection, history
      <3> QED BY <3>1, RestKept DEF HasSocket
    <2>2. CASE MovePrimary
      <3>1. fileNews' = TRUE /\ UNCHANGED <<current, socket, reconnecting, excused>>
        BY <2>2 DEF MovePrimary
      <3> QED BY <3>1 DEF RestOK, HasSocket
    <2>3. CASE UseRoom \/ \E s \in older \cup {socket} : Serve(s) \/ Swallowed(s)
      <3>1. UNCHANGED <<primary, fileNews, reads, current, reconnecting>> /\ excused \subseteq excused'
        BY <2>3 DEF UseRoom, CreateHere, AskForDb, CatchUp, Answered, ApplyHere, Forward, Serve,
           ServeCreate, ServeApply, ServeThrows, Swallowed, litefs, connection, history
      <3> QED BY <2>3, <3>1, StaysOpen, RestKept
    <2> QED BY <2>1, <2>2, <2>3, RestFollow DEF Next
  <1>3. RestOK => FollowsAtRest
    BY DEF RestOK, Latest, FollowsAtRest, Follows
  <1>4. Spec => []RestOK
    BY <1>1, <1>2, WritesInvariant, PTL DEF Spec
  <1> QED BY <1>3, <1>4, PTL

-----------------------------------------------------------------------------
\* Waiting for the primary.

\* What PendingOK says of the writes, of the request for the room.
AskedOK ==
  db.status = "asking" =>
    HasSocket /\ (CreateDb \in Asked \cup Replied \/ ~socket.up \/ "swallowed" \in excused)

LEMMA AskedFollow == TypeOK /\ WritesOK /\ AskedOK /\ Follow => AskedOK'
  <1> SUFFICES ASSUME TypeOK, WritesOK, AskedOK PROVE Follow => AskedOK'
    OBVIOUS
  <1> USE DEF room, history
  <1>1. ASSUME RejectPending PROVE db'.status # "asking"
    <2>1. db \in [status : {"none", "asking", "waiting", "open", "missing", "refused"}, txid : Nat]
      BY DEF TypeOK
    <2>2. db' = IF db.status = "asking" THEN [db EXCEPT !.status = "none"] ELSE db
      BY <1>1 DEF RejectPending
    <2>3. CASE db.status = "asking"
      BY <2>1, <2>2, <2>3
    <2> QED BY <2>2, <2>3
  <1>2. ASSUME UNCHANGED <<db, socket>>, excused \subseteq excused' PROVE AskedOK'
    BY <1>2 DEF AskedOK, HasSocket, Asked, Replied
  <1>3. ASSUME ReadPrimaryFile PROVE AskedOK'
    BY <1>2, <1>3 DEF ReadPrimaryFile
  <1>4. ASSUME PrimaryFileRead PROVE AskedOK'
    BY <1>1, <1>2, <1>4 DEF PrimaryFileRead, AskedOK
  <1>5. ASSUME SocketLost PROVE AskedOK'
    BY <1>1, <1>5 DEF SocketLost, AskedOK
  <1>6. ASSUME Reconnect PROVE AskedOK'
    <2>1. ~HasSocket /\ db' = db
      BY <1>6 DEF Reconnect, WritesOK, LinkOK
    <2> QED BY <2>1 DEF AskedOK
  <1> QED BY <1>3, <1>4, <1>5, <1>6 DEF Follow

LEMMA AskedUseRoom == TypeOK /\ WritesOK /\ AskedOK /\ UseRoom => AskedOK'
  <1> SUFFICES ASSUME TypeOK, WritesOK, AskedOK PROVE UseRoom => AskedOK'
    OBVIOUS
  <1> USE DEF connection, litefs, history
  <1>0. CreateDb \in 0 .. MaxWrites
    BY ConstantsAssumption DEF CreateDb
  <1>1. /\ socket \in Socket /\ socket.requests \in Seq(0 .. MaxWrites) /\ socket.answers \in Seq(Answer)
    BY Carried DEF TypeOK
  <1>2. ASSUME CreateHere \/ CatchUp PROVE AskedOK'
    <2>1. \A transactions : Opened(transactions).status # "asking"
      BY DEF Opened
    <2>2. db'.status # "asking"
      <3>1. CASE CreateHere
        BY <2>1, <3>1 DEF CreateHere
      <3>2. CASE CatchUp
        <4> DEFINE missing == [status |-> "missing", txid |-> 0]
        <4>1. missing.status # "asking"
          OBVIOUS
        <4>2. /\ db' = IF pos = 0 THEN missing
                       ELSE IF pos >= db.txid THEN Opened(SubSeq(log, 1, pos))
                       ELSE db
              /\ db.status = "waiting"
          BY <3>2 DEF CatchUp
        <4> HIDE DEF missing
        <4> QED BY <2>1, <4>1, <4>2
      <3> QED BY <1>2, <3>1, <3>2
    <2> QED BY <2>2 DEF AskedOK
  <1>3. ASSUME NEW request \in 0 .. MaxWrites, Send(request), UNCHANGED excused
        PROVE  /\ HasSocket => HasSocket' /\ Asked' = Asked \cup {request}
               /\ ~HasSocket => socket' = socket
               /\ Replied' = Replied /\ socket'.up = socket.up
    <2>1. CASE HasSocket
      <3> DEFINE t == [socket EXCEPT !.requests = Append(@, request)]
      <3>1. socket' = t
        BY <1>3, <2>1 DEF Send
      <3>2. t.closed = socket.closed /\ t.up = socket.up /\ t.answers = socket.answers
            /\ t.requests = Append(socket.requests, request)
        BY <1>1, SentIs
      <3> HIDE DEF t
      <3>3. Names(Append(socket.requests, request)) = Names(socket.requests) \cup {request}
        BY Carried, AskedAppended
      <3>4. Asked' = Names(t.requests) /\ Replied' = Answers(t.answers)
        BY <3>1 DEF Asked, Replied, Names, Answers
      <3>5. Asked' = Asked \cup {request}
        BY <3>2, <3>3, <3>4 DEF Asked
      <3> QED BY <2>1, <3>1, <3>2, <3>4, <3>5 DEF HasSocket, Replied
    <2>2. CASE ~HasSocket
      BY <1>3, <2>2 DEF Send, Replied
    <2> QED BY <2>1, <2>2
  <1>4. ASSUME AskForDb PROVE AskedOK'
    <2>1. /\ Send(CreateDb) /\ UNCHANGED excused
          /\ db' = [status |-> IF HasSocket THEN "asking" ELSE "none", txid |-> 0]
      BY <1>4 DEF AskForDb
    <2>2. db'.status = "asking" => HasSocket
      BY <2>1
    <2>3. HasSocket => HasSocket' /\ CreateDb \in Asked'
      BY <1>0, <1>3, <2>1
    <2> QED BY <2>2, <2>3 DEF AskedOK
  <1>5. ASSUME NEW w \in Write, Forward(w) PROVE AskedOK'
    <2>1. Send(w) /\ UNCHANGED <<db, excused>> /\ w \in 0 .. MaxWrites
      BY <1>5, Carried DEF Forward
    <2>2. /\ HasSocket => HasSocket' /\ Asked' = Asked \cup {w}
          /\ ~HasSocket => socket' = socket
          /\ Replied' = Replied /\ socket'.up = socket.up
      BY <1>3, <2>1
    <2> QED BY <2>1, <2>2 DEF AskedOK
  <1>6. ASSUME NEW w \in Write, ApplyHere(w) PROVE AskedOK'
    BY <1>6 DEF ApplyHere, AskedOK, HasSocket, Asked, Replied
  <1>7. ASSUME Answered PROVE AskedOK'
    <2> DEFINE answer == Head(socket.answers)
    <2>1. /\ socket.answers # <<>> /\ HasSocket
          /\ socket' = [socket EXCEPT !.answers = Tail(@)] /\ UNCHANGED excused
          /\ IF answer.of = CreateDb
             THEN db' = IF answer.ok THEN [status |-> "waiting", txid |-> answer.txid]
                        ELSE [status |-> "none", txid |-> 0]
             ELSE db' = db
      BY <1>7 DEF Answered
    <2>2. /\ socket'.closed = socket.closed /\ socket'.up = socket.up
          /\ socket'.requests = socket.requests /\ socket'.answers = Tail(socket.answers)
      BY <1>1, <2>1, ReadIs
    <2>3. Answers(socket.answers) = Answers(Tail(socket.answers)) \cup {answer.of}
      BY <1>1, <2>1, AnswersRest
    <2> HIDE DEF answer
    <2>4. CASE answer.of = CreateDb
      <3>1. db'.status # "asking"
        BY <2>1, <2>4
      <3> QED BY <3>1 DEF AskedOK
    <2>5. CASE answer.of # CreateDb
      <3>1. Asked' = Names(socket'.requests) /\ Replied' = Answers(socket'.answers)
        BY DEF Asked, Replied, Names, Answers
      <3>2. Asked' = Asked /\ Replied = Replied' \cup {answer.of}
        BY <2>2, <2>3, <3>1 DEF Asked, Replied
      <3> QED BY <2>1, <2>2, <2>5, <3>2 DEF AskedOK, HasSocket
    <2> QED BY <2>4, <2>5
  <1> QED BY <1>2, <1>4, <1>5, <1>6, <1>7 DEF UseRoom

LEMMA AskedServe ==
  ASSUME TypeOK, TypeOK', WritesOK, AskedOK, NEW s \in older \cup {socket}, Serve(s) \/ Swallowed(s)
  PROVE  AskedOK'
  <1> USE DEF room, history
  <1> SUFFICES ASSUME db.status = "asking" PROVE AskedOK'
    <2>1. db' = db
      BY DEF Serve, ServeCreate, ServeApply, ServeThrows, Swallowed
    <2> QED BY <2>1 DEF AskedOK
  <1>1. HasSocket' = HasSocket /\ HasSocket /\ ~socket.closed
    BY StaysOpen DEF AskedOK, HasSocket
  <1>2. CreateDb \in Asked \cup Replied \/ ~socket.up \/ "swallowed" \in excused
    BY DEF AskedOK
  <1>3. \A x \in older : x.closed
    BY DEF WritesOK, LinkOK
  <1>4. ASSUME NEW name \in 0 .. MaxWrites, NEW status \in {"ready", "broken"}, NEW ok \in BOOLEAN,
               NEW txid \in Nat, Requested(s, name), Becomes(s, Reply(s, status, name, ok, txid)),
               UNCHANGED <<current, reconnecting, excused>>
        PROVE  AskedOK'
    <2>1. \/ ~HasSocket /\ Replied' = Replied
          \/ s \in older /\ s.closed /\ socket' = socket
          \/ /\ s = socket /\ HasSocket /\ socket'.up = socket.up
             /\ name \in Asked /\ Asked' = Asked \ {name} /\ Replied' = Replied \cup {name}
      BY <1>4, Replies
    <2>2. CASE socket' = socket
      BY <1>1, <1>2, <1>4, <2>2 DEF AskedOK, Asked, Replied
    <2>3. CASE socket'.up = socket.up /\ Asked' = Asked \ {name} /\ Replied' = Replied \cup {name}
      BY <1>1, <1>2, <1>4, <2>3 DEF AskedOK
    <2> QED BY <1>1, <2>1, <2>2, <2>3
  <1>5. ASSUME ServeCreate(s) PROVE AskedOK'
    <2>1. CreateDb \in 0 .. MaxWrites /\ Len(log') \in Nat
      BY ConstantsAssumption, LenProperties DEF CreateDb, TypeOK
    <2>2. /\ Requested(s, CreateDb) /\ UNCHANGED <<current, reconnecting, excused>>
          /\ \/ Becomes(s, Reply(s, "ready", CreateDb, TRUE, Len(log')))
             \/ Becomes(s, Reply(s, "broken", CreateDb, FALSE, 0))
      BY <1>5 DEF ServeCreate
    <2> QED BY <1>4, <2>1, <2>2
  <1>6. ASSUME ServeApply(s) PROVE AskedOK'
    <2>1. PICK w \in Write : Requested(s, w) /\ Becomes(s, Reply(s, "ready", w, TRUE, 0))
      BY <1>6 DEF ServeApply
    <2>2. w \in 0 .. MaxWrites /\ UNCHANGED <<current, reconnecting, excused>>
      BY <1>6, <2>1, Carried DEF ServeApply
    <2> QED BY <1>4, <2>1, <2>2
  <1>7. ASSUME ServeThrows(s) PROVE AskedOK'
    <2>1. UNCHANGED excused
          /\ (socket' = socket \/ socket' = [socket EXCEPT !.up = FALSE, !.requests = <<>>])
      BY <1>7 DEF ServeThrows
    <2>2. CASE socket' = socket
      BY <1>1, <1>2, <2>1, <2>2 DEF AskedOK, Asked, Replied
    <2>3. CASE socket' = [socket EXCEPT !.up = FALSE, !.requests = <<>>]
      <3>1. ~socket'.up
        BY <2>3, SocketsTyped, DeadIs
      <3> QED BY <1>1, <3>1 DEF AskedOK
    <2> QED BY <2>1, <2>2, <2>3
  <1>8. ASSUME Swallowed(s) PROVE AskedOK'
    <2>1. "swallowed" \in excused'
      BY <1>8 DEF Swallowed
    <2> QED BY <1>1, <2>1 DEF AskedOK
  <1> QED BY <1>5, <1>6, <1>7, <1>8 DEF Serve

(***************************************************************************)
(* Nobody waits on a socket that was replaced (WaitersAreCarried): the     *)
(* open socket carries the request or its answer, unless it is about to be *)
(* lost, which tells all that wait, or a message was swallowed.  It is the *)
(* safety half of RequestsSettle.                                          *)
(***************************************************************************)
THEOREM NobodyIsLeftWaiting == Spec => []WaitersAreCarried
  <1>1. Init => AskedOK
    BY DEF Init, AskedOK
  <1>2. TypeOK /\ TypeOK' /\ WritesOK /\ AskedOK /\ [Next]_vars => AskedOK'
    <2> SUFFICES ASSUME TypeOK, TypeOK', WritesOK, AskedOK, [Next]_vars PROVE AskedOK'
      OBVIOUS
    <2>1. CASE UNCHANGED vars \/ MovePrimary \/ Replicate
      <3>1. UNCHANGED <<db, socket, excused>>
        BY <2>1 DEF vars, MovePrimary, Replicate, connection, room, history
      <3> QED BY <3>1 DEF AskedOK, HasSocket, Asked, Replied
    <2> QED BY <2>1, AskedFollow, AskedUseRoom, AskedServe DEF Next
  <1>3. TypeOK /\ WritesOK /\ AskedOK => WaitersAreCarried
    <2> SUFFICES ASSUME TypeOK, WritesOK, AskedOK, NEW of \in Write \cup {CreateDb}, Awaited(of)
                 PROVE  /\ HasSocket
                        /\ \/ Contains(socket.requests, of)
                           \/ \E i \in DOMAIN socket.answers : socket.answers[i].of = of
                           \/ ~socket.up \/ "swallowed" \in excused
      BY DEF WaitersAreCarried, Awaited
    <2>1. HasSocket /\ (of \in Asked \cup Replied \/ ~socket.up \/ "swallowed" \in excused)
      <3>1. CASE of = CreateDb
        BY <3>1 DEF Awaited, AskedOK
      <3>2. CASE of # CreateDb
        BY <3>2 DEF Awaited, WritesOK, PendingOK
      <3> QED BY <3>1, <3>2
    <2>2. of \in Asked => Contains(socket.requests, of)
      BY Carried, LenProperties DEF Asked, Names, Contains
    <2>3. of \in Replied => \E i \in DOMAIN socket.answers : socket.answers[i].of = of
      BY DEF Replied, Answers
    <2> QED BY <2>1, <2>2, <2>3
  <1>4. Spec => []AskedOK
    BY <1>1, <1>2, WritesInvariant, PTL DEF Spec
  <1> QED BY <1>3, <1>4, WritesInvariant, PTL

=============================================================================
