--------------------------------- MODULE P2P ---------------------------------
(***************************************************************************)
(* Peer-to-peer sync: the WholeDbReplicator of each site pokes the peers   *)
(* it is connected to when its database changes, a poked site asks for     *)
(* what it misses, and applies the answer; WholeDbRtc keeps the            *)
(* connections.  PeerJS is external: its connections deliver in order      *)
(* until they break.                                                       *)
(*                                                                         *)
(* A site's database serves one call at a time, in order, so a message is  *)
(* handled in one step, its query and the message it sends included.       *)
(***************************************************************************)
EXTENDS Naturals, Sequences, FiniteSets, SequencesExt

CONSTANTS
  Site,
  MaxWrites, \* bound: the writes users make, at all sites together
  MaxConns,  \* bound: the connections ever opened
  MaxFaults  \* bound: connections that break and database calls that fail

ASSUME ConstantsAssumption == {MaxWrites, MaxConns, MaxFaults} \subseteq Nat

VARIABLES
  log,         \* of each site: the changes that each db_version brought
  peers,       \* __crsql_wdbreplicator_peers: the version had of each site
  notice,      \* pendingNotification: none, due, or stuck when its query failed
  conns,       \* the connections, and how far each end of one has come
  established, \* establishedConnections: a connection of each peer, or 0
  wire,        \* what is on its way to an end of each connection
  writes, faults, \* counters, for the bounds
  excused      \* history: what a property may have to be excused for

vars == <<log, peers, notice, conns, established, wire, writes, faults, excused>>

Change == Site \X (1 .. MaxWrites)
Conn == 1 .. MaxConns
Excuse == {"orphaned",    \* a connection was forgotten when another to the same peer closed
           "unapplied",   \* a transaction of received changes failed
           "unannounced"} \* the query before a poke failed

Holds(s) == UNION {log[s][v] : v \in DOMAIN log[s]}

Init ==
  /\ log = [s \in Site |-> <<>>]
  /\ peers = [s \in Site |-> [p \in Site |-> 0]]
  /\ notice = [s \in Site |-> "none"]
  /\ conns = <<>>
  /\ established = [s \in Site |-> [p \in Site |-> 0]]
  /\ wire = [c \in Conn |-> [s \in Site |-> <<>>]]
  /\ writes = 0 /\ faults = 0 /\ excused = {}

Fault == faults < MaxFaults /\ faults' = faults + 1

-----------------------------------------------------------------------------
\* WholeDbRtc

IsUp(c, s) == c # 0 /\ conns[c].end[s] = "open" /\ ~conns[c].down

\* What is sent over no connection, or over a broken one, is gone.
Sent(w, s, p, msg) ==
  LET c == established[s][p]
  IN  IF IsUp(c, s) THEN [w EXCEPT ![c][p] = Append(@, msg)] ELSE w

\* One that is pending already is closed.
connectTo(s, p) ==
  /\ s # p /\ Len(conns) < MaxConns
  /\ conns' = Append(
       [c \in DOMAIN conns |->
          IF conns[c].by = s /\ conns[c].end[p] # "none" /\ conns[c].end[s] = "opening"
          THEN [conns[c] EXCEPT !.down = TRUE] ELSE conns[c]],
       [by |-> s, down |-> FALSE,
        end |-> [e \in Site |-> IF e \in {s, p} THEN "opening" ELSE "none"]])
  /\ UNCHANGED <<log, peers, notice, established, wire, writes, faults, excused>>

PeerAt(c, s) == CHOOSE p \in Site \ {s} : conns[c].end[p] # "none"

\* crrChanged: one query, and one poke, for all the changes before it.
CrrChanged(s) == notice' = [notice EXCEPT ![s] = IF @ = "none" THEN "due" ELSE @]

\* A mutant of newConnection: nobody is poked when a connection opens.
newConnectionUnpoked(c, s) ==
  /\ conns[c].end[s] = "opening" /\ ~conns[c].down
  /\ conns' = [conns EXCEPT ![c].end[s] = "open"]
  /\ established' = [established EXCEPT ![s][PeerAt(c, s)] = c]
  /\ UNCHANGED <<log, peers, notice, wire, writes, faults, excused>>

\* newConnection counts as a change.
newConnection(c, s) ==
  /\ conns[c].end[s] = "opening" /\ ~conns[c].down
  /\ conns' = [conns EXCEPT ![c].end[s] = "open"]
  /\ established' = [established EXCEPT ![s][PeerAt(c, s)] = c]
  /\ CrrChanged(s)
  /\ UNCHANGED <<log, peers, wire, writes, faults, excused>>

Break(c) ==
  /\ ~conns[c].down /\ Fault
  /\ \E s \in Site : conns[c].end[s] = "open"
  /\ conns' = [conns EXCEPT ![c].down = TRUE]
  /\ UNCHANGED <<log, peers, notice, established, wire, writes, excused>>

\* Whatever connection the peer has by now, it is the one deleted.  Messages
\* that have come in already are still handled.
onClose(c, s) ==
  /\ conns[c].down /\ conns[c].end[s] = "open"
  /\ conns' = [conns EXCEPT ![c].end[s] = "closed"]
  /\ \E came \in 0 .. Len(wire[c][s]) : wire' = [wire EXCEPT ![c][s] = SubSeq(@, 1, came)]
  /\ LET p == PeerAt(c, s) IN
       /\ established' = [established EXCEPT ![s][p] = 0]
       /\ excused' = IF \E d \in DOMAIN conns \ {c} : conns[d].end[s] = "open" /\ PeerAt(d, s) = p
                     THEN excused \cup {"orphaned"} ELSE excused
  /\ UNCHANGED <<log, peers, notice, writes, faults>>

-----------------------------------------------------------------------------
\* WholeDbReplicator

\* A user's write: its trigger calls crrChanged.
LocalWrite(s) ==
  /\ writes < MaxWrites /\ writes' = writes + 1
  /\ log' = [log EXCEPT ![s] = Append(@, {<<s, writes'>>})]
  /\ CrrChanged(s)
  /\ UNCHANGED <<peers, conns, established, wire, faults, excused>>

\* The microtask of crrChanged: crsql_db_version, then a poke to everyone.
Poke(s) ==
  /\ notice[s] = "due"
  /\ \/ /\ notice' = [notice EXCEPT ![s] = "none"]
        /\ wire' = [c \in Conn |-> [p \in Site |->
             IF s # p /\ established[s][p] = c /\ IsUp(c, s)
             THEN Append(wire[c][p], [tag |-> "poke", version |-> Len(log[s])])
             ELSE wire[c][p]]]
        /\ UNCHANGED <<faults, excused>>
     \/ /\ Fault
        /\ notice' = [notice EXCEPT ![s] = "stuck"]
        /\ excused' = excused \cup {"unannounced"}
        /\ UNCHANGED wire
  /\ UNCHANGED <<log, peers, conns, established, writes>>

\* poked
Poked(s, p, msg, rest) ==
  /\ msg.tag = "poke"
  /\ wire' = IF msg.version <= peers[s][p] THEN rest
             ELSE Sent(rest, s, p, [tag |-> "request-changes", since |-> peers[s][p]])
  /\ UNCHANGED <<log, peers, faults, excused>>

\* The rows of crsql_changes after a version that another site did not make.
RowsSince(s, since, p) ==
  {row \in (DOMAIN log[s]) \X Change : row[1] > since /\ row[2] \in log[s][row[1]] /\ row[2][1] # p}

\* changesRequested
ChangesRequested(s, p, msg, rest) ==
  /\ msg.tag = "request-changes"
  /\ LET rows == RowsSince(s, msg.since, p)
     IN  wire' = IF rows = {} THEN rest
                 ELSE Sent(rest, s, p, [tag |-> "apply-changes", changes |-> rows])
  /\ UNCHANGED <<log, peers, faults, excused>>

\* A mutant of ChangesReceived: the version is recorded outside the transaction.
ChangesReceivedRecordsFailed(s, p, msg, rest) ==
  /\ msg.tag = "apply-changes"
  /\ wire' = rest
  /\ \E last \in msg.changes :
       /\ \A row \in msg.changes : row[1] <= last[1]
       /\ peers' = [peers EXCEPT ![s][p] = last[1]]
  /\ Fault
  /\ UNCHANGED <<log, excused>>

\* changesReceived, in one transaction; rows that are held already change nothing.
\* The triggers do not fire for it.
ChangesReceived(s, p, msg, rest) ==
  /\ msg.tag = "apply-changes"
  /\ wire' = rest
  /\ \/ LET new == {row[2] : row \in msg.changes} \ Holds(s) IN
        /\ log' = IF new = {} THEN log ELSE [log EXCEPT ![s] = Append(@, new)]
        /\ \E last \in msg.changes :
             /\ \A row \in msg.changes : row[1] <= last[1]
             /\ peers' = [peers EXCEPT ![s][p] = last[1]]
        /\ UNCHANGED <<faults, excused>>
     \/ /\ Fault
        /\ excused' = excused \cup {"unapplied"}
        /\ UNCHANGED <<log, peers>>

\* A mutant of dataReceived: the database serves calls in any order.
dataReceivedAnyhow(c, s) ==
  /\ conns[c].end[s] \in {"open", "closed"}
  /\ \E i \in DOMAIN wire[c][s] :
       LET msg == wire[c][s][i]
           p == PeerAt(c, s)
           rest == [wire EXCEPT ![c][s] = RemoveAt(@, i)]
       IN  \/ Poked(s, p, msg, rest)
           \/ ChangesRequested(s, p, msg, rest)
           \/ ChangesReceived(s, p, msg, rest)
  /\ UNCHANGED <<notice, conns, established, writes>>

dataReceived(c, s) ==
  /\ conns[c].end[s] \in {"open", "closed"} /\ wire[c][s] # <<>>
  /\ LET msg == Head(wire[c][s])
         p == PeerAt(c, s)
         rest == [wire EXCEPT ![c][s] = Tail(@)]
     IN  \/ Poked(s, p, msg, rest)
         \/ ChangesRequested(s, p, msg, rest)
         \/ ChangesReceived(s, p, msg, rest)
  /\ UNCHANGED <<notice, conns, established, writes>>

-----------------------------------------------------------------------------
Next ==
  \/ \E s, p \in Site : connectTo(s, p)
  \/ \E c \in DOMAIN conns : Break(c)
  \/ \E c \in DOMAIN conns, s \in Site : newConnection(c, s) \/ onClose(c, s) \/ dataReceived(c, s)
  \/ \E s \in Site : LocalWrite(s) \/ Poke(s)

Spec == Init /\ [][Next]_vars

-----------------------------------------------------------------------------
TypeOK ==
  /\ \A s \in Site : \A v \in DOMAIN log[s] : log[s][v] \in SUBSET Change \ {{}}
  /\ peers \in [Site -> [Site -> Nat]]
  /\ notice \in [Site -> {"none", "due", "stuck"}]
  /\ \A c \in DOMAIN conns : Cardinality({s \in Site : conns[c].end[s] # "none"}) = 2
  /\ established \in [Site -> [Site -> 0 .. Len(conns)]]
  /\ excused \subseteq Excuse

\* The version a site has recorded of a peer promises that it holds all that
\* the peer had by then, but for its own: what is not requested is not missed.
TracksOnlyWhatItHolds ==
  \A s, p \in Site : \A v \in 1 .. peers[s][p] :
    {ch \in log[p][v] : ch[1] # s} \subseteq Holds(s)

Joins(c, s, p) == s # p /\ conns[c].end[s] # "none" /\ conns[c].end[p] # "none"
Connected(s, p) == \E c \in DOMAIN conns : Joins(c, s, p) /\ IsUp(c, s) /\ IsUp(c, p)

\* Nothing is due, nothing is on its way over a connection that is up, and whoever had
\* a broken one has seen it close.
Quiet ==
  /\ \A s \in Site : notice[s] # "due"
  /\ \A c \in DOMAIN conns, s \in Site :
       IF conns[c].down THEN conns[c].end[s] # "open"
       ELSE wire[c][s] = <<>> /\ conns[c].end[s] # "opening"

Own(p) == {ch \in Holds(p) : ch[1] = p}

\* When nothing is on its way, connected sites have each other's writes: no
\* poke, request or answer is lost over reconnections, except for what the code
\* does not retry.
QuietMeansInSync ==
  excused = {} /\ Quiet => \A s, p \in Site : Connected(s, p) => Own(p) \subseteq Holds(s)

\* Over one connection a recorded version never goes back: answers to
\* overlapping requests come in the order of what they hold.  Two connections of
\* the same two sites have no order between them.
PeersGoForward ==
  [][\A s, p \in Site :
       peers'[s][p] < peers[s][p] => Cardinality({c \in DOMAIN conns : Joins(c, s, p)}) > 1]_vars

=============================================================================
