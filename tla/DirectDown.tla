------------------------------ MODULE DirectDown ------------------------------
(***************************************************************************)
(* Direct-connect sync, from the server to a browser: server-sent events.  *)
(* On the server, FSNotify tells an OutboundStream of every change of the  *)
(* database file, and the stream sends what came since its last message.   *)
(* In the browser, InboundStream collects messages while a transaction     *)
(* applies the ones before.                                                *)
(*                                                                         *)
(* EventSource is external: when its connection breaks it connects again,  *)
(* with the address it was made with, and so from the version it was made  *)
(* for.  A source and the server's stream for it are one record here.      *)
(***************************************************************************)
EXTENDS Integers, Sequences, FiniteSets, SequencesExt

CONSTANTS
  MaxVersion, \* bound: the versions of the server's database
  MaxSources, \* bound: EventSources open at once
  MaxBreaks,  \* bound: connections that break
  MaxFaults   \* bound: transactions that fail, and workers that end

ASSUME ConstantsAssumption == {MaxVersion, MaxSources, MaxBreaks, MaxFaults} \subseteq Nat

VARIABLES
  version,  \* the version of the server's database
  foreign,  \* the versions with a change that is not this browser's own
  sources,  \* the EventSources and the server's streams for them
  client,   \* InboundStream
  db,       \* the browser's database: the changes it holds and what it tracks
  tx,       \* the same, as the open transaction sees it
  breaks, faults,
  excused   \* history: what a property may have to be excused for

vars == <<version, foreign, sources, client, db, tx, breaks, faults, excused>>

Source == 1 .. MaxSources
Excuse == {"restarted"} \* a restart began while the one before was under way

Message == [seqStart : 0 .. MaxVersion, seqEnd : 0 .. MaxVersion, changes : SUBSET (1 .. MaxVersion)]

\* due: FSNotify or the timer of addListener is about to call the stream.
NewSource(seq) == [at |-> "connecting", url |-> seq, since |-> seq, due |-> FALSE, wire |-> <<>>]
Closed == [NewSource(0) EXCEPT !.at = "closed"]

\* timers: restarts that are due; asking: starts that wait for seqIdFor.
\* inflight: inflightWrite, whose transaction begins when the database is free.
NewClient == [started |-> TRUE, asking |-> 1, timers |-> 0, seq |-> 0, source |-> 0,
              pendingWrites |-> <<>>, writes |-> <<>>, inflight |-> "none"]

Init ==
  /\ version \in 0 .. 1 /\ foreign = 1 .. version
  /\ sources = [i \in Source |-> Closed]
  /\ client = NewClient
  /\ db = [held |-> {}, tracked |-> 0] /\ tx = db
  /\ breaks = 0 /\ faults = 0 /\ excused = {}

-----------------------------------------------------------------------------
\* The server

\* A transaction on the server, of the browser's own changes or of others'.
\* The file changes, and every listener is called after the collecting delay.
Commit ==
  /\ version < MaxVersion /\ version' = version + 1
  /\ foreign' \in {foreign, foreign \cup {version'}}
  /\ sources' = [i \in Source |-> [sources[i] EXCEPT !.due = sources[i].at = "open"]]
  /\ UNCHANGED <<client, db, tx, breaks, faults, excused>>

\* startOutboundStream: the new listener is called once in any case.
StartOutboundStream(i) ==
  /\ sources[i].at = "connecting"
  /\ sources' = [sources EXCEPT ![i] = [NewSource(@.url) EXCEPT !.at = "open", !.due = TRUE]]
  /\ UNCHANGED <<version, foreign, client, db, tx, breaks, faults, excused>>

getChanges(since) == {v \in foreign : v > since}

dbChanged(i) ==
  /\ sources[i].due
  /\ LET stream == sources[i]
         changes == getChanges(stream.since)
     IN  sources' = [sources EXCEPT ![i] =
           IF changes = {} THEN [stream EXCEPT !.due = FALSE]
           ELSE [stream EXCEPT !.due = FALSE, !.since = Max(changes),
                               !.wire = Append(@, [seqStart |-> stream.since, seqEnd |-> Max(changes),
                                                   changes |-> changes])]]
  /\ UNCHANGED <<version, foreign, client, db, tx, breaks, faults, excused>>

\* The connection breaks; the server closes its stream, the source connects again.
Break(i) ==
  /\ sources[i].at = "open" /\ breaks < MaxBreaks /\ breaks' = breaks + 1
  /\ sources' = [sources EXCEPT ![i] = NewSource(@.url)]
  /\ UNCHANGED <<version, foreign, client, db, tx, faults, excused>>

-----------------------------------------------------------------------------
\* The browser

\* seqIdFor has answered, once no transaction holds the database.
Established ==
  /\ client.asking > 0 /\ client.inflight # "writing"
  /\ \E i \in Source :
       /\ sources[i] = Closed /\ \A j \in 1 .. i - 1 : sources[j] # Closed
       /\ sources' = [sources EXCEPT ![i] = NewSource(db.tracked)]
       /\ client' = [client EXCEPT !.asking = @ - 1, !.seq = db.tracked, !.source = i]
  /\ UNCHANGED <<version, foreign, db, tx, breaks, faults, excused>>

start(c) == IF c.started THEN c ELSE [c EXCEPT !.started = TRUE, !.asking = @ + 1]

RestartTimer ==
  /\ client.timers > 0
  /\ client' = start([client EXCEPT !.timers = @ - 1])
  /\ UNCHANGED <<version, foreign, sources, db, tx, breaks, faults, excused>>

\* collectChangesetMsg, with the message already in pendingWrites.
Collect(c) ==
  IF c.inflight # "none" \/ c.pendingWrites = <<>> THEN c
  ELSE [c EXCEPT !.inflight = "waiting", !.writes = c.pendingWrites, !.pendingWrites = <<>>]

msgReceivedFromServer(i) ==
  /\ sources[i].at = "open" /\ sources[i].wire # <<>>
  /\ sources' = [sources EXCEPT ![i].wire = Tail(@)]
  /\ client' = IF client.started
               THEN Collect([client EXCEPT !.pendingWrites = Append(@, Head(sources[i].wire))])
               ELSE client
  /\ UNCHANGED <<version, foreign, db, tx, breaks, faults, excused>>

\* Mutant: the connection is closed and no restart is scheduled.
applyChangesetMsgNoTimer ==
  /\ client.inflight \in {"waiting", "writing"} /\ client.writes # <<>>
  /\ LET msg == Head(client.writes)
         restart == msg.seqStart # client.seq
     IN  /\ tx' = [held |-> tx.held \cup msg.changes, tracked |-> Max({tx.tracked, msg.seqEnd})]
         /\ client' = [client EXCEPT !.writes = Tail(@), !.inflight = "writing", !.seq = msg.seqEnd,
                                     !.started = @ /\ ~restart]
         /\ sources' = IF restart THEN [sources EXCEPT ![client.source] = Closed] ELSE sources
  /\ UNCHANGED <<version, foreign, db, breaks, faults, excused>>

\* A message that does not follow the last one restarts the connection, and is
\* applied all the same.
applyChangesetMsg ==
  /\ \/ client.inflight = "writing"
     \/ client.inflight = "waiting" /\ client.asking = 0
  /\ client.writes # <<>>
  /\ LET msg == Head(client.writes)
         restart == msg.seqStart # client.seq
     IN  /\ tx' = [held |-> tx.held \cup msg.changes, tracked |-> Max({tx.tracked, msg.seqEnd})]
         /\ client' = [client EXCEPT !.writes = Tail(@), !.inflight = "writing", !.seq = msg.seqEnd,
                                     !.started = @ /\ ~restart,
                                     !.timers = IF restart THEN @ + 1 ELSE @]
         /\ sources' = IF restart THEN [sources EXCEPT ![client.source] = Closed] ELSE sources
         /\ excused' = IF restart /\ client.timers + client.asking > 0
                       THEN excused \cup {"restarted"} ELSE excused
  /\ UNCHANGED <<version, foreign, db, breaks, faults>>

\* Mutant: the messages collected during the transaction wait for the next message.
CommittedLeavesCollected ==
  /\ client.inflight = "writing" /\ client.writes = <<>>
  /\ db' = tx
  /\ client' = [client EXCEPT !.inflight = "none"]
  /\ UNCHANGED <<version, foreign, sources, tx, breaks, faults, excused>>

Committed ==
  /\ client.inflight = "writing" /\ client.writes = <<>>
  /\ db' = tx
  /\ client' = Collect([client EXCEPT !.inflight = "none"])
  /\ UNCHANGED <<version, foreign, sources, tx, breaks, faults, excused>>

\* Mutant: what is tracked is written outside the transaction.
TransactionFailsKeepsTracked ==
  /\ client.inflight = "writing" /\ faults < MaxFaults /\ faults' = faults + 1
  /\ db' = [db EXCEPT !.tracked = tx.tracked] /\ tx' = db'
  /\ client' = [client EXCEPT !.inflight = "stuck", !.writes = <<>>]
  /\ UNCHANGED <<version, foreign, sources, breaks, excused>>

\* The transaction is rolled back; seq is not, and inflightWrite stays set.
TransactionFails ==
  /\ client.inflight = "writing" /\ faults < MaxFaults /\ faults' = faults + 1
  /\ tx' = db
  /\ client' = [client EXCEPT !.inflight = "stuck", !.writes = <<>>]
  /\ UNCHANGED <<version, foreign, sources, db, breaks, excused>>

\* The worker ends, and a new one starts to sync.
WorkerRestarts ==
  /\ faults < MaxFaults /\ faults' = faults + 1
  /\ sources' = [i \in Source |-> Closed]
  /\ client' = NewClient /\ tx' = db
  /\ UNCHANGED <<version, foreign, db, breaks, excused>>

-----------------------------------------------------------------------------
Next ==
  \/ Commit
  \/ \E i \in Source : \/ StartOutboundStream(i) \/ dbChanged(i) \/ Break(i)
                       \/ msgReceivedFromServer(i)
  \/ Established \/ RestartTimer \/ applyChangesetMsg \/ Committed
  \/ TransactionFails \/ WorkerRestarts

Spec == Init /\ [][Next]_vars

\* Timers fire, promises settle, events are dispatched, a source that lost its
\* connection connects again; nobody has to write, and nothing has to fail.
Fairness ==
  /\ \A i \in Source : /\ WF_vars(StartOutboundStream(i)) /\ WF_vars(dbChanged(i))
                       /\ WF_vars(msgReceivedFromServer(i))
  /\ WF_vars(Established) /\ WF_vars(RestartTimer)
  /\ WF_vars(applyChangesetMsg) /\ WF_vars(Committed)

FairSpec == Spec /\ Fairness

-----------------------------------------------------------------------------
Contents == [held : SUBSET (1 .. MaxVersion), tracked : 0 .. MaxVersion]

TypeOK ==
  /\ version \in 0 .. MaxVersion /\ foreign \subseteq 1 .. version
  /\ \A i \in Source : sources[i] \in
       [at : {"connecting", "open", "closed"}, url : 0 .. MaxVersion, since : 0 .. MaxVersion,
        due : BOOLEAN, wire : Seq(Message)]
  /\ client.started \in BOOLEAN /\ client.asking \in Nat /\ client.timers \in Nat
  /\ client.seq \in 0 .. MaxVersion /\ client.source \in 0 .. MaxSources
  /\ client.pendingWrites \in Seq(Message) /\ client.writes \in Seq(Message)
  /\ client.inflight \in {"none", "waiting", "writing", "stuck"}
  /\ db \in Contents /\ tx \in Contents
  /\ excused \subseteq Excuse

\* "ensure we're contiguous": what a browser tracks is never ahead of what it holds.
StaysContiguous == {v \in foreign : v <= db.tracked} \subseteq db.held

\* The browser holds every change of others up to the version it tracks, through
\* broken connections, failed transactions and restarts, as long as a restart of
\* the stream is done before the next one begins.
ClientHoldsWhatItTracks ==
  excused = {} => StaysContiguous

Quiet ==
  /\ client.inflight = "none" /\ client.timers = 0 /\ client.asking = 0
  /\ \A i \in Source : sources[i].at # "connecting" /\ ~sources[i].due /\ sources[i].wire = <<>>

\* However often the stream breaks and restarts, the browser comes to hold every
\* change of others, unless a failed transaction left inflightWrite set, or one
\* restart overtook another.
CatchesUp ==
  \/ <>[](db.held = foreign)
  \/ <>(client.inflight = "stuck" \/ excused # {})

\* When no start, timer, message or transaction is under way, the browser holds every
\* change of others: the streams, the restart timer and the messages collected behind a
\* transaction forget nothing, unless one restart overtook another.
QuietMeansInSync == Quiet /\ excused = {} => db.held = foreign

\* What the browser tracks never goes back, though a source that connects again
\* sends what it sent before.
TrackedGoesForward == [][db'.tracked >= db.tracked]_vars

=============================================================================
