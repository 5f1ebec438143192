------------------------------- MODULE DirectUp -------------------------------
(***************************************************************************)
(* Direct-connect sync, from the browser to the server.  SyncService keeps *)
(* a SyncedDB for each database that a tab asked to sync; its              *)
(* OutboundStream reads what the server has not been sent and posts it;    *)
(* DBSyncService on the server checks where a post starts, applies it and  *)
(* records where it ends.  HTTP is external: a request may fail before or  *)
(* after the server has handled it, and two requests come in any order.    *)
(*                                                                         *)
(* One database: its changes are numbered by the version that made them.   *)
(***************************************************************************)
EXTENDS Naturals, Sequences, FiniteSets, SequencesExt

CONSTANTS
  Port,      \* the tabs, each of which starts and stops sync once
  MaxSyncs,  \* bound: the SyncedDBs ever created
  MaxWrites, \* bound: the changes made to the database
  MaxFaults, \* bound: requests that fail
  MaxTicks   \* bound: ticks of a stream under way when the next is asked for

ASSUME ConstantsAssumption == {MaxSyncs, MaxWrites, MaxFaults, MaxTicks} \subseteq Nat

VARIABLES
  tab,      \* what each tab has asked for
  dbs,      \* SyncService.dbs: the SyncedDB in the map, or 0
  sync,     \* the SyncedDBs
  version,  \* the version of the local database
  held,     \* the server: the changes it has
  seen,     \* the server: crsql_tracked_peers
  faults,
  excused   \* history: what a property may have to be excused for

vars == <<tab, dbs, sync, version, held, seen, faults, excused>>

Sync == DOMAIN sync
Excuse == {"overlapped", \* a tick began while another was under way
           "unasked",    \* a tick that found nothing forgot the one asked for meanwhile
           "refused",    \* a post failed, and nothing posts it again
           "unanswered"} \* createOrMigrate failed

\* syncStarted and shutdown in phase; nextTick is due when tables changed.
NewSync == [ports |-> {}, phase |-> "created", seq |-> 0, inflightTick |-> FALSE,
            hasPendingTick |-> FALSE, ticks |-> <<>>, news |-> FALSE, retries |-> 3]

Init ==
  /\ tab = [p \in Port |-> "out"]
  /\ dbs = 0 /\ sync = <<>>
  /\ version \in 0 .. 1
  /\ held = {} /\ seen = 0
  /\ faults = 0 /\ excused = {}

Fault == faults < MaxFaults /\ faults' = faults + 1

Running(i) == sync[i].phase = "started"

-----------------------------------------------------------------------------
\* SyncService and SyncedDB, in the worker.

\* SyncedDB.start, once there is a SyncedDB for the tab.
Started(s, i, p) ==
  IF s[i].phase = "stopped" THEN s
  ELSE [s EXCEPT ![i].ports = @ \cup {p},
                 ![i].phase = IF @ = "created" THEN "asking" ELSE @]

startSync(p) ==
  /\ tab[p] = "out"
  /\ \/ dbs # 0 /\ tab' = [tab EXCEPT ![p] = "in"] /\ sync' = Started(sync, dbs, p)
     \/ dbs = 0 /\ tab' = [tab EXCEPT ![p] = "waiting"] /\ UNCHANGED sync
  /\ UNCHANGED <<dbs, version, held, seen, faults, excused>>

\* createSyncedDB is done; the map may have another SyncedDB by now.
SyncedDbCreated(p) ==
  /\ tab[p] = "waiting" /\ Len(sync) < MaxSyncs
  /\ tab' = [tab EXCEPT ![p] = "in"]
  /\ dbs' = Len(sync) + 1
  /\ sync' = Started(Append(sync, NewSync), dbs', p)
  /\ UNCHANGED <<version, held, seen, faults, excused>>

\* stop answers with a promise, which is truthy whatever it resolves to.
stopSync(p) ==
  /\ tab[p] = "in"
  /\ tab' = [tab EXCEPT ![p] = "left"]
  /\ dbs' = 0
  /\ sync' = IF dbs = 0 THEN sync
             ELSE IF sync[dbs].ports \ {p} # {} THEN [sync EXCEPT ![dbs].ports = @ \ {p}]
             ELSE [sync EXCEPT ![dbs].ports = {}, ![dbs].phase = "stopped", ![dbs].news = FALSE]
  /\ UNCHANGED <<version, held, seen, faults, excused>>

-----------------------------------------------------------------------------
\* OutboundStream

\* _nextTick begins: it is about to read what changed after seq.
NewTick(s) == [s EXCEPT !.inflightTick = TRUE,
                        !.ticks = Append(@, [since |-> s.seq, from |-> s.seq, upto |-> 0,
                                             at |-> "reading"])]

\* Mutant: a tick that begins whatever is under way.
NextTickAnyhow(s) == IF s.phase # "started" THEN s ELSE NewTick(s)

NextTick(s) ==
  IF s.phase # "started" THEN s
  ELSE IF s.inflightTick THEN [s EXCEPT !.hasPendingTick = TRUE]
  ELSE NewTick(s)

Overlaps(s) == s.phase = "started" /\ ~s.inflightTick /\ s.ticks # <<>>

\* The answer of createOrMigrate names the version the server has of this
\* database, and the stream starts there.
CreateOrMigrate(i) ==
  /\ sync[i].phase = "asking"
  /\ sync' = [sync EXCEPT ![i] = NextTick([@ EXCEPT !.phase = "started", !.seq = seen])]
  /\ UNCHANGED <<tab, dbs, version, held, seen, faults, excused>>

\* A response that is not ok is retried three times, a request that fails is not.
CreateOrMigrateFails(i) ==
  /\ sync[i].phase = "asking" /\ Fault
  /\ \/ sync[i].retries > 0 /\ sync' = [sync EXCEPT ![i].retries = @ - 1] /\ UNCHANGED excused
     \/ sync' = [sync EXCEPT ![i].phase = "failed"] /\ excused' = excused \cup {"unanswered"}
  /\ UNCHANGED <<tab, dbs, version, held, seen>>

\* A tab writes; the worker's connections hear of it through rx-tbl.
LocalWrite ==
  /\ version < MaxWrites /\ version' = version + 1
  /\ sync' = [i \in Sync |-> IF sync[i].phase = "stopped" THEN sync[i]
                             ELSE [sync[i] EXCEPT !.news = TRUE]]
  /\ UNCHANGED <<tab, dbs, held, seen, faults, excused>>

\* localDbChangedFromOtherProcess
LocalDbChanged(i) ==
  /\ sync[i].news /\ Len(sync[i].ticks) <= MaxTicks
  /\ sync' = [sync EXCEPT ![i] = NextTick([@ EXCEPT !.news = FALSE])]
  /\ excused' = IF Overlaps(sync[i]) THEN excused \cup {"overlapped"} ELSE excused
  /\ UNCHANGED <<tab, dbs, version, held, seen, faults>>

WithoutTick(s, k) == [s EXCEPT !.ticks = RemoveAt(@, k)]

\* A tick that reads nothing ends; whether another was asked for it does not ask.
PullNothing(i, k) ==
  /\ sync[i].ticks[k].at = "reading" /\ sync[i].ticks[k].since >= version
  /\ sync' = [sync EXCEPT ![i] = [WithoutTick(@, k) EXCEPT !.inflightTick = FALSE]]
  /\ excused' = IF sync[i].hasPendingTick THEN excused \cup {"unasked"} ELSE excused
  /\ UNCHANGED <<tab, dbs, version, held, seen, faults>>

\* What changed is read since the seq the tick began with; the message says it
\* starts at the seq there is once it is read.
Pull(i, k) ==
  /\ sync[i].ticks[k].at = "reading" /\ sync[i].ticks[k].since < version
  /\ sync' = [sync EXCEPT ![i].ticks[k] = [@ EXCEPT !.from = sync[i].seq, !.upto = version,
                                                    !.at = "posting"]]
  /\ UNCHANGED <<tab, dbs, version, held, seen, faults, excused>>

\* Mutant: the tick asked for meanwhile is forgotten.
PostedForgets(i, k) ==
  /\ sync[i].ticks[k].at = "answered"
  /\ sync' = [sync EXCEPT ![i] = [WithoutTick(@, k) EXCEPT !.seq = sync[i].ticks[k].upto,
                                      !.inflightTick = FALSE, !.hasPendingTick = FALSE]]
  /\ UNCHANGED <<tab, dbs, version, held, seen, faults, excused>>

\* The post succeeded.  nextTick may set inflightTick, and finally resets it.
Posted(i, k) ==
  /\ sync[i].ticks[k].at = "answered"
  /\ LET s == [WithoutTick(sync[i], k) EXCEPT !.seq = sync[i].ticks[k].upto,
                                              !.inflightTick = FALSE, !.hasPendingTick = FALSE]
         again == sync[i].hasPendingTick
     IN  /\ sync' = [sync EXCEPT ![i] = IF again THEN [NextTick(s) EXCEPT !.inflightTick = FALSE] ELSE s]
         /\ excused' = IF again /\ Overlaps(s) THEN excused \cup {"overlapped"} ELSE excused
  /\ UNCHANGED <<tab, dbs, version, held, seen, faults>>

\* Mutant: seq is moved in a finally block, whether or not the post succeeded.
PostFailsMovesSeq(i, k) ==
  /\ sync[i].ticks[k].at \in {"posting", "answered"} /\ Fault
  /\ sync' = [sync EXCEPT ![i] = [WithoutTick(@, k) EXCEPT !.inflightTick = FALSE,
                                                           !.seq = sync[i].ticks[k].upto]]
  /\ excused' = excused \cup {"refused"}
  /\ UNCHANGED <<tab, dbs, version, held, seen>>

\* fetch rejects, or the response is not ok.
PostFails(i, k) ==
  /\ \/ sync[i].ticks[k].at = "refused" /\ UNCHANGED faults
     \/ sync[i].ticks[k].at \in {"posting", "answered"} /\ Fault
  /\ sync' = [sync EXCEPT ![i] = [WithoutTick(@, k) EXCEPT !.inflightTick = FALSE]]
  /\ excused' = excused \cup {"refused"}
  /\ UNCHANGED <<tab, dbs, version, held, seen>>

-----------------------------------------------------------------------------
\* The server: applyChangesInternal, in one transaction.

\* Mutant: the version is recorded first, and the changes are applied in a
\* transaction of their own that may fail.
ApplyChangesRecordsFirst(i, k) ==
  /\ sync[i].ticks[k].at = "posting" /\ sync[i].ticks[k].from <= seen
  /\ sync' = [sync EXCEPT ![i].ticks[k].at = "refused"]
  /\ seen' = sync[i].ticks[k].upto
  /\ UNCHANGED <<held, tab, dbs, version, faults, excused>>

ApplyChanges(i, k) ==
  /\ sync[i].ticks[k].at = "posting"
  /\ LET msg == sync[i].ticks[k] IN
       IF msg.from > seen
       THEN /\ sync' = [sync EXCEPT ![i].ticks[k].at = "refused"]
            /\ UNCHANGED <<held, seen>>
       ELSE /\ sync' = [sync EXCEPT ![i].ticks[k].at = "answered"]
            /\ held' = held \cup (msg.since + 1 .. msg.upto)
            /\ seen' = msg.upto
  /\ UNCHANGED <<tab, dbs, version, faults, excused>>

-----------------------------------------------------------------------------
Next ==
  \/ \E p \in Port : startSync(p) \/ SyncedDbCreated(p) \/ stopSync(p)
  \/ LocalWrite
  \/ \E i \in Sync : CreateOrMigrate(i) \/ CreateOrMigrateFails(i) \/ LocalDbChanged(i)
  \/ \E i \in Sync : \E k \in DOMAIN sync[i].ticks :
       PullNothing(i, k) \/ Pull(i, k) \/ Posted(i, k) \/ PostFails(i, k) \/ ApplyChanges(i, k)

Spec == Init /\ [][Next]_vars

-----------------------------------------------------------------------------
TypeOK ==
  /\ tab \in [Port -> {"out", "waiting", "in", "left"}]
  /\ dbs \in 0 .. Len(sync) /\ Len(sync) <= MaxSyncs
  /\ \A i \in Sync :
       /\ sync[i].phase \in {"created", "asking", "started", "failed", "stopped"}
       /\ sync[i].ports \subseteq Port /\ sync[i].seq \in 0 .. MaxWrites
       /\ \A k \in DOMAIN sync[i].ticks :
            sync[i].ticks[k] \in [since : 0 .. MaxWrites, from : 0 .. MaxWrites,
                                  upto : 0 .. MaxWrites, at : {"reading", "posting", "answered", "refused"}]
  /\ version \in 0 .. MaxWrites /\ held \subseteq 1 .. version /\ seen \in 0 .. version
  /\ excused \subseteq Excuse

\* The server holds every change up to the version it has recorded, however many
\* streams post to it, overlap, fail or are posted again.
ServerHoldsWhatItTracks == 1 .. seen \subseteq held

\* What a stream counts as sent has been applied: a post that failed is not.
SentIsHeld == \A i \in Sync : 1 .. sync[i].seq \subseteq held

\* While one SyncedDB is enough for the database, its ticks never overlap, and
\* none failed, the server's record never goes back.
SeenGoesForward ==
  [][seen' < seen => excused # {} \/ Len(sync) > 1]_vars

Quiet(i) == Running(i) /\ sync[i].ticks = <<>> /\ ~sync[i].news

\* A stream that has nothing left to do has had everything sent, but for the
\* ways in which it loses a tick.
QuietMeansSent ==
  \A i \in Sync : Quiet(i) /\ excused = {} => held = 1 .. version

\* "only start a new tick if we're not already sending some changes."
OneTickAtATime == \A i \in Sync : Len(sync[i].ticks) <= 1

=============================================================================
