------------------------------- MODULE SyncLock -------------------------------
(***************************************************************************)
(* Who syncs a database when it is open in several tabs.  Each tab has a   *)
(* worker; React hooks (useSync) tell it to start and to stop, and the     *)
(* worker waits for an exclusive navigator.locks lock on the database      *)
(* before it opens it and connects (createAndStartSyncedDB_Exclusive).     *)
(* Opening takes time, so does reading what the stream starts from, and a  *)
(* stop may come anywhere in between.                                      *)
(***************************************************************************)
EXTENDS Naturals, Sequences, FiniteSets, SequencesExt

CONSTANTS
  Tab,         \* tabs of the browser, each with a worker
  MaxHooks,    \* useSync hooks of a tab, for the same database
  MaxStarts,   \* how often each worker starts a sync
  MaxFaults    \* how many times opening the database fails

VARIABLES
  alive,       \* alive[t]: the tab has not been closed
  mounted,     \* mounted[t]: how many hooks have their effect in place
  inbox,       \* inbox[t]: messages posted to the worker
  entry,       \* entry[t]: the entry of SyncService.dbs: a start, or 0
  starts,      \* starts[t]: one record for each createAndStartSyncedDB_Exclusive
  faults

lockVars == <<alive, mounted, inbox, entry, starts, faults>>

\* One start: its turn in the queue of the lock, 0 once the lock is let go; whether it
\* was asked to stop; and how far its database got: not yet opened, opening, being read
\* by start(), connected, closed, failed to open, or left open with nobody to close it.
Stage == {"queued", "opening", "reading", "connected", "closed", "failed", "left"}
Start == [turn : Nat, stopRequested : BOOLEAN, stage : Stage]

LockTypeOK ==
  /\ alive \in [Tab -> BOOLEAN]
  /\ mounted \in [Tab -> 0..MaxHooks]
  /\ inbox \in [Tab -> Seq({"StartSync", "StopSync"})]
  /\ entry \in [Tab -> 0..MaxStarts]
  /\ \A t \in Tab : entry[t] \in 0..Len(starts[t])
  /\ starts \in [Tab -> Seq(Start)]
  /\ faults \in 0..MaxFaults

LockInit ==
  /\ alive = [t \in Tab |-> TRUE]
  /\ mounted = [t \in Tab |-> 0]
  /\ inbox = [t \in Tab |-> <<>>]
  /\ entry = [t \in Tab |-> 0]
  /\ starts = [t \in Tab |-> <<>>]
  /\ faults = 0

-----------------------------------------------------------------------------
(* The hooks, in the tab.                                                   *)

\* WorkerInterface.startSync and stopSync: a message to the worker.
Post(t, message) == inbox' = [inbox EXCEPT ![t] = Append(@, message)]

\* The effect of useSync: a WorkerInterface of its own, so its #syncs is empty.
Mount(t) ==
  /\ alive[t] /\ mounted[t] < MaxHooks
  /\ Len(SelectSeq(inbox[t], LAMBDA x : x = "StartSync")) + Len(starts[t]) < MaxStarts
  /\ mounted' = [mounted EXCEPT ![t] = @ + 1]
  /\ Post(t, "StartSync")
  /\ UNCHANGED <<alive, entry, starts, faults>>

Unmount(t) ==
  /\ alive[t] /\ mounted[t] > 0
  /\ mounted' = [mounted EXCEPT ![t] = @ - 1]
  /\ Post(t, "StopSync")
  /\ UNCHANGED <<alive, entry, starts, faults>>

\* The tab is closed, with its worker: the browser takes its locks away.
TabDies(t) ==
  /\ alive[t]
  /\ alive' = [alive EXCEPT ![t] = FALSE]
  /\ mounted' = [mounted EXCEPT ![t] = 0]
  /\ inbox' = [inbox EXCEPT ![t] = <<>>]
  /\ entry' = [entry EXCEPT ![t] = 0]
  /\ starts' = [starts EXCEPT ![t] = <<>>]
  /\ UNCHANGED faults

-----------------------------------------------------------------------------
(* The worker.                                                              *)

Receives(t, message) ==
  /\ inbox[t] # <<>> /\ Head(inbox[t]) = message
  /\ inbox' = [inbox EXCEPT ![t] = Tail(@)]

\* The turns of those who hold the lock or wait for it; the first of them holds it.
Turns == (UNION {{starts[t][i].turn : i \in DOMAIN starts[t]} : t \in Tab}) \ {0}
Holds(t, i) == starts[t][i].turn \in Turns /\ \A n \in Turns : starts[t][i].turn <= n

\* A new request goes behind all the others.
NextTurns == {n \in {1} \union {k + 1 : k \in Turns} : \A k \in Turns : k < n}

\* SyncService.startSync: one entry for each database, made before any await.
StartSync(t) ==
  /\ Receives(t, "StartSync")
  /\ IF entry[t] = 0
     THEN /\ \E n \in NextTurns : starts' = [starts EXCEPT ![t] =
               Append(@, [turn |-> n, stopRequested |-> FALSE, stage |-> "queued"])]
          /\ entry' = [entry EXCEPT ![t] = Len(starts[t]) + 1]
     ELSE UNCHANGED <<starts, entry>>      \* already syncing
  /\ UNCHANGED <<alive, mounted, faults>>

\* What SyncedDB.stop makes of a database.  transport.close throws where there is no
\* socket yet, and the database is not closed; #closed keeps a socket from being opened.
Stopped(stage) ==
  CASE stage = "connected" -> "closed"
    [] stage = "reading" -> "left"
    [] OTHER -> stage

\* SyncService.stopSync and the stop of the handle: the lock is let go first.
StopSync(t) ==
  /\ Receives(t, "StopSync")
  /\ entry' = [entry EXCEPT ![t] = 0]
  /\ IF entry[t] # 0
     THEN starts' = [starts EXCEPT ![t][entry[t]] =
            [turn |-> @.turn, stopRequested |-> TRUE, stage |-> Stopped(@.stage)]]
     ELSE UNCHANGED starts
  /\ UNCHANGED <<alive, mounted, faults>>

Goes(t, i, from, to) ==
  /\ starts[t][i].stage = from
  /\ starts' = [starts EXCEPT ![t][i].stage = to]

\* The lock is granted to a start that still wants it: createSyncedDB begins.
Granted(t, i) ==
  /\ Holds(t, i) /\ ~starts[t][i].stopRequested
  /\ Goes(t, i, "queued", "opening")
  /\ UNCHANGED <<alive, mounted, inbox, entry, faults>>

\* Mutant of Released: stop does not resolve the promise that holds the lock.
ReleasedUngranted(t, i) ==
  /\ Holds(t, i) /\ starts[t][i].stopRequested /\ starts[t][i].stage = "queued"
  /\ starts' = [starts EXCEPT ![t][i].turn = 0]
  /\ UNCHANGED <<alive, mounted, inbox, entry, faults>>

\* The callback has returned: at once when stop came before the lock, else when the
\* promise it returned is resolved by stop.
Released(t, i) ==
  /\ Holds(t, i) /\ starts[t][i].stopRequested
  /\ starts' = [starts EXCEPT ![t][i].turn = 0]
  /\ UNCHANGED <<alive, mounted, inbox, entry, faults>>

\* Mutant of Opened: the callback of startSync takes any database.
OpenedTakesAny(t, i) ==
  /\ Goes(t, i, "opening", "reading")
  /\ UNCHANGED <<alive, mounted, inbox, entry, faults>>

\* createSyncedDB resolves: the callback refuses the database of a stopped start.
Opened(t, i) ==
  /\ Goes(t, i, "opening", IF starts[t][i].stopRequested THEN "left" ELSE "reading")
  /\ UNCHANGED <<alive, mounted, inbox, entry, faults>>

\* dbProvider rejects, as for a database without a schema; nothing handles it.
OpenFails(t, i) ==
  /\ faults < MaxFaults
  /\ faults' = faults + 1
  /\ Goes(t, i, "opening", "failed")
  /\ UNCHANGED <<alive, mounted, inbox, entry>>

\* start() has read the last-seen versions, and opens the socket.
Connected(t, i) ==
  /\ Goes(t, i, "reading", "connected")
  /\ UNCHANGED <<alive, mounted, inbox, entry, faults>>

Worker(t) ==
  \/ StartSync(t) \/ StopSync(t)
  \/ \E i \in DOMAIN starts[t] :
       Granted(t, i) \/ Released(t, i) \/ Opened(t, i) \/ Connected(t, i)

LockNext == \E t \in Tab :
  \/ Mount(t) \/ Unmount(t)
  \/ TabDies(t)
  \/ Worker(t)
  \/ \E i \in DOMAIN starts[t] : OpenFails(t, i)

LockSpec == LockInit /\ [][LockNext]_lockVars

\* The browser delivers messages, grants and takes back locks; databases open.
FairLockSpec == LockSpec /\ \A t \in Tab : WF_lockVars(Worker(t))

-----------------------------------------------------------------------------
(* Properties.                                                              *)

Connections == {r \in Tab \X (1..MaxStarts) :
                  r[2] \in DOMAIN starts[r[1]] /\ starts[r[1]][r[2]].stage = "connected"}

\* The comment of createAndStartSyncedDB_Exclusive: only one tab or worker syncs a
\* database at a time, whatever overtakes the opening of the database and the lock.
OneTabSyncs == Cardinality(Connections) <= 1

\* "As soon as a tab or worker dies, then the next tab or worker will be able to sync
\* the DB": while some worker means to sync, somebody does in the end, unless the one
\* that has the lock failed to open the database, which keeps the lock for nothing.
SomebodySyncs ==
  <>[](\E t \in Tab : entry[t] # 0) =>
    []<>(\/ Connections # {}
         \/ \E t \in Tab : \E i \in DOMAIN starts[t] : Holds(t, i) /\ starts[t][i].stage = "failed")

\* Whoever was not told to stop is the start the worker still knows, in the queue for the
\* lock or holding it, and its database is neither closed nor left: a StopSync can reach
\* it, and no start goes on that nobody can stop (SyncService.dbs).
KnownStartsGoOn ==
  /\ \A t \in Tab : \A i \in DOMAIN starts[t] :
       ~starts[t][i].stopRequested =>
         entry[t] = i /\ starts[t][i].turn # 0 /\ starts[t][i].stage \notin {"closed", "left"}
  /\ \A t \in Tab : entry[t] # 0 => ~starts[t][entry[t]].stopRequested

\* While some worker means to sync, the lock has a holder, and it is on its way: it lets
\* go because it was stopped, or opens the database, reads, or is connected, unless opening
\* failed.  Nobody waits for a lock that is held for nothing else.
LockIsHeldForSomething ==
  (\E t \in Tab : entry[t] # 0) =>
    \E t \in Tab : \E i \in DOMAIN starts[t] :
      /\ Holds(t, i)
      /\ starts[t][i].stopRequested \/ (entry[t] = i /\ starts[t][i].stage \notin {"closed", "left"})

\* The comment of stopSync: the sync stops when nobody refers to it any more.  There is
\* no count, and the first hook of a tab that goes stops the sync of the others.
MountedIsServed ==
  \A t \in Tab : mounted[t] > 0 /\ inbox[t] = <<>> => entry[t] # 0
=============================================================================
