------------------------------- MODULE LiveQuery -------------------------------
(***************************************************************************)
(* The state machine behind useQuery (react's AsyncResultStateMachine;     *)
(* rx-query's LiveQuery repeats it line by line): one query over one table *)
(* of an asynchronous database.  Statements are prepared and read in       *)
(* promises, and meanwhile the component may change the query or its       *)
(* bindings, a writer may change the table, or the component may go away.  *)
(*                                                                         *)
(* The queries the component goes through are numbered from 1, and so are  *)
(* its bindings; the database is the number of its commits.  A promise is  *)
(* a number too, never used twice, so that comparing two of them is what   *)
(* it is in the code.  0 stands for null.                                  *)
(***************************************************************************)
EXTENDS Naturals, FiniteSets

CONSTANTS
  MaxQueries,      \* bound: query strings the component goes through
  MaxBindings,     \* bound: binding lists it goes through
  MaxCommits,      \* bound: transactions that write the table
  PrepareMayFail,  \* BOOLEAN: a query may be one SQLite does not accept
  ReadMayFail      \* BOOLEAN: a read may throw

ASSUME BoundsAssumption ==
  /\ {MaxQueries, MaxBindings} \subseteq Nat \ {0}
  /\ MaxCommits \in Nat
  /\ {PrepareMayFail, ReadMayFail} \subseteq BOOLEAN

VARIABLES
  m,           \* the fields of the state machine, and the promises it waits for
  commits,     \* the transactions that have written the table
  writing,     \* one is open: it holds the database's mutex
  news,        \* the timer that will call the table's listeners is set
  subscribed,  \* the state machine is one of them
  interrupted  \* history: a prepare was abandoned, or failed

vars == <<m, commits, writing, news, subscribed, interrupted>>

NoStmt == [id |-> 0, query |-> 0, bindings |-> 0]
NoData == [query |-> 0, bindings |-> 0, commits |-> 0]

Init ==
  /\ m = [query |-> 1, bindings |-> 1, stmt |-> NoStmt, data |-> NoData, error |-> FALSE,
          pendingPrepare |-> 0, pendingFetch |-> 0, queuedFetch |-> FALSE,
          queuedFetchRebind |-> FALSE, disposed |-> FALSE,
          prepares |-> {},  \* prepareAndGetUsedTables calls under way
          chained |-> {},   \* fetches chained after a prepare
          reads |-> {},     \* stmt.all calls that wait for the mutex
          results |-> {},   \* those that have read, and hold the mutex
          last |-> 0]       \* the last promise made
  /\ commits = 0 /\ writing = FALSE /\ news = FALSE
  /\ subscribed = FALSE /\ interrupted = FALSE

-----------------------------------------------------------------------------
\* The methods that only touch the fields, as functions of them.

\* A mutant of Prepare: the fetch that waits for the old statement is kept.
PrepareKeepsFetch(q) ==
  [q EXCEPT !.error = FALSE, !.data = NoData, !.pendingPrepare = q.last + 1,
            !.last = q.last + 1,
            !.prepares = @ \cup {[id |-> q.last + 1, query |-> q.query]}]

Prepare(q) ==
  [q EXCEPT !.error = FALSE, !.data = NoData, !.pendingFetch = 0, !.stmt = NoStmt,
            !.pendingPrepare = q.last + 1, !.last = q.last + 1,
            !.prepares = @ \cup {[id |-> q.last + 1, query |-> q.query]}]

\* A mutant of FetchInternal: what the queued fetch was to bind is not looked at.
FetchInternalRebindsOnlyNow(q, rebind) ==
  LET stmt == [q.stmt EXCEPT !.bindings = IF rebind THEN q.bindings ELSE @]
  IN  [q EXCEPT !.stmt = stmt,
                !.pendingFetch = q.last + 1, !.last = q.last + 1,
                !.reads = @ \cup {[id |-> q.last + 1, stmt |-> stmt]}]

\* Once there is a statement: bind it, then read in a transaction of its own.
FetchInternal(q, rebind) ==
  LET binds == rebind \/ q.queuedFetchRebind
      stmt  == [q.stmt EXCEPT !.bindings = IF binds THEN q.bindings ELSE @]
  IN  [q EXCEPT !.stmt = stmt,
                !.queuedFetchRebind = @ /\ ~binds,
                !.pendingFetch = q.last + 1, !.last = q.last + 1,
                !.reads = @ \cup {[id |-> q.last + 1, stmt |-> stmt]}]

Fetch(q, rebind) ==
  LET cleared == [q EXCEPT !.error = FALSE, !.data = NoData]
  IN  IF q.stmt # NoStmt
      THEN FetchInternal(cleared, rebind)
      ELSE [cleared EXCEPT !.pendingFetch = q.last + 1, !.last = q.last + 1,
                           !.chained = @ \cup {[id |-> q.last + 1, after |-> q.pendingPrepare]}]

PullData(q, rebind) ==
  LET prepared == IF q.pendingPrepare = 0 THEN Prepare(q) ELSE q
  IN  IF q.disposed \/ q.queuedFetch THEN q
      ELSE IF prepared.pendingFetch = 0 THEN Fetch(prepared, rebind)
      ELSE prepared

\* A mutant of Cancel: nothing is queued behind the fetch that is abandoned.
CancelQueuesNothing(q) == [q EXCEPT !.pendingFetch = 0, !.error = FALSE, !.data = NoData]

\* What the three changes have in common: a fetch in flight is abandoned, and
\* another one queued behind it.
Cancel(q) ==
  [q EXCEPT !.queuedFetch = @ \/ q.pendingFetch # 0, !.pendingFetch = 0,
            !.error = FALSE, !.data = NoData]

\* A mutant of Unqueue: the flag is still set when the fetch is asked for.
UnqueueKeepsFlag(q) == IF q.queuedFetch THEN PullData(q, FALSE) ELSE q

\* The queued fetch, if there is one, is started.
Unqueue(q) ==
  IF q.queuedFetch THEN PullData([q EXCEPT !.queuedFetch = FALSE], FALSE) ELSE q

-----------------------------------------------------------------------------
\* What the component and the database's writers do.

\* Any render asks for the data; the first one starts the machine.
GetSnapshot ==
  /\ ~m.disposed /\ m.data = NoData /\ ~m.error
  /\ m' = PullData(m, FALSE)
  /\ UNCHANGED <<commits, writing, news, subscribed, interrupted>>

RespondToQueryChange ==
  /\ ~m.disposed /\ m.query < MaxQueries
  /\ m' = PullData([Cancel(m) EXCEPT !.query = @ + 1, !.pendingPrepare = 0], TRUE)
  /\ interrupted' = (interrupted \/ m.prepares # {})
  /\ UNCHANGED <<commits, writing, news, subscribed>>

RespondToBindingsChange ==
  /\ ~m.disposed /\ m.bindings < MaxBindings
  /\ LET q == Cancel(m)
     IN  m' = PullData([q EXCEPT !.bindings = @ + 1,
                                 !.queuedFetchRebind = @ \/ q.queuedFetch], TRUE)
  /\ UNCHANGED <<commits, writing, news, subscribed, interrupted>>

Dispose ==
  /\ ~m.disposed
  /\ m' = [m EXCEPT !.disposed = TRUE, !.stmt = NoStmt]
  /\ subscribed' = FALSE
  /\ UNCHANGED <<commits, writing, news, interrupted>>

\* A write transaction takes the mutex, and its first update sets the timer.
Write ==
  /\ ~writing /\ m.results = {} /\ commits < MaxCommits
  /\ writing' = TRUE /\ news' = TRUE
  /\ UNCHANGED <<m, commits, subscribed, interrupted>>

CommitWrite ==
  /\ writing
  /\ writing' = FALSE /\ commits' = commits + 1
  /\ UNCHANGED <<m, news, subscribed, interrupted>>

-----------------------------------------------------------------------------
\* What the promises do when they settle.

\* The timer's callback; it may find the transaction still open.
RespondToDatabaseChange ==
  /\ news
  /\ news' = FALSE
  /\ m' = IF subscribed /\ ~m.disposed THEN PullData(Cancel(m), FALSE) ELSE m
  /\ subscribed' = (subscribed /\ ~m.disposed)
  /\ UNCHANGED <<commits, writing, interrupted>>

\* The fetches chained after the prepare p, run with the statement it made.
RunChained(q, p) ==
  LET fs == {f \in q.chained : f.after = p.id}
      rest == [q EXCEPT !.chained = @ \ fs]
  IN  IF fs = {} THEN q
      ELSE IF \E f \in fs : q.pendingFetch = f.id THEN FetchInternal(rest, TRUE)
      ELSE Unqueue(rest)

PrepareDone ==
  \E p \in m.prepares :
    LET q == [m EXCEPT !.prepares = @ \ {p}]
    IN  IF m.pendingPrepare = p.id
        THEN /\ m' = RunChained([q EXCEPT !.stmt = [id |-> p.id, query |-> p.query, bindings |-> 0]], p)
             /\ subscribed' = TRUE
             /\ UNCHANGED <<commits, writing, news, interrupted>>
        ELSE /\ m' = [q EXCEPT !.chained = {f \in @ : f.after # p.id}]
             /\ UNCHANGED <<commits, writing, news, subscribed, interrupted>>

PrepareFails ==
  /\ PrepareMayFail
  /\ \E p \in m.prepares :
       m' = [m EXCEPT !.prepares = @ \ {p}, !.chained = {f \in @ : f.after # p.id}]
  /\ interrupted' = TRUE
  /\ UNCHANGED <<commits, writing, news, subscribed>>

\* The read has the mutex: it sees every transaction that has committed.
Read ==
  /\ ~writing
  /\ \E r \in m.reads :
       m' = [m EXCEPT !.reads = @ \ {r},
                      !.results = @ \cup {[id |-> r.id,
                                           data |-> [query |-> r.stmt.query,
                                                     bindings |-> r.stmt.bindings,
                                                     commits |-> commits]]}]
  /\ UNCHANGED <<commits, writing, news, subscribed, interrupted>>

ReadDone ==
  /\ \E r \in m.results :
       LET q == [m EXCEPT !.results = @ \ {r}]
       IN  m' = IF q.pendingFetch # r.id
                THEN LET unqueued == [q EXCEPT !.queuedFetch = FALSE]
                     IN  IF q.pendingFetch = 0 THEN PullData(unqueued, FALSE) ELSE unqueued
                ELSE Unqueue([q EXCEPT !.data = r.data, !.pendingFetch = 0])
  /\ UNCHANGED <<commits, writing, news, subscribed, interrupted>>

ReadFails ==
  /\ ReadMayFail /\ ~writing
  /\ \E r \in m.reads :
       m' = Unqueue([m EXCEPT !.reads = @ \ {r}, !.error = TRUE, !.pendingFetch = 0])
  /\ UNCHANGED <<commits, writing, news, subscribed, interrupted>>

Component == GetSnapshot \/ RespondToQueryChange \/ RespondToBindingsChange \/ Dispose
Settle == RespondToDatabaseChange \/ PrepareDone \/ PrepareFails \/ Read \/ ReadDone \/ ReadFails

Next == Component \/ Write \/ CommitWrite \/ Settle

Spec == Init /\ [][Next]_vars

\* A timer fires, a promise settles, a transaction ends, and the render that
\* makes the machine asks it for its data.
FairSpec ==
  /\ Spec
  /\ WF_vars(GetSnapshot) /\ WF_vars(CommitWrite) /\ WF_vars(RespondToDatabaseChange)
  /\ WF_vars(PrepareDone) /\ WF_vars(Read) /\ WF_vars(ReadDone)

-----------------------------------------------------------------------------
Promise == 0 .. m.last

\* Every field has its type; a promise that is awaited has been made, and a
\* fetch without a statement waits for a prepare (queryHooks.ts:514-516).
TypeOK ==
  /\ m.query \in 1 .. MaxQueries /\ m.bindings \in 1 .. MaxBindings
  /\ m.stmt \in [id : Promise, query : 0 .. MaxQueries, bindings : 0 .. MaxBindings]
  /\ m.data \in [query : 0 .. MaxQueries, bindings : 0 .. MaxBindings, commits : 0 .. MaxCommits]
  /\ m.pendingPrepare \in Promise /\ m.pendingFetch \in Promise
  /\ {m.error, m.queuedFetch, m.queuedFetchRebind, m.disposed} \subseteq BOOLEAN
  /\ m.prepares \subseteq [id : Promise, query : 1 .. MaxQueries]
  /\ m.chained \subseteq [id : Promise, after : Promise \ {0}]
  /\ {r.id : r \in m.reads \cup m.results} \subseteq Promise
  /\ commits \in 0 .. MaxCommits
  /\ {writing, news, subscribed, interrupted} \subseteq BOOLEAN

\* However often the query is invalidated while it is read, one read is under
\* way at a time: the rest is folded into one queued fetch (queryHooks.ts:171).
OneReadAtATime == Cardinality(m.reads \cup m.results) <= 1

\* Data the component is shown answers its current query, over the table as it
\* is now unless the listeners are still to be told (queryHooks.ts:296-306).
DataIsFresh ==
  m.data # NoData /\ ~m.disposed =>
    /\ m.data.query = m.query
    /\ m.data.commits = commits \/ news

\* And with its current bindings: the statement that read was bound to them
\* (queryHooks.ts:414-417).
DataHasItsBindings == m.data # NoData /\ ~m.disposed => m.data.bindings = m.bindings

\* They are never those of before a change: at worst the statement was not bound at all.
BindingsAreNotStale ==
  m.data # NoData /\ ~m.disposed => m.data.bindings \in {0, m.bindings}

\* What a fetch can be awaited from: the read under way, and the fetches chained after the
\* prepare that is.
UnderWay(q) ==
  q.reads \cup q.results
    \cup {f \in q.chained : f.after = q.pendingPrepare /\ \E p \in q.prepares : p.id = f.after}

\* The prepare that is awaited runs or has made the statement, the fetch that is awaited is
\* under way, and so is one for a queued fetch to be started by.
Served(q) ==
  /\ q.pendingPrepare # 0 /\ q.stmt = NoStmt => \E p \in q.prepares : p.id = q.pendingPrepare
  /\ q.pendingFetch # 0 => \E f \in UnderWay(q) : f.id = q.pendingFetch
  /\ q.queuedFetch => UnderWay(q) # {}

\* Unless a query change overtook a prepare, or a prepare failed, what keeps PullData from
\* starting anything is on its way to completion: no component waits for what nothing will
\* bring (LiveQuery.ts:79-88).
NothingIsAwaitedInVain == interrupted \/ m.disposed \/ Served(m)

Settled == m.disposed \/ m.error \/ m.data # NoData

\* Once nothing changes any more the component has its data, or an error: the
\* queued fetch is run when the one in flight completes (LiveQuery.ts:79-88).
Settles == <>[]Settled

\* It does unless a query change overtook a prepare, or a prepare failed.
SettlesUnlessInterrupted == <>[](interrupted \/ Settled)
=============================================================================
