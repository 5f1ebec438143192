-------------------------------- MODULE AsyncDb --------------------------------
(***************************************************************************)
(* The asynchronous database of a browser tab (crsqlite-wasm): every call  *)
(* of every caller goes through serialize, which queues it on the          *)
(* topLevelMutex or, inside a transaction, on the transaction's own mutex, *)
(* and lets equal reads share one promise until it settles.                *)
(*                                                                         *)
(* All reads here are equal reads, by db.exec for the listeners and by a   *)
(* statement prepared on the database for the transaction's function.      *)
(* SQLite itself is external: it runs a statement, or it fails it.         *)
(***************************************************************************)
EXTENDS Naturals, Sequences, FiniteSets, SequencesExt

CONSTANTS
  Listener, \* callers that read again and again
  Writer,   \* calls of db.exec that write, each named by its write
  TxWrite,  \* the writes the transaction's function may make
  Tx,       \* the caller of db.tx
  Closer,   \* the caller of db.close
  MaxFaults \* bound: statements that fail

ASSUME ConstantsAssumption ==
  /\ Writer \cap TxWrite = {} /\ Listener \cap (Writer \cup {Tx, Closer}) = {}
  /\ Tx # Closer /\ {Tx, Closer} \cap Writer = {}
  /\ MaxFaults \in Nat

VARIABLES
  queue,   \* topLevelMutex: the call that holds it, then those that wait
  inner,   \* the transaction's mutex: the call under way, or none
  status,  \* what each caller knows of its call
  content, \* SQLite: the writes that are committed
  dirty,   \* SQLite: the writes of the open savepoint
  open,    \* SQLite: a savepoint is open
  closed,  \* #closed, and whether SQLite has closed the database
  must,    \* history: the writes called before a listener's read
  got,     \* the result of each listener's last read
  failed,  \* history: writes that failed, were rolled back or never made
  faults,
  excused  \* history: what a property may have to be excused for

sqlite == <<content, dirty, open>>
mutexes == <<queue, inner>>
dbVars == <<mutexes, status, sqlite, closed, must, got, failed, faults, excused>>

Caller == Listener \cup Writer \cup {Tx, Closer}
Write == Writer \cup TxWrite
\* A call: who awaits its promise, and whether the cache of the database has it.
Job(kind, caller, cached) == [kind |-> kind, for |-> {caller}, cached |-> cached]
NoJob == [kind |-> "none", for |-> {}, cached |-> FALSE]
Inner(kind, write) == [kind |-> kind, for |-> {write}, cached |-> FALSE]

DbInit ==
  /\ queue = <<>> /\ inner = NoJob
  /\ status = [c \in Caller |-> "idle"]
  /\ content = {} /\ dirty = {} /\ open = FALSE
  /\ closed = "no"
  /\ must = [l \in Listener |-> {}] /\ got = [l \in Listener |-> {}]
  /\ failed = {} /\ faults = 0 /\ excused = {}

-----------------------------------------------------------------------------
\* serialize.

Cached == {i \in DOMAIN queue : queue[i].cached}

Uncached(jobs) == [i \in DOMAIN jobs |-> [jobs[i] EXCEPT !.cached = FALSE]]

\* assertOpen, the first thing the calls of a database do.
IsOpen == closed = "no"

Asked(c) == status' = [status EXCEPT ![c] = "waiting"]

\* A key: an equal read in the cache is awaited, else this one is cached.
CallRead(l) ==
  /\ status[l] # "waiting" /\ IsOpen
  /\ Asked(l)
  /\ must' = [must EXCEPT ![l] =
       {w \in Writer : status[w] # "idle"} \cup (IF status[Tx] = "idle" THEN {} ELSE TxWrite)]
  /\ \/ \E i \in Cached :
          /\ queue' = [queue EXCEPT ![i].for = @ \cup {l}]
          /\ excused' = IF \E j \in DOMAIN queue : j > i /\ queue[j].kind = "tx"
                        THEN excused \cup {"shared"} ELSE excused
          /\ UNCHANGED inner
     \/ /\ inner.cached
        /\ inner' = [inner EXCEPT !.for = @ \cup {l}]
        /\ excused' = excused \cup {"crossed"}
        /\ UNCHANGED queue
     \/ /\ Cached = {} /\ ~inner.cached
        /\ queue' = Append(queue, Job("read", l, TRUE))
        /\ UNCHANGED <<inner, excused>>
  /\ UNCHANGED <<sqlite, closed, got, failed, faults>>

\* A mutant of CallWrite: the cache survives a write.
CallWriteKeepsCache(w) ==
  /\ status[w] = "idle" /\ IsOpen
  /\ Asked(w)
  /\ queue' = Append(queue, Job("write", w, FALSE))
  /\ UNCHANGED <<inner, sqlite, closed, must, got, failed, faults, excused>>

\* null: a write drops the cache.
CallWrite(w) ==
  /\ status[w] = "idle" /\ IsOpen
  /\ Asked(w)
  /\ queue' = Append(Uncached(queue), Job("write", w, FALSE))
  /\ inner' = [inner EXCEPT !.cached = FALSE]
  /\ UNCHANGED <<sqlite, closed, must, got, failed, faults, excused>>

\* serializeTx
CallTx ==
  /\ status[Tx] = "idle" /\ IsOpen
  /\ Asked(Tx)
  /\ queue' = Append(queue, Job("tx", Tx, FALSE))
  /\ UNCHANGED <<inner, sqlite, closed, must, got, failed, faults, excused>>

-----------------------------------------------------------------------------
\* What the holder of topLevelMutex runs.

Holds(kind) == queue # <<>> /\ Head(queue).kind = kind

Visible == content \cup dirty

\* The promise of a read settles; finally takes its key out of the cache.
SettleRead(job) ==
  /\ got' = [l \in Listener |-> IF l \in job.for THEN Visible ELSE got[l]]
  /\ status' = [c \in Caller |-> IF c \in job.for \cap Listener THEN "done" ELSE status[c]]

\* A mutant of RunRead: reads do not wait for the transaction before them.
RunReadAhead ==
  /\ \E i \in DOMAIN queue :
       /\ queue[i].kind = "read"
       /\ SettleRead(queue[i])
       /\ queue' = Uncached(RemoveAt(queue, i))
  /\ UNCHANGED <<inner, sqlite, closed, must, failed, faults, excused>>

RunRead ==
  /\ Holds("read")
  /\ SettleRead(Head(queue))
  /\ queue' = Uncached(Tail(queue))
  /\ UNCHANGED <<inner, sqlite, closed, must, failed, faults, excused>>

\* With a savepoint left open, the write is made inside it.
RunWrite ==
  /\ Holds("write")
  /\ \E w \in Head(queue).for :
       \/ /\ status' = [status EXCEPT ![w] = "done"]
          /\ content' = IF open THEN content ELSE content \cup {w}
          /\ dirty' = IF open THEN dirty \cup {w} ELSE dirty
          /\ UNCHANGED <<failed, faults>>
       \/ /\ faults < MaxFaults /\ faults' = faults + 1
          /\ status' = [status EXCEPT ![w] = "failed"]
          /\ failed' = failed \cup {w}
          /\ UNCHANGED <<content, dirty>>
  /\ queue' = Tail(queue)
  /\ UNCHANGED <<inner, open, closed, must, got, excused>>

\* tx.exec of the SAVEPOINT, and of every other statement, begins with assertOpen.
BeginTx ==
  /\ Holds("tx") /\ ~open /\ IsOpen
  /\ open' = TRUE
  /\ UNCHANGED <<mutexes, status, content, dirty, closed, must, got, failed, faults, excused>>

\* The same once #closed is set: nothing was begun, the promise is rejected.
RefuseTx ==
  /\ Holds("tx") /\ ~open /\ ~IsOpen
  /\ queue' = Tail(queue)
  /\ status' = [status EXCEPT ![Tx] = "failed"]
  /\ failed' = failed \cup TxWrite
  /\ UNCHANGED <<inner, sqlite, closed, must, got, faults, excused>>

-----------------------------------------------------------------------------
\* The function a caller gives to db.tx: it awaits each call it makes.

InTx == Holds("tx") /\ open /\ inner = NoJob /\ Tx \notin UNION {queue[i].for : i \in 2 .. Len(queue)}

\* A mutant of TxCallWrite: the transaction's calls queue on the database's mutex.
TxCallWriteOnTop(w) ==
  /\ InTx /\ w \in TxWrite \ (dirty \cup failed)
  /\ queue' = Append(queue, Job("write", Tx, FALSE))
  /\ UNCHANGED <<inner, status, sqlite, closed, must, got, failed, faults, excused>>

\* By tx.exec, whose cache is the transaction's and which throws once #closed is
\* set, or by a prepared statement, which asks nothing.
TxCallWrite(w) ==
  /\ InTx /\ w \in TxWrite \ (dirty \cup failed)
  /\ inner' = Inner("write", w)
  /\ \/ IsOpen /\ queue' = queue
     \/ queue' = Uncached(queue)
  /\ UNCHANGED <<status, sqlite, closed, must, got, failed, faults, excused>>

\* By a prepared statement, whose cache is the database's.
TxCallRead ==
  /\ InTx
  /\ \/ \E i \in Cached :
          /\ queue' = [queue EXCEPT ![i].for = @ \cup {Tx}]
          /\ excused' = excused \cup {"crossed"}
          /\ UNCHANGED inner
     \/ /\ Cached = {}
        /\ inner' = Job("read", Tx, TRUE)
        /\ UNCHANGED <<queue, excused>>
  /\ UNCHANGED <<status, sqlite, closed, must, got, failed, faults>>

TxRunRead ==
  /\ inner.kind = "read"
  /\ SettleRead(inner)
  /\ inner' = NoJob
  /\ queue' = Uncached(queue)
  /\ UNCHANGED <<sqlite, closed, must, failed, faults, excused>>

TxRunWrite ==
  /\ inner.kind = "write"
  /\ \/ dirty' = dirty \cup inner.for /\ UNCHANGED <<failed, faults>>
     \/ /\ faults < MaxFaults /\ faults' = faults + 1
        /\ failed' = failed \cup inner.for /\ UNCHANGED dirty
  /\ inner' = NoJob
  /\ UNCHANGED <<queue, status, content, open, closed, must, got, excused>>

\* A mutant of EndTx: a function that throws still has its writes released.
EndTxWithoutRollback ==
  /\ InTx
  /\ queue' = Tail(queue)
  /\ content' = Visible /\ dirty' = {} /\ open' = FALSE
  /\ \E outcome \in {"done", "failed"} : status' = [status EXCEPT ![Tx] = outcome]
  /\ failed' = failed \cup (TxWrite \ content')
  /\ UNCHANGED <<inner, closed, must, got, faults, excused>>

\* tx after its function: RELEASE when it returned, ROLLBACK TO when it threw.
\* A RELEASE that fails rejects the promise and leaves the savepoint open, and so
\* does each of the two once #closed is set: assertOpen throws.
EndTx ==
  /\ InTx
  /\ queue' = Tail(queue)
  /\ \/ /\ IsOpen
        /\ content' = Visible /\ dirty' = {} /\ open' = FALSE
        /\ status' = [status EXCEPT ![Tx] = "done"]
        /\ UNCHANGED <<faults, excused>>
     \/ /\ IsOpen
        /\ dirty' = {} /\ open' = FALSE
        /\ status' = [status EXCEPT ![Tx] = "failed"]
        /\ UNCHANGED <<content, faults, excused>>
     \/ /\ IsOpen /\ faults < MaxFaults /\ faults' = faults + 1
        /\ status' = [status EXCEPT ![Tx] = "failed"]
        /\ excused' = excused \cup {"release"}
        /\ UNCHANGED sqlite
     \/ /\ ~IsOpen
        /\ status' = [status EXCEPT ![Tx] = "failed"]
        /\ excused' = excused \cup {"closing"}
        /\ UNCHANGED <<sqlite, faults>>
  /\ failed' = failed \cup (TxWrite \ content')
  /\ UNCHANGED <<inner, closed, must, got>>

-----------------------------------------------------------------------------
\* close

\* The statements are finalized one after the other.
CallClose ==
  /\ status[Closer] = "idle" /\ IsOpen
  /\ Asked(Closer)
  /\ queue' = Append(queue, Job("finalize", Closer, FALSE))
  /\ UNCHANGED <<inner, sqlite, closed, must, got, failed, faults, excused>>

\* Each await of close; the last, of crsql_finalize, sets #closed and asks for
\* api.close in one step.  The mutex passes on before the promise settles: a
\* transaction that is next has called for its SAVEPOINT when #closed is set.
RunFinalize ==
  /\ Holds("finalize")
  /\ queue' = Append(Tail(queue), Job("crsql_finalize", Closer, FALSE))
  /\ UNCHANGED <<inner, status, sqlite, closed, must, got, failed, faults, excused>>

RunCrsqlFinalize ==
  /\ Holds("crsql_finalize")
  /\ closed' = "closing"
  /\ open' = (open \/ (Len(queue) > 1 /\ queue[2].kind = "tx"))
  /\ queue' = Append(Tail(queue), Job("close", Closer, FALSE))
  /\ UNCHANGED <<inner, status, content, dirty, must, got, failed, faults, excused>>

\* SQLite rolls back what is open when it closes the database.
RunClose ==
  /\ Holds("close")
  /\ closed' = "closed"
  /\ status' = [status EXCEPT ![Closer] = "done"]
  /\ queue' = Tail(queue)
  /\ dirty' = {} /\ open' = FALSE
  /\ failed' = failed \cup dirty
  /\ UNCHANGED <<inner, content, must, got, faults, excused>>

-----------------------------------------------------------------------------
\* What callers begin, and what follows from it.
DbCall == CallTx \/ CallClose \/ (\E w \in Writer : CallWrite(w))
DbRun ==
  \/ RunRead \/ RunWrite \/ BeginTx \/ RefuseTx \/ TxRunRead \/ TxRunWrite \/ EndTx
  \/ RunFinalize \/ RunCrsqlFinalize \/ RunClose
DbTx == TxCallRead \/ (\E w \in TxWrite : TxCallWrite(w))

-----------------------------------------------------------------------------
Excuse == {"crossed",  \* a read was shared across the edge of a transaction
           "shared",   \* a read was shared from before a transaction that waits
           "release",  \* the RELEASE of a transaction failed
           "closing",  \* a transaction ended after #closed was set
           "early",    \* other tabs were told before the transaction ended
           "threw"}    \* a listener threw

Excused(excuses) == excused \cap excuses # {}

\* A read sees every write that was called before it, awaited or not, unless
\* the write failed: sharing a promise answers with an older database across a
\* transaction only, which leaves the cache alone.
SeesEarlierWrites ==
  Excused({"crossed", "shared"}) \/ \A l \in Listener : status[l] = "done" => must[l] \ failed \subseteq got[l]

\* The same across a transaction that waits in the queue as well: what the
\* code does not do.
ReadsFollowTransactions ==
  Excused({"crossed"}) \/ \A l \in Listener : status[l] = "done" => must[l] \ failed \subseteq got[l]

\* No read outside a transaction sees what the transaction has not committed,
\* unless it shared a read of the transaction's function, or the savepoint was
\* left open: its RELEASE failed, or #closed kept it from being called.
NoDirtyReads ==
  Excused({"crossed", "release", "closing"}) \/ \A l \in Listener : got[l] \subseteq content

\* A write whose promise has resolved is in the database for good, and so are
\* all the writes of a transaction or none: an open savepoint never swallows
\* other callers' writes, unless its RELEASE failed or #closed kept it from
\* being called.
ResolvedWritesLast ==
  \/ Excused({"release", "closing"})
  \/ /\ \A w \in Writer : status[w] = "done" => w \in content
     /\ status[Tx] = "failed" => TxWrite \cap content = {}

\* The same while the database closes, whatever transaction is queued behind it:
\* what the code does not do.
ClosingKeepsWrites ==
  \/ Excused({"release"})
  \/ \A w \in Writer : status[w] = "done" => w \in content

\* close is the last thing the database does: what was called before is done,
\* and nothing that was accepted is left for a closed database.
NothingRunsAfterClose ==
  closed = "closed" =>
    /\ queue = <<>>
    /\ \A c \in Caller : status[c] # "waiting"

\* Somebody can go on: the holder of topLevelMutex or, while that is the transaction,
\* its statement, its BEGIN, or its function, which awaits no call queued behind it.
CanGoOn ==
  \/ queue # <<>> /\ Head(queue).kind # "tx"
  \/ Holds("tx") /\ ~open
  \/ inner.kind # "none"
  \/ InTx

\* Whoever waits is awaiting a call that some mutex has, and somebody can go on: the two
\* mutexes, the shared promises and the transaction's function never all wait on each
\* other, unless that function shared a read queued behind it.
NobodyWaitsInACircle ==
  \A c \in Caller : status[c] = "waiting" =>
    /\ c \in inner.for \/ \E i \in DOMAIN queue : c \in queue[i].for
    /\ CanGoOn \/ Excused({"crossed"})

\* No caller waits forever: the mutexes and the shared promises never wait on
\* each other, unless the transaction's function shared a read queued behind it.
EveryCallSettles ==
  \A c \in Caller : status[c] = "waiting" ~> status[c] # "waiting" \/ Excused({"crossed"})

=============================================================================
