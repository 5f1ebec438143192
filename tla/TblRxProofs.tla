------------------------------ MODULE TblRxProofs ------------------------------
(***************************************************************************)
(* What is proved of the asynchronous database of a tab and of the change  *)
(* notification over it (AsyncDb, TblRx), for every number of listeners,   *)
(* writes and failures: what reads may see, what a resolved write means,   *)
(* that neither this tab nor another is left with an old view, and that no *)
(* caller, mutex and transaction wait on each other in a circle.           *)
(***************************************************************************)
EXTENDS TblRx, TLAPS

Spec == Init /\ [][Next]_vars

Index == 1 .. Len(queue)

Kind == {"read", "write", "tx", "finalize", "crsql_finalize", "close"}

JobSet == [kind : Kind, for : SUBSET Caller, cached : BOOLEAN]

Status == {"idle", "waiting", "done", "failed"}

-----------------------------------------------------------------------------
(* The queue.                                                              *)

\* What a queue is after a call was added at its end.
LEMMA AppendJob ==
  ASSUME NEW q \in Seq(JobSet), NEW job \in JobSet
  PROVE  /\ Append(q, job) \in Seq(JobSet)
         /\ Len(Append(q, job)) = Len(q) + 1
         /\ \A i \in 1 .. Len(q) : Append(q, job)[i] = q[i]
         /\ Append(q, job)[Len(q) + 1] = job
  OBVIOUS

\* What it is after its holder has left.
LEMMA TailJobs ==
  ASSUME NEW q \in Seq(JobSet), q # <<>>
  PROVE  /\ Tail(q) \in Seq(JobSet)
         /\ Len(Tail(q)) = Len(q) - 1
         /\ \A i \in 1 .. Len(q) - 1 : Tail(q)[i] = q[i + 1]
         /\ Head(q) = q[1] /\ 1 \in 1 .. Len(q) /\ Len(q) \in Nat
  OBVIOUS

\* What it is when the cache was cleared.
LEMMA UncachedJobs ==
  ASSUME NEW q \in Seq(JobSet)
  PROVE  /\ Uncached(q) \in Seq(JobSet)
         /\ Len(Uncached(q)) = Len(q)
         /\ \A i \in 1 .. Len(q) : /\ Uncached(q)[i].kind = q[i].kind
                                   /\ Uncached(q)[i].for = q[i].for
                                   /\ Uncached(q)[i].cached = FALSE
<1>1. \A i \in 1 .. Len(q) : q[i] \in JobSet
  OBVIOUS
<1>2. /\ DOMAIN q = 1 .. Len(q) /\ Len(q) \in Nat
  OBVIOUS
<1>3. \A i \in 1 .. Len(q) : Uncached(q)[i] = [q[i] EXCEPT !.cached = FALSE]
  BY <1>2 DEF Uncached
<1>4. \A i \in 1 .. Len(q) :
        /\ [q[i] EXCEPT !.cached = FALSE].kind = q[i].kind
        /\ [q[i] EXCEPT !.cached = FALSE].for = q[i].for
        /\ [q[i] EXCEPT !.cached = FALSE].cached = FALSE
        /\ [q[i] EXCEPT !.cached = FALSE] \in JobSet
  BY <1>1 DEF JobSet
<1>5. Uncached(q) \in [1 .. Len(q) -> JobSet]
  <2>1. Uncached(q) = [i \in 1 .. Len(q) |-> [q[i] EXCEPT !.cached = FALSE]]
    BY <1>2 DEF Uncached
  <2> QED
    BY <2>1, <1>4
<1>6. Uncached(q) \in Seq(JobSet) /\ Len(Uncached(q)) = Len(q)
  BY <1>5, <1>2
<1>7. \A i \in 1 .. Len(q) : /\ Uncached(q)[i].kind = q[i].kind
                             /\ Uncached(q)[i].for = q[i].for
                             /\ Uncached(q)[i].cached = FALSE
  BY <1>3, <1>4
<1> QED
  BY <1>6, <1>7

\* p is what q is once c awaits its call i too.
Awaited(q, p, i, c) ==
  /\ p \in Seq(JobSet) /\ Len(p) = Len(q) /\ Len(p) \in Nat /\ i \in 1 .. Len(q)
  /\ \A j \in 1 .. Len(q) :
       /\ p[j].kind = q[j].kind /\ p[j].cached = q[j].cached
       /\ p[j].for = IF j = i THEN q[j].for \cup {c} ELSE q[j].for

\* What it is when one more caller awaits one of its calls.
LEMMA AwaitedJob ==
  ASSUME NEW q \in Seq(JobSet), NEW i \in DOMAIN q, NEW c \in Caller, NEW p,
         p = [q EXCEPT ![i].for = @ \cup {c}]
  PROVE  Awaited(q, p, i, c)
<1>1. \A j \in 1 .. Len(q) : q[j] \in JobSet
  OBVIOUS
<1>2. DOMAIN q = 1 .. Len(q) /\ Len(q) \in Nat
  OBVIOUS
<1> DEFINE job == [q[i] EXCEPT !.for = q[i].for \cup {c}]
<1>3. p = [j \in 1 .. Len(q) |-> IF j = i THEN job ELSE q[j]]
  BY <1>2
<1>4. job \in JobSet /\ job.kind = q[i].kind /\ job.cached = q[i].cached
      /\ job.for = q[i].for \cup {c}
  BY <1>1, <1>2 DEF JobSet
<1> HIDE DEF job
<1>5. \A j \in 1 .. Len(q) : (IF j = i THEN job ELSE q[j]) \in JobSet
  BY <1>1, <1>4
<1>6. p \in [1 .. Len(q) -> JobSet]
  BY <1>3, <1>5
<1>7. p \in Seq(JobSet) /\ Len(p) = Len(q)
  BY <1>2, <1>6
<1>8. \A j \in 1 .. Len(q) : p[j] = IF j = i THEN job ELSE q[j]
  BY <1>3
<1> QED
  BY <1>2, <1>4, <1>7, <1>8 DEF Awaited

\* p is what q is once d calls have left its front and n were added at its end,
\* and no key has come into the cache.
Moved(q, p, d, n) ==
  /\ p \in Seq(JobSet) /\ Len(p) = Len(q) - d + n /\ Len(p) \in Nat
  /\ \A i \in 1 .. Len(q) - d :
       /\ p[i].kind = q[i + d].kind /\ p[i].for = q[i + d].for
       /\ p[i].cached => q[i + d].cached

LEMMA Motions ==
  ASSUME NEW q \in Seq(JobSet)
  PROVE  /\ Moved(q, q, 0, 0) /\ Moved(q, Uncached(q), 0, 0)
         /\ q # <<>> => /\ Moved(q, Tail(q), 1, 0) /\ Moved(q, Uncached(Tail(q)), 1, 0)
                        /\ Head(q) = q[1] /\ Len(q) >= 1
         /\ \A job \in JobSet :
              /\ Moved(q, Append(q, job), 0, 1) /\ Append(q, job)[Len(q) + 1] = job
              /\ Moved(q, Append(Uncached(q), job), 0, 1)
              /\ Append(Uncached(q), job)[Len(q) + 1] = job
              /\ \A i \in 1 .. Len(q) : ~Append(Uncached(q), job)[i].cached
              /\ q # <<>> => /\ Moved(q, Append(Tail(q), job), 1, 1)
                             /\ Append(Tail(q), job)[Len(q)] = job
<1>1. Len(q) \in Nat
  OBVIOUS
<1>2. Moved(q, q, 0, 0) /\ Moved(q, Uncached(q), 0, 0)
  <2> DEFINE u == Uncached(q)
  <2>1. /\ u \in Seq(JobSet) /\ Len(u) = Len(q)
        /\ \A i \in 1 .. Len(q) : u[i].kind = q[i].kind /\ u[i].for = q[i].for /\ ~u[i].cached
    BY UncachedJobs
  <2> HIDE DEF u
  <2>2. \A i \in 1 .. Len(q) : i + 0 = i
    BY <1>1
  <2>3. Moved(q, u, 0, 0)
    BY <1>1, <2>1, <2>2 DEF Moved
  <2>4. Moved(q, q, 0, 0)
    BY <1>1, <2>2 DEF Moved
  <2> QED
    BY <2>3, <2>4 DEF u
<1>3. ASSUME q # <<>>
      PROVE  /\ Moved(q, Tail(q), 1, 0) /\ Moved(q, Uncached(Tail(q)), 1, 0)
             /\ Head(q) = q[1] /\ Len(q) >= 1
  <2> DEFINE p == Tail(q)
  <2>1. /\ p \in Seq(JobSet) /\ Len(p) = Len(q) - 1 /\ Len(p) \in Nat
        /\ \A i \in 1 .. Len(q) - 1 : p[i] = q[i + 1]
        /\ Head(q) = q[1] /\ Len(q) >= 1
    BY <1>1, <1>3, TailJobs
  <2> HIDE DEF p
  <2>2. /\ Uncached(p) \in Seq(JobSet) /\ Len(Uncached(p)) = Len(p)
        /\ \A i \in 1 .. Len(p) : /\ Uncached(p)[i].kind = p[i].kind
                                  /\ Uncached(p)[i].for = p[i].for
                                  /\ Uncached(p)[i].cached = FALSE
    BY <2>1, UncachedJobs
  <2>3. Moved(q, p, 1, 0) /\ Moved(q, Uncached(p), 1, 0)
    BY <1>1, <2>1, <2>2 DEF Moved
  <2> QED
    BY <2>1, <2>3 DEF p
<1>4. ASSUME NEW job \in JobSet
      PROVE  /\ Moved(q, Append(q, job), 0, 1) /\ Append(q, job)[Len(q) + 1] = job
             /\ Moved(q, Append(Uncached(q), job), 0, 1)
             /\ Append(Uncached(q), job)[Len(q) + 1] = job
             /\ \A i \in 1 .. Len(q) : ~Append(Uncached(q), job)[i].cached
  <2>1. Moved(q, Append(q, job), 0, 1) /\ Append(q, job)[Len(q) + 1] = job
    BY <1>1, AppendJob DEF Moved
  <2> DEFINE u == Uncached(q)
  <2>2. /\ u \in Seq(JobSet) /\ Len(u) = Len(q)
        /\ \A i \in 1 .. Len(q) : u[i].kind = q[i].kind /\ u[i].for = q[i].for /\ ~u[i].cached
    BY UncachedJobs
  <2> HIDE DEF u
  <2>3. /\ Append(u, job) \in Seq(JobSet) /\ Len(Append(u, job)) = Len(u) + 1
        /\ \A i \in 1 .. Len(u) : Append(u, job)[i] = u[i]
        /\ Append(u, job)[Len(u) + 1] = job
    BY <2>2, AppendJob
  <2>4. Moved(q, Append(u, job), 0, 1) /\ Append(u, job)[Len(q) + 1] = job
        /\ \A i \in 1 .. Len(q) : ~Append(u, job)[i].cached
    BY <1>1, <2>2, <2>3 DEF Moved
  <2> QED
    BY <2>1, <2>4 DEF u
<1>5. ASSUME NEW job \in JobSet, q # <<>>
      PROVE  Moved(q, Append(Tail(q), job), 1, 1) /\ Append(Tail(q), job)[Len(q)] = job
  <2> DEFINE p == Tail(q)
  <2>1. /\ p \in Seq(JobSet) /\ Len(p) = Len(q) - 1 /\ Len(p) \in Nat
        /\ \A i \in 1 .. Len(q) - 1 : p[i] = q[i + 1]
    BY <1>1, <1>5, TailJobs
  <2> HIDE DEF p
  <2>2. /\ Append(p, job) \in Seq(JobSet) /\ Len(Append(p, job)) = Len(p) + 1
        /\ \A i \in 1 .. Len(p) : Append(p, job)[i] = p[i]
        /\ Append(p, job)[Len(p) + 1] = job
    BY <2>1, AppendJob
  <2>3. Len(p) + 1 = Len(q)
    BY <1>1, <2>1
  <2>4. Moved(q, Append(p, job), 1, 1) /\ Append(p, job)[Len(q)] = job
    BY <1>1, <2>1, <2>2, <2>3 DEF Moved
  <2> QED
    BY <2>4 DEF p
<1> QED
  BY <1>2, <1>3, <1>4, <1>5

-----------------------------------------------------------------------------
(* The inductive invariant.                                                *)

TypeInv ==
  /\ queue \in Seq(JobSet)
  /\ inner \in [kind : {"none", "read", "write"}, for : SUBSET (Caller \cup TxWrite),
                cached : BOOLEAN]
  /\ status \in [Caller -> Status]
  /\ content \subseteq Write /\ dirty \subseteq Write /\ open \in BOOLEAN
  /\ must \in [Listener -> SUBSET Write] /\ got \in [Listener -> SUBSET Write]
  /\ pending \subseteq Write /\ subscribed \subseteq Listener /\ due \subseteq Listener
  /\ channel \in Nat /\ there \in [got : SUBSET Write, due : BOOLEAN]

\* A call that can make the write w.
Makes(job, w) ==
  \/ job.kind = "write" /\ w \in job.for
  \/ job.kind = "tx" /\ w \in TxWrite

\* The writes of which nothing more is to come.
Settled == Visible \cup failed

JobsOK ==
  \A i \in Index :
    /\ queue[i].cached => queue[i].kind = "read"
    /\ queue[i].kind = "write" => \E w \in Writer : queue[i].for = {w}
    /\ queue[i].kind = "tx" =>
         status[Tx] = "waiting" /\ \A j \in Index : queue[j].kind = "tx" => j = i
    /\ queue[i].kind # "read" => queue[i].for \cap Listener = {}

InnerOK ==
  /\ inner.kind = "none" => inner = NoJob
  /\ inner.kind = "write" => inner.for \subseteq TxWrite
  /\ inner.cached => inner.kind = "read"
  /\ inner.kind # "none" => Holds("tx") /\ open

\* While a savepoint is open its transaction holds the mutex, or it was left open.
SavepointOK ==
  /\ ~open => dirty = {}
  /\ open => status[Tx] # "idle"
  /\ open => \/ Holds("tx")
             \/ /\ Excused({"release", "closing"})
                /\ \A i \in Index : queue[i].kind # "tx"
  /\ Holds("tx") => dirty \subseteq TxWrite
  /\ status[Tx] # "done" => content \cap TxWrite = {}

\* What was called is settled, or its call is in the queue.
CallsOK ==
  /\ \A w \in Writer : status[w] # "idle" =>
       w \in Settled \/ \E j \in Index : queue[j].kind = "write" /\ w \in queue[j].for
  /\ status[Tx] # "idle" =>
       TxWrite \subseteq Settled \/ \E j \in Index : queue[j].kind = "tx"

\* No write is queued behind a read that is in the cache.
CacheOK == \A i, j \in Index : queue[i].cached /\ i < j => queue[j].kind # "write"

\* Without reads shared across the edge of a transaction, a listener awaits one
\* call, and none of the transaction's.
ReadsOK ==
  "crossed" \in excused \/
  /\ inner.kind = "read" => inner.for \cap Listener = {}
  /\ \A l \in Listener : \A i \in Index : l \in queue[i].for =>
       status[l] = "waiting" /\ \A j \in Index : l \in queue[j].for => j = i

\* What a waiting read must see is settled, or queued before it.
BehindOK ==
  Excused({"crossed", "shared"}) \/
  \A l \in Listener : \A i \in Index : l \in queue[i].for =>
    \A w \in must[l] : w \in Settled \/ \E j \in Index : j < i /\ Makes(queue[j], w)

\* A listener that has not seen what a read would show is on its way to read.
FreshOK ==
  Excused({"crossed", "release", "threw"}) \/
  \A l \in subscribed : (Visible \cap Watched(l)) \ got[l] # {} =>
    pending \cap Watched(l) # {} \/ l \in due \/ status[l] = "waiting"

\* What the transaction has written is still to be told.
TabOK ==
  /\ there.got \subseteq content
  /\ Excused({"early", "threw"}) \/ subscribed = {} \/ dirty \subseteq pending \cup content

\* What l has seen of its rows, or may see in an open savepoint, that is not committed.
Ahead(l) == ((dirty \cup got[l]) \ content) \cap Watched(l)

\* Once #closed is set no listener begins a read: one that is ahead is called by the
\* timer, or will be, and stays due.
ClosedOK ==
  /\ "closing" \in excused => ~IsOpen
  /\ IsOpen \/ Excused({"crossed", "release", "threw"}) \/
     \A l \in subscribed : Ahead(l) # {} => pending \cap Watched(l) # {} \/ l \in due

DbInv == TypeInv /\ JobsOK /\ InnerOK /\ SavepointOK

IInv ==
  /\ DbInv
  /\ CallsOK /\ CacheOK /\ ReadsOK /\ BehindOK /\ FreshOK /\ TabOK /\ ClosedOK
  /\ SeesEarlierWrites /\ NoDirtyReads /\ ResolvedWritesLast /\ OtherTabIsFresh

-----------------------------------------------------------------------------
(* What each action does to the queue.                                     *)

LEMMA Callers ==
  /\ Tx \in Caller /\ Closer \in Caller /\ Listener \subseteq Caller /\ Writer \subseteq Caller
  /\ Tx \notin Listener /\ Tx \notin Writer /\ Closer \notin Listener /\ Closer # Tx
  /\ Closer \notin Writer
  /\ Listener \cap Writer = {} /\ Writer \cap TxWrite = {}
  /\ Write = Writer \cup TxWrite
BY ConstantsAssumption DEF Caller, Write

LEMMA Jobs ==
  ASSUME NEW kind \in Kind, NEW c \in Caller, NEW cached \in BOOLEAN
  PROVE  /\ Job(kind, c, cached) \in JobSet
         /\ Job(kind, c, cached).kind = kind
         /\ Job(kind, c, cached).for = {c}
         /\ Job(kind, c, cached).cached = cached
BY DEF Job, JobSet

LEMMA Heads ==
  ASSUME TypeInv
  PROVE  /\ Len(queue) \in Nat /\ Index = 1 .. Len(queue)
         /\ Index = DOMAIN queue
         /\ \A k : Holds(k) <=> 1 \in Index /\ queue[1].kind = k
         /\ \A k : Holds(k) => queue # <<>> /\ Head(queue) = queue[1]
         /\ \A i \in Index : queue[i] \in JobSet
BY DEF TypeInv, Index, Holds

LEMMA CallReadMoves ==
  ASSUME TypeInv, NEW l \in Listener, CallRead(l)
  PROVE  \/ \E i \in Index : /\ queue[i].cached /\ Awaited(queue, queue', i, l)
                             /\ inner' = inner
                             /\ \/ "shared" \in excused'
                                \/ /\ excused' = excused
                                   /\ \A j \in Index : j > i => queue[j].kind # "tx"
         \/ /\ inner.cached /\ inner' = [inner EXCEPT !.for = @ \cup {l}]
            /\ queue' = queue /\ excused' = excused \cup {"crossed"}
         \/ /\ Moved(queue, queue', 0, 1)
            /\ queue'[Len(queue) + 1] = Job("read", l, TRUE)
            /\ inner' = inner /\ excused' = excused
<1> USE Heads, Callers
<1>1. CASE \E i \in Cached :
             /\ queue' = [queue EXCEPT ![i].for = @ \cup {l}]
             /\ excused' = IF \E j \in DOMAIN queue : j > i /\ queue[j].kind = "tx"
                           THEN excused \cup {"shared"} ELSE excused
             /\ UNCHANGED inner
  <2>1. PICK i \in Cached :
             /\ queue' = [queue EXCEPT ![i].for = @ \cup {l}]
             /\ excused' = IF \E j \in DOMAIN queue : j > i /\ queue[j].kind = "tx"
                           THEN excused \cup {"shared"} ELSE excused
             /\ UNCHANGED inner
    BY <1>1
  <2>2. i \in DOMAIN queue /\ queue[i].cached /\ i \in Index
    BY DEF Cached
  <2>3. Awaited(queue, queue', i, l)
    <3>1. queue \in Seq(JobSet) /\ i \in DOMAIN queue /\ l \in Caller
      BY <2>2 DEF TypeInv
    <3>2. queue' = [queue EXCEPT ![i].for = @ \cup {l}]
      BY <2>1
    <3> QED
      BY <3>1, <3>2, AwaitedJob
  <2> QED
    BY <2>1, <2>2, <2>3
<1>2. CASE Cached = {} /\ ~inner.cached /\ queue' = Append(queue, Job("read", l, TRUE))
           /\ UNCHANGED <<inner, excused>>
  <2>1. Job("read", l, TRUE) \in JobSet
    BY Jobs DEF Kind
  <2>2. Moved(queue, queue', 0, 1) /\ queue'[Len(queue) + 1] = Job("read", l, TRUE)
    BY <1>2, <2>1, Motions DEF TypeInv
  <2> QED
    BY <1>2, <2>2
<1> QED
  BY <1>1, <1>2 DEF CallRead

LEMMA DbMoves ==
  ASSUME TypeInv
  PROVE  /\ \A w \in Writer : CallWrite(w) =>
              /\ Moved(queue, queue', 0, 1) /\ queue'[Len(queue) + 1] = Job("write", w, FALSE)
              /\ \A i \in Index : ~queue'[i].cached
         /\ CallTx =>
              Moved(queue, queue', 0, 1) /\ queue'[Len(queue) + 1] = Job("tx", Tx, FALSE)
         /\ CallClose =>
              Moved(queue, queue', 0, 1) /\ queue'[Len(queue) + 1] = Job("finalize", Closer, FALSE)
         /\ RunRead \/ RunWrite \/ RefuseTx \/ EndTx \/ RunClose =>
              Moved(queue, queue', 1, 0) /\ 1 \in Index
         /\ RunFinalize \/ RunCrsqlFinalize =>
              /\ Moved(queue, queue', 1, 1) /\ 1 \in Index
              /\ \E k \in {"crsql_finalize", "close"} :
                   queue'[Len(queue)] = Job(k, Closer, FALSE)
         /\ \A w \in TxWrite : TxCallWrite(w) => Moved(queue, queue', 0, 0)
         /\ TxRunRead => Moved(queue, queue', 0, 0)
         /\ TxCallRead =>
              \/ /\ "crossed" \in excused' /\ inner' = inner
                 /\ \E i \in Index : queue[i].cached /\ Awaited(queue, queue', i, Tx)
              \/ /\ excused' = excused /\ inner' = Job("read", Tx, TRUE) /\ queue' = queue
<1>1. queue \in Seq(JobSet)
  BY DEF TypeInv
<1>2. /\ \A w \in Writer : Job("write", w, FALSE) \in JobSet
      /\ Job("tx", Tx, FALSE) \in JobSet
      /\ \A k \in {"finalize", "crsql_finalize", "close"} : Job(k, Closer, FALSE) \in JobSet
  BY Callers, Jobs DEF Kind
<1>a. \A job \in JobSet :
        Moved(queue, Append(queue, job), 0, 1) /\ Append(queue, job)[Len(queue) + 1] = job
  BY <1>1, Motions
<1>3. ASSUME NEW w \in Writer, CallWrite(w)
      PROVE  /\ Moved(queue, queue', 0, 1) /\ queue'[Len(queue) + 1] = Job("write", w, FALSE)
             /\ \A i \in Index : ~queue'[i].cached
  BY <1>1, <1>2, <1>3, Heads, Motions DEF CallWrite
<1>4. CallTx => Moved(queue, queue', 0, 1) /\ queue'[Len(queue) + 1] = Job("tx", Tx, FALSE)
  <2>1. CallTx => queue' = Append(queue, Job("tx", Tx, FALSE))
    BY DEF CallTx
  <2>2. Job("tx", Tx, FALSE) \in JobSet
    BY <1>2
  <2> QED
    BY <1>a, <2>1, <2>2
<1>5. CallClose =>
        Moved(queue, queue', 0, 1) /\ queue'[Len(queue) + 1] = Job("finalize", Closer, FALSE)
  <2>1. CallClose => queue' = Append(queue, Job("finalize", Closer, FALSE))
    BY DEF CallClose
  <2>2. Job("finalize", Closer, FALSE) \in JobSet
    BY <1>2
  <2> QED
    BY <1>a, <2>1, <2>2
<1>6. RunRead \/ RunWrite \/ RefuseTx \/ EndTx \/ RunClose =>
        Moved(queue, queue', 1, 0) /\ 1 \in Index
  <2>1. RunRead => Moved(queue, queue', 1, 0) /\ 1 \in Index
    BY <1>1, Heads, Motions DEF RunRead
  <2>2. RunWrite \/ RefuseTx \/ EndTx \/ RunClose => Moved(queue, queue', 1, 0) /\ 1 \in Index
    BY <1>1, Heads, Motions DEF RunWrite, RefuseTx, EndTx, RunClose, InTx
  <2> QED
    BY <2>1, <2>2
<1>7. RunFinalize \/ RunCrsqlFinalize =>
        /\ Moved(queue, queue', 1, 1) /\ 1 \in Index
        /\ \E k \in {"crsql_finalize", "close"} : queue'[Len(queue)] = Job(k, Closer, FALSE)
  <2>1. RunFinalize \/ RunCrsqlFinalize => 1 \in Index /\ queue # <<>>
    BY Heads DEF RunFinalize, RunCrsqlFinalize
  <2>2. RunFinalize \/ RunCrsqlFinalize =>
          \E k \in {"crsql_finalize", "close"} :
            queue' = Append(Tail(queue), Job(k, Closer, FALSE))
    BY DEF RunFinalize, RunCrsqlFinalize
  <2>3. ASSUME NEW k \in {"crsql_finalize", "close"}, queue # <<>>,
               queue' = Append(Tail(queue), Job(k, Closer, FALSE))
        PROVE  Moved(queue, queue', 1, 1) /\ queue'[Len(queue)] = Job(k, Closer, FALSE)
    <3>1. Job(k, Closer, FALSE) \in JobSet
      BY <1>2
    <3> QED
      BY <1>1, <2>3, <3>1, Motions
  <2> QED
    BY <2>1, <2>2, <2>3
<1>8. \A w \in TxWrite : TxCallWrite(w) => Moved(queue, queue', 0, 0)
  BY <1>1, Motions DEF TxCallWrite
<1>9. TxRunRead => Moved(queue, queue', 0, 0)
  BY <1>1, Motions DEF TxRunRead
<1>10. ASSUME TxCallRead
       PROVE  \/ /\ "crossed" \in excused' /\ inner' = inner
                 /\ \E i \in Index : queue[i].cached /\ Awaited(queue, queue', i, Tx)
              \/ /\ excused' = excused /\ inner' = Job("read", Tx, TRUE) /\ queue' = queue
  <2>1. CASE \E i \in Cached :
               /\ queue' = [queue EXCEPT ![i].for = @ \cup {Tx}]
               /\ excused' = excused \cup {"crossed"}
               /\ UNCHANGED inner
    <3>1. PICK i \in Cached :
               /\ queue' = [queue EXCEPT ![i].for = @ \cup {Tx}]
               /\ excused' = excused \cup {"crossed"}
               /\ UNCHANGED inner
      BY <2>1
    <3>2. i \in DOMAIN queue /\ queue[i].cached /\ i \in Index
      BY Heads DEF Cached
    <3>3. Awaited(queue, queue', i, Tx)
      <4>1. queue' = [queue EXCEPT ![i].for = @ \cup {Tx}]
        BY <3>1
      <4> QED
        BY <1>1, <3>2, <4>1, Callers, AwaitedJob
    <3> QED
      BY <3>1, <3>2, <3>3
  <2> QED
    BY <1>10, <2>1 DEF TxCallRead
<1> QED
  BY <1>3, <1>4, <1>5, <1>6, <1>7, <1>8, <1>9, <1>10

\* The queue stays a queue of calls.
LEMMA QueueType ==
  ASSUME TypeInv, DbCall \/ DbRun \/ DbTx \/ \E l \in Listener : CallRead(l)
  PROVE  queue' \in Seq(JobSet)
<1>0. queue \in Seq(JobSet)
  BY DEF TypeInv
<1>1. ASSUME NEW l \in Listener, CallRead(l)
      PROVE  queue' \in Seq(JobSet)
  BY <1>0, <1>1, CallReadMoves DEF Moved, Awaited
<1>2. DbCall => queue' \in Seq(JobSet)
  BY DbMoves DEF DbCall, Moved
<1>3. DbTx => queue' \in Seq(JobSet)
  BY <1>0, DbMoves DEF DbTx, Moved, Awaited
<1>4. DbRun => queue' \in Seq(JobSet)
  <2>1. BeginTx \/ TxRunWrite => queue' = queue
    BY DEF BeginTx, TxRunWrite, mutexes
  <2> QED
    BY <1>0, <2>1, DbMoves DEF DbRun, Moved
<1> QED
  BY <1>1, <1>2, <1>3, <1>4

\* What each call leaves of the rest is as it should be.
LEMMA DbTypes ==
  ASSUME TypeInv, JobsOK, InnerOK, DbCall \/ DbRun \/ DbTx \/ \E l \in Listener : CallRead(l)
  PROVE  /\ inner' \in [kind : {"none", "read", "write"}, for : SUBSET (Caller \cup TxWrite),
                        cached : BOOLEAN]
         /\ status' \in [Caller -> Status]
         /\ content' \subseteq Write /\ dirty' \subseteq Write /\ open' \in BOOLEAN
         /\ must' \in [Listener -> SUBSET Write] /\ got' \in [Listener -> SUBSET Write]
<1> USE Callers
<1> DEFINE InnerSet == [kind : {"none", "read", "write"}, for : SUBSET (Caller \cup TxWrite),
                        cached : BOOLEAN]
           Rest == /\ inner' \in InnerSet
                   /\ status' \in [Caller -> Status]
                   /\ content' \subseteq Write /\ dirty' \subseteq Write /\ open' \in BOOLEAN
                   /\ must' \in [Listener -> SUBSET Write] /\ got' \in [Listener -> SUBSET Write]
<1>0. /\ inner \in InnerSet
      /\ status \in [Caller -> Status]
      /\ content \subseteq Write /\ dirty \subseteq Write /\ open \in BOOLEAN
      /\ must \in [Listener -> SUBSET Write] /\ got \in [Listener -> SUBSET Write]
  BY DEF TypeInv
<1>a. \A c \in Caller, v \in Status : [status EXCEPT ![c] = v] \in [Caller -> Status]
  BY <1>0
<1>b. {"idle", "waiting", "done", "failed"} = Status
  BY DEF Status
<1>1. ASSUME NEW l \in Listener, CallRead(l)
      PROVE  Rest
  <2>1. inner' \in InnerSet
    <3>1. [inner EXCEPT !.for = @ \cup {l}] \in InnerSet
      BY <1>0
    <3> QED
      BY <1>0, <1>1, <3>1, CallReadMoves
  <2>2. status' \in [Caller -> Status]
    BY <1>1, <1>a, <1>b DEF CallRead, Asked
  <2>3. must' \in [Listener -> SUBSET Write]
    <3>1. PICK s : s = {w \in Writer : status[w] # "idle"}
                       \cup (IF status[Tx] = "idle" THEN {} ELSE TxWrite)
      OBVIOUS
    <3>2. s \in SUBSET Write
      BY <3>1
    <3>3. must' = [must EXCEPT ![l] = s]
      BY <1>1, <3>1 DEF CallRead
    <3> QED
      BY <1>0, <3>2, <3>3
  <2> QED
    BY <1>0, <1>1, <2>1, <2>2, <2>3 DEF CallRead, sqlite
<1>2. ASSUME NEW w \in Writer, CallWrite(w)
      PROVE  Rest
  <2>1. inner' \in InnerSet
    BY <1>0, <1>2 DEF CallWrite
  <2>2. status' \in [Caller -> Status]
    BY <1>2, <1>a, <1>b DEF CallWrite, Asked
  <2> QED
    BY <1>0, <1>2, <2>1, <2>2 DEF CallWrite, sqlite
<1>3. ASSUME CallTx \/ CallClose
      PROVE  Rest
  <2>1. status' \in [Caller -> Status]
    <3>1. PICK c \in Caller : status' = [status EXCEPT ![c] = "waiting"]
      BY <1>3 DEF CallTx, CallClose, Asked
    <3> QED
      BY <1>a, <1>b, <3>1
  <2> QED
    BY <1>0, <1>3, <2>1 DEF CallTx, CallClose, sqlite
<1>4. ASSUME NEW job, SettleRead(job)
      PROVE  /\ status' \in [Caller -> Status] /\ got' \in [Listener -> SUBSET Write]
  <2>1. Visible \subseteq Write
    BY <1>0 DEF Visible
  <2>2. got' \in [Listener -> SUBSET Write]
    BY <1>0, <1>4, <2>1 DEF SettleRead
  <2>3. status' \in [Caller -> Status]
    BY <1>0, <1>b, <1>4 DEF SettleRead
  <2> QED
    BY <2>2, <2>3
<1>5. ASSUME RunRead
      PROVE  Rest
  BY <1>0, <1>4, <1>5 DEF RunRead, sqlite
<1>6. ASSUME TxRunRead
      PROVE  Rest
  <2>1. NoJob \in InnerSet
    BY DEF NoJob
  <2> QED
    BY <1>0, <1>4, <1>6, <2>1 DEF TxRunRead, sqlite
<1>7. ASSUME RunWrite
      PROVE  Rest
  <2>1. Head(queue).for \subseteq Writer
    BY <1>7, Heads DEF RunWrite, JobsOK
  <2>2. PICK w \in Writer :
          /\ status' \in {[status EXCEPT ![w] = "done"], [status EXCEPT ![w] = "failed"]}
          /\ content' \in {content, content \cup {w}} /\ dirty' \in {dirty, dirty \cup {w}}
    BY <1>7, <2>1 DEF RunWrite
  <2>3. status' \in [Caller -> Status]
    BY <1>a, <1>b, <2>2
  <2> QED
    BY <1>0, <1>7, <2>2, <2>3 DEF RunWrite
<1>8. ASSUME BeginTx
      PROVE  Rest
  BY <1>0, <1>8 DEF BeginTx, mutexes
<1>9. ASSUME NEW w \in TxWrite, TxCallWrite(w)
      PROVE  Rest
  <2>1. Inner("write", w) \in InnerSet
    BY DEF Inner
  <2> QED
    BY <1>0, <1>9, <2>1 DEF TxCallWrite, sqlite
<1>10. ASSUME TxCallRead
       PROVE  Rest
  <2>1. Job("read", Tx, TRUE) \in InnerSet
    BY DEF Job
  <2>2. inner' \in InnerSet
    BY <1>0, <1>10, <2>1, DbMoves
  <2> QED
    BY <1>0, <1>10, <2>2 DEF TxCallRead, sqlite
<1>11. ASSUME TxRunWrite
       PROVE  Rest
  <2>1. NoJob \in InnerSet
    BY DEF NoJob
  <2>2. inner.for \subseteq Write
    BY <1>11 DEF TxRunWrite, InnerOK
  <2> QED
    BY <1>0, <1>11, <2>1, <2>2 DEF TxRunWrite
<1>r. ASSUME RefuseTx
      PROVE  Rest
  <2>1. status' \in [Caller -> Status]
    BY <1>a, <1>b, <1>r DEF RefuseTx
  <2> QED
    BY <1>0, <1>r, <2>1 DEF RefuseTx, sqlite
<1>12. ASSUME EndTx
       PROVE  Rest
  <2>1. Visible \subseteq Write
    BY <1>0 DEF Visible
  <2>2. status' \in [Caller -> Status]
    BY <1>12, <1>a, <1>b DEF EndTx
  <2>3. content' \subseteq Write /\ dirty' \subseteq Write /\ open' \in BOOLEAN
    BY <1>0, <1>12, <2>1 DEF EndTx, sqlite
  <2> QED
    BY <1>0, <1>12, <2>2, <2>3 DEF EndTx
<1>13. ASSUME RunFinalize \/ RunCrsqlFinalize \/ RunClose
       PROVE  Rest
  <2>1. status' \in [Caller -> Status]
    BY <1>0, <1>13, <1>a, <1>b DEF RunFinalize, RunCrsqlFinalize, RunClose
  <2>2. /\ content' = content /\ dirty' \in {dirty, {}} /\ open' \in BOOLEAN
        /\ inner' = inner /\ must' = must /\ got' = got
    BY <1>0, <1>13 DEF RunFinalize, RunCrsqlFinalize, RunClose, sqlite
  <2> QED
    BY <1>0, <2>1, <2>2
<1> QED
  BY <1>1, <1>2, <1>3, <1>5, <1>6, <1>7, <1>8, <1>9, <1>10, <1>11, <1>r, <1>12, <1>13
  DEF DbCall, DbRun, DbTx

DbStep == DbCall \/ DbRun \/ DbTx \/ \E l \in Listener : CallRead(l)

\* Nothing happens to the database.
Quiet ==
  /\ UNCHANGED <<queue, inner, status, content, dirty, open, must, got, failed>>
  /\ excused \subseteq excused'

LEMMA StepKinds ==
  ASSUME [Next]_vars
  PROVE  DbStep \/ Quiet
<1>1. Notify => Quiet
  BY DEF Notify, Quiet, mutexes, sqlite
<1>2. Dispose \/ OtherHears \/ OtherReads \/ UNCHANGED vars => Quiet
  BY DEF Dispose, OtherHears, OtherReads, Quiet, vars, dbVars, mutexes, sqlite
<1> QED
  BY <1>1, <1>2 DEF Next, Db, Listen, DbStep

LEMMA TypeStep ==
  ASSUME TypeInv, JobsOK, InnerOK, [Next]_vars
  PROVE  TypeInv'
<1> DEFINE DbPart == /\ queue' \in Seq(JobSet)
                     /\ inner' \in [kind : {"none", "read", "write"},
                                    for : SUBSET (Caller \cup TxWrite), cached : BOOLEAN]
                     /\ status' \in [Caller -> Status]
                     /\ content' \subseteq Write /\ dirty' \subseteq Write /\ open' \in BOOLEAN
                     /\ must' \in [Listener -> SUBSET Write]
                     /\ got' \in [Listener -> SUBSET Write]
           RxPart == /\ pending' \subseteq Write /\ subscribed' \subseteq Listener
                     /\ due' \subseteq Listener
                     /\ channel' \in Nat /\ there' \in [got : SUBSET Write, due : BOOLEAN]
<1>1. DbPart
  <2>1. Quiet => DbPart
    BY DEF Quiet, TypeInv
  <2>2. DbStep => DbPart
    BY QueueType, DbTypes DEF DbStep
  <2> QED
    BY <2>1, <2>2, StepKinds
<1>2. RxPart
  <2>0. /\ pending \subseteq Write /\ subscribed \subseteq Listener /\ due \subseteq Listener
        /\ channel \in Nat /\ there \in [got : SUBSET Write, due : BOOLEAN]
        /\ content \subseteq Write
    BY DEF TypeInv
  <2>1. Db => RxPart
    <3>1. Hook => pending' \subseteq Write
      BY <1>1, <2>0 DEF Hook, Touched
    <3> QED
      BY <2>0, <3>1 DEF Db
  <2>2. Notify => RxPart
    <3>1. ASSUME Notify
          PROVE  due' \subseteq Listener /\ channel' \in Nat
      BY <2>0, <3>1 DEF Notify, Told
    <3> QED
      BY <2>0, <3>1 DEF Notify
  <2>3. Dispose => RxPart
    BY <2>0 DEF Dispose
  <2>4. ASSUME OtherHears
        PROVE  RxPart
    <3>1. channel' \in Nat /\ there' \in [got : SUBSET Write, due : BOOLEAN]
      <4>1. channel > 0 /\ channel' = channel - 1 /\ there' = [there EXCEPT !.due = TRUE]
        BY <2>4 DEF OtherHears
      <4>2. channel' \in Nat
        BY <2>0, <4>1
      <4>3. there' \in [got : SUBSET Write, due : BOOLEAN]
        BY <2>0, <4>1
      <4> QED
        BY <4>2, <4>3
    <3> QED
      BY <2>0, <2>4, <3>1 DEF OtherHears
  <2>5. OtherReads => RxPart
    BY <2>0 DEF OtherReads
  <2>6. ASSUME NEW l \in Listener, Listen(l)
        PROVE  RxPart
    BY <2>0, <2>6 DEF Listen
  <2>7. UNCHANGED vars => RxPart
    BY <2>0 DEF vars, rxVars
  <2> QED
    BY <2>1, <2>2, <2>3, <2>4, <2>5, <2>6, <2>7 DEF Next
<1> QED
  BY <1>1, <1>2 DEF TypeInv

-----------------------------------------------------------------------------
(* The calls in the queue and the transaction.                             *)

LEMMA JobsMoved ==
  ASSUME TypeInv, JobsOK, NEW d \in {0, 1}, NEW n \in {0, 1}, Len(queue) >= d,
         Moved(queue, queue', d, n),
         status'[Tx] = status[Tx] \/ \A i \in Index : i > d => queue[i].kind # "tx",
         NEW job, n = 1 =>
           /\ queue'[Len(queue) - d + 1] = job
           /\ job.cached => job.kind = "read"
           /\ job.kind = "write" => \E w \in Writer : job.for = {w}
           /\ job.kind = "tx" =>
                status'[Tx] = "waiting" /\ \A i \in Index : queue[i].kind # "tx"
           /\ job.kind # "read" => job.for \cap Listener = {}
  PROVE  JobsOK'
<1>0. Len(queue) \in Nat
  BY Heads
<1>1. \A i \in 1 .. Len(queue') : \/ i \in 1 .. Len(queue) - d /\ i + d \in Index /\ i + d > d
                                  \/ n = 1 /\ i = Len(queue) - d + 1
  <2>1. Len(queue') = Len(queue) - d + n
    BY DEF Moved
  <2> QED
    BY <1>0, <2>1 DEF Index
<1>2. \A i \in 1 .. Len(queue) - d :
        /\ queue'[i].cached => queue'[i].kind = "read"
        /\ queue'[i].kind = "write" => \E w \in Writer : queue'[i].for = {w}
        /\ queue'[i].kind = "tx" => status'[Tx] = "waiting" /\ queue[i + d].kind = "tx"
        /\ queue'[i].kind # "read" => queue'[i].for \cap Listener = {}
  <2>1. ASSUME NEW i \in 1 .. Len(queue) - d
        PROVE  /\ queue'[i].cached => queue'[i].kind = "read"
               /\ queue'[i].kind = "write" => \E w \in Writer : queue'[i].for = {w}
               /\ queue'[i].kind = "tx" => status'[Tx] = "waiting" /\ queue[i + d].kind = "tx"
               /\ queue'[i].kind # "read" => queue'[i].for \cap Listener = {}
    <3>1. PICK k : k = i + d
      OBVIOUS
    <3>2. k \in Index /\ k > d
      BY <1>0, <3>1 DEF Index
    <3>3. /\ queue'[i].kind = queue[k].kind /\ queue'[i].for = queue[k].for
          /\ queue'[i].cached => queue[k].cached
      BY <3>1 DEF Moved
    <3>4. /\ queue[k].cached => queue[k].kind = "read"
          /\ queue[k].kind = "write" => \E w \in Writer : queue[k].for = {w}
          /\ queue[k].kind = "tx" => status[Tx] = "waiting"
          /\ queue[k].kind # "read" => queue[k].for \cap Listener = {}
      BY <3>2 DEF JobsOK
    <3> QED
      BY <3>1, <3>2, <3>3, <3>4
  <2> QED
    BY <2>1
<1>3. \A i, j \in 1 .. Len(queue) - d :
        queue'[i].kind = "tx" /\ queue'[j].kind = "tx" => i = j
  <2>1. \A i \in 1 .. Len(queue) - d : i + d \in Index
    BY <1>0 DEF Index
  <2>2. ASSUME NEW i \in 1 .. Len(queue) - d, NEW j \in 1 .. Len(queue) - d,
               queue'[i].kind = "tx", queue'[j].kind = "tx"
        PROVE  i = j
    <3>1. i + d \in Index /\ j + d \in Index
      BY <2>1
    <3>2. queue[i + d].kind = "tx" /\ queue[j + d].kind = "tx"
      BY <2>2 DEF Moved
    <3>3. i + d = j + d
      BY <3>1, <3>2 DEF JobsOK
    <3> QED
      BY <1>0, <3>3
  <2> QED
    BY <2>2
<1>4. \A i, j \in 1 .. Len(queue') :
        queue'[i].kind = "tx" /\ queue'[j].kind = "tx" => i = j
  <2>1. ASSUME NEW i \in 1 .. Len(queue) - d, n = 1, job.kind = "tx"
        PROVE  queue'[i].kind # "tx"
    <3>1. i + d \in Index
      BY <1>0 DEF Index
    <3> QED
      BY <2>1, <3>1 DEF Moved
  <2> QED
    BY <1>1, <1>3, <2>1
<1>5. \A i \in 1 .. Len(queue') :
        /\ queue'[i].cached => queue'[i].kind = "read"
        /\ queue'[i].kind = "write" => \E w \in Writer : queue'[i].for = {w}
        /\ queue'[i].kind = "tx" => status'[Tx] = "waiting"
        /\ queue'[i].kind # "read" => queue'[i].for \cap Listener = {}
  BY <1>1, <1>2
<1> QED
  BY <1>4, <1>5 DEF JobsOK, Index

LEMMA JobsAwaited ==
  ASSUME TypeInv, JobsOK, NEW c, NEW i \in Index, queue[i].cached,
         Awaited(queue, queue', i, c), status'[Tx] = status[Tx]
  PROVE  JobsOK'
<1>1. queue[i].kind = "read"
  BY DEF JobsOK
<1>2. Len(queue') = Len(queue)
  BY DEF Awaited
<1>3. \A j \in Index : /\ queue'[j].kind = queue[j].kind /\ queue'[j].cached = queue[j].cached
                       /\ queue'[j].kind # "read" => queue'[j].for = queue[j].for
  BY <1>1 DEF Awaited, Index
<1>4. \A j \in Index :
        /\ queue'[j].cached => queue'[j].kind = "read"
        /\ queue'[j].kind = "write" => \E w \in Writer : queue'[j].for = {w}
        /\ queue'[j].kind = "tx" =>
             status'[Tx] = "waiting" /\ \A k \in Index : queue'[k].kind = "tx" => k = j
        /\ queue'[j].kind # "read" => queue'[j].for \cap Listener = {}
  BY <1>3 DEF JobsOK
<1> QED
  BY <1>2, <1>4 DEF JobsOK, Index

\* Whose status a step changes.
LEMMA StatusMoves ==
  ASSUME TypeInv, JobsOK
  PROVE  /\ \A job : SettleRead(job) =>
              \A c \in Caller : status'[c] = IF c \in job.for \cap Listener THEN "done" ELSE status[c]
         /\ \A c \in Caller : Asked(c) =>
              status'[c] = "waiting" /\ \A o \in Caller : o # c => status'[o] = status[o]
         /\ RunWrite =>
              \E w \in Writer :
                /\ queue[1].for = {w} /\ status'[w] \in {"done", "failed"}
                /\ \A o \in Caller : o # w => status'[o] = status[o]
                /\ \/ /\ status'[w] = "done" /\ failed' = failed
                      /\ content' = IF open THEN content ELSE content \cup {w}
                      /\ dirty' = IF open THEN dirty \cup {w} ELSE dirty
                   \/ /\ status'[w] = "failed" /\ failed' = failed \cup {w}
                      /\ content' = content /\ dirty' = dirty
         /\ EndTx => /\ status'[Tx] \in {"done", "failed"}
                     /\ \A o \in Caller : o # Tx => status'[o] = status[o]
         /\ RefuseTx => /\ status'[Tx] = "failed"
                        /\ \A o \in Caller : o # Tx => status'[o] = status[o]
         /\ RunClose => \A o \in Caller : o # Closer => status'[o] = status[o]
<1> USE Callers
<1>0. status \in [Caller -> Status]
  BY DEF TypeInv
<1>1. ASSUME NEW job, SettleRead(job)
      PROVE  \A c \in Caller : status'[c] = IF c \in job.for \cap Listener THEN "done" ELSE status[c]
  BY <1>1 DEF SettleRead
<1>2. ASSUME NEW c \in Caller, Asked(c)
      PROVE  status'[c] = "waiting" /\ \A o \in Caller : o # c => status'[o] = status[o]
  BY <1>0, <1>2 DEF Asked
<1>3. ASSUME RunWrite
      PROVE  \E w \in Writer :
                /\ queue[1].for = {w} /\ status'[w] \in {"done", "failed"}
                /\ \A o \in Caller : o # w => status'[o] = status[o]
                /\ \/ /\ status'[w] = "done" /\ failed' = failed
                      /\ content' = IF open THEN content ELSE content \cup {w}
                      /\ dirty' = IF open THEN dirty \cup {w} ELSE dirty
                   \/ /\ status'[w] = "failed" /\ failed' = failed \cup {w}
                      /\ content' = content /\ dirty' = dirty
  <2>1. 1 \in Index /\ queue[1].kind = "write" /\ Head(queue) = queue[1]
    BY <1>3, Heads DEF RunWrite
  <2>2. PICK w \in Writer : queue[1].for = {w}
    BY <2>1 DEF JobsOK
  <2>3. \/ /\ status' = [status EXCEPT ![w] = "done"]
           /\ content' = IF open THEN content ELSE content \cup {w}
           /\ dirty' = IF open THEN dirty \cup {w} ELSE dirty
           /\ failed' = failed
        \/ /\ status' = [status EXCEPT ![w] = "failed"]
           /\ failed' = failed \cup {w}
           /\ content' = content /\ dirty' = dirty
    BY <1>3, <2>1, <2>2 DEF RunWrite
  <2> QED
    BY <1>0, <2>2, <2>3
<1>4. EndTx => /\ status'[Tx] \in {"done", "failed"}
               /\ \A o \in Caller : o # Tx => status'[o] = status[o]
  BY <1>0 DEF EndTx
<1>r. RefuseTx => /\ status'[Tx] = "failed"
                  /\ \A o \in Caller : o # Tx => status'[o] = status[o]
  BY <1>0 DEF RefuseTx
<1>5. RunClose => \A o \in Caller : o # Closer => status'[o] = status[o]
  BY <1>0 DEF RunClose
<1> QED
  BY <1>1, <1>2, <1>3, <1>4, <1>5, <1>r

LEMMA JobsStep ==
  ASSUME DbInv, DbStep
  PROVE  JobsOK'
<1> USE Callers
<1>0. TypeInv /\ JobsOK /\ InnerOK /\ Len(queue) \in Nat /\ Len(queue) >= 0
  BY Heads DEF DbInv
<1> DEFINE Plain(job) == /\ job.cached => job.kind = "read"
                         /\ job.kind # "write" /\ job.kind # "tx"
                         /\ job.kind # "read" => job.for \cap Listener = {}
<1>1. ASSUME status'[Tx] = status[Tx], Moved(queue, queue', 0, 0)
      PROVE  JobsOK'
  BY <1>0, <1>1, JobsMoved
<1>2. ASSUME status'[Tx] = status[Tx], Moved(queue, queue', 1, 0), 1 \in Index
      PROVE  JobsOK'
  BY <1>0, <1>2, JobsMoved DEF Index
<1>3. ASSUME status'[Tx] = status[Tx], NEW job, Plain(job), Moved(queue, queue', 0, 1),
             queue'[Len(queue) + 1] = job
      PROVE  JobsOK'
  <2>1. Len(queue) - 0 + 1 = Len(queue) + 1
    BY <1>0
  <2> QED
    BY <1>0, <1>3, <2>1, JobsMoved
<1>4. ASSUME status'[Tx] = status[Tx], NEW job, Plain(job), Moved(queue, queue', 1, 1),
             queue'[Len(queue)] = job, 1 \in Index
      PROVE  JobsOK'
  <2>1. Len(queue) - 1 + 1 = Len(queue) /\ Len(queue) >= 1
    BY <1>0, <1>4 DEF Index
  <2> QED
    BY <1>0, <1>4, <2>1, JobsMoved
<1>5. ASSUME NEW l \in Listener, CallRead(l)
      PROVE  JobsOK'
  <2>1. status'[Tx] = status[Tx]
    BY <1>0, <1>5, StatusMoves DEF CallRead
  <2>2. Plain(Job("read", l, TRUE))
    BY DEF Job
  <2>3. queue' = queue => Moved(queue, queue', 0, 0)
    BY Motions DEF TypeInv, DbInv
  <2> QED
    BY <1>0, <1>1, <1>3, <1>5, <2>1, <2>2, <2>3, CallReadMoves, JobsAwaited
<1>6. ASSUME NEW w \in Writer, CallWrite(w)
      PROVE  JobsOK'
  <2>1. status'[Tx] = status[Tx]
    BY <1>0, <1>6, StatusMoves DEF CallWrite
  <2>2. PICK job : job = Job("write", w, FALSE)
    OBVIOUS
  <2>3. job.kind = "write" /\ job.for = {w} /\ job.cached = FALSE
    BY <2>2 DEF Job
  <2>4. Moved(queue, queue', 0, 1) /\ queue'[Len(queue) - 0 + 1] = job
    <3>1. Len(queue) - 0 + 1 = Len(queue) + 1
      BY <1>0
    <3> QED
      BY <1>0, <1>6, <2>2, <3>1, DbMoves
  <2> QED
    BY <1>0, <2>1, <2>3, <2>4, JobsMoved
<1>7. ASSUME CallTx
      PROVE  JobsOK'
  <2>1. status[Tx] = "idle" /\ status'[Tx] = "waiting"
    BY <1>0, <1>7, StatusMoves DEF CallTx
  <2>2. PICK job : job = Job("tx", Tx, FALSE)
    OBVIOUS
  <2>3. job.kind = "tx" /\ job.for = {Tx} /\ job.cached = FALSE
    BY <2>2 DEF Job
  <2>4. Moved(queue, queue', 0, 1) /\ queue'[Len(queue) - 0 + 1] = job
    <3>1. Len(queue) - 0 + 1 = Len(queue) + 1
      BY <1>0
    <3> QED
      BY <1>0, <1>7, <2>2, <3>1, DbMoves
  <2>5. \A i \in Index : queue[i].kind # "tx"
    BY <1>0, <2>1 DEF JobsOK
  <2> QED
    BY <1>0, <2>1, <2>3, <2>4, <2>5, JobsMoved
<1>8. ASSUME CallClose
      PROVE  JobsOK'
  <2>1. status'[Tx] = status[Tx]
    BY <1>0, <1>8, StatusMoves DEF CallClose
  <2>2. Plain(Job("finalize", Closer, FALSE))
    BY DEF Job
  <2> QED
    BY <1>0, <1>3, <1>8, <2>1, <2>2, DbMoves
<1>9. ASSUME RunRead
      PROVE  JobsOK'
  <2>1. status'[Tx] = status[Tx]
    BY <1>0, <1>9, StatusMoves DEF RunRead
  <2> QED
    BY <1>0, <1>2, <1>9, <2>1, DbMoves
<1>10. ASSUME RunWrite
       PROVE  JobsOK'
  <2>1. status'[Tx] = status[Tx]
    BY <1>0, <1>10, StatusMoves
  <2> QED
    BY <1>0, <1>2, <1>10, <2>1, DbMoves
<1>11. ASSUME RefuseTx \/ EndTx
       PROVE  JobsOK'
  <2>1. 1 \in Index /\ queue[1].kind = "tx"
    BY <1>0, <1>11, Heads DEF RefuseTx, EndTx, InTx
  <2>2. \A i \in Index : i > 1 => queue[i].kind # "tx"
    BY <1>0, <2>1 DEF JobsOK, Index
  <2>3. Moved(queue, queue', 1, 0) /\ Len(queue) >= 1
    BY <1>0, <1>11, DbMoves DEF Index
  <2> QED
    BY <1>0, <2>2, <2>3, JobsMoved
<1>12. ASSUME RunClose
       PROVE  JobsOK'
  <2>1. status'[Tx] = status[Tx]
    BY <1>0, <1>12, StatusMoves
  <2> QED
    BY <1>0, <1>2, <1>12, <2>1, DbMoves
<1>13. ASSUME RunFinalize \/ RunCrsqlFinalize
       PROVE  JobsOK'
  <2>1. status'[Tx] = status[Tx]
    BY <1>13 DEF RunFinalize, RunCrsqlFinalize
  <2>2. \A k \in {"crsql_finalize", "close"} : Plain(Job(k, Closer, FALSE))
    BY DEF Job
  <2> QED
    BY <1>0, <1>4, <1>13, <2>1, <2>2, DbMoves
<1>14. ASSUME BeginTx \/ TxRunWrite
       PROVE  JobsOK'
  <2>1. queue' = queue /\ status'[Tx] = status[Tx]
    BY <1>14 DEF BeginTx, TxRunWrite, mutexes
  <2> QED
    BY <1>0, <1>1, <2>1, Motions DEF TypeInv
<1>15. ASSUME TxRunRead
       PROVE  JobsOK'
  <2>1. status'[Tx] = status[Tx]
    BY <1>0, <1>15, StatusMoves DEF TxRunRead
  <2> QED
    BY <1>0, <1>1, <1>15, <2>1, DbMoves
<1>16. ASSUME NEW w \in TxWrite, TxCallWrite(w)
       PROVE  JobsOK'
  <2>1. status'[Tx] = status[Tx]
    BY <1>16 DEF TxCallWrite
  <2> QED
    BY <1>0, <1>1, <1>16, <2>1, DbMoves
<1>17. ASSUME TxCallRead
       PROVE  JobsOK'
  <2>1. status'[Tx] = status[Tx]
    BY <1>17 DEF TxCallRead
  <2>2. queue' = queue => Moved(queue, queue', 0, 0)
    BY Motions DEF TypeInv, DbInv
  <2> QED
    BY <1>0, <1>1, <1>17, <2>1, <2>2, DbMoves, JobsAwaited
<1> QED
  BY <1>5, <1>6, <1>7, <1>8, <1>9, <1>10, <1>11, <1>12, <1>13, <1>14, <1>15, <1>16, <1>17
  DEF DbStep, DbCall, DbRun, DbTx

NoTx == \A i \in Index : queue[i].kind # "tx"

\* Which call holds the mutex after a step.
LEMMA HolderMoves ==
  ASSUME TypeInv, NEW d \in {0, 1}, NEW n \in {0, 1}, Moved(queue, queue', d, n),
         d = 1 => 1 \in Index /\ ~Holds("tx"),
         n = 1 => queue'[Len(queue) - d + 1].kind # "tx"
  PROVE  /\ Holds("tx") => Holds("tx")'
         /\ Holds("tx")' => Holds("tx") \/ ~NoTx
         /\ NoTx => NoTx'
         /\ d = 0 => (Holds("tx")' => Holds("tx"))
<1>0. Len(queue) \in Nat /\ Len(queue') = Len(queue) - d + n /\ queue' \in Seq(JobSet)
  BY Heads DEF Moved
<1>1. Holds("tx")' <=> Len(queue') >= 1 /\ queue'[1].kind = "tx"
  BY <1>0 DEF Holds
<1>2. Holds("tx") <=> Len(queue) >= 1 /\ queue[1].kind = "tx"
  BY <1>0 DEF Holds, TypeInv
<1>3. \A i \in 1 .. Len(queue') : \/ i \in 1 .. Len(queue) - d /\ i + d \in Index
                                  \/ n = 1 /\ i = Len(queue) - d + 1
  BY <1>0 DEF Index
<1>4. \A i \in 1 .. Len(queue') : queue'[i].kind = "tx" =>
        i \in 1 .. Len(queue) - d /\ i + d \in Index /\ queue[i + d].kind = "tx"
  BY <1>3 DEF Moved
<1>5. NoTx => NoTx'
  BY <1>4 DEF NoTx, Index
<1>6. Holds("tx")' => ~NoTx
  BY <1>0, <1>1, <1>4 DEF NoTx
<1>7. CASE d = 0
  <2>1. Holds("tx") => Holds("tx")'
    <3>1. ASSUME Holds("tx")
          PROVE  Holds("tx")'
      <4>1. 1 \in 1 .. Len(queue) - d /\ 1 + d = 1 /\ Len(queue') >= 1
        BY <1>0, <1>2, <1>7, <3>1
      <4>2. queue'[1].kind = queue[1].kind
        BY <4>1 DEF Moved
      <4> QED
        BY <1>1, <1>2, <3>1, <4>1, <4>2
    <3> QED
      BY <3>1
  <2>2. Holds("tx")' => Holds("tx")
    <3>1. ASSUME Holds("tx")'
          PROVE  Holds("tx")
      <4>1. 1 \in 1 .. Len(queue')
        BY <1>0, <1>1, <3>1
      <4>2. 1 \in 1 .. Len(queue) - d /\ queue[1 + d].kind = "tx" /\ 1 + d = 1
        BY <1>1, <1>4, <1>7, <3>1, <4>1
      <4> QED
        BY <1>0, <1>2, <1>7, <4>2
    <3> QED
      BY <3>1
  <2> QED
    BY <1>5, <2>1, <2>2
<1>8. CASE d = 1
  BY <1>5, <1>6, <1>8
<1> QED
  BY <1>7, <1>8

LEMMA HolderAwaited ==
  ASSUME TypeInv, NEW c, NEW i \in Index, Awaited(queue, queue', i, c)
  PROVE  (Holds("tx")' <=> Holds("tx")) /\ (NoTx => NoTx')
<1>0. Len(queue) \in Nat /\ Len(queue') = Len(queue) /\ queue' \in Seq(JobSet)
  BY Heads DEF Awaited
<1>1. Holds("tx")' <=> Len(queue') >= 1 /\ queue'[1].kind = "tx"
  BY <1>0 DEF Holds
<1>2. Holds("tx") <=> Len(queue) >= 1 /\ queue[1].kind = "tx"
  BY <1>0 DEF Holds, TypeInv
<1>3. \A j \in 1 .. Len(queue) : queue'[j].kind = queue[j].kind
  BY DEF Awaited
<1> QED
  BY <1>0, <1>1, <1>2, <1>3 DEF NoTx, Index

\* The mutex passes on as it should, and the savepoint is left alone.
Passes ==
  \/ \E d, n \in {0, 1} :
       /\ Moved(queue, queue', d, n)
       /\ d = 1 => 1 \in Index /\ ~Holds("tx")
       /\ n = 1 => queue'[Len(queue) - d + 1].kind # "tx"
  \/ \E c \in Caller : \E i \in Index : Awaited(queue, queue', i, c)

LEMMA Passing ==
  ASSUME DbInv, Passes, status'[Tx] = status[Tx], open' = open, excused \subseteq excused',
         dirty' = dirty \/ (open /\ ~Holds("tx")),
         content' \cap TxWrite = content \cap TxWrite,
         inner'.kind = inner.kind, inner'.cached => inner.cached,
         inner = NoJob => inner' = NoJob, inner.kind = "write" => inner'.for = inner.for
  PROVE  InnerOK' /\ SavepointOK'
<1>0. TypeInv /\ InnerOK /\ SavepointOK
  BY DEF DbInv
<1>1. /\ Holds("tx") => Holds("tx")'
      /\ Holds("tx")' => Holds("tx") \/ ~NoTx
      /\ NoTx => NoTx'
  BY <1>0, HolderMoves, HolderAwaited DEF Passes
<1>2. open /\ ~Holds("tx") => Excused({"release", "closing"}) /\ NoTx
  BY <1>0 DEF SavepointOK, NoTx
<1>3. InnerOK'
  BY <1>0, <1>1 DEF InnerOK
<1>4. SavepointOK'
  <2>1. ~open => dirty' = {}
    BY <1>0 DEF SavepointOK
  <2>2. Holds("tx")' => dirty' \subseteq TxWrite
    BY <1>0, <1>1, <1>2 DEF SavepointOK
  <2>3. open => Holds("tx")' \/ (Excused({"release", "closing"})' /\ NoTx')
    BY <1>1, <1>2 DEF Excused
  <2>4. open => status'[Tx] # "idle"
    BY <1>0 DEF SavepointOK
  <2>5. status'[Tx] # "done" => content' \cap TxWrite = {}
    BY <1>0 DEF SavepointOK
  <2> QED
    BY <2>1, <2>2, <2>3, <2>4, <2>5 DEF SavepointOK, NoTx
<1> QED
  BY <1>3, <1>4

\* The call the transaction makes, when a key leaves the cache or another awaits it.
LEMMA InnerUncached ==
  ASSUME TypeInv, inner' = [inner EXCEPT !.cached = FALSE]
  PROVE  /\ inner'.kind = inner.kind /\ inner'.for = inner.for /\ inner'.cached = FALSE
         /\ inner = NoJob => inner' = NoJob
<1>1. inner = [kind |-> inner.kind, for |-> inner.for, cached |-> inner.cached]
  BY DEF TypeInv
<1>2. inner' = [kind |-> inner.kind, for |-> inner.for, cached |-> FALSE]
  <2>1. PICK k, f, b : inner = [kind |-> k, for |-> f, cached |-> b]
    BY <1>1
  <2>2. inner' = [[kind |-> k, for |-> f, cached |-> b] EXCEPT !.cached = FALSE]
    BY <2>1
  <2> QED
    BY <2>1, <2>2
<1>3. inner'.kind = inner.kind /\ inner'.for = inner.for /\ inner'.cached = FALSE
  BY ONLY <1>2
<1>4. inner = NoJob => inner' = NoJob
  BY ONLY <1>2 DEF NoJob
<1> QED
  BY <1>3, <1>4

LEMMA InnerAwaited ==
  ASSUME TypeInv, NEW c, inner' = [inner EXCEPT !.for = inner.for \cup {c}]
  PROVE  /\ inner'.kind = inner.kind /\ inner'.for = inner.for \cup {c}
         /\ inner'.cached = inner.cached
<1>1. inner = [kind |-> inner.kind, for |-> inner.for, cached |-> inner.cached]
  BY DEF TypeInv
<1>2. inner' = [kind |-> inner.kind, for |-> inner.for \cup {c}, cached |-> inner.cached]
  BY <1>1
<1> QED
  BY <1>2

LEMMA SavepointStep ==
  ASSUME DbInv, DbStep
  PROVE  InnerOK' /\ SavepointOK'
<1> USE Callers
<1>0. TypeInv /\ JobsOK /\ InnerOK /\ SavepointOK /\ Len(queue) \in Nat
  BY Heads DEF DbInv
<1>a. \A k : Holds(k) /\ k # "tx" => ~Holds("tx") /\ inner.kind = "none" /\ inner = NoJob
  BY <1>0 DEF Holds, InnerOK
<1>b. \A kind, c, cached : Job(kind, c, cached).kind = kind
  BY DEF Job
<1>c. \A job : SettleRead(job) => status'[Tx] = status[Tx]
  BY <1>0, StatusMoves
<1>d. queue' = queue => Moved(queue, queue', 0, 0)
  BY <1>0, Motions DEF TypeInv
<1>e. Moved(queue, queue', 0, 0) => Passes
  BY DEF Passes
<1>f. Moved(queue, queue', 0, 1) /\ queue'[Len(queue) + 1].kind # "tx" => Passes
  <2>1. Len(queue) - 0 + 1 = Len(queue) + 1
    BY <1>0
  <2> QED
    BY <2>1 DEF Passes
<1>g. Moved(queue, queue', 1, 0) /\ 1 \in Index /\ ~Holds("tx") => Passes
  BY DEF Passes
<1>p. ASSUME RunFinalize \/ RunCrsqlFinalize, ~Holds("tx")
      PROVE  Passes
  <2>1. Moved(queue, queue', 1, 1) /\ 1 \in Index /\ queue'[Len(queue)].kind # "tx"
    <3>1. \A k \in {"crsql_finalize", "close"} : Job(k, Closer, FALSE).kind # "tx"
      BY DEF Job
    <3> QED
      BY <1>0, <1>p, <3>1, DbMoves
  <2>2. Len(queue) - 1 + 1 = Len(queue)
    BY <1>0
  <2> QED
    BY <1>p, <2>1, <2>2 DEF Passes
<1>1. ASSUME NEW l \in Listener, CallRead(l)
      PROVE  InnerOK' /\ SavepointOK'
  <2>1. /\ status'[Tx] = status[Tx] /\ open' = open /\ dirty' = dirty /\ content' = content
        /\ excused \subseteq excused'
    BY <1>0, <1>1, StatusMoves DEF CallRead, sqlite
  <2>2. Passes
    <3>1. (\E i \in Index : Awaited(queue, queue', i, l)) => Passes
      BY DEF Passes
    <3>2. Job("read", l, TRUE).kind # "tx"
      BY DEF Job
    <3> QED
      BY <1>0, <1>1, <1>d, <1>e, <1>f, <3>1, <3>2, CallReadMoves
  <2>3. CASE inner' = inner
    BY <1>0, <2>1, <2>2, <2>3, Passing
  <2>4. CASE inner.cached /\ inner' = [inner EXCEPT !.for = inner.for \cup {l}]
    <3>1. inner'.kind = inner.kind /\ inner'.cached = inner.cached
      BY <1>0, <2>4, InnerAwaited
    <3>2. inner # NoJob /\ inner.kind = "read"
      BY <1>0, <2>4 DEF NoJob, InnerOK
    <3> QED
      BY <1>0, <2>1, <2>2, <3>1, <3>2, Passing
  <2> QED
    BY <1>0, <1>1, <2>3, <2>4, CallReadMoves
<1>2. ASSUME NEW w \in Writer, CallWrite(w)
      PROVE  InnerOK' /\ SavepointOK'
  <2>1. /\ status'[Tx] = status[Tx] /\ open' = open /\ dirty' = dirty /\ content' = content
        /\ excused' = excused
    BY <1>0, <1>2, StatusMoves DEF CallWrite, sqlite
  <2>2. Passes
    <3>1. Moved(queue, queue', 0, 1) /\ queue'[Len(queue) + 1].kind # "tx"
      <4>1. Job("write", w, FALSE).kind = "write"
        BY <1>b
      <4> QED
        BY <1>0, <1>2, <4>1, DbMoves
    <3> QED
      BY <1>f, <3>1
  <2>3. /\ inner'.kind = inner.kind /\ inner'.for = inner.for /\ inner'.cached = FALSE
        /\ inner = NoJob => inner' = NoJob
    BY <1>0, <1>2, InnerUncached DEF CallWrite
  <2> QED
    BY <1>0, <2>1, <2>2, <2>3, Passing
<1>3. ASSUME CallTx
      PROVE  InnerOK' /\ SavepointOK'
  <2>1. status[Tx] = "idle" /\ status'[Tx] = "waiting"
    BY <1>0, <1>3, StatusMoves DEF CallTx
  <2>2. ~open /\ dirty = {} /\ inner.kind = "none"
    BY <1>0, <2>1 DEF SavepointOK, InnerOK
  <2>3. inner' = inner /\ open' = open /\ dirty' = dirty /\ content' = content
    BY <1>3 DEF CallTx, sqlite
  <2> QED
    BY <1>0, <2>1, <2>2, <2>3 DEF SavepointOK, InnerOK
<1>4. ASSUME CallClose
      PROVE  InnerOK' /\ SavepointOK'
  <2>1. /\ status'[Tx] = status[Tx] /\ open' = open /\ dirty' = dirty /\ content' = content
        /\ excused' = excused /\ inner' = inner
    BY <1>0, <1>4, StatusMoves DEF CallClose, sqlite
  <2>2. Passes
    <3>1. Moved(queue, queue', 0, 1) /\ queue'[Len(queue) + 1].kind # "tx"
      <4>1. Job("finalize", Closer, FALSE).kind = "finalize"
        BY <1>b
      <4> QED
        BY <1>0, <1>4, <4>1, DbMoves
    <3> QED
      BY <1>f, <3>1
  <2> QED
    BY <1>0, <2>1, <2>2, Passing
<1>5. ASSUME RunRead
      PROVE  InnerOK' /\ SavepointOK'
  <2>1. /\ status'[Tx] = status[Tx] /\ open' = open /\ dirty' = dirty /\ content' = content
        /\ excused' = excused /\ inner' = inner
    BY <1>5, <1>c DEF RunRead, sqlite
  <2>2. Passes
    BY <1>0, <1>5, <1>a, <1>g, DbMoves DEF RunRead
  <2> QED
    BY <1>0, <2>1, <2>2, Passing
<1>6. ASSUME RunWrite
      PROVE  InnerOK' /\ SavepointOK'
  <2>1. /\ status'[Tx] = status[Tx] /\ open' = open
        /\ excused' = excused /\ inner' = inner
    BY <1>0, <1>6, StatusMoves DEF RunWrite
  <2>2. ~Holds("tx")
    BY <1>6, <1>a DEF RunWrite
  <2>3. Passes
    BY <1>0, <1>6, <1>g, <2>2, DbMoves
  <2>4. content' \cap TxWrite = content \cap TxWrite /\ (dirty' = dirty \/ open)
    BY <1>0, <1>6, StatusMoves
  <2> QED
    BY <1>0, <2>1, <2>2, <2>3, <2>4, Passing
<1>7. ASSUME BeginTx
      PROVE  InnerOK' /\ SavepointOK'
  <2>1. /\ Holds("tx") /\ ~open /\ open' /\ queue' = queue /\ inner' = inner
        /\ dirty' = dirty /\ content' = content /\ status' = status
    BY <1>7 DEF BeginTx, mutexes
  <2>2. status[Tx] = "waiting"
    BY <1>0, <2>1, Heads DEF JobsOK
  <2>3. Holds("tx")'
    BY <2>1 DEF Holds
  <2> QED
    BY <1>0, <2>1, <2>2, <2>3 DEF SavepointOK, InnerOK
<1>8. ASSUME TxRunRead \/ TxRunWrite
      PROVE  InnerOK' /\ SavepointOK'
  <2>1. /\ open' = open /\ content' = content /\ excused' = excused /\ inner' = NoJob
        /\ status'[Tx] = status[Tx]
    BY <1>8, <1>c DEF TxRunRead, TxRunWrite, sqlite
  <2>2. Holds("tx") /\ open
    BY <1>0, <1>8 DEF TxRunRead, TxRunWrite, InnerOK
  <2>3. Moved(queue, queue', 0, 0)
    BY <1>0, <1>8, <1>d, DbMoves DEF TxRunWrite
  <2>4. Holds("tx")'
    BY <1>0, <2>2, <2>3, HolderMoves
  <2>5. dirty' \subseteq TxWrite
    BY <1>0, <1>8, <2>2 DEF TxRunRead, TxRunWrite, InnerOK, SavepointOK, sqlite
  <2>6. NoJob.kind = "none" /\ ~NoJob.cached
    BY DEF NoJob
  <2> QED
    BY <1>0, <2>1, <2>2, <2>4, <2>5, <2>6 DEF InnerOK, SavepointOK
<1>9. ASSUME NEW w \in TxWrite, TxCallWrite(w)
      PROVE  InnerOK' /\ SavepointOK'
  <2>1. /\ inner' = Inner("write", w) /\ Holds("tx") /\ open /\ open' = open
        /\ dirty' = dirty /\ content' = content /\ excused' = excused /\ status' = status
    BY <1>9 DEF TxCallWrite, InTx, sqlite
  <2>2. Holds("tx")'
    BY <1>0, <1>9, <2>1, DbMoves, HolderMoves
  <2>3. inner'.kind = "write" /\ inner'.for = {w} /\ ~inner'.cached
    BY <2>1 DEF Inner
  <2> QED
    BY <1>0, <2>1, <2>2, <2>3 DEF InnerOK, SavepointOK
<1>10. ASSUME TxCallRead
       PROVE  InnerOK' /\ SavepointOK'
  <2>1. /\ Holds("tx") /\ open /\ open' = open /\ dirty' = dirty /\ content' = content
        /\ excused \subseteq excused' /\ status' = status
    BY <1>10 DEF TxCallRead, InTx, sqlite
  <2>2. Holds("tx")'
    <3>1. (\E i \in Index : Awaited(queue, queue', i, Tx)) => Holds("tx")'
      BY <1>0, <2>1, HolderAwaited
    <3>2. queue' = queue => Holds("tx")'
      BY <2>1 DEF Holds
    <3> QED
      BY <1>0, <1>10, <3>1, <3>2, DbMoves
  <2>3. inner' = inner \/ (inner'.kind = "read" /\ inner'.cached)
    BY <1>0, <1>10, DbMoves DEF Job
  <2> QED
    BY <1>0, <2>1, <2>2, <2>3 DEF InnerOK, SavepointOK
<1>11. ASSUME EndTx
       PROVE  InnerOK' /\ SavepointOK'
  <2>1. inner' = inner /\ inner = NoJob /\ Holds("tx") /\ open
    BY <1>11 DEF EndTx, InTx
  <2>2. status[Tx] = "waiting" /\ status'[Tx] \in {"done", "failed"}
    BY <1>0, <1>11, <2>1, Heads, StatusMoves DEF JobsOK
  <2>3. NoTx'
    <3>1. Moved(queue, queue', 1, 0)
      BY <1>0, <1>11, DbMoves
    <3>2. \A i \in Index : i > 1 => queue[i].kind # "tx"
      BY <1>0, <2>1, Heads DEF JobsOK, Index
    <3>3. \A i \in 1 .. Len(queue') : i + 1 \in Index /\ i + 1 > 1 /\ i \in 1 .. Len(queue) - 1
      BY <1>0, <3>1 DEF Index, Moved
    <3>4. \A i \in 1 .. Len(queue') : queue'[i].kind # "tx"
      BY <3>1, <3>2, <3>3 DEF Moved
    <3> QED
      BY <3>4 DEF NoTx, Index
  <2>4. Holds("tx")' => ~NoTx'
    <3>1. queue' \in Seq(JobSet)
      BY <1>0, <1>11, DbMoves DEF Moved
    <3>2. Holds("tx")' => 1 \in 1 .. Len(queue') /\ queue'[1].kind = "tx"
      BY <3>1 DEF Holds
    <3> QED
      BY <3>2 DEF NoTx, Index
  <2>5. content \cap TxWrite = {}
    BY <1>0, <2>2 DEF SavepointOK
  <2>6. \/ status'[Tx] = "done" /\ dirty' = {} /\ open' = FALSE
        \/ content' = content /\ dirty' = {} /\ open' = FALSE
        \/ content' = content /\ Excused({"release", "closing"})' /\ status'[Tx] # "idle"
           /\ open' = open
    <3>1. "done" # "idle" /\ "failed" # "idle"
      OBVIOUS
    <3> QED
      BY <1>0, <1>11, <2>2, <3>1 DEF EndTx, sqlite, TypeInv, Excused
  <2>7. SavepointOK'
    BY <2>1, <2>2, <2>3, <2>4, <2>5, <2>6 DEF SavepointOK, NoTx
  <2> QED
    BY <1>0, <2>1, <2>7 DEF InnerOK, NoJob
<1>12. ASSUME RunFinalize
       PROVE  InnerOK' /\ SavepointOK'
  <2>1. /\ status' = status /\ open' = open /\ dirty' = dirty /\ content' = content
        /\ excused' = excused /\ inner' = inner
    BY <1>12 DEF RunFinalize, sqlite
  <2>2. ~Holds("tx")
    BY <1>12, <1>a DEF RunFinalize
  <2>3. Passes
    BY <1>12, <1>p, <2>2
  <2> QED
    BY <1>0, <2>1, <2>3, Passing
<1>13. ASSUME RunCrsqlFinalize
       PROVE  InnerOK' /\ SavepointOK'
  <2>1. /\ status' = status /\ dirty' = dirty /\ content' = content
        /\ excused' = excused /\ inner' = inner
        /\ open' = (open \/ (Len(queue) > 1 /\ queue[2].kind = "tx"))
    BY <1>13 DEF RunCrsqlFinalize
  <2>2. ~Holds("tx") /\ inner.kind = "none"
    BY <1>13, <1>a DEF RunCrsqlFinalize
  <2>3. CASE open' = open
    <3>1. Passes
      BY <1>13, <1>p, <2>2
    <3> QED
      BY <1>0, <2>1, <2>3, <3>1, Passing
\* The transaction that is next has begun: its savepoint is empty.
  <2>4. CASE open' # open
    <3>1. ~open /\ open' /\ Len(queue) > 1 /\ queue[2].kind = "tx"
      BY <1>0, <2>1, <2>4 DEF TypeInv
    <3>2. dirty = {} /\ 2 \in Index
      BY <1>0, <3>1 DEF SavepointOK, Index
    <3>3. status[Tx] = "waiting"
      BY <1>0, <3>1, <3>2 DEF JobsOK
    <3>4. Holds("tx")'
      <4>1. Moved(queue, queue', 1, 1)
        BY <1>0, <1>13, DbMoves
      <4>2. 1 \in 1 .. Len(queue) - 1 /\ 1 + 1 = 2 /\ Len(queue) - 1 + 1 >= 1
        BY <1>0, <3>1
      <4>3. queue'[1].kind = "tx" /\ Len(queue') >= 1 /\ queue' \in Seq(JobSet)
        BY <3>1, <4>1, <4>2 DEF Moved
      <4> QED
        BY <4>3 DEF Holds
    <3>5. InnerOK'
      BY <1>0, <2>1, <2>2 DEF InnerOK
    <3>6. SavepointOK'
      BY <1>0, <2>1, <3>1, <3>2, <3>3, <3>4 DEF SavepointOK
    <3> QED
      BY <3>5, <3>6
  <2> QED
    BY <2>3, <2>4
<1>14. ASSUME RunClose
       PROVE  InnerOK' /\ SavepointOK'
  <2>1. /\ status'[Tx] = status[Tx] /\ open' = FALSE /\ dirty' = {} /\ content' = content
        /\ inner' = inner
    BY <1>0, <1>14, StatusMoves DEF RunClose
  <2>2. inner.kind = "none"
    BY <1>14, <1>a DEF RunClose
  <2> QED
    BY <1>0, <2>1, <2>2 DEF SavepointOK, InnerOK
<1>15. ASSUME RefuseTx
       PROVE  InnerOK' /\ SavepointOK'
  <2>1. /\ ~open /\ open' = open /\ dirty' = dirty /\ content' = content /\ inner' = inner
        /\ status'[Tx] = "failed" /\ Holds("tx")
    BY <1>0, <1>15, StatusMoves DEF RefuseTx, sqlite
  <2>2. status[Tx] = "waiting" /\ inner.kind = "none" /\ dirty = {}
    BY <1>0, <2>1, Heads DEF JobsOK, InnerOK, SavepointOK
  <2> QED
    BY <1>0, <2>1, <2>2 DEF SavepointOK, InnerOK
<1> QED
  BY <1>1, <1>2, <1>3, <1>4, <1>5, <1>6, <1>7, <1>8, <1>9, <1>10, <1>11, <1>12, <1>13,
     <1>14, <1>15
  DEF DbStep, DbCall, DbRun, DbTx

LEMMA DbInvStep ==
  ASSUME DbInv, [Next]_vars
  PROVE  DbInv'
<1>1. TypeInv'
  BY TypeStep DEF DbInv
<1>2. CASE DbStep
  BY <1>1, <1>2, JobsStep, SavepointStep DEF DbInv
<1>3. CASE Quiet
  <2>1. Index' = Index /\ (Holds("tx")' <=> Holds("tx"))
    BY <1>3 DEF Quiet, Index, Holds
  <2>2. JobsOK'
    BY <1>3, <2>1 DEF Quiet, DbInv, JobsOK
  <2>3. InnerOK'
    BY <1>3, <2>1 DEF Quiet, DbInv, InnerOK
  <2>4. SavepointOK'
    BY <1>3, <2>1 DEF Quiet, DbInv, SavepointOK, Excused
  <2> QED
    BY <1>1, <2>2, <2>3, <2>4 DEF DbInv
<1> QED
  BY <1>2, <1>3, StepKinds

LEMMA InitInv == Init => IInv
<1> SUFFICES ASSUME Init
             PROVE  IInv
  OBVIOUS
<1> USE Callers
<1>1. /\ queue = <<>> /\ inner = NoJob
      /\ status = [c \in Caller |-> "idle"]
      /\ content = {} /\ dirty = {} /\ open = FALSE
      /\ must = [l \in Listener |-> {}] /\ got = [l \in Listener |-> {}]
      /\ pending = {} /\ subscribed = Listener /\ due = {}
      /\ channel = 0 /\ there = [got |-> {}, due |-> FALSE]
  BY DEF Init, DbInit
<1>2. Len(queue) = 0 /\ queue \in Seq(JobSet) /\ Index = {}
  BY <1>1 DEF Index
<1>3. \A k : ~Holds(k)
  BY <1>1 DEF Holds
<1>4. TypeInv
  BY <1>1, <1>2 DEF TypeInv, NoJob, Status
<1>5. JobsOK /\ InnerOK /\ SavepointOK /\ CacheOK
  BY <1>1, <1>2, <1>3 DEF JobsOK, InnerOK, SavepointOK, CacheOK, NoJob
<1>6. CallsOK
  BY <1>1 DEF CallsOK
<1>7. ReadsOK /\ BehindOK
  BY <1>1, <1>2 DEF ReadsOK, BehindOK, NoJob
<1>8. FreshOK /\ TabOK
  BY <1>1 DEF FreshOK, TabOK, Visible
<1>10. ClosedOK
  BY DEF Init, DbInit, ClosedOK, IsOpen
<1>9. SeesEarlierWrites /\ NoDirtyReads /\ ResolvedWritesLast /\ OtherTabIsFresh
  BY <1>1 DEF SeesEarlierWrites, NoDirtyReads, ResolvedWritesLast, OtherTabIsFresh
<1> QED
  BY <1>4, <1>5, <1>6, <1>7, <1>8, <1>9, <1>10 DEF IInv, DbInv

-----------------------------------------------------------------------------
(* What a step does to the data and to a listener.                         *)

\* Nothing that is committed, failed or settled is taken back.
LEMMA DataGrows ==
  ASSUME DbInv, DbStep
  PROVE  /\ content \subseteq content' /\ failed \subseteq failed' /\ excused \subseteq excused'
         /\ Settled \subseteq Settled'
         /\ content' \subseteq Visible \cup Writer
<1> USE Callers
<1>0. TypeInv /\ JobsOK /\ InnerOK /\ SavepointOK
  BY DEF DbInv
<1> DEFINE Grow == /\ content \subseteq content' /\ failed \subseteq failed'
                   /\ excused \subseteq excused' /\ Settled \subseteq Settled'
                   /\ content' \subseteq Visible \cup Writer
<1>1. ASSUME UNCHANGED <<content, dirty, failed>>, excused \subseteq excused'
      PROVE  Grow
  BY <1>1 DEF Settled, Visible
<1>2. ASSUME NEW l \in Listener, CallRead(l)
      PROVE  Grow
  BY <1>1, <1>2 DEF CallRead, sqlite
<1>3. DbCall => Grow
  BY <1>1 DEF DbCall, CallTx, CallClose, CallWrite, sqlite
<1>4. DbTx => Grow
  BY <1>1 DEF DbTx, TxCallRead, TxCallWrite, sqlite
<1>5. RunRead \/ TxRunRead \/ RunFinalize \/ RunCrsqlFinalize => Grow
  BY <1>1 DEF RunRead, TxRunRead, RunFinalize, RunCrsqlFinalize, sqlite
<1>10. RunClose => Grow
  BY DEF RunClose, Settled, Visible
<1>11. RefuseTx => Grow
  BY DEF RefuseTx, sqlite, Settled, Visible
<1>6. BeginTx => Grow
  BY <1>1 DEF BeginTx
<1>7. ASSUME RunWrite
      PROVE  Grow
  <2>1. PICK w \in Writer :
          \/ /\ failed' = failed
             /\ content' = IF open THEN content ELSE content \cup {w}
             /\ dirty' = IF open THEN dirty \cup {w} ELSE dirty
          \/ failed' = failed \cup {w} /\ content' = content /\ dirty' = dirty
    BY <1>0, <1>7, StatusMoves
  <2>2. excused' = excused
    BY <1>7 DEF RunWrite
  <2> QED
    BY <2>1, <2>2 DEF Settled, Visible
<1>8. ASSUME TxRunWrite
      PROVE  Grow
  BY <1>8 DEF TxRunWrite, Settled, Visible
<1>9. ASSUME EndTx
      PROVE  Grow
  <2>1. failed' = failed \cup (TxWrite \ content') /\ dirty \subseteq TxWrite
    BY <1>0, <1>9 DEF EndTx, InTx, SavepointOK
  <2>2. /\ content' \in {content, Visible} /\ excused \subseteq excused'
    BY <1>9 DEF EndTx, sqlite
  <2> QED
    BY <2>1, <2>2 DEF Settled, Visible
<1> QED
  BY <1>2, <1>3, <1>4, <1>5, <1>6, <1>7, <1>8, <1>9, <1>10, <1>11 DEF DbStep, DbRun

\* A listener calls, is answered with what is visible, or is left alone.
LEMMA ListenerMoves ==
  ASSUME DbInv, DbStep, NEW l \in Listener
  PROVE  \/ got'[l] = got[l] /\ status'[l] = status[l] /\ must'[l] = must[l]
         \/ /\ CallRead(l) /\ got'[l] = got[l] /\ status'[l] = "waiting"
         \/ /\ RunRead \/ TxRunRead
            /\ RunRead => Holds("read") /\ l \in queue[1].for
            /\ TxRunRead => inner.kind = "read" /\ l \in inner.for
            /\ got'[l] = Visible /\ status'[l] = "done" /\ must'[l] = must[l]
            /\ content' = content /\ dirty' = dirty /\ failed' = failed
<1> USE Callers
<1>0. TypeInv /\ JobsOK /\ InnerOK
  BY DEF DbInv
<1> DEFINE Same == got'[l] = got[l] /\ status'[l] = status[l] /\ must'[l] = must[l]
           Called == /\ CallRead(l) /\ got'[l] = got[l] /\ status'[l] = "waiting"
           Answered == /\ RunRead \/ TxRunRead
                       /\ RunRead => Holds("read") /\ l \in queue[1].for
                       /\ TxRunRead => inner.kind = "read" /\ l \in inner.for
                       /\ got'[l] = Visible /\ status'[l] = "done" /\ must'[l] = must[l]
                       /\ content' = content /\ dirty' = dirty /\ failed' = failed
<1>1. ASSUME NEW k \in Listener, CallRead(k)
      PROVE  Same \/ Called
  <2>1. got' = got /\ \A o \in Listener : o # k => must'[o] = must[o]
    BY <1>0, <1>1 DEF CallRead, TypeInv
  <2> QED
    BY <1>0, <1>1, <2>1, StatusMoves DEF CallRead
<1>2. ASSUME NEW w \in Writer, CallWrite(w)
      PROVE  Same
  BY <1>0, <1>2, StatusMoves DEF CallWrite
<1>3. CallTx \/ CallClose => Same
  BY <1>0, StatusMoves DEF CallTx, CallClose
<1>4. ASSUME NEW job, SettleRead(job)
      PROVE  /\ l \in job.for => got'[l] = Visible /\ status'[l] = "done"
             /\ l \notin job.for => got'[l] = got[l] /\ status'[l] = status[l]
  BY <1>0, <1>4, StatusMoves DEF SettleRead
<1>5. ASSUME RunRead
      PROVE  Same \/ Answered
  <2>1. Holds("read") /\ SettleRead(queue[1]) /\ inner.kind # "read"
    BY <1>0, <1>5, Heads DEF RunRead, InnerOK
  <2>2. ~TxRunRead
    BY <2>1 DEF TxRunRead
  <2> QED
    BY <1>4, <1>5, <2>1, <2>2 DEF RunRead, sqlite
<1>6. ASSUME TxRunRead
      PROVE  Same \/ Answered
  <2>1. inner.kind = "read" /\ SettleRead(inner) /\ Holds("tx")
    BY <1>0, <1>6 DEF TxRunRead, InnerOK
  <2>2. ~RunRead
    BY <2>1 DEF RunRead, Holds
  <2> QED
    BY <1>4, <1>6, <2>1, <2>2 DEF TxRunRead, sqlite
<1>7. RunWrite => Same
  <2>1. RunWrite => status'[l] = status[l]
    BY <1>0, StatusMoves
  <2> QED
    BY <2>1 DEF RunWrite
<1>8. BeginTx \/ TxRunWrite \/ RunFinalize \/ RunCrsqlFinalize => Same
  BY DEF BeginTx, TxRunWrite, RunFinalize, RunCrsqlFinalize
<1>9. RefuseTx \/ EndTx \/ RunClose => Same
  <2>1. RefuseTx \/ EndTx \/ RunClose => status'[l] = status[l]
    BY <1>0, StatusMoves
  <2> QED
    BY <2>1 DEF RefuseTx, EndTx, RunClose
<1>10. DbTx => Same
  BY DEF DbTx, TxCallRead, TxCallWrite
<1> QED
  BY <1>1, <1>2, <1>3, <1>5, <1>6, <1>7, <1>8, <1>9, <1>10 DEF DbStep, DbCall, DbRun

-----------------------------------------------------------------------------
(* What was called, and what the cache may share.                          *)

\* The calls that leave have settled what they were to write.
Leaves(d) ==
  d = 1 => /\ queue[1].kind = "write" => queue[1].for \subseteq Settled'
           /\ queue[1].kind = "tx" => TxWrite \subseteq Settled'

LEMMA CallsMoved ==
  ASSUME TypeInv, CallsOK, Settled \subseteq Settled', NEW d \in {0, 1}, NEW n \in {0, 1},
         Moved(queue, queue', d, n), Leaves(d), Len(queue) >= d,
         NEW job, n = 1 => queue'[Len(queue) - d + 1] = job,
         \A w \in Writer : status'[w] # "idle" =>
           status[w] # "idle" \/ w \in Settled' \/ (n = 1 /\ job.kind = "write" /\ w \in job.for),
         status'[Tx] # "idle" => status[Tx] # "idle" \/ (n = 1 /\ job.kind = "tx")
  PROVE  CallsOK'
<1>0. Len(queue) \in Nat /\ Len(queue') = Len(queue) - d + n
  BY Heads DEF Moved
<1>1. n = 1 => Len(queue) - d + 1 \in Index'
  BY <1>0 DEF Index
<1>2. ASSUME NEW j \in Index, j > d
      PROVE  \E k \in Index' : queue'[k].kind = queue[j].kind /\ queue'[k].for = queue[j].for
  <2>1. PICK k : k = j - d
    OBVIOUS
  <2>2. k \in 1 .. Len(queue) - d /\ k + d = j /\ k \in Index'
    BY <1>0, <1>2, <2>1 DEF Index
  <2>3. queue'[k].kind = queue[j].kind /\ queue'[k].for = queue[j].for
    BY <2>2 DEF Moved
  <2> QED
    BY <2>2, <2>3
<1>3. \A j \in Index : j > d \/ (d = 1 /\ j = 1)
  BY <1>0 DEF Index
<1>4. ASSUME NEW w \in Writer, status'[w] # "idle"
      PROVE  w \in Settled' \/ \E j \in Index' : queue'[j].kind = "write" /\ w \in queue'[j].for
  <2>0. CASE w \in Settled'
    BY <2>0
  <2>1. CASE n = 1 /\ job.kind = "write" /\ w \in job.for
    BY <1>1, <2>1
  <2>2. CASE status[w] # "idle"
    <3>1. CASE w \in Settled
      BY <3>1
    <3>2. CASE \E j \in Index : queue[j].kind = "write" /\ w \in queue[j].for
      <4>1. PICK j \in Index : queue[j].kind = "write" /\ w \in queue[j].for
        BY <3>2
      <4> QED
        BY <1>2, <1>3, <4>1 DEF Leaves
    <3> QED
      BY <2>2, <3>1, <3>2 DEF CallsOK
  <2> QED
    BY <1>4, <2>0, <2>1, <2>2
<1>5. ASSUME status'[Tx] # "idle"
      PROVE  TxWrite \subseteq Settled' \/ \E j \in Index' : queue'[j].kind = "tx"
  <2>1. CASE n = 1 /\ job.kind = "tx"
    BY <1>1, <2>1
  <2>2. CASE status[Tx] # "idle"
    <3>1. CASE TxWrite \subseteq Settled
      BY <3>1
    <3>2. CASE \E j \in Index : queue[j].kind = "tx"
      <4>1. PICK j \in Index : queue[j].kind = "tx"
        BY <3>2
      <4> QED
        BY <1>2, <1>3, <4>1 DEF Leaves
    <3> QED
      BY <2>2, <3>1, <3>2 DEF CallsOK
  <2> QED
    BY <1>5, <2>1, <2>2
<1> QED
  BY <1>4, <1>5 DEF CallsOK

LEMMA CallsAwaited ==
  ASSUME TypeInv, CallsOK, Settled \subseteq Settled', NEW c, NEW i \in Index,
         Awaited(queue, queue', i, c),
         \A w \in Writer : status'[w] = status[w], status'[Tx] = status[Tx]
  PROVE  CallsOK'
<1>1. Index' = Index
  BY DEF Index, Awaited
<1>2. \A j \in Index : queue'[j].kind = queue[j].kind /\ queue[j].for \subseteq queue'[j].for
  BY DEF Awaited, Index
<1>3. ASSUME NEW w \in Writer, status[w] # "idle"
      PROVE  w \in Settled' \/ \E j \in Index : queue'[j].kind = "write" /\ w \in queue'[j].for
  BY <1>2, <1>3 DEF CallsOK
<1>4. status[Tx] # "idle" =>
        TxWrite \subseteq Settled' \/ \E j \in Index : queue'[j].kind = "tx"
  BY <1>2 DEF CallsOK
<1> QED
  BY <1>1, <1>3, <1>4 DEF CallsOK

LEMMA CacheMoved ==
  ASSUME TypeInv, CacheOK, NEW d \in {0, 1}, NEW n \in {0, 1},
         Moved(queue, queue', d, n), Len(queue) >= d,
         n = 1 => \/ queue'[Len(queue) - d + 1].kind # "write"
                  \/ \A i \in 1 .. Len(queue) - d : ~queue'[i].cached
  PROVE  CacheOK'
<1>0. Len(queue) \in Nat /\ Len(queue') = Len(queue) - d + n
  BY Heads DEF Moved
<1>1. ASSUME NEW i \in 1 .. Len(queue'), NEW j \in 1 .. Len(queue'), queue'[i].cached, i < j
      PROVE  queue'[j].kind # "write"
  <2>1. i \in 1 .. Len(queue) - d
    BY <1>0, <1>1
  <2>2. CASE j \in 1 .. Len(queue) - d
    <3>1. i + d \in Index /\ j + d \in Index /\ i + d < j + d
      BY <1>0, <1>1, <2>1, <2>2 DEF Index
    <3>2. queue[i + d].cached /\ queue'[j].kind = queue[j + d].kind
      BY <1>1, <2>1, <2>2 DEF Moved
    <3> QED
      BY <3>1, <3>2 DEF CacheOK
  <2>3. CASE n = 1 /\ j = Len(queue) - d + 1
    BY <1>1, <2>1, <2>3
  <2> QED
    BY <1>0, <2>2, <2>3
<1> QED
  BY <1>1 DEF CacheOK, Index

LEMMA CacheAwaited ==
  ASSUME TypeInv, CacheOK, NEW c, NEW i \in Index, Awaited(queue, queue', i, c)
  PROVE  CacheOK'
<1>1. Index' = Index
  BY DEF Index, Awaited
<1>2. \A j \in Index : queue'[j].kind = queue[j].kind /\ queue'[j].cached = queue[j].cached
  BY DEF Awaited, Index
<1> QED
  BY <1>1, <1>2 DEF CacheOK

LEMMA ReadsMoved ==
  ASSUME TypeInv, ReadsOK, "crossed" \notin excused, NEW d \in {0, 1}, NEW n \in {0, 1},
         Moved(queue, queue', d, n), Len(queue) >= d,
         inner'.kind = "read" => inner'.for \cap Listener = {},
         \A l \in Listener : \A i \in Index :
           i > d /\ l \in queue[i].for => status'[l] = "waiting",
         n = 1 => \A l \in Listener : l \in queue'[Len(queue) - d + 1].for =>
                    status'[l] = "waiting" /\ \A i \in Index : l \notin queue[i].for
  PROVE  ReadsOK'
<1>0. Len(queue) \in Nat /\ Len(queue') = Len(queue) - d + n
  BY Heads DEF Moved
<1>1. \A i \in 1 .. Len(queue') : i \in 1 .. Len(queue) - d \/ (n = 1 /\ i = Len(queue) - d + 1)
  BY <1>0
<1>2. \A i \in 1 .. Len(queue) - d :
        i + d \in Index /\ i + d > d /\ queue'[i].for = queue[i + d].for
  BY <1>0 DEF Moved, Index
<1>3. ASSUME NEW l \in Listener, NEW i \in 1 .. Len(queue'), l \in queue'[i].for
      PROVE  status'[l] = "waiting"
  BY <1>1, <1>2, <1>3
<1>4. ASSUME NEW l \in Listener, NEW i \in 1 .. Len(queue'), l \in queue'[i].for,
             NEW j \in 1 .. Len(queue'), l \in queue'[j].for
      PROVE  j = i
  <2>1. CASE i \in 1 .. Len(queue) - d /\ j \in 1 .. Len(queue) - d
    <3>1. /\ i + d \in Index /\ l \in queue[i + d].for
          /\ j + d \in Index /\ l \in queue[j + d].for
      BY <1>2, <1>4, <2>1
    <3>2. \A a, b \in Index : l \in queue[a].for /\ l \in queue[b].for => a = b
      BY DEF ReadsOK
    <3>3. i + d = j + d
      BY <3>1, <3>2
    <3> QED
      BY <1>0, <2>1, <3>3
  <2>2. CASE n = 1 /\ (i = Len(queue) - d + 1 \/ j = Len(queue) - d + 1)
    BY <1>1, <1>2, <1>4, <2>2
  <2> QED
    BY <1>1, <2>1, <2>2
<1> QED
  BY <1>3, <1>4 DEF ReadsOK, Index

LEMMA ReadsAwaited ==
  ASSUME TypeInv, ReadsOK, "crossed" \notin excused, NEW c \in Listener, NEW i \in Index,
         Awaited(queue, queue', i, c),
         inner'.kind = "read" => inner'.for \cap Listener = {},
         status'[c] = "waiting", \A j \in Index : c \notin queue[j].for,
         \A l \in Listener : l # c => status'[l] = status[l]
  PROVE  ReadsOK'
<1>1. Index' = Index
  BY DEF Index, Awaited
<1>2. \A j \in Index : queue'[j].for = IF j = i THEN queue[j].for \cup {c} ELSE queue[j].for
  BY DEF Awaited, Index
<1>3. ASSUME NEW l \in Listener, NEW j \in Index, l \in queue'[j].for
      PROVE  status'[l] = "waiting" /\ \A k \in Index : l \in queue'[k].for => k = j
  <2>1. CASE l = c
    BY <1>2, <1>3, <2>1
  <2>2. CASE l # c
    <3>1. \A k \in Index : l \in queue'[k].for <=> l \in queue[k].for
      BY <1>2, <2>2
    <3>2. l \in queue[j].for
      BY <1>3, <3>1
    <3>3. status[l] = "waiting" /\ \A k \in Index : l \in queue[k].for => k = j
      BY <3>2 DEF ReadsOK
    <3> QED
      BY <2>2, <3>1, <3>3
  <2> QED
    BY <2>1, <2>2
<1> QED
  BY <1>1, <1>3 DEF ReadsOK

\* A listener goes on waiting for its call, unless that call is answered.
LEMMA WaitingStays ==
  ASSUME DbInv, ReadsOK, "crossed" \notin excused, DbStep,
         NEW l \in Listener, NEW i \in Index, l \in queue[i].for, i = 1 => ~RunRead
  PROVE  status'[l] = "waiting" /\ must'[l] = must[l]
<1>1. status[l] = "waiting" /\ \A j \in Index : l \in queue[j].for => j = i
  BY DEF ReadsOK
<1>2. ~CallRead(l)
  BY <1>1 DEF CallRead
<1>3. ~(TxRunRead /\ inner.kind = "read" /\ l \in inner.for)
  BY DEF ReadsOK
<1>4. ~(RunRead /\ l \in queue[1].for)
  <2>1. RunRead => 1 \in Index
    BY DbMoves DEF DbInv
  <2> QED
    BY <1>1, <2>1
<1> QED
  BY <1>1, <1>2, <1>3, <1>4, ListenerMoves

LEMMA BehindMoved ==
  ASSUME TypeInv, BehindOK, Settled \subseteq Settled', excused \subseteq excused',
         NEW d \in {0, 1}, NEW n \in {0, 1},
         Moved(queue, queue', d, n), Len(queue) >= d, Leaves(d),
         d = 1 => queue[1].kind \in {"write", "tx"} \/ \A w : ~Makes(queue[1], w),
         \A l \in Listener : \A i \in Index :
           i > d /\ l \in queue[i].for => must'[l] = must[l],
         n = 1 => \A l \in Listener : l \in queue'[Len(queue) - d + 1].for =>
                    \A w \in must'[l] :
                      w \in Settled' \/ \E j \in Index : j > d /\ Makes(queue[j], w)
  PROVE  BehindOK'
<1>0. Len(queue) \in Nat /\ Len(queue') = Len(queue) - d + n
  BY Heads DEF Moved
<1>1. SUFFICES ASSUME ~Excused({"crossed", "shared"})',
                      NEW l \in Listener, NEW i \in Index', l \in queue'[i].for,
                      NEW w \in must'[l], w \notin Settled'
               PROVE  \E j \in Index' : j < i /\ Makes(queue'[j], w)
  BY DEF BehindOK
<1>2. ~Excused({"crossed", "shared"})
  BY <1>1 DEF Excused
<1>3. ASSUME NEW j \in Index, Makes(queue[j], w)
      PROVE  /\ j > d /\ j - d \in Index' /\ j - d \in 1 .. Len(queue) - d
             /\ Makes(queue'[j - d], w)
  <2>1. j > d
    BY <1>0, <1>1, <1>3 DEF Leaves, Makes, Index
  <2>2. PICK k : k = j - d
    OBVIOUS
  <2>3. k \in 1 .. Len(queue) - d /\ k + d = j /\ k \in Index'
    BY <1>0, <2>1, <2>2 DEF Index
  <2>4. queue'[k].kind = queue[j].kind /\ queue'[k].for = queue[j].for
    BY <2>3 DEF Moved
  <2> QED
    BY <1>3, <2>1, <2>2, <2>3, <2>4 DEF Makes
<1>4. CASE i \in 1 .. Len(queue) - d
  <2>1. PICK h : h = i + d
    OBVIOUS
  <2>2. h \in Index /\ h > d /\ queue'[i].for = queue[h].for
    BY <1>0, <1>4, <2>1 DEF Moved, Index
  <2>3. must'[l] = must[l]
    BY <1>1, <2>2
  <2>4. PICK j \in Index : j < h /\ Makes(queue[j], w)
    BY <1>1, <1>2, <2>2, <2>3 DEF BehindOK
  <2>5. j - d < i
    BY <1>0, <2>1, <2>4 DEF Index
  <2> QED
    BY <1>3, <2>4, <2>5
<1>5. CASE n = 1 /\ i = Len(queue) - d + 1
  <2>1. PICK j \in Index : j > d /\ Makes(queue[j], w)
    BY <1>1, <1>5
  <2>2. j - d < i
    BY <1>0, <1>5, <2>1 DEF Index
  <2> QED
    BY <1>3, <2>1, <2>2
<1>6. i \in 1 .. Len(queue) - d \/ (n = 1 /\ i = Len(queue) - d + 1)
  <2>1. i \in 1 .. Len(queue')
    BY DEF Index
  <2> QED
    BY <1>0, <2>1
<1> QED
  BY <1>4, <1>5, <1>6

LEMMA BehindAwaited ==
  ASSUME TypeInv, BehindOK, Settled' = Settled, excused \subseteq excused',
         NEW c \in Listener, NEW i \in Index, Awaited(queue, queue', i, c),
         \A l \in Listener : l # c => must'[l] = must[l],
         \A j \in Index : c \notin queue[j].for,
         Excused({"crossed", "shared"})' \/ \A w \in must'[c] :
           w \in Settled \/ \E j \in Index : j < i /\ Makes(queue[j], w)
  PROVE  BehindOK'
<1>1. Index' = Index
  BY DEF Index, Awaited
<1>2. \A j \in Index : queue'[j].for = IF j = i THEN queue[j].for \cup {c} ELSE queue[j].for
  BY DEF Awaited, Index
<1>3. SUFFICES ASSUME ~Excused({"crossed", "shared"})',
                      NEW l \in Listener, NEW k \in Index, l \in queue'[k].for,
                      NEW w \in must'[l], w \notin Settled
               PROVE  \E j \in Index : j < k /\ Makes(queue'[j], w)
  BY <1>1 DEF BehindOK
<1>4. ~Excused({"crossed", "shared"})
  BY <1>3 DEF Excused
<1>5. \E j \in Index : j < k /\ Makes(queue[j], w)
  <2>1. CASE l = c
    BY <1>2, <1>3, <2>1
  <2>2. CASE l # c
    <3>1. l \in queue[k].for /\ must'[l] = must[l]
      BY <1>2, <1>3, <2>2
    <3> QED
      BY <1>3, <1>4, <3>1 DEF BehindOK
  <2> QED
    BY <2>1, <2>2
<1>6. \A j \in Index : queue'[j].kind = queue[j].kind /\ queue[j].for \subseteq queue'[j].for
  BY DEF Awaited, Index
<1> QED
  BY <1>5, <1>6 DEF Makes

QueueInv == CallsOK /\ CacheOK /\ ReadsOK /\ BehindOK

LEMMA QueueMoved ==
  ASSUME DbInv, QueueInv, DbStep, NEW d \in {0, 1}, NEW n \in {0, 1},
         Moved(queue, queue', d, n), Len(queue) >= d, Leaves(d),
         d = 0 => ~RunRead,
         NEW job, n = 1 => queue'[Len(queue) - d + 1] = job,
         \A w \in Writer : status'[w] # "idle" =>
           status[w] # "idle" \/ w \in Settled' \/ (n = 1 /\ job.kind = "write" /\ w \in job.for),
         status'[Tx] # "idle" => status[Tx] # "idle" \/ (n = 1 /\ job.kind = "tx"),
         n = 1 => job.kind # "write" \/ \A i \in 1 .. Len(queue) - d : ~queue'[i].cached,
         "crossed" \in excused' \/ (inner'.kind = "read" => inner'.for \cap Listener = {}),
         n = 1 => job.for \cap Listener = {}
  PROVE  QueueInv'
<1>0. /\ TypeInv /\ JobsOK /\ CallsOK /\ CacheOK /\ ReadsOK /\ BehindOK
      /\ Settled \subseteq Settled' /\ excused \subseteq excused' /\ Len(queue) \in Nat
  BY DataGrows, Heads DEF DbInv, QueueInv
<1>1. CallsOK'
  BY <1>0, CallsMoved
<1>2. CacheOK'
  BY <1>0, CacheMoved
<1>3. CASE "crossed" \in excused'
  BY <1>1, <1>2, <1>3 DEF QueueInv, ReadsOK, BehindOK, Excused
<1>4. CASE "crossed" \notin excused'
  <2>1. "crossed" \notin excused
    BY <1>0, <1>4
  <2>2. ASSUME NEW l \in Listener, NEW i \in Index, i > d, l \in queue[i].for
        PROVE  status'[l] = "waiting" /\ must'[l] = must[l]
    <3>1. i = 1 => ~RunRead
      BY <2>2
    <3> QED
      BY <1>0, <2>1, <2>2, <3>1, WaitingStays
  <2>3. n = 1 => queue'[Len(queue) - d + 1].for \cap Listener = {}
    OBVIOUS
  <2>4. ReadsOK'
    BY <1>0, <1>4, <2>1, <2>2, <2>3, ReadsMoved
  <2>5. d = 1 => queue[1].kind \in {"write", "tx"} \/ \A w : ~Makes(queue[1], w)
    BY DEF Makes
  <2>6. BehindOK'
    BY <1>0, <2>2, <2>3, <2>5, BehindMoved
  <2> QED
    BY <1>1, <1>2, <2>4, <2>6 DEF QueueInv
<1> QED
  BY <1>3, <1>4

\* What a listener that calls must see is settled, or queued.
LEMMA MustIsQueued ==
  ASSUME DbInv, CallsOK, NEW l \in Listener, CallRead(l), NEW w \in must'[l]
  PROVE  w \in Settled \/ \E j \in Index : Makes(queue[j], w)
<1>1. must'[l] = {v \in Writer : status[v] # "idle"}
                   \cup (IF status[Tx] = "idle" THEN {} ELSE TxWrite)
  BY DEF CallRead, DbInv, TypeInv
<1>2. CASE w \in Writer /\ status[w] # "idle"
  BY <1>2 DEF CallsOK, Makes
<1>3. CASE w \in TxWrite /\ status[Tx] # "idle"
  BY <1>3 DEF CallsOK, Makes
<1> QED
  BY <1>1, <1>2, <1>3

LEMMA QueueRead ==
  ASSUME DbInv, QueueInv, NEW l \in Listener, CallRead(l)
  PROVE  QueueInv'
<1> USE Callers
<1>0. /\ TypeInv /\ JobsOK /\ InnerOK /\ CallsOK /\ CacheOK /\ ReadsOK /\ BehindOK
      /\ Len(queue) \in Nat /\ DbStep /\ Index = 1 .. Len(queue)
  BY Heads DEF DbInv, QueueInv, DbStep
<1>1. Settled' = Settled /\ excused \subseteq excused'
  BY <1>0, DataGrows DEF CallRead, sqlite, Settled, Visible
<1>2. /\ status[l] # "waiting" /\ status'[l] = "waiting"
      /\ \A c \in Caller : c # l => status'[c] = status[c]
  BY <1>0, StatusMoves DEF CallRead
<1>3. \A w \in Writer : status'[w] = status[w]
  BY <1>2
<1>4. status'[Tx] = status[Tx]
  BY <1>2
<1>5. \A k \in Listener : k # l => status'[k] = status[k] /\ must'[k] = must[k]
  BY <1>0, <1>2 DEF CallRead, TypeInv
<1>6. "crossed" \notin excused => \A j \in Index : l \notin queue[j].for
  BY <1>0, <1>2 DEF ReadsOK
<1>7. ASSUME NEW i \in Index, queue[i].cached, Awaited(queue, queue', i, l), inner' = inner,
             \/ "shared" \in excused'
             \/ excused' = excused /\ \A j \in Index : j > i => queue[j].kind # "tx"
      PROVE  QueueInv'
  <2>1. CallsOK'
    BY <1>0, <1>1, <1>3, <1>4, <1>7, CallsAwaited
  <2>2. CacheOK'
    BY <1>0, <1>7, CacheAwaited
  <2>3. CASE "crossed" \in excused'
    BY <2>1, <2>2, <2>3 DEF QueueInv, ReadsOK, BehindOK, Excused
  <2>4. CASE "crossed" \notin excused'
    <3>1. "crossed" \notin excused
      BY <1>1, <2>4
    <3>2. ReadsOK'
      <4>1. inner'.kind = "read" => inner'.for \cap Listener = {}
        BY <1>0, <1>7, <3>1 DEF ReadsOK
      <4> QED
        BY <1>0, <1>2, <1>5, <1>6, <1>7, <3>1, <4>1, ReadsAwaited
    <3>3. Excused({"crossed", "shared"})' \/ \A w \in must'[l] :
            w \in Settled \/ \E j \in Index : j < i /\ Makes(queue[j], w)
      <4>1. CASE "shared" \in excused'
        BY <4>1 DEF Excused
      <4>2. CASE \A j \in Index : j > i => queue[j].kind # "tx"
        <5>1. \A j \in Index : (\E w : Makes(queue[j], w)) => j < i
          <6>1. queue[i].kind = "read"
            BY <1>0, <1>7 DEF JobsOK
          <6>2. \A j \in Index : j > i => queue[j].kind # "write"
            BY <1>0, <1>7 DEF CacheOK
          <6>3. \A j \in Index : j > i \/ j = i \/ j < i
            BY <1>0
          <6> QED
            BY <4>2, <6>1, <6>2, <6>3 DEF Makes
        <5> QED
          BY <1>0, <5>1, MustIsQueued
      <4> QED
        BY <1>7, <4>1, <4>2
    <3>4. BehindOK'
      BY <1>0, <1>1, <1>5, <1>6, <1>7, <3>1, <3>3, BehindAwaited
    <3> QED
      BY <2>1, <2>2, <3>2, <3>4 DEF QueueInv
  <2> QED
    BY <2>3, <2>4
<1>8. ASSUME queue' = queue, excused' = excused \cup {"crossed"}
      PROVE  QueueInv'
  <2>1. Index' = Index
    BY <1>8 DEF Index
  <2>2. CallsOK'
    BY <1>0, <1>1, <1>3, <1>4, <1>8, <2>1 DEF CallsOK
  <2>3. CacheOK'
    BY <1>0, <1>8, <2>1 DEF CacheOK
  <2> QED
    BY <1>8, <2>2, <2>3 DEF QueueInv, ReadsOK, BehindOK, Excused
<1>9. ASSUME Moved(queue, queue', 0, 1), queue'[Len(queue) + 1] = Job("read", l, TRUE),
             inner' = inner, excused' = excused
      PROVE  QueueInv'
  <2>0. /\ Job("read", l, TRUE).kind = "read" /\ Job("read", l, TRUE).for = {l}
        /\ Len(queue) - 0 + 1 = Len(queue) + 1 /\ Len(queue) >= 0 /\ Leaves(0)
    BY <1>0 DEF Job, Leaves
  <2>1. CallsOK'
    <3>1. /\ \A w \in Writer : status'[w] # "idle" => status[w] # "idle"
          /\ status'[Tx] # "idle" => status[Tx] # "idle"
      BY <1>3, <1>4
    <3> QED
      BY <1>0, <1>1, <1>9, <2>0, <3>1, CallsMoved
  <2>2. CacheOK'
    BY <1>0, <1>9, <2>0, CacheMoved
  <2>3. CASE "crossed" \in excused'
    BY <2>1, <2>2, <2>3 DEF QueueInv, ReadsOK, BehindOK, Excused
  <2>4. CASE "crossed" \notin excused'
    <3>1. "crossed" \notin excused
      BY <1>1, <2>4
    <3>2. \A k \in Listener : \A i \in Index : k \in queue[i].for =>
            status'[k] = "waiting" /\ must'[k] = must[k]
      BY <1>0, <1>2, <1>5, <3>1 DEF ReadsOK
    <3>3. ReadsOK'
      <4>1. inner'.kind = "read" => inner'.for \cap Listener = {}
        BY <1>0, <1>9, <3>1 DEF ReadsOK
      <4>2. \A k \in Listener : k \in queue'[Len(queue) - 0 + 1].for =>
              status'[k] = "waiting" /\ \A i \in Index : k \notin queue[i].for
        <5>1. queue'[Len(queue) - 0 + 1].for = {l}
          BY <1>9, <2>0
        <5>2. status'[l] = "waiting" /\ \A i \in Index : l \notin queue[i].for
          BY <1>2, <1>6, <3>1
        <5> QED
          BY <5>1, <5>2
      <4> QED
        BY <1>0, <1>9, <2>0, <3>1, <3>2, <4>1, <4>2, ReadsMoved
    <3>4. BehindOK'
      <4>1. \A k \in Listener : k \in queue'[Len(queue) - 0 + 1].for =>
              \A w \in must'[k] : w \in Settled' \/ \E j \in Index : j > 0 /\ Makes(queue[j], w)
        <5>1. \A j \in Index : j > 0
          BY <1>0
        <5>2. \A w \in must'[l] : w \in Settled \/ \E j \in Index : Makes(queue[j], w)
          BY <1>0, MustIsQueued
        <5> QED
          BY <1>1, <1>9, <2>0, <5>1, <5>2
      <4> QED
        BY <1>0, <1>1, <1>9, <2>0, <3>2, <4>1, BehindMoved
    <3> QED
      BY <2>1, <2>2, <3>3, <3>4 DEF QueueInv
  <2> QED
    BY <2>3, <2>4
<1> QED
  BY <1>0, <1>7, <1>8, <1>9, CallReadMoves

LEMMA QueueStep ==
  ASSUME DbInv, QueueInv, DbStep
  PROVE  QueueInv'
<1> USE Callers
<1>0. /\ TypeInv /\ JobsOK /\ InnerOK /\ SavepointOK /\ CallsOK /\ CacheOK /\ ReadsOK
      /\ Len(queue) \in Nat /\ Len(queue) >= 0 /\ Index = 1 .. Len(queue)
      /\ Settled \subseteq Settled' /\ excused \subseteq excused'
      /\ Len(queue) - 0 + 1 = Len(queue) + 1 /\ Len(queue) - 1 + 1 = Len(queue)
  BY Heads, DataGrows DEF DbInv, QueueInv
<1>a. \A kind, c, cached : /\ Job(kind, c, cached).kind = kind
                           /\ Job(kind, c, cached).for = {c}
  BY DEF Job
<1>b. ASSUME inner' = inner
      PROVE  "crossed" \in excused' \/ (inner'.kind = "read" => inner'.for \cap Listener = {})
  BY <1>0, <1>b DEF ReadsOK
<1>c. \A k : Holds(k) => /\ 1 \in Index /\ queue[1].kind = k
                         /\ (k \notin {"write", "tx"} => Leaves(1))
  BY <1>0, Heads DEF Leaves
<1>d. Leaves(0)
  BY DEF Leaves
<1>e. queue' = queue => Moved(queue, queue', 0, 0)
  BY <1>0, Motions DEF TypeInv
<1>h. RunRead => Len(queue') # Len(queue) - 0 + 1
  <2>1. RunRead => Moved(queue, queue', 1, 0)
    BY <1>0, DbMoves
  <2>2. Moved(queue, queue', 1, 0) => Len(queue') = Len(queue) - 1 + 0
    BY DEF Moved
  <2>3. \A n \in Nat : n - 1 + 0 # n - 0 + 1
    OBVIOUS
  <2>4. Len(queue) \in Nat
    BY <1>0
  <2>5. Len(queue) - 1 + 0 # Len(queue) - 0 + 1
    BY ONLY <2>3, <2>4
  <2> QED
    BY ONLY <2>1, <2>2, <2>5
\* A step that leaves the queue, and what was called, as they are.
<1>f. ASSUME Moved(queue, queue', 0, 0), ~RunRead,
             \A c \in Writer \cup {Tx} : status'[c] = status[c],
             "crossed" \in excused' \/ (inner'.kind = "read" => inner'.for \cap Listener = {})
      PROVE  QueueInv'
  <2>1. /\ \A w \in Writer : status'[w] # "idle" => status[w] # "idle"
        /\ status'[Tx] # "idle" => status[Tx] # "idle"
    BY <1>f
  <2> QED
    BY <1>0, <1>d, <1>f, <2>1, QueueMoved
\* A step that takes its holder from the queue.
<1>g. ASSUME Moved(queue, queue', 1, 0), Leaves(1), 1 \in Index, inner' = inner,
             \A w \in Writer : status'[w] # "idle" => status[w] # "idle" \/ w \in Settled',
             status'[Tx] # "idle" => status[Tx] # "idle"
      PROVE  QueueInv'
  <2>1. /\ \A w \in Writer : status'[w] # "idle" => status[w] # "idle" \/ w \in Settled'
        /\ status'[Tx] # "idle" => status[Tx] # "idle"
    BY <1>g
  <2> QED
    BY <1>0, <1>b, <1>g, <2>1, QueueMoved
<1>1. ASSUME NEW w \in Writer, CallWrite(w)
      PROVE  QueueInv'
  <2>1. PICK job : job = Job("write", w, FALSE)
    OBVIOUS
  <2>2. job.kind = "write" /\ job.for = {w} /\ job.for \cap Listener = {}
    BY <2>1 DEF Job
  <2>3. Moved(queue, queue', 0, 1) /\ queue'[Len(queue) - 0 + 1] = job
    BY <1>0, <1>1, <2>1, DbMoves
  <2>4. \A i \in 1 .. Len(queue) - 0 : ~queue'[i].cached
    <3>1. 1 .. Len(queue) - 0 = Index
      BY <1>0
    <3> QED
      BY <1>0, <1>1, <3>1, DbMoves
  <2>5. /\ \A v \in Writer : status'[v] # "idle" => status[v] # "idle" \/ v = w
        /\ status'[Tx] = status[Tx]
    BY <1>0, <1>1, StatusMoves DEF CallWrite
  <2>6. "crossed" \in excused' \/ (inner'.kind = "read" => inner'.for \cap Listener = {})
    <3>1. inner'.kind = inner.kind /\ inner'.for = inner.for
      BY <1>0, <1>1, InnerUncached DEF CallWrite
    <3> QED
      BY <1>0, <3>1 DEF ReadsOK
  <2>7. ~RunRead
    <3>1. Len(queue') = Len(queue) - 0 + 1
      BY <2>3 DEF Moved
    <3> QED
      BY ONLY <1>h, <3>1
  <2>8. \A v \in Writer : status'[v] # "idle" => status[v] # "idle" \/ v \in job.for
    BY <2>2, <2>5
  <2> QED
    BY <1>0, <1>d, <2>2, <2>3, <2>4, <2>5, <2>6, <2>7, <2>8, QueueMoved
<1>2. ASSUME CallTx \/ CallClose
      PROVE  QueueInv'
  <2>1. PICK job : job = IF CallTx THEN Job("tx", Tx, FALSE)
                                   ELSE Job("finalize", Closer, FALSE)
    OBVIOUS
  <2>2. /\ job.kind \in {"tx", "finalize"} /\ job.for \cap Listener = {}
        /\ CallTx => job.kind = "tx"
    BY <2>1 DEF Job
  <2>3. Moved(queue, queue', 0, 1) /\ queue'[Len(queue) - 0 + 1] = job
    BY <1>0, <1>2, <2>1, DbMoves
  <2>4. /\ \A v \in Writer : status'[v] = status[v]
        /\ CallTx \/ status'[Tx] = status[Tx]
    BY <1>0, <1>2, StatusMoves DEF CallTx, CallClose
  <2>5. inner' = inner
    BY <1>2 DEF CallTx, CallClose
  <2>6. ~RunRead
    <3>1. Len(queue') = Len(queue) - 0 + 1
      BY <2>3 DEF Moved
    <3> QED
      BY ONLY <1>h, <3>1
  <2>7. /\ \A v \in Writer : status'[v] # "idle" => status[v] # "idle"
        /\ status'[Tx] # "idle" => status[Tx] # "idle" \/ job.kind = "tx"
        /\ job.kind # "write"
    BY <2>2, <2>4
  <2> QED
    BY <1>0, <1>b, <1>d, <2>2, <2>3, <2>5, <2>6, <2>7, QueueMoved
<1>3. ASSUME RunRead
      PROVE  QueueInv'
  <2>1. Holds("read") /\ inner' = inner /\ SettleRead(Head(queue))
    BY <1>3 DEF RunRead
  <2>2. \A c \in Writer \cup {Tx} : status'[c] = status[c]
    BY <1>0, <2>1, StatusMoves
  <2> QED
    BY <1>0, <1>3, <1>c, <1>g, <2>1, <2>2, DbMoves
<1>4. ASSUME RunWrite
      PROVE  QueueInv'
  <2>1. Holds("write") /\ inner' = inner
    BY <1>4 DEF RunWrite
  <2>2. PICK w \in Writer :
          /\ queue[1].for = {w} /\ status'[w] \in {"done", "failed"}
          /\ \A o \in Caller : o # w => status'[o] = status[o]
          /\ \/ /\ status'[w] = "done" /\ failed' = failed
                /\ content' = IF open THEN content ELSE content \cup {w}
                /\ dirty' = IF open THEN dirty \cup {w} ELSE dirty
             \/ /\ status'[w] = "failed" /\ failed' = failed \cup {w}
                /\ content' = content /\ dirty' = dirty
    BY <1>0, <1>4, StatusMoves
  <2>3. w \in Settled'
    BY <2>2 DEF Settled, Visible
  <2>4. Leaves(1)
    BY <1>c, <2>1, <2>2, <2>3 DEF Leaves
  <2>5. /\ \A v \in Writer : status'[v] # "idle" => status[v] # "idle" \/ v \in Settled'
        /\ status'[Tx] = status[Tx]
    BY <2>2, <2>3
  <2>6. Moved(queue, queue', 1, 0) /\ 1 \in Index
    BY <1>0, <1>4, DbMoves
  <2> QED
    BY <1>g, <2>1, <2>4, <2>5, <2>6
<1>5. ASSUME BeginTx \/ TxRunWrite
      PROVE  QueueInv'
  <2>1. /\ queue' = queue /\ status' = status /\ ~Holds("read")
        /\ inner' = inner \/ inner' = NoJob
    BY <1>0, <1>5 DEF BeginTx, TxRunWrite, mutexes, InnerOK, Holds
  <2>2. ~RunRead
    BY <2>1 DEF RunRead
  <2>3. "crossed" \in excused' \/ (inner'.kind = "read" => inner'.for \cap Listener = {})
    BY <1>b, <2>1 DEF NoJob
  <2> QED
    BY <1>e, <1>f, <2>1, <2>2, <2>3
<1>6. ASSUME TxRunRead
      PROVE  QueueInv'
  <2>1. /\ inner' = NoJob /\ ~Holds("read") /\ SettleRead(inner)
    BY <1>0, <1>6 DEF TxRunRead, InnerOK, Holds
  <2>2. ~RunRead
    BY <2>1 DEF RunRead
  <2>3. inner'.kind = "read" => inner'.for \cap Listener = {}
    BY <2>1 DEF NoJob
  <2>4. \A c \in Writer \cup {Tx} : status'[c] = status[c]
    BY <1>0, <2>1, StatusMoves
  <2>5. Moved(queue, queue', 0, 0)
    BY <1>0, <1>6, DbMoves
  <2> QED
    BY <1>f, <2>2, <2>3, <2>4, <2>5
<1>7. ASSUME NEW w \in TxWrite, TxCallWrite(w)
      PROVE  QueueInv'
  <2>1. /\ inner' = Inner("write", w) /\ status' = status /\ Holds("tx")
    BY <1>7 DEF TxCallWrite, InTx
  <2>2. ~RunRead
    BY <2>1 DEF RunRead, Holds
  <2>3. inner'.kind = "read" => inner'.for \cap Listener = {}
    BY <2>1 DEF Inner
  <2>4. Moved(queue, queue', 0, 0)
    BY <1>0, <1>7, DbMoves
  <2> QED
    BY <1>f, <2>1, <2>2, <2>3, <2>4
<1>8. ASSUME TxCallRead
      PROVE  QueueInv'
  <2>1. /\ status' = status /\ Holds("tx")
    BY <1>8 DEF TxCallRead, InTx
  <2>2. ~RunRead
    BY <2>1 DEF RunRead, Holds
  <2>3. CASE /\ "crossed" \in excused' /\ inner' = inner
             /\ \E i \in Index : queue[i].cached /\ Awaited(queue, queue', i, Tx)
    <3>1. CallsOK' /\ CacheOK'
      BY <1>0, <2>1, <2>3, CallsAwaited, CacheAwaited
    <3> QED
      BY <2>3, <3>1 DEF QueueInv, ReadsOK, BehindOK, Excused
  <2>4. CASE inner' = Job("read", Tx, TRUE) /\ queue' = queue
    <3>1. inner'.for \cap Listener = {}
      BY <2>4 DEF Job
    <3> QED
      BY <1>e, <1>f, <2>1, <2>2, <2>4, <3>1
  <2> QED
    BY <1>0, <1>8, <2>3, <2>4, DbMoves
<1>9. ASSUME RefuseTx \/ EndTx
      PROVE  QueueInv'
  <2>1. /\ inner' = inner /\ Holds("tx") /\ TxWrite \subseteq content' \cup failed'
    BY <1>9 DEF RefuseTx, EndTx, InTx
  <2>2. Leaves(1) /\ 1 \in Index /\ status[Tx] = "waiting"
    BY <1>0, <1>c, <2>1 DEF Leaves, Settled, Visible, JobsOK
  <2>3. \A w \in Writer : status'[w] = status[w]
    BY <1>0, <1>9, StatusMoves
  <2>4. Moved(queue, queue', 1, 0)
    BY <1>0, <1>9, DbMoves
  <2> QED
    BY <1>g, <2>1, <2>2, <2>3, <2>4
<1>10. ASSUME RunClose
       PROVE  QueueInv'
  <2>1. Holds("close") /\ inner' = inner
    BY <1>10 DEF RunClose
  <2>2. /\ \A w \in Writer : status'[w] = status[w]
        /\ status'[Tx] = status[Tx]
    BY <1>0, <1>10, StatusMoves
  <2>3. Moved(queue, queue', 1, 0) /\ 1 \in Index
    BY <1>0, <1>10, DbMoves
  <2>4. Leaves(1)
    BY <1>c, <2>1
  <2> QED
    BY <1>g, <2>1, <2>2, <2>3, <2>4
<1>11. ASSUME RunFinalize \/ RunCrsqlFinalize
       PROVE  QueueInv'
  <2>1. /\ inner' = inner /\ status' = status
        /\ Holds("finalize") \/ Holds("crsql_finalize")
    BY <1>11 DEF RunFinalize, RunCrsqlFinalize
  <2>2. Leaves(1)
    BY <1>c, <2>1
  <2>3. /\ Moved(queue, queue', 1, 1) /\ 1 \in Index
        /\ \E k \in {"crsql_finalize", "close"} : queue'[Len(queue)] = Job(k, Closer, FALSE)
    BY <1>0, <1>11, DbMoves
  <2>4. PICK job : /\ queue'[Len(queue) - 1 + 1] = job
                   /\ job.kind # "write" /\ job.for \cap Listener = {}
    <3>1. \A k \in {"crsql_finalize", "close"} :
            /\ Job(k, Closer, FALSE).kind # "write"
            /\ Job(k, Closer, FALSE).for \cap Listener = {}
      BY DEF Job
    <3> QED
      BY <1>0, <2>3, <3>1
  <2>5. /\ \A w \in Writer : status'[w] # "idle" => status[w] # "idle"
        /\ status'[Tx] # "idle" => status[Tx] # "idle"
    BY <2>1
  <2>6. Len(queue) >= 1
    BY <1>0, <2>3
  <2> QED
    BY <1>0, <1>b, <2>1, <2>2, <2>3, <2>4, <2>5, <2>6, QueueMoved
<1>12. ASSUME NEW l \in Listener, CallRead(l)
       PROVE  QueueInv'
  BY <1>12, QueueRead
<1> QED
  BY <1>1, <1>2, <1>3, <1>4, <1>5, <1>6, <1>7, <1>8, <1>9, <1>10, <1>11, <1>12
  DEF DbStep, DbCall, DbRun, DbTx

-----------------------------------------------------------------------------
(* The properties, step by step.                                           *)

LEMMA ReadsSeeStep ==
  ASSUME DbInv, QueueInv, DbStep, SeesEarlierWrites
  PROVE  SeesEarlierWrites'
<1>0. /\ TypeInv /\ ReadsOK /\ BehindOK /\ excused \subseteq excused' /\ failed \subseteq failed'
      /\ Index = 1 .. Len(queue) /\ Len(queue) \in Nat
  BY DataGrows, Heads DEF DbInv, QueueInv
<1>1. SUFFICES ASSUME ~Excused({"crossed", "shared"})', NEW l \in Listener,
                      status'[l] = "done"
               PROVE  must'[l] \ failed' \subseteq got'[l]
  BY DEF SeesEarlierWrites
<1>2. ~Excused({"crossed", "shared"}) /\ "crossed" \notin excused
  BY <1>0, <1>1 DEF Excused
<1>3. CASE got'[l] = got[l] /\ status'[l] = status[l] /\ must'[l] = must[l]
  <2>1. must[l] \ failed \subseteq got[l]
    BY <1>1, <1>2, <1>3 DEF SeesEarlierWrites
  <2> QED
    BY <1>0, <1>3, <2>1
<1>4. CASE /\ RunRead /\ Holds("read") /\ l \in queue[1].for
           /\ got'[l] = Visible /\ must'[l] = must[l] /\ failed' = failed
  <2>1. 1 \in Index /\ \A j \in Index : ~(j < 1)
    BY <1>0, <1>4, Heads
  <2>2. must[l] \subseteq Settled
    BY <1>0, <1>2, <1>4, <2>1 DEF BehindOK
  <2> QED
    BY <1>4, <2>2 DEF Settled
<1>5. ~(TxRunRead /\ inner.kind = "read" /\ l \in inner.for)
  BY <1>0, <1>2 DEF ReadsOK
<1> QED
  BY <1>1, <1>3, <1>4, <1>5, ListenerMoves

LEMMA NoDirtyStep ==
  ASSUME DbInv, QueueInv, DbStep, NoDirtyReads
  PROVE  NoDirtyReads'
<1>0. /\ ReadsOK /\ SavepointOK /\ excused \subseteq excused' /\ content \subseteq content'
  BY DataGrows DEF DbInv, QueueInv
<1>1. SUFFICES ASSUME ~Excused({"crossed", "release", "closing"})', NEW l \in Listener
               PROVE  got'[l] \subseteq content'
  BY DEF NoDirtyReads
<1>2. /\ ~Excused({"crossed", "release", "closing"})
      /\ "crossed" \notin excused /\ ~Excused({"release", "closing"})
  BY <1>0, <1>1 DEF Excused
<1>3. got[l] \subseteq content
  BY <1>2 DEF NoDirtyReads
<1>4. CASE Holds("read") /\ got'[l] = Visible
  <2>1. dirty = {}
    BY <1>0, <1>2, <1>4 DEF SavepointOK, Holds
  <2> QED
    BY <1>0, <1>4, <2>1 DEF Visible
<1>5. ~(TxRunRead /\ inner.kind = "read" /\ l \in inner.for)
  BY <1>0, <1>2 DEF ReadsOK
<1> QED
  BY <1>0, <1>3, <1>4, <1>5, ListenerMoves

LEMMA ResolvedStep ==
  ASSUME DbInv, DbStep, ResolvedWritesLast
  PROVE  ResolvedWritesLast'
<1> USE Callers
<1>0. /\ TypeInv /\ JobsOK /\ SavepointOK /\ SavepointOK'
      /\ excused \subseteq excused' /\ content \subseteq content'
  BY DataGrows, SavepointStep DEF DbInv
<1>1. SUFFICES ASSUME ~Excused({"release", "closing"})'
               PROVE  /\ \A w \in Writer : status'[w] = "done" => w \in content'
                      /\ status'[Tx] = "failed" => TxWrite \cap content' = {}
  BY DEF ResolvedWritesLast
<1>2. ~Excused({"release", "closing"})
  BY <1>0, <1>1 DEF Excused
<1>3. status'[Tx] = "failed" => TxWrite \cap content' = {}
  BY <1>0 DEF SavepointOK
<1>4. ASSUME NEW w \in Writer, status'[w] = "done"
      PROVE  w \in content'
  <2>1. CASE status[w] = "done"
    BY <1>0, <1>2, <2>1 DEF ResolvedWritesLast
  <2>2. CASE RunWrite
    <3>1. ~open
      BY <1>0, <1>2, <2>2 DEF RunWrite, SavepointOK, Holds
    <3> QED
      BY <1>0, <1>4, <2>1, <2>2, <3>1, StatusMoves
  <2>3. CASE status'[w] = status[w]
    BY <1>4, <2>1, <2>3
  <2>4. CASE status'[w] = "waiting"
    BY <1>4, <2>4
  <2>5. ASSUME NEW c \in Caller, Asked(c)
        PROVE  status'[w] = status[w] \/ status'[w] = "waiting"
    BY <1>0, <2>5, StatusMoves
  <2>6. \A job : SettleRead(job) => status'[w] = status[w]
    BY <1>0, StatusMoves
  <2>7. RefuseTx \/ EndTx \/ RunClose => status'[w] = status[w]
    BY <1>0, StatusMoves
  <2>8. DbTx \/ BeginTx \/ TxRunWrite \/ RunFinalize \/ RunCrsqlFinalize => status' = status
    BY DEF DbTx, TxCallRead, TxCallWrite, BeginTx, TxRunWrite, RunFinalize, RunCrsqlFinalize
  <2>9. DbCall \/ (\E l \in Listener : CallRead(l)) =>
          status'[w] = status[w] \/ status'[w] = "waiting"
    BY <2>5 DEF DbCall, CallTx, CallClose, CallWrite, CallRead
  <2>10. RunRead \/ TxRunRead => status'[w] = status[w]
    BY <2>6 DEF RunRead, TxRunRead
  <2> QED
    BY <2>2, <2>3, <2>4, <2>7, <2>8, <2>9, <2>10 DEF DbStep, DbRun
<1> QED
  BY <1>3, <1>4

\* A database that is left alone keeps what was said of it.
LEMMA QuietKeeps ==
  ASSUME Quiet
  PROVE  /\ QueueInv => QueueInv'
         /\ SeesEarlierWrites => SeesEarlierWrites'
         /\ NoDirtyReads => NoDirtyReads'
         /\ ResolvedWritesLast => ResolvedWritesLast'
<1>0. /\ Index' = Index /\ Settled' = Settled /\ excused \subseteq excused'
      /\ queue' = queue /\ inner' = inner /\ status' = status /\ must' = must /\ got' = got
      /\ failed' = failed /\ content' = content
  BY DEF Quiet, Index, Settled, Visible
<1>1. QueueInv => QueueInv'
  <2>1. CallsOK => CallsOK'
    BY <1>0 DEF CallsOK
  <2>2. CacheOK => CacheOK'
    BY <1>0 DEF CacheOK
  <2>3. ReadsOK => ReadsOK'
    BY <1>0 DEF ReadsOK
  <2>4. BehindOK => BehindOK'
    BY <1>0 DEF BehindOK, Excused
  <2> QED
    BY <2>1, <2>2, <2>3, <2>4 DEF QueueInv
<1>2. SeesEarlierWrites => SeesEarlierWrites'
  BY <1>0 DEF SeesEarlierWrites, Excused
<1>3. NoDirtyReads => NoDirtyReads'
  BY <1>0 DEF NoDirtyReads, Excused
<1>4. ResolvedWritesLast => ResolvedWritesLast'
  BY <1>0 DEF ResolvedWritesLast, Excused
<1> QED
  BY <1>1, <1>2, <1>3, <1>4

-----------------------------------------------------------------------------
(* Listeners of this tab.                                                  *)

\* A write that shows touches rows, and the hook notes them while anyone listens.
LEMMA HookNotes ==
  ASSUME Hook, subscribed # {}
  PROVE  /\ pending' = pending \cup Touched /\ Visible' \subseteq Visible \cup Touched
         /\ content' \cup dirty' \subseteq content \cup dirty \cup Touched
BY DEF Hook, Touched, Visible

LEMMA FreshStep ==
  ASSUME DbInv, FreshOK, [Next]_vars
  PROVE  FreshOK'
<1>0. TypeInv /\ TypeInv'
  BY DbInvStep DEF DbInv
<1>1. SUFFICES ASSUME ~Excused({"crossed", "release", "threw"})',
                      NEW l \in subscribed', NEW w \in Visible' \cap Watched(l), w \notin got'[l]
               PROVE  pending' \cap Watched(l) # {} \/ l \in due' \/ status'[l] = "waiting"
  BY DEF FreshOK, Watched
<1>2. l \in subscribed /\ l \in Listener
  BY <1>0 DEF TypeInv, Next, Db, Notify, Dispose, OtherHears, OtherReads, Listen, vars, rxVars
<1>3. excused \subseteq excused'
  BY StepKinds, DataGrows DEF Quiet
<1>4. ~Excused({"crossed", "release", "threw"})
  BY <1>1, <1>3 DEF Excused
<1>5. w \in Visible /\ w \notin got[l] =>
        pending \cap Watched(l) # {} \/ l \in due \/ status[l] = "waiting"
  BY <1>2, <1>4 DEF FreshOK
<1>6. CASE Db
  <2>1. DbStep /\ Hook /\ due' = due
    BY <1>6 DEF Db, DbStep
  <2>2. pending' = pending \cup Touched /\ Visible' \subseteq Visible \cup Touched
    BY <1>2, <2>1, HookNotes
  <2>3. CASE got'[l] = got[l] /\ status'[l] = status[l]
    BY <1>1, <1>5, <2>1, <2>2, <2>3
  <2>4. CASE got'[l] = Visible /\ content' = content /\ dirty' = dirty
    BY <1>1, <2>4 DEF Visible
  <2> QED
    BY <1>2, <2>1, <2>3, <2>4, ListenerMoves
<1>7. ASSUME NEW k \in Listener, Listen(k)
      PROVE  pending' \cap Watched(l) # {} \/ l \in due' \/ status'[l] = "waiting"
  <2>1. /\ DbStep /\ Asked(k) /\ content' = content /\ dirty' = dirty /\ got' = got
        /\ pending' = pending /\ due' = due \ {k}
    BY <1>7 DEF Listen, DbStep, CallRead, sqlite
  <2>2. status'[k] = "waiting" /\ \A o \in Caller : o # k => status'[o] = status[o]
    <3>1. k \in Caller /\ status \in [Caller -> Status]
      BY <1>0, Callers DEF TypeInv
    <3> QED
      BY <2>1, <3>1 DEF Asked
  <2>3. CASE l = k
    BY <2>2, <2>3
  <2>4. CASE l # k
    <3>1. w \in Visible /\ w \notin got[l]
      BY <1>1, <2>1 DEF Visible
    <3>2. status'[l] = status[l]
      BY <1>2, <2>2, <2>4, Callers
    <3> QED
      BY <1>5, <2>1, <2>4, <3>1, <3>2
  <2> QED
    BY <2>3, <2>4
<1>8. CASE Notify
  <2>1. Visible' = Visible /\ got' = got /\ status' = status
    BY <1>8 DEF Notify, sqlite, Visible
  <2>2. due' = due \cup Told
    BY <1>1, <1>8 DEF Notify, Excused
  <2>3. pending \cap Watched(l) # {} => l \in Told
    BY <1>2 DEF Told
  <2> QED
    BY <1>1, <1>5, <2>1, <2>2, <2>3
<1>9. CASE Dispose \/ OtherHears \/ OtherReads \/ UNCHANGED vars
  <2>1. /\ Visible' = Visible /\ got' = got /\ status' = status
        /\ pending' = pending /\ due' = due
    BY <1>9 DEF Dispose, OtherHears, OtherReads, vars, rxVars, dbVars, sqlite, Visible
  <2> QED
    BY <1>1, <1>5, <2>1
<1> QED
  BY <1>6, <1>7, <1>8, <1>9 DEF Next

\* #closed is never taken back.
LEMMA ClosedStays ==
  ASSUME [Next]_vars, ~IsOpen
  PROVE  ~IsOpen'
<1>1. Db => ~IsOpen'
  <2>1. DbCall \/ DbTx => closed' = closed
    BY DEF DbCall, DbTx, CallTx, CallClose, CallWrite, TxCallRead, TxCallWrite
  <2>2. DbRun => closed' = closed \/ closed' \in {"closing", "closed"}
    BY DEF DbRun, RunRead, RunWrite, BeginTx, RefuseTx, TxRunRead, TxRunWrite, EndTx,
           RunFinalize, RunCrsqlFinalize, RunClose
  <2> QED
    BY <2>1, <2>2 DEF Db, IsOpen
<1>2. Notify \/ Dispose \/ OtherHears \/ OtherReads \/ UNCHANGED vars => ~IsOpen'
  BY DEF Notify, Dispose, OtherHears, OtherReads, vars, dbVars, IsOpen
<1>3. \A l \in Listener : ~Listen(l)
  BY DEF Listen, CallRead
<1> QED
  BY <1>1, <1>2, <1>3 DEF Next

\* When #closed is set no savepoint is open, unless its RELEASE failed: whoever is
\* ahead from then on has seen a write that the hook noted.
LEMMA ClosedStep ==
  ASSUME DbInv, ClosedOK, NoDirtyReads, [Next]_vars
  PROVE  ClosedOK'
<1>0. TypeInv /\ SavepointOK
  BY DEF DbInv
<1>1. excused \subseteq excused'
  BY StepKinds, DataGrows DEF Quiet
<1>2. ASSUME "closing" \in excused'
      PROVE  ~IsOpen'
  <2>1. ~IsOpen => ~IsOpen'
    BY ClosedStays
  <2>2. "closing" \in excused \/ ~IsOpen
    <3>1. EndTx => excused' = excused \/ excused' = excused \cup {"release"} \/ ~IsOpen
      BY DEF EndTx
    <3>2. \A l \in Listener : CallRead(l) =>
            excused' \subseteq excused \cup {"shared", "crossed"}
      BY DEF CallRead
    <3>3. TxCallRead => excused' \subseteq excused \cup {"crossed"}
      BY DEF TxCallRead
    <3>4. Notify => excused' \subseteq excused \cup {"early", "threw"}
      BY DEF Notify
    <3>5. DbCall => excused' = excused
      BY DEF DbCall, CallTx, CallClose, CallWrite
    <3>6. DbRun => EndTx \/ excused' = excused
      BY DEF DbRun, RunRead, RunWrite, BeginTx, RefuseTx, TxRunRead, TxRunWrite,
             RunFinalize, RunCrsqlFinalize, RunClose
    <3>7. \A w \in TxWrite : TxCallWrite(w) => excused' = excused
      BY DEF TxCallWrite
    <3>8. Dispose \/ OtherHears \/ OtherReads \/ UNCHANGED vars => excused' = excused
      BY DEF Dispose, OtherHears, OtherReads, vars, dbVars
    <3>9. Db => "closing" \in excused \/ ~IsOpen
      BY <1>2, <3>1, <3>3, <3>5, <3>6, <3>7 DEF Db, DbTx
    <3>10. (\E l \in Listener : Listen(l)) => "closing" \in excused
      BY <1>2, <3>2 DEF Listen
    <3> QED
      BY <1>2, <3>4, <3>8, <3>9, <3>10 DEF Next
  <2> QED
    BY <2>1, <2>2 DEF ClosedOK
<1>3. SUFFICES ASSUME ~IsOpen', ~Excused({"crossed", "release", "threw"})',
                      NEW l \in subscribed', NEW w \in Ahead(l)'
               PROVE  pending' \cap Watched(l) # {} \/ l \in due'
  BY <1>2 DEF ClosedOK, Watched
<1>4. ~Excused({"crossed", "release", "threw"})
  BY <1>1, <1>3 DEF Excused
<1>5. l \in subscribed /\ l \in Listener
  BY <1>0, <1>3 DEF TypeInv, Next, Db, Notify, Dispose, OtherHears, OtherReads, Listen, vars, rxVars
<1>6. w \in dirty' \cup got'[l] /\ w \notin content' /\ w \in Watched(l)
  BY <1>3 DEF Ahead, Watched
<1>7. w \in (dirty \cup got[l]) \ content /\ ~IsOpen =>
        pending \cap Watched(l) # {} \/ l \in due
  BY <1>4, <1>5, <1>6 DEF ClosedOK, Ahead
<1>8. CASE Db
  <2>1. DbStep /\ Hook /\ due' = due
    BY <1>8 DEF Db, DbStep
  <2>2. /\ pending' = pending \cup Touched
        /\ content' \cup dirty' \subseteq content \cup dirty \cup Touched
    BY <1>5, <2>1, HookNotes
  <2>3. content \subseteq content'
    BY <2>1, DataGrows
  <2>4. w \in Touched \/ w \in (dirty \cup got[l]) \ content
    <3>1. got'[l] = got[l] \/ got'[l] = content \cup dirty
      BY <1>5, <2>1, ListenerMoves DEF Visible
    <3> QED
      BY <1>6, <2>2, <2>3, <3>1
  <2>5. CASE ~IsOpen
    BY <1>6, <1>7, <2>1, <2>2, <2>4, <2>5
\* #closed is being set: whoever holds the mutex has closed every savepoint.
  <2>6. CASE IsOpen
    <3>1. RunCrsqlFinalize \/ RunClose
      BY <1>3, <1>8, <2>6
      DEF IsOpen, Db, DbCall, DbRun, DbTx, CallTx, CallClose, CallWrite, RunRead, RunWrite,
          BeginTx, RefuseTx, TxRunRead, TxRunWrite, EndTx, RunFinalize, TxCallRead, TxCallWrite
    <3>2. ~Holds("tx")
      BY <3>1 DEF RunCrsqlFinalize, RunClose, Holds
    <3>3. ~Excused({"crossed", "release", "closing"}) /\ ~Excused({"release", "closing"})
      BY <1>4, <2>6 DEF ClosedOK, Excused
    <3>4. dirty = {}
      BY <1>0, <3>2, <3>3 DEF SavepointOK
    <3>5. got[l] \subseteq content
      BY <1>5, <3>3 DEF NoDirtyReads
    <3> QED
      BY <1>6, <2>2, <2>4, <3>4, <3>5
  <2> QED
    BY <2>5, <2>6
<1>9. \A k \in Listener : ~Listen(k)
  BY <1>3 DEF Listen, CallRead, IsOpen
<1>10. CASE Notify
  <2>1. /\ dirty' = dirty /\ got' = got /\ content' = content /\ IsOpen' = IsOpen
    BY <1>10 DEF Notify, sqlite, IsOpen
  <2>2. due' = due \cup Told
    BY <1>3, <1>10 DEF Notify, Excused
  <2>3. pending \cap Watched(l) # {} => l \in Told
    BY <1>5 DEF Told
  <2> QED
    BY <1>3, <1>6, <1>7, <2>1, <2>2, <2>3
<1>11. CASE Dispose \/ OtherHears \/ OtherReads \/ UNCHANGED vars
  <2>1. /\ dirty' = dirty /\ got' = got /\ content' = content /\ IsOpen' = IsOpen
        /\ pending' = pending /\ due' = due
    BY <1>11 DEF Dispose, OtherHears, OtherReads, vars, rxVars, dbVars, sqlite, IsOpen
  <2> QED
    BY <1>3, <1>6, <1>7, <2>1
<1> QED
  BY <1>8, <1>9, <1>10, <1>11 DEF Next

-----------------------------------------------------------------------------
(* The other tab.                                                          *)

\* What the transaction writes is told before or after it ends: told before, the
\* notification is early.
LEMMA TabStep ==
  ASSUME DbInv, TabOK, OtherTabIsFresh, [Next]_vars
  PROVE  TabOK' /\ OtherTabIsFresh'
<1> USE Callers
<1>0. /\ TypeInv /\ JobsOK /\ SavepointOK
  BY DEF DbInv
<1>1. excused \subseteq excused' /\ content \subseteq content' /\ there.got \subseteq content
  BY StepKinds, DataGrows DEF Quiet, TabOK
<1>2. there'.got \subseteq content'
  <2>1. OtherHears => there'.got = there.got
    BY <1>0 DEF OtherHears, TypeInv
  <2>2. OtherReads => there'.got = content
    BY DEF OtherReads
  <2>3. ~OtherHears /\ ~OtherReads => there' = there
    BY DEF Next, Db, Notify, Dispose, Listen, vars, rxVars
  <2> QED
    BY <1>1, <2>1, <2>2, <2>3
<1> DEFINE Told2 == pending' # {} \/ channel' > 0 \/ there'.due
<1>3. SUFFICES ASSUME ~Excused({"early", "threw"})', subscribed' # {}
               PROVE  dirty' \subseteq pending' \cup content' /\ (there'.got # content' => Told2)
  BY <1>2 DEF TabOK, OtherTabIsFresh
<1>4. ~Excused({"early", "threw"})
  BY <1>1, <1>3 DEF Excused
<1>5. subscribed # {}
  BY <1>3 DEF Next, Db, Notify, Dispose, OtherHears, OtherReads, Listen, vars, rxVars
<1>6. /\ dirty \subseteq pending \cup content
      /\ there.got # content => pending # {} \/ channel > 0 \/ there.due
  BY <1>4, <1>5 DEF TabOK, OtherTabIsFresh
<1>7. CASE Db
  <2>1. /\ DbStep /\ Hook /\ channel' = channel /\ there' = there
    BY <1>7 DEF Db, DbStep
  <2>2. /\ pending' = pending \cup Touched
        /\ content' \cup dirty' \subseteq content \cup dirty \cup Touched
    BY <1>5, <2>1, HookNotes
  <2>3. content' = content \/ pending' # {}
    BY <1>1, <1>6, <2>2
  <2>4. dirty' \subseteq pending' \cup content'
    BY <1>1, <1>6, <2>2
  <2> QED
    BY <1>6, <2>1, <2>2, <2>3, <2>4
<1>8. ASSUME NEW k \in Listener, Listen(k)
      PROVE  dirty' \subseteq pending' \cup content' /\ (there'.got # content' => Told2)
  BY <1>6, <1>8 DEF Listen, CallRead, sqlite
<1>9. CASE Notify
  <2>1. /\ content' = content /\ dirty' = dirty /\ there' = there /\ pending # {} /\ pending' = {}
        /\ pending \subseteq content
        /\ channel' = channel + 1
    BY <1>3, <1>5, <1>9 DEF Notify, sqlite, Excused
  <2>2. dirty \subseteq content
    BY <1>6, <2>1
  <2> QED
    BY <1>0, <2>1, <2>2 DEF TypeInv
<1>10. CASE OtherHears
  <2>1. there'.due /\ dirty' = dirty /\ pending' = pending /\ content' = content
    BY <1>0, <1>10 DEF OtherHears, dbVars, sqlite, TypeInv
  <2> QED
    BY <1>6, <2>1
<1>11. CASE OtherReads
  <2>1. there'.got = content /\ content' = content /\ dirty' = dirty /\ pending' = pending
    BY <1>11 DEF OtherReads, dbVars, sqlite
  <2> QED
    BY <1>6, <2>1
<1>12. CASE Dispose \/ UNCHANGED vars
  <2>1. /\ content' = content /\ dirty' = dirty /\ pending' = pending
        /\ channel' = channel /\ there' = there
    BY <1>12 DEF Dispose, vars, rxVars, dbVars, sqlite
  <2> QED
    BY <1>6, <2>1
<1> QED
  BY <1>7, <1>8, <1>9, <1>10, <1>11, <1>12 DEF Next

-----------------------------------------------------------------------------
(* The theorems.                                                           *)

LEMMA IInvStep == IInv /\ [Next]_vars => IInv'
<1> SUFFICES ASSUME IInv, [Next]_vars
             PROVE  IInv'
  OBVIOUS
<1>1. DbInv /\ QueueInv
  BY DEF IInv, QueueInv
<1>2. DbInv'
  BY <1>1, DbInvStep
<1>3. QueueInv'
  BY <1>1, StepKinds, QueueStep, QuietKeeps
<1>4. FreshOK' /\ TabOK' /\ OtherTabIsFresh'
  BY <1>1, FreshStep, TabStep DEF IInv
<1>8. ClosedOK'
  BY <1>1, ClosedStep DEF IInv
<1>5. SeesEarlierWrites'
  BY <1>1, StepKinds, ReadsSeeStep, QuietKeeps DEF IInv
<1>6. NoDirtyReads'
  BY <1>1, StepKinds, NoDirtyStep, QuietKeeps DEF IInv
<1>7. ResolvedWritesLast'
  BY <1>1, StepKinds, ResolvedStep, QuietKeeps DEF IInv
<1> QED
  BY <1>2, <1>3, <1>4, <1>5, <1>6, <1>7, <1>8 DEF IInv, QueueInv

\* The queue of topLevelMutex, the savepoint it guards and the caches of reads
\* always fit what their callers know.
THEOREM DatabaseInvariant == Spec => []IInv
  BY InitInv, IInvStep, PTL DEF Spec

\* A read sees every write that was called before it and did not fail, however
\* many callers queue: serialize drops the cache at every write, and what a
\* cached read must see is queued before it.
THEOREM ReadsSee == Spec => []SeesEarlierWrites
<1>1. IInv => SeesEarlierWrites
  BY DEF IInv
<1> QED
  BY <1>1, DatabaseInvariant, PTL

\* A read outside a transaction is run by the holder of topLevelMutex, when no
\* savepoint is open: it sees what is committed only, unless a transaction has
\* left its savepoint open because its RELEASE failed or #closed was set.
THEOREM NoDirty == Spec => []NoDirtyReads
<1>1. IInv => NoDirtyReads
  BY DEF IInv
<1> QED
  BY <1>1, DatabaseInvariant, PTL

\* A write that has resolved stays, and a transaction that was rejected left
\* nothing: no other write runs while a savepoint is open, unless one was left
\* open by a RELEASE that failed or that #closed kept from being called.
THEOREM ResolvedLast == Spec => []ResolvedWritesLast
<1>1. IInv => ResolvedWritesLast
  BY DEF IInv
<1> QED
  BY <1>1, DatabaseInvariant, PTL

\* A listener of this tab that has not seen what is committed of its rows is on
\* its way to read: the hook noted the rows, the timer called it, or it waits.
THEOREM ViewFresh == Spec => []ViewIsFresh
<1>1. IInv => ViewIsFresh
  <2> SUFFICES ASSUME IInv, ~Excused({"crossed", "release", "threw"}), NEW l \in subscribed,
                      got[l] \cap Watched(l) # content \cap Watched(l)
               PROVE  pending \cap Watched(l) # {} \/ l \in due \/ status[l] = "waiting"
    BY DEF ViewIsFresh
  <2>1. l \in Listener /\ got[l] \subseteq Write
    BY DEF IInv, DbInv, TypeInv
  <2>2. CASE (content \cap Watched(l)) \ got[l] # {}
    <3>1. (Visible \cap Watched(l)) \ got[l] # {}
      BY <2>2 DEF Visible
    <3> QED
      BY <3>1 DEF IInv, FreshOK
  <2>3. CASE (got[l] \cap Watched(l)) \ content # {}
    <3>1. ~IsOpen
      <4>1. ~(got[l] \subseteq content)
        BY <2>3
      <4>2. Excused({"crossed", "release", "closing"})
        BY <2>1, <4>1 DEF IInv, NoDirtyReads
      <4> QED
        BY <4>2 DEF IInv, ClosedOK, Excused
    <3>2. Ahead(l) # {}
      BY <2>3 DEF Ahead
    <3> QED
      BY <3>1, <3>2 DEF IInv, ClosedOK
  <2> QED
    BY <2>2, <2>3
<1> QED
  BY <1>1, DatabaseInvariant, PTL

\* Another tab that has not read what is committed is told again: what the hook
\* noted of a transaction is posted after its commit, or the post was early.
THEOREM OtherTabFresh == Spec => []OtherTabIsFresh
<1>1. IInv => OtherTabIsFresh
  BY DEF IInv
<1> QED
  BY <1>1, DatabaseInvariant, PTL

-----------------------------------------------------------------------------
(* Nobody waits in a circle.                                               *)

\* The calls that c makes.
Owns(c, kind) ==
  \/ c \in Listener /\ kind = "read"
  \/ c \in Writer /\ kind = "write"
  \/ c = Tx /\ kind = "tx"
  \/ c = Closer /\ kind \in {"finalize", "crsql_finalize", "close"}

\* Whoever waits has a call of its own in the queue, or shares the transaction's read.
AwaitsOK ==
  \A c \in Caller : status[c] = "waiting" =>
    \/ \E i \in Index : c \in queue[i].for /\ Owns(c, queue[i].kind)
    \/ c \in Listener /\ inner.kind = "read" /\ c \in inner.for

\* The transaction's function awaits nothing in the queue that it holds.
AloneOK ==
  "crossed" \in excused \/ \A i \in Index : Tx \in queue[i].for => queue[i].kind = "tx"

CircleInv == AwaitsOK /\ AloneOK

LEMMA AwaitsMoved ==
  ASSUME TypeInv, AwaitsOK, NEW d \in {0, 1}, NEW n \in {0, 1}, Len(queue) >= d,
         Moved(queue, queue', d, n),
         \A c \in Listener :
           inner.kind = "read" /\ c \in inner.for /\ status'[c] = "waiting" =>
             inner'.kind = "read" /\ c \in inner'.for,
         NEW job, n = 1 => queue'[Len(queue) - d + 1] = job,
         \A c \in Caller : status'[c] = "waiting" =>
           \/ n = 1 /\ c \in job.for /\ Owns(c, job.kind)
           \/ c \in Listener /\ inner'.kind = "read" /\ c \in inner'.for
           \/ status[c] = "waiting" /\ ~(d = 1 /\ c \in queue[1].for /\ Owns(c, queue[1].kind))
  PROVE  AwaitsOK'
<1> SUFFICES ASSUME NEW c \in Caller, status'[c] = "waiting"
             PROVE  \/ \E i \in Index' : c \in queue'[i].for /\ Owns(c, queue'[i].kind)
                    \/ c \in Listener /\ inner'.kind = "read" /\ c \in inner'.for
  BY DEF AwaitsOK, Owns
<1>0. Len(queue) \in Nat /\ Len(queue') = Len(queue) - d + n
  BY Heads DEF Moved
<1>1. CASE n = 1 /\ c \in job.for /\ Owns(c, job.kind)
  <2>1. Len(queue) - d + 1 \in Index'
    BY <1>0, <1>1 DEF Index
  <2> QED
    BY <1>1, <2>1
<1>2. CASE status[c] = "waiting" /\ ~(d = 1 /\ c \in queue[1].for /\ Owns(c, queue[1].kind))
  <2>1. CASE c \in Listener /\ inner.kind = "read" /\ c \in inner.for
    BY <2>1
  <2>2. CASE \E i \in Index : c \in queue[i].for /\ Owns(c, queue[i].kind)
    <3>1. PICK i \in Index : c \in queue[i].for /\ Owns(c, queue[i].kind)
      BY <2>2
    <3>2. ~(d = 1 /\ i = 1)
      BY <1>2, <3>1
    <3>j. PICK j : j = i - d
      OBVIOUS
    <3>3. j \in 1 .. Len(queue) - d /\ j + d = i /\ j \in Index'
      BY <1>0, <3>2, <3>j DEF Index
    <3>4. queue'[j].kind = queue[i].kind /\ queue'[j].for = queue[i].for
      BY <3>3 DEF Moved
    <3> QED
      BY <3>1, <3>3, <3>4
  <2> QED
    BY <1>2, <2>1, <2>2 DEF AwaitsOK
<1> QED
  BY <1>1, <1>2

LEMMA AwaitsAwaited ==
  ASSUME TypeInv, AwaitsOK, NEW x, NEW i \in Index, queue[i].kind = "read",
         Awaited(queue, queue', i, x), inner' = inner,
         \A c \in Caller : status'[c] = "waiting" => status[c] = "waiting" \/ (c = x /\ x \in Listener)
  PROVE  AwaitsOK'
<1> SUFFICES ASSUME NEW c \in Caller, status'[c] = "waiting"
             PROVE  \/ \E j \in Index' : c \in queue'[j].for /\ Owns(c, queue'[j].kind)
                    \/ c \in Listener /\ inner'.kind = "read" /\ c \in inner'.for
  BY DEF AwaitsOK, Owns
<1>1. /\ Index' = Index /\ \A j \in Index : queue'[j].kind = queue[j].kind
      /\ \A j \in Index : queue[j].for \subseteq queue'[j].for
      /\ x \in queue'[i].for
  BY Heads DEF Awaited, Index
<1>2. CASE c = x /\ x \in Listener
  BY <1>1, <1>2 DEF Owns
<1>3. CASE status[c] = "waiting"
  BY <1>1, <1>3 DEF AwaitsOK
<1> QED
  BY <1>2, <1>3

LEMMA AloneMoved ==
  ASSUME TypeInv, AloneOK, NEW d \in {0, 1}, NEW n \in {0, 1}, Len(queue) >= d,
         Moved(queue, queue', d, n), excused \subseteq excused',
         NEW job, n = 1 => queue'[Len(queue) - d + 1] = job,
         n = 1 => Tx \notin job.for \/ job.kind = "tx"
  PROVE  AloneOK'
<1>0. Len(queue) \in Nat /\ Len(queue') = Len(queue) - d + n
  BY Heads DEF Moved
<1> SUFFICES ASSUME "crossed" \notin excused', NEW i \in Index', Tx \in queue'[i].for
             PROVE  queue'[i].kind = "tx"
  BY DEF AloneOK
<1>1. \/ i \in 1 .. Len(queue) - d /\ i + d \in Index
      \/ n = 1 /\ i = Len(queue) - d + 1
  BY <1>0 DEF Index
<1>2. CASE i \in 1 .. Len(queue) - d /\ i + d \in Index
  <2>1. queue'[i].kind = queue[i + d].kind /\ queue'[i].for = queue[i + d].for
    BY <1>2 DEF Moved
  <2> QED
    BY <1>2, <2>1 DEF AloneOK
<1> QED
  BY <1>1, <1>2

LEMMA AloneAwaited ==
  ASSUME TypeInv, AloneOK, NEW x, NEW i \in Index, Awaited(queue, queue', i, x),
         excused \subseteq excused', x # Tx \/ "crossed" \in excused'
  PROVE  AloneOK'
<1>1. /\ Index' = Index
      /\ \A j \in Index : /\ queue'[j].kind = queue[j].kind
                          /\ queue'[j].for \subseteq queue[j].for \cup {x}
  BY Heads DEF Awaited, Index
<1> QED
  BY <1>1 DEF AloneOK

\* A step that adds no call and takes none from the front, or takes the first one and
\* settles what its callers wait for.
LEMMA CircleMoved ==
  ASSUME TypeInv, CircleInv, NEW d \in {0, 1}, Len(queue) >= d, Moved(queue, queue', d, 0),
         excused \subseteq excused',
         \A c \in Listener :
           inner.kind = "read" /\ c \in inner.for /\ status'[c] = "waiting" =>
             inner'.kind = "read" /\ c \in inner'.for,
         \A c \in Caller : status'[c] = "waiting" =>
           \/ c \in Listener /\ inner'.kind = "read" /\ c \in inner'.for
           \/ status[c] = "waiting" /\ ~(d = 1 /\ c \in queue[1].for /\ Owns(c, queue[1].kind))
  PROVE  CircleInv'
<1>1. AwaitsOK'
  BY AwaitsMoved DEF CircleInv
<1>2. AloneOK'
  BY AloneMoved DEF CircleInv
<1> QED
  BY <1>1, <1>2 DEF CircleInv

\* A step of c that adds a call of its own.
LEMMA CircleAdded ==
  ASSUME TypeInv, CircleInv, NEW d \in {0, 1}, Len(queue) >= d, Moved(queue, queue', d, 1),
         NEW c \in Caller, NEW kind \in Kind, NEW cached \in BOOLEAN,
         queue'[Len(queue) - d + 1] = Job(kind, c, cached), Owns(c, kind),
         inner'.kind = inner.kind, inner'.for = inner.for, excused' = excused,
         \A o \in Caller : o # c => status'[o] = status[o],
         d = 1 => c = Closer /\ queue[1].kind \in {"finalize", "crsql_finalize"}
  PROVE  CircleInv'
<1>j. PICK job : job = Job(kind, c, cached)
  OBVIOUS
<1>1. job.for = {c} /\ job.kind = kind
  BY <1>j, Jobs
<1>2. ASSUME NEW o \in Caller, o # c, d = 1 PROVE ~Owns(o, queue[1].kind)
  BY <1>2, Callers DEF Owns
<1>3. AwaitsOK'
  <2>1. \A o \in Caller : status'[o] = "waiting" =>
          \/ o \in job.for /\ Owns(o, job.kind)
          \/ status[o] = "waiting" /\ ~(d = 1 /\ o \in queue[1].for /\ Owns(o, queue[1].kind))
    BY <1>1, <1>2
  <2> QED
    BY <1>j, <2>1, AwaitsMoved DEF CircleInv
<1>4. AloneOK'
  <2>1. Tx \notin job.for \/ job.kind = "tx"
    BY <1>1, Callers DEF Owns
  <2> QED
    BY <1>j, <2>1, AloneMoved DEF CircleInv
<1> QED
  BY <1>3, <1>4 DEF CircleInv

LEMMA CircleStep ==
  ASSUME DbInv, CircleInv, DbStep
  PROVE  CircleInv'
<1> USE Callers
<1>0. TypeInv /\ JobsOK /\ InnerOK /\ Len(queue) \in Nat /\ Len(queue) >= 0
  BY Heads DEF DbInv
<1>i. 1 \in Index => Len(queue) >= 1
  BY <1>0 DEF Index
<1>m. Moved(queue, queue, 0, 0)
  BY <1>0, Motions DEF TypeInv
<1>a. Len(queue) - 1 + 1 = Len(queue)
  BY <1>0
<1>d. PICK d \in {0, 1} : d = 0
  OBVIOUS
<1>1. ASSUME NEW l \in Listener, CallRead(l)
      PROVE  CircleInv'
  <2>1. status'[l] = "waiting" /\ \A o \in Caller : o # l => status'[o] = status[o]
    BY <1>0, <1>1, StatusMoves DEF CallRead
  <2>2. ASSUME NEW i \in Index, queue[i].cached, Awaited(queue, queue', i, l), inner' = inner,
               excused \subseteq excused'
        PROVE  CircleInv'
    <3>1. queue[i].kind = "read"
      BY <1>0, <2>2 DEF JobsOK
    <3>2. \A c \in Caller : status'[c] = "waiting" => status[c] = "waiting" \/ (c = l /\ l \in Listener)
      BY <2>1
    <3>3. AwaitsOK'
      BY <1>0, <2>2, <3>1, <3>2, AwaitsAwaited DEF CircleInv
    <3>4. AloneOK'
      BY <1>0, <2>2, AloneAwaited DEF CircleInv
    <3> QED
      BY <3>3, <3>4 DEF CircleInv
  <2>3. CASE /\ inner.cached /\ inner' = [inner EXCEPT !.for = @ \cup {l}]
             /\ queue' = queue /\ excused' = excused \cup {"crossed"}
    <3>1. inner'.kind = "read" /\ inner.for \subseteq inner'.for /\ l \in inner'.for
      BY <1>0, <2>3, InnerAwaited DEF InnerOK
    <3> QED
      BY <1>0, <1>m, <2>1, <2>3, <3>1, CircleMoved
  <2>4. CASE /\ Moved(queue, queue', 0, 1)
             /\ queue'[Len(queue) + 1] = Job("read", l, TRUE)
             /\ inner' = inner /\ excused' = excused
    <3>1. Owns(l, "read") /\ "read" \in Kind
      BY DEF Owns, Kind
    <3>2. /\ Moved(queue, queue', d, 1) /\ queue'[Len(queue) - d + 1] = Job("read", l, TRUE)
          /\ Len(queue) >= d /\ d # 1 /\ TRUE \in BOOLEAN /\ l \in Caller
      <4>1. Moved(queue, queue', d, 1)
        BY <1>d, <2>4
      <4>2. Len(queue) - d + 1 = Len(queue) + 1 /\ Len(queue) >= d /\ d # 1
        BY <1>0, <1>d
      <4> QED
        BY <2>4, <4>1, <4>2
    <3> QED
      BY <1>0, <2>1, <2>4, <3>1, <3>2, CircleAdded
  <2>5. excused \subseteq excused'
    BY <1>1 DEF CallRead
  <2> QED
    BY <1>0, <1>1, <2>2, <2>3, <2>4, <2>5, CallReadMoves
<1>2. ASSUME NEW w \in Writer, CallWrite(w)
      PROVE  CircleInv'
  <2>1. /\ \A o \in Caller : o # w => status'[o] = status[o]
        /\ inner'.kind = inner.kind /\ inner'.for = inner.for /\ excused' = excused
    BY <1>0, <1>2, StatusMoves, InnerUncached DEF CallWrite
  <2>2. Owns(w, "write") /\ "write" \in Kind
    BY DEF Owns, Kind
  <2>3. /\ Moved(queue, queue', d, 1) /\ queue'[Len(queue) - d + 1] = Job("write", w, FALSE)
        /\ Len(queue) >= d /\ d # 1 /\ FALSE \in BOOLEAN /\ w \in Caller
    <3>1. Moved(queue, queue', 0, 1)
      BY <1>0, <1>2, DbMoves
    <3>2. Moved(queue, queue', d, 1)
      BY <1>d, <3>1
    <3>3. Len(queue) - d + 1 = Len(queue) + 1 /\ Len(queue) >= d /\ d # 1
      BY <1>0, <1>d
    <3> QED
      BY <1>0, <1>2, <3>2, <3>3, DbMoves
  <2> QED
    BY <1>0, <2>1, <2>2, <2>3, CircleAdded
<1>3. ASSUME CallTx
      PROVE  CircleInv'
  <2>1. /\ \A o \in Caller : o # Tx => status'[o] = status[o]
        /\ inner' = inner /\ excused' = excused
    BY <1>0, <1>3, StatusMoves DEF CallTx
  <2>2. Owns(Tx, "tx") /\ "tx" \in Kind
    BY DEF Owns, Kind
  <2>3. /\ Moved(queue, queue', d, 1) /\ queue'[Len(queue) - d + 1] = Job("tx", Tx, FALSE)
        /\ Len(queue) >= d /\ d # 1 /\ FALSE \in BOOLEAN /\ Tx \in Caller
    <3>1. Moved(queue, queue', 0, 1)
      BY <1>0, <1>3, DbMoves
    <3>2. Moved(queue, queue', d, 1)
      BY <1>d, <3>1
    <3>3. Len(queue) - d + 1 = Len(queue) + 1 /\ Len(queue) >= d /\ d # 1
      BY <1>0, <1>d
    <3> QED
      BY <1>0, <1>3, <3>2, <3>3, DbMoves
  <2> QED
    BY <1>0, <2>1, <2>2, <2>3, CircleAdded
<1>4. ASSUME CallClose
      PROVE  CircleInv'
  <2>1. /\ \A o \in Caller : o # Closer => status'[o] = status[o]
        /\ inner' = inner /\ excused' = excused
    BY <1>0, <1>4, StatusMoves DEF CallClose
  <2>2. Owns(Closer, "finalize") /\ "finalize" \in Kind
    BY DEF Owns, Kind
  <2>3. /\ Moved(queue, queue', d, 1) /\ queue'[Len(queue) - d + 1] = Job("finalize", Closer, FALSE)
        /\ Len(queue) >= d /\ d # 1 /\ FALSE \in BOOLEAN /\ Closer \in Caller
    <3>1. Moved(queue, queue', 0, 1)
      BY <1>0, <1>4, DbMoves
    <3>2. Moved(queue, queue', d, 1)
      BY <1>d, <3>1
    <3>3. Len(queue) - d + 1 = Len(queue) + 1 /\ Len(queue) >= d /\ d # 1
      BY <1>0, <1>d
    <3> QED
      BY <1>0, <1>4, <3>2, <3>3, DbMoves
  <2> QED
    BY <1>0, <2>1, <2>2, <2>3, CircleAdded
<1>5. ASSUME RunRead
      PROVE  CircleInv'
  <2>1. /\ Moved(queue, queue', 1, 0) /\ 1 \in Index /\ inner' = inner /\ excused' = excused
        /\ queue[1].kind = "read" /\ SettleRead(queue[1])
    BY <1>0, <1>5, DbMoves, Heads DEF RunRead
  <2>2. \A c \in Caller : status'[c] = IF c \in queue[1].for \cap Listener THEN "done" ELSE status[c]
    BY <1>0, <2>1, StatusMoves
  <2>3. \A c \in Caller : Owns(c, "read") => c \in Listener
    BY DEF Owns
  <2> QED
    BY <1>0, <1>i, <2>1, <2>2, <2>3, CircleMoved
<1>6. ASSUME RunWrite
      PROVE  CircleInv'
  <2>1. Moved(queue, queue', 1, 0) /\ 1 \in Index /\ inner' = inner /\ excused' = excused
    BY <1>0, <1>6, DbMoves DEF RunWrite
  <2>2. PICK w \in Writer : /\ queue[1].for = {w} /\ status'[w] \in {"done", "failed"}
                            /\ \A o \in Caller : o # w => status'[o] = status[o]
    BY <1>0, <1>6, StatusMoves
  <2> QED
    BY <1>0, <1>i, <2>1, <2>2, CircleMoved
<1>7. ASSUME RefuseTx \/ EndTx
      PROVE  CircleInv'
  <2>1. /\ Moved(queue, queue', 1, 0) /\ 1 \in Index /\ inner' = inner /\ excused \subseteq excused'
        /\ queue[1].kind = "tx"
    BY <1>0, <1>7, DbMoves, Heads DEF RefuseTx, EndTx, InTx
  <2>2. status'[Tx] \in {"done", "failed"} /\ \A o \in Caller : o # Tx => status'[o] = status[o]
    BY <1>0, <1>7, StatusMoves
  <2>3. \A c \in Caller : Owns(c, "tx") => c = Tx
    BY DEF Owns
  <2> QED
    BY <1>0, <1>i, <2>1, <2>2, <2>3, CircleMoved
<1>8. ASSUME RunClose
      PROVE  CircleInv'
  <2>1. /\ Moved(queue, queue', 1, 0) /\ 1 \in Index /\ inner' = inner /\ excused' = excused
        /\ queue[1].kind = "close"
    BY <1>0, <1>8, DbMoves, Heads DEF RunClose
  <2>2. status'[Closer] = "done" /\ \A o \in Caller : o # Closer => status'[o] = status[o]
    BY <1>0, <1>8 DEF RunClose, TypeInv
  <2>3. \A c \in Caller : Owns(c, "close") => c = Closer
    BY DEF Owns
  <2> QED
    BY <1>0, <1>i, <2>1, <2>2, <2>3, CircleMoved
<1>9. ASSUME RunFinalize \/ RunCrsqlFinalize
      PROVE  CircleInv'
  <2>1. /\ Moved(queue, queue', 1, 1) /\ 1 \in Index /\ inner' = inner /\ excused' = excused
        /\ status' = status /\ queue[1].kind \in {"finalize", "crsql_finalize"}
    BY <1>0, <1>9, DbMoves, Heads DEF RunFinalize, RunCrsqlFinalize
  <2>2. PICK k \in {"crsql_finalize", "close"} : queue'[Len(queue)] = Job(k, Closer, FALSE)
    BY <1>0, <1>9, DbMoves
  <2>3. Owns(Closer, k) /\ k \in Kind
    BY DEF Owns, Kind
  <2> QED
    BY <1>0, <1>i, <1>a, <2>1, <2>2, <2>3, CircleAdded
<1>10. ASSUME BeginTx \/ TxRunWrite
       PROVE  CircleInv'
  <2>1. /\ queue' = queue /\ status' = status /\ excused' = excused
        /\ inner' = inner \/ inner.kind = "write"
    BY <1>10 DEF BeginTx, TxRunWrite, mutexes
  <2> QED
    BY <1>0, <1>m, <2>1, CircleMoved
<1>11. ASSUME TxRunRead
       PROVE  CircleInv'
  <2>1. Moved(queue, queue', 0, 0) /\ SettleRead(inner) /\ excused' = excused
    BY <1>0, <1>11, DbMoves DEF TxRunRead
  <2>2. \A c \in Caller : status'[c] = IF c \in inner.for \cap Listener THEN "done" ELSE status[c]
    BY <1>0, <2>1, StatusMoves
  <2> QED
    BY <1>0, <2>1, <2>2, CircleMoved
<1>12. ASSUME NEW w \in TxWrite, TxCallWrite(w)
       PROVE  CircleInv'
  <2>1. /\ Moved(queue, queue', 0, 0) /\ status' = status /\ excused' = excused
        /\ inner.kind # "read"
    BY <1>0, <1>12, DbMoves DEF TxCallWrite, InTx, NoJob
  <2> QED
    BY <1>0, <2>1, CircleMoved
<1>13. ASSUME TxCallRead
       PROVE  CircleInv'
  <2>1. status' = status /\ excused \subseteq excused' /\ inner.kind # "read"
    BY <1>13 DEF TxCallRead, InTx, NoJob
  <2>2. ASSUME NEW i \in Index, queue[i].cached, Awaited(queue, queue', i, Tx), inner' = inner,
               "crossed" \in excused'
        PROVE  CircleInv'
    <3>1. queue[i].kind = "read"
      BY <1>0, <2>2 DEF JobsOK
    <3>2. AwaitsOK'
      BY <1>0, <2>1, <2>2, <3>1, AwaitsAwaited DEF CircleInv
    <3>3. AloneOK'
      BY <1>0, <2>1, <2>2, AloneAwaited DEF CircleInv
    <3> QED
      BY <3>2, <3>3 DEF CircleInv
  <2>3. CASE queue' = queue
    BY <1>0, <1>m, <2>1, <2>3, CircleMoved
  <2> QED
    BY <1>0, <1>13, <2>2, <2>3, DbMoves
<1> QED
  BY <1>1, <1>2, <1>3, <1>4, <1>5, <1>6, <1>7, <1>8, <1>9, <1>10, <1>11, <1>12, <1>13
  DEF DbStep, DbCall, DbRun, DbTx

LEMMA CircleInit == Init => CircleInv
<1> SUFFICES ASSUME Init PROVE CircleInv
  OBVIOUS
<1>1. queue = <<>> /\ status = [c \in Caller |-> "idle"]
  BY DEF Init, DbInit
<1>2. Index = {}
  BY <1>1 DEF Index
<1> QED
  BY <1>1, <1>2 DEF CircleInv, AwaitsOK, AloneOK

LEMMA CircleNext == DbInv /\ CircleInv /\ [Next]_vars => CircleInv'
<1> SUFFICES ASSUME DbInv, CircleInv, [Next]_vars PROVE CircleInv'
  OBVIOUS
<1>1. CASE Quiet
  BY <1>1 DEF Quiet, CircleInv, AwaitsOK, AloneOK, Index
<1> QED
  BY <1>1, StepKinds, CircleStep

\* serialize: whoever waits is awaiting a call that a mutex has, and somebody can go on.
\* A circle would need the transaction's function to await a call queued behind the
\* transaction, and only the cache that it shares with the database makes it do so.
THEOREM NoCircle == Spec => []NobodyWaitsInACircle
<1>1. IInv /\ CircleInv => NobodyWaitsInACircle
  <2> SUFFICES ASSUME IInv, CircleInv, NEW c \in Caller, status[c] = "waiting"
               PROVE  /\ c \in inner.for \/ \E i \in DOMAIN queue : c \in queue[i].for
                      /\ CanGoOn \/ Excused({"crossed"})
    BY DEF NobodyWaitsInACircle
  <2>0. TypeInv /\ JobsOK /\ InnerOK
    BY DEF IInv, DbInv
  <2>1. \/ \E i \in Index : c \in queue[i].for
        \/ inner.kind = "read" /\ c \in inner.for
    BY DEF CircleInv, AwaitsOK
  <2>2. ASSUME "crossed" \notin excused, inner.kind = "none" PROVE CanGoOn
    <3>1. inner = NoJob /\ queue # <<>> /\ Len(queue) \in Nat
      BY <2>0, <2>1, <2>2, Heads DEF InnerOK, Index
    <3>2. CASE Holds("tx") /\ open
      <4>1. 1 \in Index /\ queue[1].kind = "tx"
        BY <2>0, <3>2, Heads
      <4>2. ASSUME NEW i \in 2 .. Len(queue) PROVE Tx \notin queue[i].for
        <5>1. i \in Index /\ i # 1
          BY <3>1 DEF Index
        <5>2. queue[i].kind # "tx"
          BY <2>0, <4>1, <5>1 DEF JobsOK
        <5> QED
          BY <2>2, <5>1, <5>2 DEF CircleInv, AloneOK
      <4>3. Tx \notin UNION {queue[i].for : i \in 2 .. Len(queue)}
        BY <4>2
      <4> QED
        BY <3>1, <3>2, <4>3 DEF InTx, CanGoOn
    <3> QED
      BY <3>1, <3>2 DEF CanGoOn, Holds
  <2> QED
    BY <2>0, <2>1, <2>2, Heads DEF CanGoOn, Excused
<1>2. Spec => []CircleInv
  <2>1. IInv /\ CircleInv /\ [Next]_vars => CircleInv'
    BY CircleNext DEF IInv
  <2> QED
    BY <2>1, CircleInit, DatabaseInvariant, PTL DEF Spec
<1> QED
  BY <1>1, <1>2, DatabaseInvariant, PTL

=============================================================================
