--------------------------- MODULE DirectDownProofs ---------------------------
(***************************************************************************)
(* Theorems about DirectDown for any versions, sources, breaks and         *)
(* failures: the browser holds what it tracks, and when nothing is under   *)
(* way all there is, unless one restart of the stream overtook another;    *)
(* and what it tracks never goes back.                                     *)
(***************************************************************************)
EXTENDS DirectDown, SequenceTheorems, WellFoundedInduction, TLAPS

-----------------------------------------------------------------------------
\* The inductive invariant.  A message says all that happened between its ends, and
\* it begins where the ones before it, or the transaction, have come already: a
\* message that does not follow the last one repeats, and never leaves a gap.

\* What a server at version n, of whose versions those in f are others', may send.
Faithful(n, f) ==
  {msg \in [seqStart : Nat, seqEnd : 0 .. n, changes : SUBSET Nat] :
     msg.changes = {v \in f : msg.seqStart < v /\ v <= msg.seqEnd}}

SourceOf(n, f) ==
  [at : {"connecting", "open", "closed"}, url : Nat, since : 0 .. n, due : BOOLEAN,
   wire : Seq(Faithful(n, f))]

ClientOf(n, f) ==
  [started : BOOLEAN, asking : Nat, timers : Nat, seq : Nat, source : Nat,
   pendingWrites : Seq(Faithful(n, f)), writes : Seq(Faithful(n, f)),
   inflight : {"none", "waiting", "writing", "stuck"}]

Content == [held : SUBSET Nat, tracked : Nat]

TypeInv ==
  /\ version \in Nat /\ foreign \subseteq 1 .. version
  /\ sources \in [Source -> SourceOf(version, foreign)]
  /\ client \in ClientOf(version, foreign)
  /\ db \in Content /\ tx \in Content

\* The versions reached once the messages of q are applied to what reaches R.
After(R, q) == R \cup {n \in Nat : \E k \in DOMAIN q : n <= q[k].seqEnd}

\* Each message of q begins in R or within the reach of one before it.
Linked(R, q) ==
  \A k \in DOMAIN q : q[k].seqStart \in R \/ \E j \in 1 .. k - 1 : q[k].seqStart <= q[j].seqEnd

Applied == After(0 .. tx.tracked, client.writes)
Collected == After(Applied, client.pendingWrites)

TrackOK ==
  /\ db.tracked <= tx.tracked /\ tx.tracked <= version
  /\ client.inflight # "writing" => tx = db
  /\ client.inflight \in {"none", "stuck"} => client.writes = <<>>
  /\ \A i \in Source : sources[i].url <= db.tracked /\ (sources[i].due => sources[i].at = "open")

\* One restart at a time, and one source.
OneSource ==
  /\ client.timers + client.asking <= 1
  /\ client.started <=> client.timers = 0
  /\ \A i \in Source :
       sources[i].at # "closed" => i = client.source /\ client.timers + client.asking = 0

ChainOK ==
  client.inflight # "stuck" =>
    /\ Linked(0 .. tx.tracked, client.writes)
    /\ Linked(Applied, client.pendingWrites)
    /\ \A i \in Source : /\ Linked(Collected, sources[i].wire)
                         /\ sources[i].since \in After(Collected, sources[i].wire)

Contiguous(c) == {v \in foreign : v <= c.tracked} \subseteq c.held

DownInv ==
  /\ TypeInv /\ TrackOK
  /\ excused = {} => OneSource /\ ChainOK /\ Contiguous(db) /\ Contiguous(tx)

-----------------------------------------------------------------------------
\* What a sequence of messages reaches.

AnyMessage == [seqStart : Nat, seqEnd : Nat, changes : SUBSET Nat]

LEMMA FaithfulMessages ==
  ASSUME NEW n \in Nat, NEW f, NEW q \in Seq(Faithful(n, f))
  PROVE  q \in Seq(AnyMessage)
  <1>1. Faithful(n, f) \subseteq AnyMessage
    BY DEF Faithful, AnyMessage
  <1> QED BY <1>1, SeqMonotonic

LEMMA AfterEmpty == ASSUME NEW R PROVE After(R, <<>>) = R /\ Linked(R, <<>>)
  <1>1. DOMAIN <<>> = {}
    OBVIOUS
  <1> QED BY <1>1 DEF After, Linked

LEMMA AfterHolds == ASSUME NEW R, NEW q PROVE R \subseteq After(R, q)
  BY DEF After

LEMMA AfterAppend ==
  ASSUME NEW R, NEW q \in Seq(AnyMessage), NEW m \in AnyMessage
  PROVE  /\ After(R, Append(q, m)) = After(R, q) \cup 0 .. m.seqEnd
         /\ Linked(R, q) /\ m.seqStart \in After(R, q) => Linked(R, Append(q, m))
  <1>1. PICK r, n : r = Append(q, m) /\ n = Len(q)
    OBVIOUS
  <1>2. /\ n \in Nat /\ DOMAIN q = 1 .. n /\ DOMAIN r = 1 .. n + 1
        /\ \A k \in 1 .. n : r[k] = q[k] /\ q[k] \in AnyMessage
        /\ r[n + 1] = m
    BY <1>1, AppendProperties, LenProperties, ElementOfSeq
  <1>3. m.seqEnd \in Nat /\ m.seqStart \in Nat /\ \A k \in 1 .. n : q[k].seqEnd \in Nat
    BY <1>2 DEF AnyMessage
  <1>4. ASSUME NEW x PROVE x \in After(R, r) <=> x \in After(R, q) \/ x \in 0 .. m.seqEnd
    <2>1. CASE x \in R
      BY <2>1 DEF After
    <2>2. CASE x \notin R
      <3>1. ASSUME x \in Nat, NEW k \in DOMAIN r, x <= r[k].seqEnd
            PROVE  (\E j \in DOMAIN q : x <= q[j].seqEnd) \/ x <= m.seqEnd
        BY <1>2, <3>1
      <3>2. ASSUME x \in Nat, NEW k \in DOMAIN q, x <= q[k].seqEnd
            PROVE  \E j \in DOMAIN r : x <= r[j].seqEnd
        BY <1>2, <3>2
      <3>3. ASSUME x \in 0 .. m.seqEnd
            PROVE  \E j \in DOMAIN r : x <= r[j].seqEnd
        BY <1>2, <1>3, <3>3
      <3> QED BY <1>3, <2>2, <3>1, <3>2, <3>3 DEF After
    <2> QED BY <2>1, <2>2
  <1>5. ASSUME Linked(R, q), m.seqStart \in After(R, q) PROVE Linked(R, r)
    <2>1. ASSUME NEW k \in 1 .. n
          PROVE  r[k].seqStart \in R \/ \E j \in 1 .. k - 1 : r[k].seqStart <= r[j].seqEnd
      BY <1>2, <1>5, <2>1 DEF Linked
    <2>2. m.seqStart \in R \/ \E j \in 1 .. n : m.seqStart <= r[j].seqEnd
      BY <1>2, <1>5 DEF After
    <2>3. ASSUME NEW k \in DOMAIN r
          PROVE  r[k].seqStart \in R \/ \E j \in 1 .. k - 1 : r[k].seqStart <= r[j].seqEnd
      BY <1>2, <2>1, <2>2, <2>3
    <2> QED BY <2>3 DEF Linked
  <1> QED BY <1>1, <1>4, <1>5

LEMMA AfterHead ==
  ASSUME NEW R, NEW q \in Seq(AnyMessage), q # <<>>
  PROVE  /\ After(R \cup 0 .. Head(q).seqEnd, Tail(q)) = After(R, q)
         /\ Linked(R, q) => /\ Head(q).seqStart \in R
                            /\ Linked(R \cup 0 .. Head(q).seqEnd, Tail(q))
  <1>1. PICK r, m, n, S : r = Tail(q) /\ m = Head(q) /\ n = Len(q) /\ S = R \cup 0 .. m.seqEnd
    OBVIOUS
  <1>2. /\ n \in Nat /\ n >= 1 /\ DOMAIN q = 1 .. n /\ m = q[1]
        /\ \A k \in 1 .. n : q[k] \in AnyMessage
    BY <1>1, EmptySeq, LenProperties, ElementOfSeq
  <1>3. /\ DOMAIN r = 1 .. n - 1
        /\ \A k \in 1 .. n - 1 : r[k] = q[k + 1]
    BY <1>1, HeadTailProperties, LenProperties
  <1>4. \A k \in 1 .. n : q[k].seqEnd \in Nat /\ q[k].seqStart \in Nat
    BY <1>2 DEF AnyMessage
  <1>5. ASSUME NEW x PROVE x \in After(S, r) <=> x \in After(R, q)
    <2>1. ASSUME x \in After(S, r) PROVE x \in After(R, q)
      <3>1. CASE x \in R
        BY <3>1 DEF After
      <3>2. CASE x \in 0 .. m.seqEnd
        BY <1>2, <1>4, <3>2 DEF After
      <3>3. ASSUME x \in Nat, NEW k \in DOMAIN r, x <= r[k].seqEnd PROVE x \in After(R, q)
        <4>1. k + 1 \in DOMAIN q /\ x <= q[k + 1].seqEnd
          BY <1>2, <1>3, <3>3
        <4> QED BY <3>3, <4>1 DEF After
      <3> QED BY <1>1, <2>1, <3>1, <3>2, <3>3 DEF After
    <2>2. ASSUME x \in After(R, q) PROVE x \in After(S, r)
      <3>1. CASE x \in R
        BY <1>1, <3>1 DEF After
      <3>2. ASSUME x \in Nat, NEW k \in DOMAIN q, x <= q[k].seqEnd PROVE x \in After(S, r)
        <4>1. CASE k = 1
          BY <1>1, <1>2, <1>4, <3>2, <4>1 DEF After
        <4>2. CASE k # 1
          <5>1. k - 1 \in DOMAIN r /\ x <= r[k - 1].seqEnd
            BY <1>2, <1>3, <3>2, <4>2
          <5> QED BY <3>2, <5>1 DEF After
        <4> QED BY <4>1, <4>2
      <3> QED BY <2>2, <3>1, <3>2 DEF After
    <2> QED BY <2>1, <2>2
  <1>6. ASSUME Linked(R, q) PROVE m.seqStart \in R /\ Linked(S, r)
    <2>1. m.seqStart \in R
      BY <1>2, <1>6 DEF Linked
    <2>2. ASSUME NEW k \in DOMAIN r
          PROVE  r[k].seqStart \in S \/ \E j \in 1 .. k - 1 : r[k].seqStart <= r[j].seqEnd
      <3>1. k + 1 \in 1 .. n /\ r[k] = q[k + 1]
        BY <1>2, <1>3
      <3>2. CASE q[k + 1].seqStart \in R
        BY <1>1, <3>1, <3>2
      <3>3. ASSUME NEW j \in 1 .. k, q[k + 1].seqStart <= q[j].seqEnd
            PROVE  q[k + 1].seqStart \in S \/ \E i \in 1 .. k - 1 : q[k + 1].seqStart <= r[i].seqEnd
        <4>1. CASE j = 1
          BY <1>1, <1>2, <1>4, <3>1, <3>3, <4>1
        <4>2. CASE j # 1
          <5>1. j - 1 \in 1 .. k - 1 /\ r[j - 1] = q[j]
            BY <1>2, <1>3, <3>1, <4>2
          <5> QED BY <3>3, <5>1
        <4> QED BY <4>1, <4>2
      <3>4. q[k + 1].seqStart \in R \/ \E j \in 1 .. k : q[k + 1].seqStart <= q[j].seqEnd
        <4>1. q[k + 1].seqStart \in R \/ \E j \in 1 .. (k + 1) - 1 : q[k + 1].seqStart <= q[j].seqEnd
          BY <1>2, <1>6, <3>1 DEF Linked
        <4>2. (k + 1) - 1 = k
          BY <1>3
        <4> QED BY <4>1, <4>2
      <3> QED BY <3>1, <3>2, <3>3, <3>4
    <2> QED BY <2>1, <2>2 DEF Linked
  <1> QED BY <1>1, <1>5, <1>6

-----------------------------------------------------------------------------
\* The largest version that changed is one that changed.

LEMMA MaxOf ==
  ASSUME NEW n \in Nat, NEW S, S \subseteq 0 .. n, S # {}
  PROVE  Max(S) \in S /\ \A v \in S : v <= Max(S)
  <1>1. PICK T : T = {k \in Nat : n - k \in S}
    OBVIOUS
  <1>2. T \subseteq Nat /\ T # {}
    <2>1. PICK v \in S : TRUE
      OBVIOUS
    <2>2. n - v \in Nat /\ n - (n - v) = v
      BY <2>1
    <2> QED BY <1>1, <2>1, <2>2
  <1>3. PICK k \in T : \A j \in T : k <= j
    <2> DEFINE R == OpToRel(<, Nat)
    <2>1. IsWellFoundedOn(R, Nat)
      BY NatLessThanWellFounded
    <2>w. \A j, k \in Nat : j < k => <<j, k>> \in R
      BY DEF OpToRel
    <2> HIDE DEF R
    <2>2. PICK k \in T : \A j \in T : ~(<<j, k>> \in R)
      BY <1>2, <2>1, WFMin
    <2>3. ASSUME NEW j \in T PROVE k <= j
      <3>1. j \in Nat /\ k \in Nat /\ <<j, k>> \notin R
        BY <1>2, <2>2
      <3>2. ~(j < k)
        BY <2>w, <3>1, Zenon
      <3> QED BY <3>1, <3>2
    <2> QED BY <2>3
  <1>4. n - k \in S /\ \A v \in S : n - k >= v
    <2>1. n - k \in S /\ k \in Nat
      BY <1>1, <1>2
    <2>2. ASSUME NEW v \in S PROVE n - k >= v
      <3>1. n - v \in Nat /\ n - (n - v) = v /\ v \in Nat
        BY <2>2
      <3>2. k <= n - v
        BY <1>1, <1>3, <3>1
      <3> QED BY <2>1, <3>1, <3>2
    <2> QED BY <2>1, <2>2
  <1>5. Max(S) \in S /\ \A v \in S : Max(S) >= v
    BY <1>4 DEF Max
  <1>6. \A v \in S : v \in Nat
    OBVIOUS
  <1> QED BY <1>5, <1>6

LEMMA MaxOfTwo ==
  ASSUME NEW a \in Nat, NEW b \in Nat
  PROVE  /\ Max({a, b}) \in {a, b} /\ a <= Max({a, b}) /\ b <= Max({a, b})
         /\ 0 .. Max({a, b}) = (0 .. a) \cup (0 .. b)
  <1>1. {a, b} \subseteq 0 .. (a + b) /\ a + b \in Nat
    OBVIOUS
  <1>2. Max({a, b}) \in {a, b} /\ a <= Max({a, b}) /\ b <= Max({a, b})
    BY <1>1, MaxOf
  <1>3. PICK m : m = Max({a, b})
    OBVIOUS
  <1> QED BY <1>2, <1>3

-----------------------------------------------------------------------------
\* What the parts of the state are.

LEMMA FaithfulGrows ==
  ASSUME NEW n \in Nat, NEW f, NEW g, f \subseteq 1 .. n, f \subseteq g, g \subseteq f \cup {n + 1}
  PROVE  Faithful(n, f) \subseteq Faithful(n + 1, g)
  <1> SUFFICES ASSUME NEW m \in Faithful(n, f) PROVE m \in Faithful(n + 1, g)
    OBVIOUS
  <1>1. /\ m \in [seqStart : Nat, seqEnd : 0 .. n, changes : SUBSET Nat]
        /\ m.changes = {v \in f : m.seqStart < v /\ v <= m.seqEnd}
    BY DEF Faithful
  <1>2. m \in [seqStart : Nat, seqEnd : 0 .. n + 1, changes : SUBSET Nat]
    <2>1. 0 .. n \subseteq 0 .. n + 1
      OBVIOUS
    <2> QED BY <1>1, <2>1
  <1>3. m.seqEnd \in 0 .. n
    BY <1>1
  <1>4. {v \in f : m.seqStart < v /\ v <= m.seqEnd} = {v \in g : m.seqStart < v /\ v <= m.seqEnd}
    <2>1. ASSUME NEW v \in g, v <= m.seqEnd PROVE v \in f
      BY <1>3, <2>1
    <2> QED BY <2>1
  <1> QED BY <1>1, <1>2, <1>4 DEF Faithful

LEMMA SequencesAre ==
  ASSUME TypeInv
  PROVE  /\ client.writes \in Seq(AnyMessage) /\ client.pendingWrites \in Seq(AnyMessage)
         /\ \A i \in Source : sources[i].wire \in Seq(AnyMessage)
         /\ tx.tracked \in Nat /\ db.tracked \in Nat
  <1>1. /\ client.writes \in Seq(Faithful(version, foreign))
        /\ client.pendingWrites \in Seq(Faithful(version, foreign))
        /\ \A i \in Source : sources[i].wire \in Seq(Faithful(version, foreign))
    BY DEF TypeInv, ClientOf, SourceOf
  <1> QED BY <1>1, FaithfulMessages DEF TypeInv, Content

LEMMA NewSourceIs ==
  ASSUME NEW n \in Nat, NEW f, NEW u \in 0 .. n
  PROVE  /\ NewSource(u) \in SourceOf(n, f) /\ [NewSource(u) EXCEPT !.at = "closed"] \in SourceOf(n, f)
         /\ [NewSource(u) EXCEPT !.at = "open", !.due = TRUE] \in SourceOf(n, f)
  <1>1. <<>> \in Seq(Faithful(n, f))
    BY EmptySeq
  <1>2. PICK s : s = NewSource(u)
    OBVIOUS
  <1>3. s = [at |-> "connecting", url |-> u, since |-> u, due |-> FALSE, wire |-> <<>>] /\ u \in Nat
    BY <1>2 DEF NewSource
  <1>4. s \in SourceOf(n, f)
    BY <1>1, <1>3 DEF SourceOf
  <1>5. [s EXCEPT !.at = "closed"] \in SourceOf(n, f)
    BY <1>4 DEF SourceOf
  <1>6. [s EXCEPT !.at = "open", !.due = TRUE] \in SourceOf(n, f)
    BY <1>4 DEF SourceOf
  <1> QED BY <1>2, <1>4, <1>5, <1>6

LEMMA ClosedIs ==
  ASSUME NEW n \in Nat, NEW f
  PROVE  /\ Closed \in SourceOf(n, f) /\ Closed.at = "closed" /\ Closed.url = 0
         /\ Closed.since = 0 /\ Closed.wire = <<>>
  <1>1. Closed \in SourceOf(n, f)
    <2>1. 0 \in 0 .. n
      OBVIOUS
    <2> QED BY <2>1, NewSourceIs DEF Closed
  <1> QED BY <1>1 DEF Closed, NewSource

LEMMA NewClientIs ==
  ASSUME NEW n, NEW f
  PROVE  NewClient \in ClientOf(n, f)
  <1>1. <<>> \in Seq(Faithful(n, f))
    BY EmptySeq
  <1> QED BY <1>1 DEF NewClient, ClientOf

\* A source that begins at what the browser tracks follows on whatever it has received.
LEMMA Begins ==
  ASSUME TypeInv, TrackOK, NEW u \in Nat, u <= db.tracked
  PROVE  u \in 0 .. version /\ Linked(Collected, <<>>) /\ u \in After(Collected, <<>>)
  <1>1. u \in 0 .. tx.tracked /\ u \in 0 .. version
    BY SequencesAre DEF TypeInv, TrackOK
  <1>2. u \in Collected
    BY <1>1, AfterHolds DEF Applied, Collected
  <1> QED BY <1>1, <1>2, AfterEmpty

LEMMA CollectIs ==
  ASSUME NEW n \in Nat, NEW f, NEW c \in ClientOf(n, f), NEW d, d = Collect(c),
         c.inflight \in {"none", "stuck"} => c.writes = <<>>
  PROVE  /\ d \in ClientOf(n, f)
         /\ d.started = c.started /\ d.asking = c.asking /\ d.timers = c.timers
         /\ d.source = c.source
         /\ d.inflight = "writing" <=> c.inflight = "writing"
         /\ d.inflight = "stuck" <=> c.inflight = "stuck"
         /\ d.inflight \in {"none", "stuck"} => d.writes = <<>>
  <1>1. CASE d = c
    BY <1>1
  <1>2. CASE c.inflight = "none" /\ d = [c EXCEPT !.inflight = "waiting", !.writes = c.pendingWrites,
                                                  !.pendingWrites = <<>>]
    <2>1. <<>> \in Seq(Faithful(n, f))
      BY EmptySeq
    <2>2. /\ d \in ClientOf(n, f)
          /\ d.started = c.started /\ d.asking = c.asking /\ d.timers = c.timers
          /\ d.source = c.source /\ d.inflight = "waiting"
          /\ d.writes = c.pendingWrites /\ d.pendingWrites = <<>> /\ c.writes = <<>>
      BY <1>2, <2>1 DEF ClientOf
    <2> QED BY <1>2, <2>2, AfterEmpty
  <1> QED BY <1>1, <1>2 DEF Collect

\* What is reached is the same, in the queue or in the transaction that begins.
LEMMA CollectKeeps ==
  ASSUME NEW c, NEW d, d = Collect(c), c.inflight \in {"none", "stuck"} => c.writes = <<>>, NEW R,
         NEW n, NEW f, c \in ClientOf(n, f)
  PROVE  /\ After(After(R, d.writes), d.pendingWrites) = After(After(R, c.writes), c.pendingWrites)
         /\ Linked(R, c.writes) /\ Linked(After(R, c.writes), c.pendingWrites)
              => Linked(R, d.writes) /\ Linked(After(R, d.writes), d.pendingWrites)
  <1>1. CASE d = c
    BY <1>1
  <1>2. CASE c.inflight = "none" /\ d = [c EXCEPT !.inflight = "waiting", !.writes = c.pendingWrites,
                                                  !.pendingWrites = <<>>]
    <2>1. d.writes = c.pendingWrites /\ d.pendingWrites = <<>> /\ c.writes = <<>>
      BY <1>2 DEF ClientOf
    <2> QED BY <2>1, AfterEmpty
  <1> QED BY <1>1, <1>2 DEF Collect

-----------------------------------------------------------------------------
\* The steps of the server.

LEMMA CommitStep == ASSUME DownInv, Commit PROVE DownInv'
  <1>0. TypeInv /\ TrackOK
    BY DEF DownInv
  <1>1. /\ version' = version + 1 /\ version \in Nat
        /\ foreign \subseteq 1 .. version /\ foreign \subseteq foreign' /\ foreign' \subseteq foreign \cup {version + 1}
        /\ client' = client /\ db' = db /\ tx' = tx /\ excused' = excused
    BY <1>0 DEF Commit, TypeInv
  <1>2. sources' = [i \in Source |-> [sources[i] EXCEPT !.due = sources[i].at = "open"]]
    BY DEF Commit
  <1>3. Seq(Faithful(version, foreign)) \subseteq Seq(Faithful(version', foreign'))
    <2>1. Faithful(version, foreign) \subseteq Faithful(version', foreign')
      BY <1>1, FaithfulGrows
    <2> QED BY <2>1, SeqMonotonic
  <1>4. 0 .. version \subseteq 0 .. version'
    BY <1>1
  <1>5. ASSUME NEW i \in Source
        PROVE  /\ sources'[i] \in SourceOf(version', foreign')
               /\ sources'[i].at = sources[i].at /\ sources'[i].url = sources[i].url
               /\ sources'[i].since = sources[i].since /\ sources'[i].wire = sources[i].wire
               /\ sources'[i].due => sources'[i].at = "open"
    <2>1. sources[i] \in SourceOf(version, foreign)
      BY <1>0 DEF TypeInv
    <2>2. sources'[i] = [sources[i] EXCEPT !.due = sources[i].at = "open"]
      BY <1>2
    <2>3. sources'[i] \in SourceOf(version, foreign)
      BY <2>1, <2>2 DEF SourceOf
    <2>4. SourceOf(version, foreign) \subseteq SourceOf(version', foreign')
      BY <1>3, <1>4 DEF SourceOf
    <2> QED BY <2>1, <2>2, <2>3, <2>4 DEF SourceOf
  <1>6. TypeInv'
    <2>1. sources' \in [Source -> SourceOf(version', foreign')]
      BY <1>2, <1>5
    <2>2. client' \in ClientOf(version', foreign')
      BY <1>0, <1>1, <1>3 DEF TypeInv, ClientOf
    <2>3. foreign' \subseteq 1 .. version' /\ version' \in Nat
      BY <1>1
    <2> QED BY <1>0, <1>1, <2>1, <2>2, <2>3 DEF TypeInv
  <1>7. TrackOK'
    <2>1. db.tracked \in Nat /\ tx.tracked \in Nat
      BY <1>0, SequencesAre
    <2>2. ASSUME NEW i \in Source
          PROVE  sources'[i].url <= db'.tracked /\ (sources'[i].due => sources'[i].at = "open")
      BY <1>0, <1>1, <1>5 DEF TrackOK
    <2> QED BY <1>0, <1>1, <2>1, <2>2 DEF TrackOK
  <1>8. ASSUME excused' = {} PROVE OneSource' /\ ChainOK' /\ Contiguous(db)' /\ Contiguous(tx)'
    <2>1. OneSource /\ ChainOK /\ Contiguous(db) /\ Contiguous(tx)
      BY <1>1, <1>8 DEF DownInv
    <2>2. Collected' = Collected /\ Applied' = Applied
      BY <1>1 DEF Collected, Applied
    <2>3. OneSource'
      BY <1>1, <1>5, <2>1 DEF OneSource
    <2>4. ChainOK'
      BY <1>1, <1>5, <2>1, <2>2 DEF ChainOK
    <2>5. db.tracked <= version /\ tx.tracked <= version /\ db.tracked \in Nat /\ tx.tracked \in Nat
      BY <1>0, SequencesAre DEF TrackOK, TypeInv
    <2>6. Contiguous(db)' /\ Contiguous(tx)'
      <3>1. ASSUME NEW v \in foreign', v <= db.tracked \/ v <= tx.tracked
            PROVE  v \in foreign
        BY <1>1, <2>5, <3>1
      <3> QED BY <1>1, <2>1, <3>1 DEF Contiguous
    <2> QED BY <2>3, <2>4, <2>6
  <1> QED BY <1>6, <1>7, <1>8 DEF DownInv

\* A source changes and nothing else.
LEMMA SourceStep ==
  ASSUME DownInv, NEW i \in Source, NEW x \in SourceOf(version, foreign),
         sources' = [sources EXCEPT ![i] = x],
         version' = version, foreign' = foreign, client' = client, db' = db, tx' = tx,
         excused' = excused,
         x.url <= db.tracked, x.due => x.at = "open", sources[i].at # "closed",
         ChainOK /\ client.inflight # "stuck" =>
           Linked(Collected, x.wire) /\ x.since \in After(Collected, x.wire)
  PROVE  DownInv'
  <1>0. TypeInv /\ TrackOK
    BY DEF DownInv
  <1>1. \A j \in Source : sources'[j] = IF j = i THEN x ELSE sources[j]
    BY <1>0 DEF TypeInv
  <1>2. TypeInv'
    BY <1>0 DEF TypeInv
  <1>3. TrackOK'
    BY <1>0, <1>1 DEF TrackOK
  <1>4. ASSUME excused' = {} PROVE OneSource' /\ ChainOK' /\ Contiguous(db)' /\ Contiguous(tx)'
    <2>1. OneSource /\ ChainOK /\ Contiguous(db) /\ Contiguous(tx)
      BY <1>4 DEF DownInv
    <2>2. Collected' = Collected /\ Applied' = Applied
      BY DEF Collected, Applied
    <2>3. OneSource'
      BY <1>1, <2>1 DEF OneSource
    <2>4. ChainOK'
      BY <1>1, <2>1, <2>2 DEF ChainOK
    <2>5. Contiguous(db)' /\ Contiguous(tx)'
      BY <2>1 DEF Contiguous
    <2> QED BY <2>3, <2>4, <2>5
  <1> QED BY <1>2, <1>3, <1>4 DEF DownInv

LEMMA StartStep ==
  ASSUME DownInv, NEW i \in Source, StartOutboundStream(i)
  PROVE  DownInv'
  <1>0. TypeInv /\ TrackOK
    BY DEF DownInv
  <1>u. PICK u : u = sources[i].url
    OBVIOUS
  <1>x. PICK x : x = [NewSource(u) EXCEPT !.at = "open", !.due = TRUE]
    OBVIOUS
  <1>1. u \in Nat /\ u <= db.tracked
    BY <1>0, <1>u DEF TypeInv, SourceOf, TrackOK
  <1>2. u \in 0 .. version /\ Linked(Collected, <<>>) /\ u \in After(Collected, <<>>)
    BY <1>0, <1>1, Begins
  <1>3. x \in SourceOf(version, foreign)
    BY <1>0, <1>2, <1>x, NewSourceIs DEF TypeInv
  <1>4. x.url = u /\ x.since = u /\ x.wire = <<>> /\ x.at = "open"
    BY <1>x DEF NewSource
  <1>5. sources' = [sources EXCEPT ![i] = x] /\ sources[i].at # "closed"
    BY <1>u, <1>x DEF StartOutboundStream
  <1>6. /\ version' = version /\ foreign' = foreign /\ client' = client /\ db' = db /\ tx' = tx
        /\ excused' = excused
    BY DEF StartOutboundStream
  <1> QED BY <1>1, <1>2, <1>3, <1>4, <1>5, <1>6, SourceStep

LEMMA BreakStep ==
  ASSUME DownInv, NEW i \in Source, Break(i)
  PROVE  DownInv'
  <1>0. TypeInv /\ TrackOK
    BY DEF DownInv
  <1>u. PICK u, x : u = sources[i].url /\ x = NewSource(u)
    OBVIOUS
  <1>1. u \in Nat /\ u <= db.tracked
    BY <1>0, <1>u DEF TypeInv, SourceOf, TrackOK
  <1>2. u \in 0 .. version /\ Linked(Collected, <<>>) /\ u \in After(Collected, <<>>)
    BY <1>0, <1>1, Begins
  <1>3. x \in SourceOf(version, foreign)
    BY <1>0, <1>2, <1>u, NewSourceIs DEF TypeInv
  <1>4. x.url = u /\ x.since = u /\ x.wire = <<>> /\ ~x.due
    BY <1>u DEF NewSource
  <1>5. sources' = [sources EXCEPT ![i] = x] /\ sources[i].at # "closed"
    BY <1>u DEF Break
  <1>6. /\ version' = version /\ foreign' = foreign /\ client' = client /\ db' = db /\ tx' = tx
        /\ excused' = excused
    BY DEF Break
  <1> QED BY <1>1, <1>2, <1>3, <1>4, <1>5, <1>6, SourceStep

\* What a stream sends says all that happened since its last message.
LEMMA dbChangedStep ==
  ASSUME DownInv, NEW i \in Source, dbChanged(i)
  PROVE  DownInv'
  <1>0. TypeInv /\ TrackOK
    BY DEF DownInv
  <1>o. PICK o, S : o = sources[i] /\ S = {v \in foreign : v > o.since}
    OBVIOUS
  <1>1. o \in SourceOf(version, foreign) /\ o.url <= db.tracked /\ o.at # "closed"
    BY <1>0, <1>o DEF TypeInv, TrackOK, dbChanged
  <1>2. /\ version' = version /\ foreign' = foreign /\ client' = client /\ db' = db /\ tx' = tx
        /\ excused' = excused
    BY DEF dbChanged
  <1>3. ChainOK /\ client.inflight # "stuck" =>
          Linked(Collected, o.wire) /\ o.since \in After(Collected, o.wire)
    BY <1>o DEF ChainOK
  <1>4. CASE S = {}
    <2>x. PICK x : x = [o EXCEPT !.due = FALSE]
      OBVIOUS
    <2>1. sources' = [sources EXCEPT ![i] = x]
      BY <1>4, <1>o, <2>x DEF dbChanged, getChanges
    <2>2. /\ x \in SourceOf(version, foreign) /\ x.url = o.url /\ x.wire = o.wire /\ ~x.due
          /\ x.since = o.since
      BY <1>1, <2>x DEF SourceOf
    <2> QED BY <1>1, <1>2, <1>3, <1>o, <2>1, <2>2, SourceStep
  <1>5. CASE S # {}
    <2>m. PICK top, m : top = Max(S) /\ m = [seqStart |-> o.since, seqEnd |-> top, changes |-> S]
      OBVIOUS
    <2>x. PICK x, q : /\ q = Append(o.wire, m)
                      /\ x = [o EXCEPT !.due = FALSE, !.since = top, !.wire = q]
      OBVIOUS
    <2>1. sources' = [sources EXCEPT ![i] = x]
      BY <1>5, <1>o, <2>m, <2>x DEF dbChanged, getChanges
    <2>2. top \in S /\ (\A v \in S : v <= top) /\ top \in 0 .. version
      <3>1. version \in Nat /\ foreign \subseteq 1 .. version
        BY <1>0 DEF TypeInv
      <3>2. ASSUME NEW v \in S PROVE v \in 0 .. version
        <4>1. v \in foreign
          BY <1>o
        <4> QED BY <3>1, <4>1
      <3> QED BY <1>5, <2>m, <3>1, <3>2, MaxOf
    <2>3. m \in Faithful(version, foreign)
      <3>1. o.since \in Nat /\ foreign \subseteq Nat /\ o.since \in Int
        BY <1>0, <1>1 DEF TypeInv, SourceOf
      <3>2. S = {v \in foreign : o.since < v /\ v <= top}
        BY <1>o, <2>2, <3>1
      <3>3. m.seqStart = o.since /\ m.seqEnd = top /\ m.changes = S
        BY <2>m
      <3>4. m \in [seqStart : Nat, seqEnd : 0 .. version, changes : SUBSET Nat]
        BY <1>o, <2>2, <2>m, <3>1
      <3> QED BY <3>2, <3>3, <3>4 DEF Faithful
    <2>4. o.wire \in Seq(Faithful(version, foreign)) /\ q \in Seq(Faithful(version, foreign))
      BY <1>1, <2>3, <2>x, AppendProperties DEF SourceOf
    <2>5. /\ x \in SourceOf(version, foreign) /\ x.url = o.url /\ x.wire = q /\ x.since = top /\ ~x.due
      BY <1>1, <2>2, <2>4, <2>x DEF SourceOf
    <2>6. ASSUME ChainOK, client.inflight # "stuck"
          PROVE  Linked(Collected, q) /\ top \in After(Collected, q)
      <3>1. o.wire \in Seq(AnyMessage) /\ m \in AnyMessage
        <4>1. version \in Nat
          BY <1>0 DEF TypeInv
        <4>2. o.wire \in Seq(AnyMessage)
          BY <2>4, <4>1, FaithfulMessages
        <4>3. m \in AnyMessage
          BY <2>3, <4>1 DEF Faithful, AnyMessage
        <4> QED BY <4>2, <4>3
      <3>2. m.seqStart = o.since /\ m.seqEnd = top /\ top \in 0 .. top
        BY <2>2, <2>m
      <3> QED BY <1>3, <2>6, <2>x, <3>1, <3>2, AfterAppend
    <2> QED BY <1>1, <1>2, <1>o, <2>1, <2>5, <2>6, SourceStep
  <1> QED BY <1>4, <1>5

-----------------------------------------------------------------------------
\* The steps of the browser.

LEMMA EstablishedStep == ASSUME DownInv, Established PROVE DownInv'
  <1>0. TypeInv /\ TrackOK
    BY DEF DownInv
  <1>1. PICK i \in Source :
          /\ sources[i] = Closed
          /\ sources' = [sources EXCEPT ![i] = NewSource(db.tracked)]
          /\ client' = [client EXCEPT !.asking = @ - 1, !.seq = db.tracked, !.source = i]
    BY DEF Established
  <1>2. /\ version' = version /\ foreign' = foreign /\ db' = db /\ tx' = tx /\ excused' = excused
        /\ client.asking > 0 /\ client.inflight # "writing"
    BY DEF Established
  <1>x. PICK u, x : u = db.tracked /\ x = NewSource(u)
    OBVIOUS
  <1>3. u \in Nat /\ u <= db.tracked
    BY <1>0, <1>x, SequencesAre
  <1>4. u \in 0 .. version /\ Linked(Collected, <<>>) /\ u \in After(Collected, <<>>)
    BY <1>0, <1>3, Begins
  <1>5. /\ x \in SourceOf(version, foreign) /\ x.url = u /\ x.since = u /\ x.wire = <<>> /\ ~x.due
    BY <1>0, <1>4, <1>x, NewSourceIs DEF TypeInv, NewSource
  <1>6. \A j \in Source : sources'[j] = IF j = i THEN x ELSE sources[j]
    BY <1>0, <1>1, <1>x DEF TypeInv
  <1>7. /\ client' \in ClientOf(version, foreign)
        /\ client'.asking = client.asking - 1 /\ client'.timers = client.timers
        /\ client'.started = client.started /\ client'.source = i
        /\ client'.inflight = client.inflight /\ client'.writes = client.writes
        /\ client'.pendingWrites = client.pendingWrites
    <2>1. client \in ClientOf(version, foreign) /\ i \in Nat /\ u \in Nat
      BY <1>0, <1>3 DEF TypeInv, Source
    <2>2. client.asking - 1 \in Nat
      BY <1>2, <2>1 DEF ClientOf
    <2> QED BY <1>1, <1>x, <2>1, <2>2 DEF ClientOf
  <1>8. TypeInv'
    BY <1>0, <1>1, <1>2, <1>5, <1>7, <1>x DEF TypeInv
  <1>9. TrackOK'
    BY <1>0, <1>2, <1>3, <1>5, <1>6, <1>7 DEF TrackOK
  <1>10. ASSUME excused' = {} PROVE OneSource' /\ ChainOK' /\ Contiguous(db)' /\ Contiguous(tx)'
    <2>1. OneSource /\ ChainOK /\ Contiguous(db) /\ Contiguous(tx)
      BY <1>2, <1>10 DEF DownInv
    <2>2. Collected' = Collected /\ Applied' = Applied
      BY <1>2, <1>7 DEF Collected, Applied
    <2>3. client.asking \in Nat /\ client.timers \in Nat
      BY <1>0 DEF TypeInv, ClientOf
    <2>4. OneSource'
      BY <1>2, <1>6, <1>7, <2>1, <2>3 DEF OneSource
    <2>5. ChainOK'
      BY <1>2, <1>4, <1>5, <1>6, <1>7, <2>1, <2>2 DEF ChainOK
    <2>6. Contiguous(db)' /\ Contiguous(tx)'
      BY <1>2, <2>1 DEF Contiguous
    <2> QED BY <2>4, <2>5, <2>6
  <1> QED BY <1>8, <1>9, <1>10 DEF DownInv

LEMMA RestartTimerStep == ASSUME DownInv, RestartTimer PROVE DownInv'
  <1>0. TypeInv /\ TrackOK
    BY DEF DownInv
  <1>1. /\ version' = version /\ foreign' = foreign /\ db' = db /\ tx' = tx /\ excused' = excused
        /\ sources' = sources /\ client.timers > 0
    BY DEF RestartTimer
  <1>2. client \in ClientOf(version, foreign) /\ client.timers \in Nat /\ client.asking \in Nat
    BY <1>0 DEF TypeInv, ClientOf
  <1>c. PICK c : c = [client EXCEPT !.timers = @ - 1]
    OBVIOUS
  <1>3. c \in ClientOf(version, foreign)
    <2>1. client.timers - 1 \in Nat
      BY <1>1, <1>2
    <2> QED BY <1>2, <1>c, <2>1 DEF ClientOf
  <1>4. client' = IF c.started THEN c ELSE [c EXCEPT !.started = TRUE, !.asking = @ + 1]
    BY <1>c DEF RestartTimer, start
  <1>5. /\ client' \in ClientOf(version, foreign)
        /\ client'.started /\ client'.timers = client.timers - 1
        /\ client'.asking = IF client.started THEN client.asking ELSE client.asking + 1
        /\ client'.source = client.source
        /\ client'.inflight = client.inflight /\ client'.writes = client.writes
        /\ client'.pendingWrites = client.pendingWrites
    <2>1. /\ c.started = client.started /\ c.timers = client.timers - 1 /\ c.asking = client.asking
          /\ c.source = client.source /\ c.inflight = client.inflight /\ c.writes = client.writes
          /\ c.pendingWrites = client.pendingWrites
      BY <1>2, <1>c DEF ClientOf
    <2>2. CASE client.started
      BY <1>3, <1>4, <2>1, <2>2
    <2>3. CASE ~client.started
      <3>1. client' = [c EXCEPT !.started = TRUE, !.asking = client.asking + 1]
        BY <1>4, <2>1, <2>3
      <3>2. client' \in ClientOf(version, foreign)
        <4>1. PICK k, e : k = client.asking + 1 /\ e = [c EXCEPT !.started = TRUE, !.asking = k]
          OBVIOUS
        <4>2. k \in Nat
          BY <1>2, <4>1
        <4>3. e \in ClientOf(version, foreign)
          BY <1>3, <4>1, <4>2 DEF ClientOf
        <4> QED BY <3>1, <4>1, <4>3
      <3> QED BY <1>3, <2>1, <2>3, <3>1, <3>2 DEF ClientOf
    <2> QED BY <2>2, <2>3
  <1>6. TypeInv' /\ TrackOK'
    BY <1>0, <1>1, <1>5 DEF TypeInv, TrackOK
  <1>7. ASSUME excused' = {} PROVE OneSource' /\ ChainOK' /\ Contiguous(db)' /\ Contiguous(tx)'
    <2>1. OneSource /\ ChainOK /\ Contiguous(db) /\ Contiguous(tx)
      BY <1>1, <1>7 DEF DownInv
    <2>2. Collected' = Collected /\ Applied' = Applied
      BY <1>1, <1>5 DEF Collected, Applied
    <2>3. OneSource'
      BY <1>1, <1>2, <1>5, <2>1 DEF OneSource
    <2>4. ChainOK'
      BY <1>1, <1>5, <2>1, <2>2 DEF ChainOK
    <2>5. Contiguous(db)' /\ Contiguous(tx)'
      BY <1>1, <2>1 DEF Contiguous
    <2> QED BY <2>3, <2>4, <2>5
  <1> QED BY <1>6, <1>7 DEF DownInv

LEMMA ReceivedStep ==
  ASSUME DownInv, NEW i \in Source, msgReceivedFromServer(i)
  PROVE  DownInv'
  <1>0. TypeInv /\ TrackOK
    BY DEF DownInv
  <1>1. /\ version' = version /\ foreign' = foreign /\ db' = db /\ tx' = tx /\ excused' = excused
        /\ sources[i].at = "open" /\ sources[i].wire # <<>>
    BY DEF msgReceivedFromServer
  <1>m. PICK q, m, r : q = sources[i].wire /\ m = Head(q) /\ r = Tail(q)
    OBVIOUS
  <1>2. /\ q \in Seq(Faithful(version, foreign)) /\ q # <<>> /\ m \in Faithful(version, foreign)
        /\ r \in Seq(Faithful(version, foreign))
    BY <1>0, <1>1, <1>m, HeadTailProperties DEF TypeInv, SourceOf
  <1>3. /\ \A j \in Source : sources'[j] \in SourceOf(version, foreign)
        /\ \A j \in Source : /\ sources'[j].at = sources[j].at /\ sources'[j].url = sources[j].url
                             /\ sources'[j].due = sources[j].due /\ sources'[j].since = sources[j].since
        /\ \A j \in Source : sources'[j].wire = IF j = i THEN r ELSE sources[j].wire
        /\ sources' \in [Source -> SourceOf(version, foreign)]
    <2>1. PICK x : x = [sources[i] EXCEPT !.wire = r]
      OBVIOUS
    <2>2. sources[i] \in SourceOf(version, foreign) /\ sources' = [sources EXCEPT ![i] = x]
      BY <1>0, <1>m, <2>1 DEF TypeInv, msgReceivedFromServer
    <2>3. /\ x \in SourceOf(version, foreign) /\ x.at = sources[i].at /\ x.url = sources[i].url
          /\ x.due = sources[i].due /\ x.since = sources[i].since /\ x.wire = r
      BY <1>2, <2>1, <2>2 DEF SourceOf
    <2> QED BY <1>0, <2>2, <2>3 DEF TypeInv
  <1>c. PICK p, c : /\ p = Append(client.pendingWrites, m)
                    /\ c = [client EXCEPT !.pendingWrites = p]
    OBVIOUS
  <1>4. client' = IF client.started THEN Collect(c) ELSE client
    BY <1>m, <1>c DEF msgReceivedFromServer
  <1>5. client \in ClientOf(version, foreign) /\ version \in Nat
    BY <1>0 DEF TypeInv
  <1>6. /\ c \in ClientOf(version, foreign) /\ c.pendingWrites = p /\ c.writes = client.writes
        /\ c.inflight = client.inflight /\ c.started = client.started /\ c.asking = client.asking
        /\ c.timers = client.timers /\ c.source = client.source
    <2>1. p \in Seq(Faithful(version, foreign))
      BY <1>2, <1>5, <1>c, AppendProperties DEF ClientOf
    <2> QED BY <1>5, <1>c, <2>1 DEF ClientOf
  <1>7. c.inflight \in {"none", "stuck"} => c.writes = <<>>
    BY <1>0, <1>6 DEF TrackOK
  <1>8. CASE ~client.started
    <2>1. TypeInv' /\ TrackOK'
      BY <1>0, <1>1, <1>3, <1>4, <1>8 DEF TypeInv, TrackOK
    <2>2. excused' # {}
      BY <1>1, <1>8, <1>5 DEF DownInv, OneSource, ClientOf
    <2> QED BY <2>1, <2>2 DEF DownInv
  <1>9. CASE client.started
    <2>d. PICK d : d = Collect(c)
      OBVIOUS
    <2>1. client' = d
      BY <1>4, <1>9, <2>d
    <2>2. /\ d \in ClientOf(version, foreign)
          /\ d.started = c.started /\ d.asking = c.asking /\ d.timers = c.timers
          /\ d.source = c.source
          /\ d.inflight = "writing" <=> c.inflight = "writing"
          /\ d.inflight = "stuck" <=> c.inflight = "stuck"
          /\ d.inflight \in {"none", "stuck"} => d.writes = <<>>
      BY <1>5, <1>6, <1>7, <2>d, CollectIs
    <2>3. TypeInv'
      BY <1>0, <1>1, <1>3, <2>1, <2>2 DEF TypeInv
    <2>4. TrackOK'
      BY <1>0, <1>1, <1>3, <1>6, <2>1, <2>2 DEF TrackOK
    <2>5. ASSUME excused' = {} PROVE OneSource' /\ ChainOK' /\ Contiguous(db)' /\ Contiguous(tx)'
      <3>1. OneSource /\ ChainOK /\ Contiguous(db) /\ Contiguous(tx)
        BY <1>1, <2>5 DEF DownInv
      <3>2. OneSource'
        BY <1>3, <1>6, <2>1, <2>2, <3>1 DEF OneSource
      <3>3. Contiguous(db)' /\ Contiguous(tx)'
        BY <1>1, <3>1 DEF Contiguous
      <3>4. ASSUME client'.inflight # "stuck"
            PROVE  /\ Linked(0 .. tx'.tracked, client'.writes)
                   /\ Linked(Applied', client'.pendingWrites)
                   /\ \A j \in Source : /\ Linked(Collected', sources'[j].wire)
                                        /\ sources'[j].since \in After(Collected', sources'[j].wire)
        <4>p. PICK R, A, C, w, old :
                /\ R = 0 .. tx.tracked /\ w = client.writes /\ A = After(R, w)
                /\ old = client.pendingWrites /\ C = After(A, old)
          OBVIOUS
        <4>1. A = Applied /\ C = Collected
          BY <4>p DEF Applied, Collected
        <4>2. /\ Linked(R, w) /\ Linked(A, old)
              /\ \A j \in Source : /\ Linked(C, sources[j].wire)
                                   /\ sources[j].since \in After(C, sources[j].wire)
          BY <1>6, <2>1, <2>2, <3>1, <3>4, <4>p, <4>1 DEF ChainOK
        <4>3. /\ old \in Seq(AnyMessage) /\ q \in Seq(AnyMessage)
              /\ m \in AnyMessage
          BY <1>0, <1>1, <1>m, <4>p, SequencesAre, HeadTailProperties
        <4>4. Linked(C, q)
          BY <1>m, <4>2
        <4>5. /\ m.seqStart \in C
              /\ Linked(C \cup 0 .. m.seqEnd, r) /\ After(C \cup 0 .. m.seqEnd, r) = After(C, q)
          BY <1>2, <1>m, <4>3, <4>4, AfterHead
        <4>6. After(A, p) = C \cup 0 .. m.seqEnd /\ Linked(A, p)
          BY <1>c, <4>2, <4>3, <4>5, <4>p, AfterAppend
        <4>7. /\ Linked(R, d.writes) /\ Linked(After(R, d.writes), d.pendingWrites)
              /\ After(After(R, d.writes), d.pendingWrites) = C \cup 0 .. m.seqEnd
          <5>1. /\ After(After(R, d.writes), d.pendingWrites) = After(After(R, c.writes), c.pendingWrites)
                /\ Linked(R, c.writes) /\ Linked(After(R, c.writes), c.pendingWrites)
                     => Linked(R, d.writes) /\ Linked(After(R, d.writes), d.pendingWrites)
            BY <1>6, <1>7, <2>d, CollectKeeps
          <5>2. c.writes = w /\ c.pendingWrites = p /\ After(R, w) = A
            BY <1>6, <4>p
          <5> QED BY <4>2, <4>6, <5>1, <5>2
        <4>8. Applied' = After(R, d.writes) /\ Collected' = C \cup 0 .. m.seqEnd
          BY <1>1, <2>1, <4>7, <4>p DEF Applied, Collected
        <4>9. ASSUME NEW j \in Source
              PROVE  /\ Linked(Collected', sources'[j].wire)
                     /\ sources'[j].since \in After(Collected', sources'[j].wire)
          <5>1. CASE j = i
            BY <1>3, <1>m, <4>2, <4>5, <4>8, <5>1
          <5>2. CASE j # i
            <6>2. /\ Linked(C, sources[j].wire) /\ sources[j].since \in After(C, sources[j].wire)
              BY <4>2
            <6>3. PICK S : S = C \cup 0 .. m.seqEnd
              OBVIOUS
            <6>4. Linked(S, sources[j].wire) /\ sources[j].since \in After(S, sources[j].wire)
              BY <6>2, <6>3 DEF Linked, After
            <6> QED BY <1>3, <4>8, <5>2, <6>3, <6>4
          <5> QED BY <5>1, <5>2
        <4> QED BY <1>1, <2>1, <4>7, <4>8, <4>9, <4>p
      <3> QED BY <3>2, <3>3, <3>4 DEF ChainOK
    <2> QED BY <2>3, <2>4, <2>5 DEF DownInv
  <1> QED BY <1>8, <1>9

\* A message that is applied begins within what the transaction tracks, so what it
\* does not say of the versions to its end is held already.
LEMMA ApplyStep == ASSUME DownInv, applyChangesetMsg PROVE DownInv'
  <1>0. TypeInv /\ TrackOK
    BY DEF DownInv
  <1>m. PICK w, m, r, restart : /\ w = client.writes /\ m = Head(w) /\ r = Tail(w)
                                /\ restart = (m.seqStart # client.seq)
    OBVIOUS
  <1>1. /\ version' = version /\ foreign' = foreign /\ db' = db
        /\ client.inflight \in {"waiting", "writing"} /\ w # <<>>
        /\ client.inflight = "waiting" => client.asking = 0
        /\ tx' = [held |-> tx.held \cup m.changes, tracked |-> Max({tx.tracked, m.seqEnd})]
        /\ sources' = IF restart THEN [sources EXCEPT ![client.source] = Closed] ELSE sources
        /\ excused' = {} => excused = {} /\ (restart => ~(client.timers + client.asking > 0))
    BY <1>m DEF applyChangesetMsg
  <1>c. client' = [client EXCEPT !.writes = r, !.inflight = "writing", !.seq = m.seqEnd,
                                 !.started = @ /\ ~restart,
                                 !.timers = IF restart THEN @ + 1 ELSE @]
    BY <1>m DEF applyChangesetMsg
  <1>2. client \in ClientOf(version, foreign) /\ version \in Nat /\ foreign \subseteq 1 .. version
    BY <1>0 DEF TypeInv
  <1>3. /\ w \in Seq(Faithful(version, foreign)) /\ m \in Faithful(version, foreign)
        /\ r \in Seq(Faithful(version, foreign))
    BY <1>1, <1>2, <1>m, HeadTailProperties DEF ClientOf
  <1>4. /\ m.seqStart \in Nat /\ m.seqEnd \in 0 .. version /\ m.changes \in SUBSET Nat
        /\ m.changes = {v \in foreign : m.seqStart < v /\ v <= m.seqEnd}
    BY <1>3 DEF Faithful
  <1>t. PICK t, u : t = tx.tracked /\ u = Max({t, m.seqEnd})
    OBVIOUS
  <1>5. t \in Nat /\ t <= version /\ tx.held \in SUBSET Nat /\ db.tracked \in Nat /\ db.tracked <= t
    BY <1>0, <1>t DEF TypeInv, TrackOK, Content
  <1>6. u \in {t, m.seqEnd} /\ t <= u /\ m.seqEnd <= u /\ 0 .. u = (0 .. t) \cup (0 .. m.seqEnd)
    BY <1>4, <1>5, <1>t, MaxOfTwo
  <1>7. tx'.tracked = u /\ tx'.held = tx.held \cup m.changes /\ tx' \in Content
    BY <1>1, <1>4, <1>5, <1>6, <1>t DEF Content
  <1>8. /\ client' \in ClientOf(version, foreign)
        /\ client'.asking = client.asking /\ client'.source = client.source
        /\ client'.timers = IF restart THEN client.timers + 1 ELSE client.timers
        /\ client'.started = (client.started /\ ~restart)
        /\ client'.inflight = "writing" /\ client'.writes = r
        /\ client'.pendingWrites = client.pendingWrites
    <2>1. PICK k, z : /\ k = (IF restart THEN client.timers + 1 ELSE client.timers)
                      /\ z = (client.started /\ ~restart)
      OBVIOUS
    <2>2. client.timers \in Nat /\ client.started \in BOOLEAN /\ restart \in BOOLEAN
      BY <1>2, <1>m DEF ClientOf
    <2>3. k \in Nat /\ z \in BOOLEAN
      BY <2>1, <2>2
    <2>4. client' = [client EXCEPT !.writes = r, !.inflight = "writing", !.seq = m.seqEnd,
                                   !.started = z, !.timers = k]
      BY <1>c, <2>1
    <2>5. m.seqEnd \in Nat
      BY <1>4
    <2>6. client' \in ClientOf(version, foreign)
      BY <1>2, <1>3, <2>3, <2>4, <2>5 DEF ClientOf
    <2>7. /\ client'.asking = client.asking /\ client'.source = client.source
          /\ client'.timers = k /\ client'.started = z
          /\ client'.inflight = "writing" /\ client'.writes = r
          /\ client'.pendingWrites = client.pendingWrites
      BY <1>2, <2>4 DEF ClientOf
    <2> QED BY <2>1, <2>6, <2>7
  <1>9. /\ sources' \in [Source -> SourceOf(version, foreign)]
        /\ \A i \in Source : \/ sources'[i] = sources[i] /\ (restart => i # client.source)
                             \/ restart /\ sources'[i] = Closed
    BY <1>0, <1>1, <1>2, ClosedIs DEF TypeInv
  <1>10. TypeInv'
    BY <1>0, <1>1, <1>7, <1>8, <1>9 DEF TypeInv
  <1>11. TrackOK'
    <2>1. ASSUME NEW i \in Source
          PROVE  sources'[i].url <= db'.tracked /\ (sources'[i].due => sources'[i].at = "open")
      <3>1. CASE sources'[i] = sources[i]
        BY <1>0, <1>1, <3>1 DEF TrackOK
      <3>2. CASE sources'[i] = Closed
        BY <1>1, <1>5, <3>2 DEF Closed, NewSource
      <3> QED BY <1>9, <3>1, <3>2
    <2>2. db'.tracked <= tx'.tracked /\ tx'.tracked <= version'
      BY <1>1, <1>4, <1>5, <1>6, <1>7
    <2> QED BY <1>8, <2>1, <2>2 DEF TrackOK
  <1>12. ASSUME excused' = {} PROVE OneSource' /\ ChainOK' /\ Contiguous(db)' /\ Contiguous(tx)'
    <2>1. /\ OneSource /\ ChainOK /\ Contiguous(db) /\ Contiguous(tx)
          /\ restart => ~(client.timers + client.asking > 0)
      BY <1>1, <1>12 DEF DownInv
    <2>2. client.timers \in Nat /\ client.asking \in Nat /\ restart \in BOOLEAN
      BY <1>2, <1>m DEF ClientOf
    <2>3. OneSource'
      <3>1. CASE restart
        <4>1. client.timers = 0 /\ client.asking = 0
          BY <2>1, <2>2, <3>1
        <4>2. \A i \in Source : sources'[i].at = "closed"
          BY <1>2, <1>9, <2>1, <3>1, ClosedIs DEF OneSource
        <4>3. client'.timers = client.timers + 1 /\ client'.asking = client.asking
          BY <1>8, <3>1
        <4>4. ~client'.started
          BY <1>8, <3>1, Zenon
        <4>5. client'.timers = 1 /\ client'.asking = 0
          BY <4>1, <4>3
        <4> QED BY <4>2, <4>4, <4>5 DEF OneSource
      <3>2. CASE ~restart
        BY <1>8, <1>9, <2>1, <3>2 DEF OneSource
      <3> QED BY <3>1, <3>2
    <2>p. PICK R, S, A, C : /\ R = 0 .. t /\ S = R \cup 0 .. m.seqEnd
                            /\ A = After(R, w) /\ C = After(A, client.pendingWrites)
      OBVIOUS
    <2>4. A = Applied /\ C = Collected
      BY <1>m, <1>t, <2>p DEF Applied, Collected
    <2>5. /\ Linked(R, w) /\ Linked(A, client.pendingWrites)
          /\ \A i \in Source : /\ Linked(C, sources[i].wire)
                               /\ sources[i].since \in After(C, sources[i].wire)
      BY <1>1, <1>m, <1>t, <2>1, <2>4, <2>p DEF ChainOK
    <2>6. m.seqStart \in R /\ Linked(S, r) /\ After(S, r) = A
      <3>1. w \in Seq(AnyMessage) /\ w # <<>>
        BY <1>1, <1>2, <1>3, FaithfulMessages
      <3> QED BY <1>m, <2>5, <2>p, <3>1, AfterHead
    <2>7. Contiguous(db)' /\ Contiguous(tx)'
      <3>1. ASSUME NEW v \in foreign, v <= u PROVE v \in tx.held \cup m.changes
        <4>1. v \in Nat /\ m.seqStart <= t
          BY <1>2, <2>6, <2>p
        <4>2. CASE v <= t
          BY <1>t, <2>1, <4>2 DEF Contiguous
        <4>3. CASE t < v
          <5>1. m.seqStart < v /\ v <= m.seqEnd
            BY <1>4, <1>5, <1>6, <3>1, <4>1, <4>3
          <5> QED BY <1>4, <5>1
        <4> QED BY <1>5, <4>1, <4>2, <4>3
      <3> QED BY <1>1, <1>7, <2>1, <3>1 DEF Contiguous
    <2>8. Applied' = A /\ Collected' = C /\ 0 .. tx'.tracked = S
      BY <1>6, <1>7, <1>8, <2>6, <2>p DEF Applied, Collected
    <2>9. ChainOK'
      <3>1. ASSUME NEW i \in Source
            PROVE  /\ Linked(C, sources'[i].wire)
                   /\ sources'[i].since \in After(C, sources'[i].wire)
        <4>1. CASE sources'[i] = sources[i]
          BY <2>5, <4>1
        <4>2. CASE sources'[i] = Closed
          <5>1. 0 \in After(Collected, <<>>) /\ Linked(Collected, <<>>)
            BY <1>0, <1>5, Begins
          <5> QED BY <1>2, <2>4, <4>2, <5>1, ClosedIs
        <4> QED BY <1>9, <4>1, <4>2
      <3> QED BY <1>8, <2>5, <2>6, <2>8, <3>1 DEF ChainOK
    <2> QED BY <2>3, <2>7, <2>9
  <1> QED BY <1>10, <1>11, <1>12 DEF DownInv

LEMMA CommittedStep == ASSUME DownInv, Committed PROVE DownInv'
  <1>0. TypeInv /\ TrackOK
    BY DEF DownInv
  <1>1. /\ version' = version /\ foreign' = foreign /\ sources' = sources /\ tx' = tx /\ db' = tx
        /\ excused' = excused /\ client.inflight = "writing" /\ client.writes = <<>>
    BY DEF Committed
  <1>c. PICK c : c = [client EXCEPT !.inflight = "none"]
    OBVIOUS
  <1>d. PICK d : d = Collect(c)
    OBVIOUS
  <1>2. client' = d
    BY <1>c, <1>d DEF Committed
  <1>3. client \in ClientOf(version, foreign) /\ version \in Nat
    BY <1>0 DEF TypeInv
  <1>4. /\ c \in ClientOf(version, foreign) /\ c.pendingWrites = client.pendingWrites
        /\ c.writes = <<>> /\ c.inflight = "none" /\ c.started = client.started
        /\ c.asking = client.asking /\ c.timers = client.timers /\ c.source = client.source
    BY <1>1, <1>3, <1>c DEF ClientOf
  <1>5. /\ d \in ClientOf(version, foreign)
        /\ d.started = c.started /\ d.asking = c.asking /\ d.timers = c.timers
        /\ d.source = c.source /\ d.inflight # "writing" /\ d.inflight # "stuck"
        /\ d.inflight \in {"none", "stuck"} => d.writes = <<>>
    BY <1>3, <1>4, <1>d, CollectIs
  <1>6. TypeInv'
    BY <1>0, <1>1, <1>2, <1>5 DEF TypeInv
  <1>7. TrackOK'
    <2>1. \A i \in Source : sources[i].url \in Nat /\ tx.tracked \in Nat /\ db.tracked \in Nat
      BY <1>0 DEF TypeInv, SourceOf, Content
    <2>2. \A i \in Source : sources[i].url <= tx.tracked
      BY <1>0, <2>1 DEF TrackOK
    <2>3. tx.tracked <= tx.tracked
      BY <1>0, SequencesAre
    <2> QED BY <1>0, <1>1, <1>2, <1>5, <2>2, <2>3 DEF TrackOK
  <1>8. ASSUME excused' = {} PROVE OneSource' /\ ChainOK' /\ Contiguous(db)' /\ Contiguous(tx)'
    <2>1. OneSource /\ ChainOK /\ Contiguous(tx)
      BY <1>1, <1>8 DEF DownInv
    <2>2. OneSource'
      BY <1>1, <1>2, <1>4, <1>5, <2>1 DEF OneSource
    <2>3. Contiguous(db)' /\ Contiguous(tx)'
      BY <1>1, <2>1 DEF Contiguous
    <2>p. PICK R : R = 0 .. tx.tracked
      OBVIOUS
    <2>4. /\ After(After(R, d.writes), d.pendingWrites) = After(After(R, c.writes), c.pendingWrites)
          /\ Linked(R, c.writes) /\ Linked(After(R, c.writes), c.pendingWrites)
               => Linked(R, d.writes) /\ Linked(After(R, d.writes), d.pendingWrites)
      BY <1>4, <1>d, CollectKeeps
    <2>5. Collected' = Collected /\ Applied' = After(R, d.writes)
      BY <1>1, <1>2, <1>4, <2>4, <2>p DEF Collected, Applied
    <2>6. Linked(R, c.writes) /\ Linked(After(R, c.writes), c.pendingWrites)
      BY <1>1, <1>4, <2>1, <2>p DEF ChainOK, Applied
    <2>7. ChainOK'
      BY <1>1, <1>2, <2>1, <2>4, <2>5, <2>6, <2>p DEF ChainOK
    <2> QED BY <2>2, <2>3, <2>7
  <1> QED BY <1>6, <1>7, <1>8 DEF DownInv

LEMMA FailsStep == ASSUME DownInv, TransactionFails PROVE DownInv'
  <1>0. TypeInv /\ TrackOK
    BY DEF DownInv
  <1>1. /\ version' = version /\ foreign' = foreign /\ sources' = sources /\ db' = db /\ tx' = db
        /\ excused' = excused
    BY DEF TransactionFails
  <1>2. client' = [client EXCEPT !.inflight = "stuck", !.writes = <<>>]
    BY DEF TransactionFails
  <1>3. /\ client' \in ClientOf(version, foreign)
        /\ client'.started = client.started /\ client'.asking = client.asking
        /\ client'.timers = client.timers /\ client'.source = client.source
        /\ client'.inflight = "stuck" /\ client'.writes = <<>>
    <2>1. <<>> \in Seq(Faithful(version, foreign)) /\ client \in ClientOf(version, foreign)
      BY <1>0, EmptySeq DEF TypeInv
    <2> QED BY <1>2, <2>1 DEF ClientOf
  <1>4. TypeInv'
    BY <1>0, <1>1, <1>3 DEF TypeInv
  <1>5. TrackOK'
    <2>1. db.tracked <= db.tracked /\ db.tracked <= version
      BY <1>0, SequencesAre DEF TypeInv, TrackOK
    <2> QED BY <1>0, <1>1, <1>3, <2>1 DEF TrackOK
  <1>6. ASSUME excused' = {} PROVE OneSource' /\ ChainOK' /\ Contiguous(db)' /\ Contiguous(tx)'
    <2>1. OneSource /\ Contiguous(db)
      BY <1>1, <1>6 DEF DownInv
    <2> QED BY <1>1, <1>3, <2>1 DEF OneSource, ChainOK, Contiguous
  <1> QED BY <1>4, <1>5, <1>6 DEF DownInv

\* A new worker begins with nothing on its way.
Anew ==
  /\ version \in Nat /\ foreign \subseteq 1 .. version /\ db \in Content /\ db.tracked <= version
  /\ Contiguous(db) \/ excused # {}
  /\ tx = db /\ client = NewClient /\ sources = [i \in Source |-> Closed]

LEMMA AnewHolds == Anew => DownInv
  <1> SUFFICES ASSUME Anew PROVE DownInv
    OBVIOUS
  <1>0. /\ version \in Nat /\ foreign \subseteq 1 .. version /\ db \in Content /\ db.tracked <= version
        /\ Contiguous(db) \/ excused # {}
        /\ tx = db /\ client = NewClient /\ sources = [i \in Source |-> Closed]
    BY DEF Anew
  <1>1. client \in ClientOf(version, foreign)
    BY <1>0, NewClientIs
  <1>2. /\ client.started /\ client.asking = 1 /\ client.timers = 0
        /\ client.pendingWrites = <<>> /\ client.writes = <<>> /\ client.inflight = "none"
    BY <1>0 DEF NewClient
  <1>3. /\ sources \in [Source -> SourceOf(version, foreign)]
        /\ \A i \in Source : /\ sources[i].at = "closed" /\ sources[i].url = 0 /\ ~sources[i].due
                             /\ sources[i].since = 0 /\ sources[i].wire = <<>>
    <2>1. ~Closed.due
      BY DEF Closed, NewSource
    <2> QED BY <1>0, <2>1, ClosedIs
  <1>4. TypeInv
    BY <1>0, <1>1, <1>3 DEF TypeInv
  <1>5. db.tracked \in Nat
    BY <1>4, SequencesAre
  <1>6. TrackOK
    BY <1>0, <1>2, <1>3, <1>5 DEF TrackOK
  <1>7. OneSource
    BY <1>2, <1>3 DEF OneSource
  <1>8. ChainOK
    <2>1. Applied = 0 .. tx.tracked /\ Collected = 0 .. tx.tracked
      BY <1>2, AfterEmpty DEF Applied, Collected
    <2>2. 0 \in 0 .. tx.tracked
      BY <1>0, <1>5
    <2> QED BY <1>2, <1>3, <2>1, <2>2, AfterEmpty DEF ChainOK
  <1> QED BY <1>0, <1>4, <1>6, <1>7, <1>8 DEF DownInv

LEMMA DownInit == Init => DownInv
  <1> SUFFICES ASSUME Init PROVE DownInv
    OBVIOUS
  <1>1. version \in 0 .. 1 /\ foreign = 1 .. version /\ db = [held |-> {}, tracked |-> 0] /\ tx = db
    BY DEF Init
  <1>2. version \in Nat /\ db \in Content /\ db.tracked <= version
    BY <1>1 DEF Content
  <1>3. Contiguous(db)
    BY <1>1 DEF Contiguous
  <1> QED BY <1>1, <1>2, <1>3, AnewHolds DEF Init, Anew

LEMMA WorkerRestartsStep == DownInv /\ WorkerRestarts => DownInv'
  <1>1. DownInv /\ WorkerRestarts => Anew'
    <2> SUFFICES ASSUME DownInv, WorkerRestarts PROVE Anew'
      OBVIOUS
    <2>1. /\ version' = version /\ foreign' = foreign /\ db' = db /\ tx' = db' /\ excused' = excused
          /\ client' = NewClient /\ sources' = [i \in Source |-> Closed]
      BY DEF WorkerRestarts
    <2>2. TypeInv /\ TrackOK /\ (Contiguous(db) \/ excused # {})
      BY DEF DownInv
    <2>3. version \in Nat /\ foreign \subseteq 1 .. version /\ db \in Content /\ db.tracked <= version
      BY <2>2, SequencesAre DEF TypeInv, TrackOK
    <2>4. Contiguous(db)' \/ excused' # {}
      BY <2>1, <2>2 DEF Contiguous
    <2> QED BY <2>1, <2>3, <2>4 DEF Anew
  <1>2. Anew' => DownInv'
    BY AnewHolds, PTL
  <1> QED BY <1>1, <1>2

LEMMA DownNext == DownInv /\ [Next]_vars => DownInv'
  <1> SUFFICES ASSUME DownInv, [Next]_vars PROVE DownInv'
    OBVIOUS
  <1>1. CASE UNCHANGED vars
    <2>1. /\ version' = version /\ foreign' = foreign /\ sources' = sources /\ client' = client
          /\ db' = db /\ tx' = tx /\ excused' = excused
      BY <1>1 DEF vars
    <2>2. TypeInv' /\ TrackOK'
      BY <2>1 DEF DownInv, TypeInv, TrackOK
    <2>3. OneSource => OneSource'
      BY <2>1 DEF OneSource
    <2>4. ChainOK => ChainOK'
      BY <2>1 DEF ChainOK, Applied, Collected
    <2>5. Contiguous(db)' = Contiguous(db) /\ Contiguous(tx)' = Contiguous(tx)
      BY <2>1 DEF Contiguous
    <2> QED BY <2>1, <2>2, <2>3, <2>4, <2>5 DEF DownInv
  <1>2. ASSUME NEW i \in Source,
               StartOutboundStream(i) \/ dbChanged(i) \/ Break(i) \/ msgReceivedFromServer(i)
        PROVE  DownInv'
    BY <1>2, StartStep, dbChangedStep, BreakStep, ReceivedStep
  <1> QED BY <1>1, <1>2, CommitStep, EstablishedStep, RestartTimerStep, ApplyStep, CommittedStep,
             FailsStep, WorkerRestartsStep DEF Next

\* The inductive invariant: whatever breaks, fails or restarts, a message on its way
\* begins within the reach of what comes before it.
THEOREM DownInvariant == Spec => []DownInv
  BY DownInit, DownNext, PTL DEF Spec

\* InboundStream.applyChangesetMsg: a message is applied even when it does not follow the
\* last one, and still the browser holds every change of others up to the version it
\* tracks, as long as one restart of the stream is done before the next begins.
THEOREM ClientHolds == Spec => []ClientHoldsWhatItTracks
  <1>1. DownInv => ClientHoldsWhatItTracks
    BY DEF DownInv, Contiguous, ClientHoldsWhatItTracks, StaysContiguous
  <1> QED BY <1>1, DownInvariant, PTL

\* applyChangesetMsg tracks the larger of two versions: what a browser tracks never goes
\* back, though a source that connects again sends what it sent before.
THEOREM TrackedForward == Spec => TrackedGoesForward
  <1>1. DownInv /\ [Next]_vars => db'.tracked >= db.tracked
    <2> SUFFICES ASSUME DownInv, [Next]_vars PROVE db'.tracked >= db.tracked
      OBVIOUS
    <2>1. db.tracked \in Nat /\ tx.tracked \in Nat /\ db.tracked <= tx.tracked
      BY SequencesAre DEF DownInv, TrackOK
    <2>2. db' = db \/ db' = tx
      BY DEF Next, vars, Commit, StartOutboundStream, dbChanged, Break, msgReceivedFromServer,
             Established, RestartTimer, applyChangesetMsg, Committed, TransactionFails, WorkerRestarts
    <2> QED BY <2>1, <2>2
  <1>2. DownInv /\ [Next]_vars => [db'.tracked >= db.tracked]_vars
    BY <1>1
  <1> QED BY <1>2, DownInvariant, PTL DEF Spec, TrackedGoesForward

-----------------------------------------------------------------------------
\* What holds at rest.  The second invariant says that nothing a browser lacks is
\* without somebody who brings it: a stream that read all there is or is to be called,
\* and a source that is there or a start that makes one.

\* What is held came from others.
HeldOK == db.held \subseteq foreign /\ tx.held \subseteq foreign

\* collectChangesetMsg leaves nothing in the queue while no transaction is under way.
CollectedOK == client.inflight = "none" => client.pendingWrites = <<>>

\* A stream that is not about to be called has read every change of others.
ReadOK ==
  \A i \in Source :
    sources[i].at = "open" => sources[i].due \/ \A v \in foreign : v <= sources[i].since

\* Where no restart is due and no start asks for a version, there is a source.
SourceOK ==
  excused = {} /\ client.timers + client.asking = 0 =>
    client.source \in Source /\ sources[client.source].at # "closed"

RestInv == HeldOK /\ CollectedOK /\ ReadOK /\ SourceOK

LEMMA HeldStep == ASSUME DownInv, RestInv, [Next]_vars PROVE HeldOK'
  <1>0. TypeInv /\ HeldOK
    BY DEF DownInv, RestInv
  <1>1. CASE Commit
    BY <1>0, <1>1 DEF Commit, HeldOK
  <1>2. CASE applyChangesetMsg
    <2>m. PICK w, m, t : w = client.writes /\ m = Head(w) /\ t = Max({tx.tracked, m.seqEnd})
      OBVIOUS
    <2>1. db' = db /\ foreign' = foreign /\ w # <<>> /\ tx' = [held |-> tx.held \cup m.changes, tracked |-> t]
      BY <1>2, <2>m DEF applyChangesetMsg
    <2>2. w \in Seq(Faithful(version, foreign))
      BY <1>0, <2>m DEF TypeInv, ClientOf
    <2>3. m \in Faithful(version, foreign)
      BY <2>1, <2>2, <2>m, HeadTailProperties
    <2>4. m.changes \subseteq foreign
      BY <2>3 DEF Faithful
    <2>5. tx'.held = tx.held \cup m.changes
      BY <2>1
    <2> QED BY <1>0, <2>1, <2>4, <2>5 DEF HeldOK
  <1>3. CASE ~Commit /\ ~applyChangesetMsg
    <2>1. foreign' = foreign /\ (db' = db \/ db' = tx) /\ (tx' = tx \/ tx' = db)
      BY <1>3 DEF Next, vars, StartOutboundStream, dbChanged, Break, msgReceivedFromServer,
             Established, RestartTimer, Committed, TransactionFails, WorkerRestarts
    <2> QED BY <1>0, <2>1 DEF HeldOK
  <1> QED BY <1>1, <1>2, <1>3

LEMMA CollectTakesAll ==
  ASSUME NEW n, NEW f, NEW c \in ClientOf(n, f), NEW d, d = Collect(c)
  PROVE  d.inflight = "none" => d.pendingWrites = <<>>
  <1>1. CASE d = c /\ (c.inflight # "none" \/ c.pendingWrites = <<>>)
    BY <1>1
  <1>2. CASE d = [c EXCEPT !.inflight = "waiting", !.writes = c.pendingWrites, !.pendingWrites = <<>>]
    <2>1. d.pendingWrites = <<>>
      BY <1>2 DEF ClientOf
    <2> QED BY <2>1
  <1> QED BY <1>1, <1>2 DEF Collect

LEMMA CollectedStep == ASSUME DownInv, RestInv, [Next]_vars PROVE CollectedOK'
  <1>0. TypeInv /\ CollectedOK
    BY DEF DownInv, RestInv
  <1>c. client \in ClientOf(version, foreign)
    BY <1>0 DEF TypeInv
  <1>1. ASSUME NEW i \in Source, msgReceivedFromServer(i) PROVE CollectedOK'
    <2>m. PICK q, m, p, c : /\ q = sources[i].wire /\ m = Head(q)
                            /\ p = Append(client.pendingWrites, m)
                            /\ c = [client EXCEPT !.pendingWrites = p]
      OBVIOUS
    <2>1. client' = (IF client.started THEN Collect(c) ELSE client) /\ q # <<>>
      BY <1>1, <2>m DEF msgReceivedFromServer
    <2>2. q \in Seq(Faithful(version, foreign)) /\ m \in Faithful(version, foreign)
      <3>1. q \in Seq(Faithful(version, foreign))
        BY <1>0, <2>m DEF TypeInv, SourceOf
      <3> QED BY <2>1, <2>m, <3>1, HeadTailProperties
    <2>3. c \in ClientOf(version, foreign)
      <3>1. p \in Seq(Faithful(version, foreign))
        BY <1>c, <2>m, <2>2, AppendProperties DEF ClientOf
      <3> QED BY <1>c, <2>m, <3>1 DEF ClientOf
    <2> QED BY <1>0, <2>1, <2>3, CollectTakesAll DEF CollectedOK
  <1>2. CASE Committed
    <2>c. PICK c : c = [client EXCEPT !.inflight = "none"]
      OBVIOUS
    <2>1. client' = Collect(c) /\ c \in ClientOf(version, foreign)
      BY <1>2, <1>c, <2>c DEF Committed, ClientOf
    <2> QED BY <2>1, CollectTakesAll DEF CollectedOK
  <1>3. CASE WorkerRestarts
    BY <1>3 DEF WorkerRestarts, NewClient, CollectedOK
  <1>4. CASE TransactionFails
    <2>1. client' = [client EXCEPT !.inflight = "stuck", !.writes = <<>>]
      BY <1>4 DEF TransactionFails
    <2>2. client'.inflight = "stuck"
      BY <1>c, <2>1 DEF ClientOf
    <2> QED BY <2>2 DEF CollectedOK
  <1>5. CASE applyChangesetMsg
    <2>k. PICK r, s, z, k :
            client' = [client EXCEPT !.writes = r, !.inflight = "writing", !.seq = s,
                                     !.started = z, !.timers = k]
      BY <1>5 DEF applyChangesetMsg
    <2>1. client'.inflight = "writing"
      BY <1>c, <2>k DEF ClientOf
    <2> QED BY <2>1 DEF CollectedOK
  <1>6. CASE Established
    <2>k. PICK k, s, i : client' = [client EXCEPT !.asking = k, !.seq = s, !.source = i]
      BY <1>6 DEF Established
    <2>1. client'.inflight = client.inflight /\ client'.pendingWrites = client.pendingWrites
      BY <1>c, <2>k DEF ClientOf
    <2> QED BY <1>0, <2>1 DEF CollectedOK
  <1>7. CASE RestartTimer
    <2>c. PICK k, c : k = client.timers - 1 /\ c = [client EXCEPT !.timers = k]
      OBVIOUS
    <2>k. client' = c \/ \E z, a : client' = [c EXCEPT !.started = z, !.asking = a]
      BY <1>7, <2>c DEF RestartTimer, start
    <2>1. client'.inflight = client.inflight /\ client'.pendingWrites = client.pendingWrites
      BY <1>c, <2>c, <2>k DEF ClientOf
    <2> QED BY <1>0, <2>1 DEF CollectedOK
  <1>8. ASSUME client' = client PROVE CollectedOK'
    BY <1>0, <1>8 DEF CollectedOK
  <1> QED BY <1>1, <1>2, <1>3, <1>4, <1>5, <1>6, <1>7, <1>8
          DEF Next, vars, Commit, StartOutboundStream, dbChanged, Break

\* Where a source was made or called, closed or left alone.
LEMMA ReadStep == ASSUME DownInv, RestInv, [Next]_vars PROVE ReadOK'
  <1>0. TypeInv /\ ReadOK
    BY DEF DownInv, RestInv
  <1>s. \A i \in Source : sources[i] \in SourceOf(version, foreign)
    BY <1>0 DEF TypeInv
  <1>d. DOMAIN sources = Source
    BY <1>0 DEF TypeInv
  <1>1. CASE Commit
    <2>1. ASSUME NEW i \in Source, sources'[i].at = "open" PROVE sources'[i].due
      <3>1. sources'[i] = [sources[i] EXCEPT !.due = sources[i].at = "open"]
        BY <1>1 DEF Commit
      <3> QED BY <1>s, <2>1, <3>1 DEF SourceOf
    <2> QED BY <2>1 DEF ReadOK
  \* One source becomes x, which has read all or is to be called or is not open.
  <1>2. ASSUME NEW i, NEW x, sources' = [sources EXCEPT ![i] = x], foreign' = foreign,
               x.at = "open" => x.due \/ \A v \in foreign : v <= x.since
        PROVE  ReadOK'
    BY <1>0, <1>2, <1>d DEF ReadOK
  <1>3. ASSUME NEW i \in Source, StartOutboundStream(i) PROVE ReadOK'
    <2>x. PICK x : x = [NewSource(sources[i].url) EXCEPT !.at = "open", !.due = TRUE]
      OBVIOUS
    <2>1. sources' = [sources EXCEPT ![i] = x] /\ foreign' = foreign
      BY <1>3, <2>x DEF StartOutboundStream
    <2>2. x.due
      BY <2>x DEF NewSource
    <2> QED BY <1>2, <2>1, <2>2
  <1>4. ASSUME NEW i \in Source, dbChanged(i) PROVE ReadOK'
    <2>o. PICK o, S, top : o = sources[i] /\ S = {v \in foreign : v > o.since} /\ top = Max(S)
      OBVIOUS
    <2>0. o \in SourceOf(version, foreign) /\ foreign' = foreign
      BY <1>4, <1>s, <2>o DEF dbChanged
    <2>v. version \in Nat /\ foreign \subseteq 1 .. version /\ o.since \in 0 .. version
      BY <1>0, <2>0 DEF TypeInv, SourceOf
    <2>w. ASSUME NEW v \in foreign
          PROVE  v \in 0 .. version /\ (v \in S \/ v <= o.since)
      <3>1. v \in 0 .. version
        BY <2>v
      <3>2. v \in S <=> v > o.since
        BY <2>o
      <3> QED BY <2>v, <3>1, <3>2
    <2>1. CASE S = {}
      <3>x. PICK x : x = [o EXCEPT !.due = FALSE]
        OBVIOUS
      <3>1. sources' = [sources EXCEPT ![i] = x]
        BY <1>4, <2>o, <2>1, <3>x DEF dbChanged, getChanges
      <3>2. x.since = o.since
        BY <2>0, <3>x DEF SourceOf
      <3>3. \A v \in foreign : v <= o.since
        BY <2>w, <2>1
      <3> QED BY <1>2, <2>0, <3>1, <3>2, <3>3
    <2>2. CASE S # {}
      <3>x. PICK x, q : /\ q = Append(o.wire, [seqStart |-> o.since, seqEnd |-> top, changes |-> S])
                        /\ x = [o EXCEPT !.due = FALSE, !.since = top, !.wire = q]
        OBVIOUS
      <3>1. sources' = [sources EXCEPT ![i] = x]
        BY <1>4, <2>o, <2>2, <3>x DEF dbChanged, getChanges
      <3>2. x.since = top
        BY <2>0, <3>x DEF SourceOf
      <3>3. top \in S /\ \A v \in S : v <= top
        <4>1. S \subseteq 0 .. version
          BY <2>o, <2>w
        <4> QED BY <2>o, <2>v, <2>2, <4>1, MaxOf
      <3>4. ASSUME NEW v \in foreign PROVE v <= top
        <4>1. top \in 0 .. version /\ top > o.since
          BY <2>o, <2>w, <3>3
        <4>2. CASE v <= o.since
          BY <2>v, <2>w, <4>1, <4>2
        <4> QED BY <2>w, <3>3, <4>2
      <3> QED BY <1>2, <2>0, <3>1, <3>2, <3>4
    <2> QED BY <2>1, <2>2
  <1>5. ASSUME NEW i \in Source, Break(i) PROVE ReadOK'
    <2>x. PICK x : x = NewSource(sources[i].url)
      OBVIOUS
    <2>1. sources' = [sources EXCEPT ![i] = x] /\ foreign' = foreign
      BY <1>5, <2>x DEF Break
    <2>2. x.at = "connecting"
      BY <2>x DEF NewSource
    <2> QED BY <1>2, <2>1, <2>2
  <1>6. ASSUME NEW i \in Source, msgReceivedFromServer(i) PROVE ReadOK'
    <2>x. PICK q, x : q = Tail(sources[i].wire) /\ x = [sources[i] EXCEPT !.wire = q]
      OBVIOUS
    <2>1. sources' = [sources EXCEPT ![i] = x] /\ foreign' = foreign
      BY <1>6, <1>d, <2>x DEF msgReceivedFromServer
    <2>2. x.at = sources[i].at /\ x.due = sources[i].due /\ x.since = sources[i].since
      BY <1>s, <2>x DEF SourceOf
    <2> QED BY <1>0, <1>2, <2>1, <2>2 DEF ReadOK
  <1>7. CASE Established
    <2>i. PICK i \in Source : sources' = [sources EXCEPT ![i] = NewSource(db.tracked)]
      BY <1>7 DEF Established
    <2>x. PICK x : x = NewSource(db.tracked)
      OBVIOUS
    <2>1. foreign' = foreign /\ x.at = "connecting"
      BY <1>7, <2>x DEF Established, NewSource
    <2> QED BY <1>2, <2>i, <2>x, <2>1
  <1>8. CASE applyChangesetMsg
    <2>1. /\ foreign' = foreign
          /\ sources' = sources \/ sources' = [sources EXCEPT ![client.source] = Closed]
      BY <1>8 DEF applyChangesetMsg
    <2>2. Closed.at # "open"
      BY ClosedIs, <1>0 DEF TypeInv
    <2>3. CASE sources' = sources
      BY <1>0, <2>1, <2>3 DEF ReadOK
    <2>4. CASE sources' = [sources EXCEPT ![client.source] = Closed]
      BY <1>2, <2>1, <2>2, <2>4
    <2> QED BY <2>1, <2>3, <2>4
  <1>9. CASE WorkerRestarts
    <2>1. \A i \in Source : sources'[i].at = "closed"
      BY <1>0, <1>9, ClosedIs DEF WorkerRestarts, TypeInv
    <2> QED BY <2>1 DEF ReadOK
  <1>10. ASSUME sources' = sources, foreign' = foreign PROVE ReadOK'
    BY <1>0, <1>10 DEF ReadOK
  <1> QED BY <1>1, <1>3, <1>4, <1>5, <1>6, <1>7, <1>8, <1>9, <1>10
          DEF Next, vars, RestartTimer, Committed, TransactionFails

LEMMA SourceStays ==
  ASSUME SourceOK, DownInv, excused' = {} => excused = {},
         excused' = {} /\ client'.timers + client'.asking = 0 =>
           client.timers + client.asking = 0 /\ client'.source = client.source,
         \A i \in Source : sources[i].at # "closed" => sources'[i].at # "closed"
  PROVE  SourceOK'
  BY DEF SourceOK

LEMMA CollectLeaves ==
  ASSUME NEW n, NEW f, NEW c \in ClientOf(n, f), NEW d, d = Collect(c)
  PROVE  d.timers = c.timers /\ d.asking = c.asking /\ d.source = c.source
  <1>1. d = c \/ d = [c EXCEPT !.inflight = "waiting", !.writes = c.pendingWrites,
                               !.pendingWrites = <<>>]
    BY DEF Collect
  <1> QED BY <1>1 DEF ClientOf

LEMMA SourceThere == ASSUME DownInv, RestInv, [Next]_vars PROVE SourceOK'
  <1>0. TypeInv /\ TrackOK /\ SourceOK
    BY DEF DownInv, RestInv
  <1>c. /\ client \in ClientOf(version, foreign) /\ client.timers \in Nat /\ client.asking \in Nat
        /\ client.started \in BOOLEAN
    BY <1>0 DEF TypeInv, ClientOf
  <1>s. /\ sources \in [Source -> SourceOf(version, foreign)]
        /\ \A i \in Source : sources[i] \in SourceOf(version, foreign)
    BY <1>0 DEF TypeInv
  <1>1. CASE Commit
    <2>1. ASSUME NEW i \in Source PROVE sources'[i].at = sources[i].at
      <3>1. sources'[i] = [sources[i] EXCEPT !.due = sources[i].at = "open"]
        BY <1>1 DEF Commit
      <3> QED BY <1>s, <3>1 DEF SourceOf
    <2> QED BY <1>0, <1>1, <2>1, SourceStays DEF Commit
  \* One source becomes x, which is there.
  <1>2. ASSUME NEW i, NEW x, sources' = [sources EXCEPT ![i] = x], client' = client,
               excused' = excused, x.at # "closed"
        PROVE  SourceOK'
    BY <1>0, <1>2, <1>s DEF SourceOK
  <1>3. ASSUME NEW i \in Source, StartOutboundStream(i) PROVE SourceOK'
    <2>x. PICK x : x = [NewSource(sources[i].url) EXCEPT !.at = "open", !.due = TRUE]
      OBVIOUS
    <2>1. sources' = [sources EXCEPT ![i] = x] /\ client' = client /\ excused' = excused
      BY <1>3, <2>x DEF StartOutboundStream
    <2>2. x.at # "closed"
      BY <2>x DEF NewSource
    <2> QED BY <1>2, <2>1, <2>2
  <1>4. ASSUME NEW i \in Source, dbChanged(i) PROVE SourceOK'
    <2>1. sources[i].due /\ client' = client /\ excused' = excused
      BY <1>4 DEF dbChanged
    <2>2. \E s, w : \/ sources' = [sources EXCEPT ![i] = [sources[i] EXCEPT !.due = FALSE]]
                    \/ sources' = [sources EXCEPT ![i] =
                                     [sources[i] EXCEPT !.due = FALSE, !.since = s, !.wire = w]]
      <3>o. PICK S, o : S = getChanges(o.since) /\ o = sources[i]
        OBVIOUS
      <3>1. sources' = [sources EXCEPT ![i] =
              IF S = {} THEN [o EXCEPT !.due = FALSE]
              ELSE [o EXCEPT !.due = FALSE, !.since = Max(S),
                             !.wire = Append(@, [seqStart |-> o.since, seqEnd |-> Max(S),
                                                 changes |-> S])]]
        BY <1>4, <3>o DEF dbChanged
      <3> QED BY <3>o, <3>1
    <2>x. PICK s, w, x : /\ sources' = [sources EXCEPT ![i] = x]
                         /\ \/ x = [sources[i] EXCEPT !.due = FALSE]
                            \/ x = [sources[i] EXCEPT !.due = FALSE, !.since = s, !.wire = w]
      BY <2>2
    <2>3. x.at = sources[i].at
      BY <1>s, <2>x DEF SourceOf
    <2>4. x.at # "closed"
      BY <1>0, <2>1, <2>3 DEF TrackOK
    <2> QED BY <1>2, <2>1, <2>x, <2>4
  <1>5. ASSUME NEW i \in Source, Break(i) PROVE SourceOK'
    <2>x. PICK x : x = NewSource(sources[i].url)
      OBVIOUS
    <2>1. sources' = [sources EXCEPT ![i] = x] /\ client' = client /\ excused' = excused
      BY <1>5, <2>x DEF Break
    <2>2. x.at # "closed"
      BY <2>x DEF NewSource
    <2> QED BY <1>2, <2>1, <2>2
  <1>6. ASSUME NEW i \in Source, msgReceivedFromServer(i) PROVE SourceOK'
    <2>x. PICK q, x : q = Tail(sources[i].wire) /\ x = [sources[i] EXCEPT !.wire = q]
      OBVIOUS
    <2>1. sources' = [sources EXCEPT ![i] = x] /\ excused' = excused /\ sources[i].wire # <<>>
      BY <1>6, <1>s, <2>x DEF msgReceivedFromServer
    <2>2. x.at = sources[i].at
      BY <1>s, <2>x DEF SourceOf
    <2>3. \A j \in Source : sources'[j].at = sources[j].at
      BY <1>s, <2>1, <2>2
    <2>m. PICK m, p, c : /\ m = Head(sources[i].wire) /\ p = Append(client.pendingWrites, m)
                         /\ c = [client EXCEPT !.pendingWrites = p]
      OBVIOUS
    <2>4. client' = IF client.started THEN Collect(c) ELSE client
      BY <1>6, <2>m DEF msgReceivedFromServer
    <2>5. p \in Seq(Faithful(version, foreign))
      <3>1. sources[i].wire \in Seq(Faithful(version, foreign))
        BY <1>s DEF SourceOf
      <3>2. m \in Faithful(version, foreign)
        BY <2>1, <2>m, <3>1, HeadTailProperties
      <3> QED BY <1>c, <2>m, <3>2, AppendProperties DEF ClientOf
    <2>6. /\ c \in ClientOf(version, foreign) /\ c.timers = client.timers /\ c.asking = client.asking
          /\ c.source = client.source
      BY <1>c, <2>m, <2>5 DEF ClientOf
    <2>7. /\ client'.timers = client.timers /\ client'.asking = client.asking
          /\ client'.source = client.source
      <3>d. PICK d : d = Collect(c)
        OBVIOUS
      <3>1. d.timers = c.timers /\ d.asking = c.asking /\ d.source = c.source
        BY <2>6, <3>d, CollectLeaves
      <3> QED BY <2>4, <2>6, <3>d, <3>1
    <2> QED BY <1>0, <2>1, <2>3, <2>7, SourceStays
  <1>7. CASE Established
    <2>i. PICK i \in Source : /\ sources' = [sources EXCEPT ![i] = NewSource(db.tracked)]
                              /\ client' = [client EXCEPT !.asking = @ - 1, !.seq = db.tracked,
                                                          !.source = i]
      BY <1>7 DEF Established
    <2>1. client'.source = i
      BY <1>c, <2>i DEF ClientOf
    <2>2. sources'[i].at = "connecting"
      <3>1. sources'[i] = NewSource(db.tracked)
        BY <1>s, <2>i
      <3> QED BY <3>1 DEF NewSource
    <2> QED BY <2>1, <2>2 DEF SourceOK
  <1>8. CASE RestartTimer
    <2>1. client.timers > 0 /\ excused' = excused
      BY <1>8 DEF RestartTimer
    <2>2. ASSUME excused = {} PROVE client'.asking + client'.timers # 0
      <3>1. ~client.started
        BY <1>c, <2>1, <2>2 DEF DownInv, OneSource
      <3>c. PICK k, c : k = client.timers - 1 /\ c = [client EXCEPT !.timers = k]
        OBVIOUS
      <3>2. /\ client' = IF c.started THEN c ELSE [c EXCEPT !.started = TRUE, !.asking = @ + 1]
            /\ k \in Nat
        BY <1>8, <1>c, <2>1, <3>c DEF RestartTimer, start
      <3>3. c \in ClientOf(version, foreign) /\ c.started = client.started
            /\ c.asking = client.asking /\ c.timers = k
        BY <1>c, <3>2, <3>c DEF ClientOf
      <3>a. PICK a : a = client.asking + 1
        OBVIOUS
      <3>4. client' = [c EXCEPT !.started = TRUE, !.asking = a]
        BY <3>1, <3>2, <3>3, <3>a
      <3>5. client'.asking = a /\ client'.timers = k
        BY <3>3, <3>4 DEF ClientOf
      <3> QED BY <1>c, <3>2, <3>5, <3>a
    <2>3. ASSUME excused' = {}, client'.timers + client'.asking = 0 PROVE FALSE
      <3>1. client'.asking + client'.timers # 0
        BY <2>1, <2>2, <2>3
      <3>2. client' \in ClientOf(version', foreign')
        BY RestartTimerStep, <1>8 DEF DownInv, TypeInv
      <3>3. client'.asking \in Nat /\ client'.timers \in Nat
        BY <3>2 DEF ClientOf
      <3> QED BY <2>3, <3>1, <3>3
    <2> QED BY <2>3 DEF SourceOK
  <1>9. CASE applyChangesetMsg
    <2>m. PICK r, restart, s, z, k :
            /\ client' = [client EXCEPT !.writes = r, !.inflight = "writing", !.seq = s,
                                        !.started = z, !.timers = k]
            /\ k = (IF restart THEN client.timers + 1 ELSE client.timers)
            /\ sources' = IF restart THEN [sources EXCEPT ![client.source] = Closed] ELSE sources
            /\ excused' = {} => excused = {}
      <3>1. PICK m, restart : m = Head(client.writes) /\ restart = (m.seqStart # client.seq)
        OBVIOUS
      <3>k. PICK k, z, r : /\ k = (IF restart THEN client.timers + 1 ELSE client.timers)
                           /\ z = (client.started /\ ~restart)
                           /\ r = Tail(client.writes)
        OBVIOUS
      <3>2. /\ client' = [client EXCEPT !.writes = r, !.inflight = "writing", !.seq = m.seqEnd,
                                        !.started = z, !.timers = k]
            /\ sources' = IF restart THEN [sources EXCEPT ![client.source] = Closed] ELSE sources
            /\ excused' = {} => excused = {}
        BY <1>9, <1>c, <3>1, <3>k DEF applyChangesetMsg, ClientOf
      <3> QED BY <3>2, <3>k
    <2>1. client'.timers = k /\ client'.asking = client.asking /\ client'.source = client.source
      BY <1>c, <2>m DEF ClientOf
    <2>2. CASE restart
      <3>1. client'.timers + client'.asking # 0
        BY <1>c, <2>m, <2>1, <2>2
      <3> QED BY <3>1 DEF SourceOK
    <2>3. CASE ~restart
      <3>1. sources' = sources /\ client'.timers = client.timers
        BY <2>m, <2>1, <2>3
      <3> QED BY <1>0, <2>m, <2>1, <3>1, SourceStays
    <2> QED BY <2>2, <2>3
  <1>10. CASE Committed
    <2>c. PICK c : c = [client EXCEPT !.inflight = "none"]
      OBVIOUS
    <2>d. PICK d : d = Collect(c)
      OBVIOUS
    <2>1. client' = d /\ sources' = sources /\ excused' = excused
      BY <1>10, <2>c, <2>d DEF Committed
    <2>2. /\ c \in ClientOf(version, foreign) /\ c.timers = client.timers /\ c.asking = client.asking
          /\ c.source = client.source
      BY <1>c, <2>c DEF ClientOf
    <2>3. d.timers = c.timers /\ d.asking = c.asking /\ d.source = c.source
      BY <2>2, <2>d, CollectLeaves
    <2> QED BY <1>0, <2>1, <2>2, <2>3, SourceStays
  <1>11. CASE TransactionFails
    <2>1. /\ client' = [client EXCEPT !.inflight = "stuck", !.writes = <<>>]
          /\ sources' = sources /\ excused' = excused
      BY <1>11 DEF TransactionFails
    <2>2. /\ client'.timers = client.timers /\ client'.asking = client.asking
          /\ client'.source = client.source
      BY <1>c, <2>1 DEF ClientOf
    <2> QED BY <1>0, <2>1, <2>2, SourceStays
  <1>12. CASE WorkerRestarts
    <2>1. client'.timers + client'.asking # 0
      BY <1>12 DEF WorkerRestarts, NewClient
    <2> QED BY <2>1 DEF SourceOK
  <1>13. CASE UNCHANGED vars
    BY <1>0, <1>13 DEF vars, SourceOK
  <1> QED BY <1>1, <1>3, <1>4, <1>5, <1>6, <1>7, <1>8, <1>9, <1>10, <1>11, <1>12, <1>13 DEF Next

LEMMA RestInit == Init => RestInv
  <1> SUFFICES ASSUME Init PROVE RestInv
    OBVIOUS
  <1>1. /\ db = [held |-> {}, tracked |-> 0] /\ tx = db /\ client = NewClient
        /\ sources = [i \in Source |-> Closed]
    BY DEF Init
  <1>2. db.held = {} /\ client.pendingWrites = <<>> /\ client.timers + client.asking = 1
    BY <1>1 DEF NewClient
  <1>3. \A i \in Source : sources[i].at = "closed"
    BY <1>1, ClosedIs
  <1> QED BY <1>1, <1>2, <1>3 DEF RestInv, HeldOK, CollectedOK, ReadOK, SourceOK

LEMMA RestNext == DownInv /\ RestInv /\ [Next]_vars => RestInv'
  BY HeldStep, CollectedStep, ReadStep, SourceThere DEF RestInv

\* Nothing that a browser lacks is without somebody who brings it.
THEOREM RestInvariant == Spec => []RestInv
  BY RestInit, RestNext, DownInvariant, PTL DEF Spec

\* FSNotify, OutboundStream and InboundStream: when no start, no timer, no message and no
\* transaction is under way, a browser holds the changes of others and no others, unless
\* one restart of the stream overtook another.  With fairness that is CatchesUp.
THEOREM QuietIsInSync == Spec => []QuietMeansInSync
  <1>1. DownInv /\ RestInv => QuietMeansInSync
    <2> SUFFICES ASSUME DownInv, RestInv, Quiet, excused = {} PROVE db.held = foreign
      BY DEF QuietMeansInSync
    <2>1. TypeInv /\ TrackOK /\ OneSource /\ ChainOK /\ Contiguous(db)
      BY DEF DownInv
    <2>2. client.writes = <<>> /\ client.pendingWrites = <<>> /\ tx = db /\ client.inflight = "none"
      BY <2>1 DEF Quiet, TrackOK, RestInv, CollectedOK
    <2>i. PICK i \in Source : sources[i].at # "closed"
      BY DEF Quiet, RestInv, SourceOK
    <2>3. /\ sources[i].at = "open" /\ ~sources[i].due /\ sources[i].wire = <<>>
          /\ sources[i].since \in 0 .. version
      BY <2>1, <2>i DEF Quiet, TypeInv, SourceOf
    <2>4. Collected = 0 .. db.tracked
      BY <2>2, AfterEmpty DEF Collected, Applied
    <2>5. sources[i].since \in 0 .. db.tracked
      BY <2>1, <2>2, <2>3, <2>4, AfterEmpty DEF ChainOK
    <2>6. ASSUME NEW v \in foreign PROVE v \in db.held
      <3>1. v <= sources[i].since /\ v \in Nat
        BY <2>1, <2>3 DEF RestInv, ReadOK, TypeInv
      <3>2. v <= db.tracked
        BY <2>1, <2>5, <3>1, SequencesAre
      <3> QED BY <2>1, <3>2 DEF Contiguous
    <2> QED BY <2>6 DEF RestInv, HeldOK
  <1> QED BY <1>1, DownInvariant, RestInvariant, PTL

=============================================================================
