---------------------------- MODULE DirectUpProofs ----------------------------
(***************************************************************************)
(* Theorems about DirectUp for any tabs, streams, writes, failures and     *)
(* overlapping ticks: the server holds what it records and what any stream *)
(* counts as sent, and a quiet stream has sent everything.                 *)
(***************************************************************************)
EXTENDS DirectUp, SequenceTheorems, TLAPS

-----------------------------------------------------------------------------
\* The inductive invariant.  What a tick reads begins where the changes the server
\* holds reach at least, and an answered tick is held to its end: so a post adds no
\* gap, wherever the record of the server has gone meanwhile.

\* The versions up to which the changes in h reach without a gap.
Reached(h) == {n \in Nat : 1 .. n \subseteq h}

GoodTick(h) ==
  {tick \in [since : Reached(h), from : Nat, upto : Nat,
             at : {"reading", "posting", "answered", "refused"}] :
     tick.at = "answered" => tick.upto \in Reached(h)}

GoodStream(h) ==
  [ports : SUBSET Port, phase : {"created", "asking", "started", "failed", "stopped"},
   seq : Reached(h), inflightTick : BOOLEAN, hasPendingTick : BOOLEAN,
   ticks : Seq(GoodTick(h)), news : BOOLEAN, retries : Nat]

UpInv ==
  /\ dbs \in 0 .. Len(sync)
  /\ version \in Nat
  /\ seen \in Reached(held)
  /\ sync \in Seq(GoodStream(held))

-----------------------------------------------------------------------------
\* The server never loses a change, so what is good stays good.

LEMMA ReachedGrows ==
  ASSUME NEW h, NEW g, h \subseteq g
  PROVE  Reached(h) \subseteq Reached(g)
  BY DEF Reached

LEMMA GoodTicksGrow ==
  ASSUME NEW h, NEW g, h \subseteq g
  PROVE  GoodTick(h) \subseteq GoodTick(g)
  BY ReachedGrows DEF GoodTick

LEMMA GoodStreamsGrow ==
  ASSUME NEW h, NEW g, h \subseteq g
  PROVE  GoodStream(h) \subseteq GoodStream(g)
  <1>1. Seq(GoodTick(h)) \subseteq Seq(GoodTick(g))
    BY GoodTicksGrow, SeqMonotonic
  <1> QED BY <1>1, ReachedGrows DEF GoodStream

-----------------------------------------------------------------------------
\* What the operators of a stream return.

LEMMA RemoveAtIn ==
  ASSUME NEW S, NEW s \in Seq(S), NEW k \in DOMAIN s
  PROVE  RemoveAt(s, k) \in Seq(S)
  <1>1. Len(s) \in Nat /\ k \in 1 .. Len(s) /\ \A j \in 1 .. Len(s) : s[j] \in S
    BY LenProperties, ElementOfSeq
  <1>2. SubSeq(s, 1, k - 1) \in Seq(S)
    BY <1>1, SubSeqProperties
  <1>3. SubSeq(s, k + 1, Len(s)) \in Seq(S)
    BY <1>1, SubSeqProperties
  <1> QED BY <1>2, <1>3, ConcatProperties DEF RemoveAt

LEMMA NewStream == ASSUME NEW h PROVE NewSync \in GoodStream(h)
  <1>1. 0 \in Reached(h)
    BY DEF Reached
  <1>2. << >> \in Seq(GoodTick(h))
    BY EmptySeq
  <1> QED BY <1>1, <1>2 DEF NewSync, GoodStream

LEMMA NewTickGood ==
  ASSUME NEW h, NEW s \in GoodStream(h)
  PROVE  NewTick(s) \in GoodStream(h)
  <1> DEFINE tick == [since |-> s.seq, from |-> s.seq, upto |-> 0, at |-> "reading"]
  <1>1. s.seq \in Reached(h) /\ s.seq \in Nat /\ s.ticks \in Seq(GoodTick(h))
    BY DEF GoodStream, Reached
  <1>2. tick \in GoodTick(h)
    BY <1>1 DEF GoodTick
  <1>3. Append(s.ticks, tick) \in Seq(GoodTick(h))
    BY <1>1, <1>2, AppendProperties
  <1> HIDE DEF tick
  <1>4. NewTick(s) = [s EXCEPT !.inflightTick = TRUE, !.ticks = Append(s.ticks, tick)]
    BY DEF NewTick, tick
  <1> QED BY <1>3, <1>4 DEF GoodStream

LEMMA NextTickGood ==
  ASSUME NEW h, NEW s \in GoodStream(h)
  PROVE  NextTick(s) \in GoodStream(h)
  <1>1. [s EXCEPT !.hasPendingTick = TRUE] \in GoodStream(h)
    BY DEF GoodStream
  <1> QED BY <1>1, NewTickGood DEF NextTick

LEMMA WithoutTickGood ==
  ASSUME NEW h, NEW s \in GoodStream(h), NEW k \in DOMAIN s.ticks
  PROVE  WithoutTick(s, k) \in GoodStream(h)
  <1>1. RemoveAt(s.ticks, k) \in Seq(GoodTick(h))
    BY RemoveAtIn DEF GoodStream
  <1> QED BY <1>1 DEF WithoutTick, GoodStream

LEMMA ChangeTickGood ==
  ASSUME NEW h, NEW s \in GoodStream(h), NEW k \in DOMAIN s.ticks, NEW tick \in GoodTick(h)
  PROVE  [s EXCEPT !.ticks[k] = tick] \in GoodStream(h)
  <1>1. [s.ticks EXCEPT ![k] = tick] \in Seq(GoodTick(h))
    BY ExceptSeq, LenProperties DEF GoodStream
  <1> QED BY <1>1 DEF GoodStream

\* SyncedDB.start
LEMMA StartedGood ==
  ASSUME NEW h, NEW ss \in Seq(GoodStream(h)), NEW i \in 1 .. Len(ss), NEW p \in Port
  PROVE  Started(ss, i, p) \in Seq(GoodStream(h)) /\ Len(Started(ss, i, p)) = Len(ss)
  <1> DEFINE x == [ss[i] EXCEPT !.ports = @ \cup {p},
                                !.phase = IF @ = "created" THEN "asking" ELSE @]
  <1>1. ss[i] \in GoodStream(h)
    BY ElementOfSeq
  <1>2. x \in GoodStream(h)
    BY <1>1 DEF GoodStream
  <1>3. Started(ss, i, p) = IF ss[i].phase = "stopped" THEN ss ELSE [ss EXCEPT ![i] = x]
    BY DEF Started
  <1> HIDE DEF x
  <1> QED BY <1>2, <1>3, ExceptSeq

-----------------------------------------------------------------------------
\* A step that changes one stream and nothing the server holds.
LEMMA ChangeStream ==
  ASSUME UpInv, NEW i \in Sync, NEW x \in GoodStream(held), sync' = [sync EXCEPT ![i] = x],
         UNCHANGED <<dbs, version, held, seen>>
  PROVE  UpInv'
  <1>1. sync \in Seq(GoodStream(held)) /\ i \in 1 .. Len(sync)
    BY LenProperties DEF UpInv, Sync
  <1>2. sync' \in Seq(GoodStream(held)) /\ Len(sync') = Len(sync)
    BY <1>1, ExceptSeq
  <1> QED BY <1>2 DEF UpInv

LEMMA StreamIsGood ==
  ASSUME UpInv, NEW i \in Sync
  PROVE  /\ sync[i] \in GoodStream(held)
         /\ \A k \in DOMAIN sync[i].ticks : sync[i].ticks[k] \in GoodTick(held)
  <1>1. sync[i] \in GoodStream(held)
    BY ElementOfSeq, LenProperties DEF UpInv, Sync
  <1>2. sync[i].ticks \in Seq(GoodTick(held))
    BY <1>1 DEF GoodStream
  <1> QED BY <1>1, <1>2, ElementOfSeq, LenProperties

-----------------------------------------------------------------------------
\* One lemma for each kind of step.

LEMMA ServiceStep ==
  ASSUME UpInv, NEW p \in Port, startSync(p) \/ SyncedDbCreated(p) \/ stopSync(p)
  PROVE  UpInv'
  <1>0. sync \in Seq(GoodStream(held)) /\ Len(sync) \in Nat /\ dbs \in 0 .. Len(sync)
        /\ DOMAIN sync = 1 .. Len(sync)
    BY LenProperties DEF UpInv
  <1>1. CASE startSync(p)
    <2>1. CASE sync' = sync
      BY <1>1, <2>1 DEF startSync, UpInv
    <2>2. CASE dbs # 0 /\ sync' = Started(sync, dbs, p)
      <3>1. sync' \in Seq(GoodStream(held)) /\ Len(sync') = Len(sync)
        BY <1>0, <2>2, StartedGood
      <3> QED BY <1>1, <3>1 DEF startSync, UpInv
    <2> QED BY <1>1, <2>1, <2>2 DEF startSync
  <1>2. CASE SyncedDbCreated(p)
    <2> PICK ss, n : ss = Append(sync, NewSync) /\ n = Len(sync) + 1
      OBVIOUS
    <2>1. ss \in Seq(GoodStream(held)) /\ Len(ss) = n /\ n \in 1 .. Len(ss)
      BY <1>0, NewStream, AppendProperties
    <2>2. dbs' = n /\ sync' = Started(ss, n, p)
      BY <1>2 DEF SyncedDbCreated
    <2>3. sync' \in Seq(GoodStream(held)) /\ Len(sync') = n
      BY <2>1, <2>2, StartedGood
    <2> QED BY <1>0, <1>2, <2>2, <2>3 DEF SyncedDbCreated, UpInv
  <1>3. CASE stopSync(p)
    <2>1. sync' \in Seq(GoodStream(held))
      <3>1. CASE dbs = 0
        BY <1>0, <1>3, <3>1 DEF stopSync
      <3>2. CASE dbs # 0
        <4>1. sync[dbs] \in GoodStream(held)
          BY <1>0, <3>2, ElementOfSeq
        <4> PICK x, y : /\ x = [sync[dbs] EXCEPT !.ports = @ \ {p}]
                        /\ y = [sync[dbs] EXCEPT !.ports = {}, !.phase = "stopped", !.news = FALSE]
          OBVIOUS
        <4>2. x \in GoodStream(held) /\ y \in GoodStream(held)
          BY <4>1 DEF GoodStream
        <4>3. sync' = [sync EXCEPT ![dbs] = x] \/ sync' = [sync EXCEPT ![dbs] = y]
          BY <1>0, <1>3, <3>2 DEF stopSync
        <4>4. dbs \in 1 .. Len(sync)
          BY <1>0, <3>2
        <4>5. /\ [sync EXCEPT ![dbs] = x] \in Seq(GoodStream(held))
              /\ [sync EXCEPT ![dbs] = y] \in Seq(GoodStream(held))
          BY <1>0, <4>2, <4>4, ExceptSeq, Zenon
        <4> QED BY <4>3, <4>5
      <3> QED BY <3>1, <3>2
    <2>2. dbs' = 0 /\ 0 \in 0 .. Len(sync')
      BY <1>3, <2>1, LenProperties DEF stopSync
    <2> QED BY <1>3, <2>1, <2>2 DEF stopSync, UpInv
  <1> QED BY <1>1, <1>2, <1>3

LEMMA LocalWriteStep ==
  ASSUME UpInv, LocalWrite
  PROVE  UpInv'
  <1>1. sync \in Seq(GoodStream(held)) /\ Len(sync) \in Nat /\ DOMAIN sync = 1 .. Len(sync)
    BY LenProperties DEF UpInv
  <1>2. sync' = [i \in 1 .. Len(sync) |-> IF sync[i].phase = "stopped" THEN sync[i]
                                          ELSE [sync[i] EXCEPT !.news = TRUE]]
    BY <1>1 DEF LocalWrite, Sync
  <1>3. ASSUME NEW i \in 1 .. Len(sync)
        PROVE  sync[i] \in GoodStream(held) /\ [sync[i] EXCEPT !.news = TRUE] \in GoodStream(held)
    <2>1. sync[i] \in GoodStream(held)
      BY <1>1, <1>3, ElementOfSeq
    <2> QED BY <2>1 DEF GoodStream
  <1>4. sync' \in [1 .. Len(sync) -> GoodStream(held)]
    BY <1>2, <1>3
  <1>5. sync' \in Seq(GoodStream(held))
    <2>1. sync' \in UNION {[1 .. n -> GoodStream(held)] : n \in Nat}
      BY <1>1, <1>4
    <2> QED BY <2>1, SeqDef, Zenon
  <1>6. Len(sync') = Len(sync)
    BY <1>1, <1>4, <1>5, LenProperties
  <1>7. UNCHANGED <<tab, dbs, held, seen>> /\ version' \in Nat
    BY DEF LocalWrite, UpInv
  <1> QED BY <1>5, <1>6, <1>7 DEF UpInv

LEMMA StreamStep ==
  ASSUME UpInv, NEW i \in Sync,
         CreateOrMigrate(i) \/ CreateOrMigrateFails(i) \/ LocalDbChanged(i)
  PROVE  UpInv'
  <1>0. sync[i] \in GoodStream(held) /\ seen \in Reached(held)
    BY StreamIsGood DEF UpInv
  <1>1. CASE CreateOrMigrate(i)
    <2> DEFINE s == [sync[i] EXCEPT !.phase = "started", !.seq = seen]
    <2>1. s \in GoodStream(held)
      BY <1>0 DEF GoodStream
    <2>2. sync' = [sync EXCEPT ![i] = NextTick(s)]
      BY <1>1 DEF CreateOrMigrate
    <2>3. NextTick(s) \in GoodStream(held)
      BY <2>1, NextTickGood
    <2> HIDE DEF s
    <2> QED BY <1>1, <2>2, <2>3, ChangeStream DEF CreateOrMigrate
  <1>2. CASE CreateOrMigrateFails(i)
    <2> PICK x, y : /\ x = [sync[i] EXCEPT !.retries = @ - 1]
                    /\ y = [sync[i] EXCEPT !.phase = "failed"]
      OBVIOUS
    <2>1. y \in GoodStream(held) /\ (sync[i].retries > 0 => x \in GoodStream(held))
      BY <1>0 DEF GoodStream
    <2>2. \/ sync[i].retries > 0 /\ sync' = [sync EXCEPT ![i] = x]
          \/ sync' = [sync EXCEPT ![i] = y]
      BY <1>2 DEF CreateOrMigrateFails
    <2> QED BY <1>2, <2>1, <2>2, ChangeStream DEF CreateOrMigrateFails
  <1>3. CASE LocalDbChanged(i)
    <2> DEFINE s == [sync[i] EXCEPT !.news = FALSE]
    <2>1. s \in GoodStream(held)
      BY <1>0 DEF GoodStream
    <2>2. sync' = [sync EXCEPT ![i] = NextTick(s)]
      BY <1>3 DEF LocalDbChanged
    <2>3. NextTick(s) \in GoodStream(held)
      BY <2>1, NextTickGood
    <2> HIDE DEF s
    <2> QED BY <1>3, <2>2, <2>3, ChangeStream DEF LocalDbChanged
  <1> QED BY <1>1, <1>2, <1>3

LEMMA TickStep ==
  ASSUME UpInv, NEW i \in Sync, NEW k \in DOMAIN sync[i].ticks,
         PullNothing(i, k) \/ Pull(i, k) \/ Posted(i, k) \/ PostFails(i, k)
  PROVE  UpInv'
  <1>0. sync[i] \in GoodStream(held) /\ sync[i].ticks[k] \in GoodTick(held) /\ version \in Nat
    BY StreamIsGood DEF UpInv
  <1>1. WithoutTick(sync[i], k) \in GoodStream(held)
    BY <1>0, WithoutTickGood
  <1>2. CASE PullNothing(i, k) \/ PostFails(i, k)
    <2> DEFINE x == [WithoutTick(sync[i], k) EXCEPT !.inflightTick = FALSE]
    <2>1. x \in GoodStream(held)
      BY <1>1 DEF GoodStream
    <2>2. sync' = [sync EXCEPT ![i] = x] /\ UNCHANGED <<dbs, version, held, seen>>
      BY <1>2 DEF PullNothing, PostFails
    <2> HIDE DEF x
    <2> QED BY <2>1, <2>2, ChangeStream
  <1>3. CASE Pull(i, k)
    <2> DEFINE tick == [sync[i].ticks[k] EXCEPT !.from = sync[i].seq, !.upto = version, !.at = "posting"]
    <2>1. sync[i].seq \in Nat
      BY <1>0 DEF GoodStream, Reached
    <2>2. tick \in GoodTick(held)
      BY <1>0, <2>1 DEF GoodTick
    <2>3. sync' = [sync EXCEPT ![i] = [sync[i] EXCEPT !.ticks[k] = tick]]
      BY <1>3 DEF Pull
    <2>4. [sync[i] EXCEPT !.ticks[k] = tick] \in GoodStream(held)
      BY <1>0, <2>2, ChangeTickGood
    <2> HIDE DEF tick
    <2> QED BY <1>3, <2>3, <2>4, ChangeStream DEF Pull
  <1>4. CASE Posted(i, k)
    <2> DEFINE s == [WithoutTick(sync[i], k) EXCEPT !.seq = sync[i].ticks[k].upto,
                       !.inflightTick = FALSE, !.hasPendingTick = FALSE]
               x == [NextTick(s) EXCEPT !.inflightTick = FALSE]
    <2>1. sync[i].ticks[k].upto \in Reached(held)
      BY <1>0, <1>4 DEF Posted, GoodTick
    <2>2. s \in GoodStream(held)
      BY <1>1, <2>1 DEF GoodStream
    <2>3. NextTick(s) \in GoodStream(held)
      BY <2>2, NextTickGood
    <2>4. x \in GoodStream(held)
      BY <2>3 DEF GoodStream
    <2>5. sync' = [sync EXCEPT ![i] = x] \/ sync' = [sync EXCEPT ![i] = s]
      BY <1>4 DEF Posted
    <2> HIDE DEF s, x
    <2> QED BY <1>4, <2>2, <2>4, <2>5, ChangeStream DEF Posted
  <1> QED BY <1>2, <1>3, <1>4

\* The changes of a post begin where the server has no gap below, so it has none
\* below where they end.
LEMMA ApplyStep ==
  ASSUME UpInv, NEW i \in Sync, NEW k \in DOMAIN sync[i].ticks, ApplyChanges(i, k)
  PROVE  UpInv'
  <1> DEFINE msg == sync[i].ticks[k]
  <1>0. sync[i] \in GoodStream(held) /\ msg \in GoodTick(held)
    BY StreamIsGood
  <1>1. CASE msg.from > seen
    <2> DEFINE tick == [msg EXCEPT !.at = "refused"]
    <2>1. tick \in GoodTick(held)
      BY <1>0 DEF GoodTick
    <2>2. sync' = [sync EXCEPT ![i] = [sync[i] EXCEPT !.ticks[k] = tick]]
      BY <1>1 DEF ApplyChanges
    <2>3. [sync[i] EXCEPT !.ticks[k] = tick] \in GoodStream(held)
      BY <1>0, <2>1, ChangeTickGood
    <2> HIDE DEF tick
    <2> QED BY <1>1, <2>2, <2>3, ChangeStream DEF ApplyChanges
  <1>2. CASE ~(msg.from > seen)
    <2> DEFINE tick == [msg EXCEPT !.at = "answered"]
    <2>1. held' = held \cup (msg.since + 1 .. msg.upto) /\ seen' = msg.upto
          /\ sync' = [sync EXCEPT ![i] = [sync[i] EXCEPT !.ticks[k] = tick]]
          /\ UNCHANGED <<dbs, version>>
      BY <1>2 DEF ApplyChanges
    <2>2. msg.since \in Nat /\ msg.upto \in Nat /\ 1 .. msg.since \subseteq held
      BY <1>0 DEF GoodTick, Reached
    <2>3. msg.upto \in Reached(held')
      BY <2>1, <2>2 DEF Reached
    <2>4. held \subseteq held'
      BY <2>1
    <2>5. tick \in GoodTick(held')
      <3>1. msg \in GoodTick(held')
        BY <1>0, <2>4, GoodTicksGrow
      <3> QED BY <2>3, <3>1 DEF GoodTick
    <2>6. sync[i] \in GoodStream(held') /\ sync \in Seq(GoodStream(held'))
      BY <1>0, <2>4, GoodStreamsGrow, SeqMonotonic DEF UpInv
    <2>7. [sync[i] EXCEPT !.ticks[k] = tick] \in GoodStream(held')
      BY <2>5, <2>6, ChangeTickGood
    <2>8. i \in 1 .. Len(sync)
      BY LenProperties DEF UpInv, Sync
    <2> HIDE DEF tick
    <2>9. sync' \in Seq(GoodStream(held')) /\ Len(sync') = Len(sync)
      BY <2>1, <2>6, <2>7, <2>8, ExceptSeq
    <2> QED BY <2>1, <2>3, <2>9 DEF UpInv
  <1> QED BY <1>1, <1>2

-----------------------------------------------------------------------------
LEMMA UpInit == Init => UpInv
  <1> SUFFICES ASSUME Init PROVE UpInv
    OBVIOUS
  <1>1. << >> \in Seq(GoodStream(held)) /\ Len(<< >>) = 0
    BY EmptySeq
  <1>2. 0 \in Reached(held)
    BY DEF Reached
  <1> QED BY <1>1, <1>2 DEF Init, UpInv

LEMMA UpNext == UpInv /\ [Next]_vars => UpInv'
  <1> SUFFICES ASSUME UpInv, [Next]_vars PROVE UpInv'
    OBVIOUS
  <1>1. CASE UNCHANGED vars
    BY <1>1 DEF vars, UpInv
  <1>2. ASSUME NEW p \in Port, startSync(p) \/ SyncedDbCreated(p) \/ stopSync(p) PROVE UpInv'
    BY <1>2, ServiceStep
  <1>3. CASE LocalWrite
    BY <1>3, LocalWriteStep
  <1>4. ASSUME NEW i \in Sync, CreateOrMigrate(i) \/ CreateOrMigrateFails(i) \/ LocalDbChanged(i)
        PROVE  UpInv'
    BY <1>4, StreamStep
  <1>5. ASSUME NEW i \in Sync, NEW k \in DOMAIN sync[i].ticks,
               PullNothing(i, k) \/ Pull(i, k) \/ Posted(i, k) \/ PostFails(i, k)
        PROVE  UpInv'
    BY <1>5, TickStep
  <1>6. ASSUME NEW i \in Sync, NEW k \in DOMAIN sync[i].ticks, ApplyChanges(i, k) PROVE UpInv'
    BY <1>6, ApplyStep
  <1> QED BY <1>1, <1>2, <1>3, <1>4, <1>5, <1>6 DEF Next

\* The inductive invariant of the upward direction, through restarts of the stream,
\* overlapping ticks, and posts that fail before or after the server handled them.
THEOREM UpInvariant == Spec => []UpInv
  BY UpInit, UpNext, PTL DEF Spec

\* DBSyncService: the version recorded for the browser is never ahead of what the
\* server has applied, though it may go back.
THEOREM ServerHolds == Spec => []ServerHoldsWhatItTracks
  <1>1. UpInv => ServerHoldsWhatItTracks
    BY DEF UpInv, Reached, ServerHoldsWhatItTracks
  <1> QED BY <1>1, UpInvariant, PTL

\* OutboundStream: a stream moves its sequence number only past what the server holds.
THEOREM SentIsThere == Spec => []SentIsHeld
  <1>1. UpInv => SentIsHeld
    <2> SUFFICES ASSUME UpInv, NEW i \in Sync PROVE 1 .. sync[i].seq \subseteq held
      BY DEF SentIsHeld
    <2>1. sync[i].seq \in Reached(held)
      BY StreamIsGood DEF GoodStream
    <2> QED BY <2>1 DEF Reached
  <1> QED BY <1>1, UpInvariant, PTL

-----------------------------------------------------------------------------
\* The second invariant.  As long as no tick overlapped, was forgotten or failed, a
\* stream has one tick at most, and what the server lacks is read, asked for or posted.

\* The ticks of a stream over a database at version n.
Tick(n) ==
  [since : Nat, from : Nat, upto : 0 .. n, at : {"reading", "posting", "answered", "refused"}]

\* A stream that will send what there is up to version n.
Wake(s, n) ==
  /\ Len(s.ticks) <= 1
  /\ s.phase \in {"created", "asking"} => s.ticks = <<>> /\ ~s.inflightTick
  /\ s.inflightTick => s.ticks # <<>>
  /\ s.hasPendingTick => s.inflightTick
  /\ s.phase = "started" =>
       /\ s.ticks # <<>> /\ s.ticks[1].at = "reading" => s.ticks[1].since = s.seq
       /\ \/ s.news \/ s.hasPendingTick
          \/ s.ticks = <<>> /\ n <= s.seq
          \/ /\ s.ticks # <<>>
             /\ s.ticks[1].at \in {"reading", "refused"} \/ n <= s.ticks[1].upto

\* No post of the stream would put a record r of the server back.
Ahead(s, r) == \A k \in DOMAIN s.ticks : s.ticks[k].at = "posting" => r <= s.ticks[k].upto

RestInv ==
  /\ held \subseteq 1 .. version
  /\ \A i \in Sync : sync[i].ticks \in Seq(Tick(version))
  /\ excused = {} => /\ \A i \in Sync : Wake(sync[i], version)
                     /\ Len(sync) <= 1 => \A i \in Sync : Ahead(sync[i], seen)

LEMMA RestInit == Init => RestInv
  BY DEF Init, RestInv, Sync

\* A step of one stream, and maybe of the server.
LEMMA OneStreamRests ==
  ASSUME UpInv, RestInv, NEW i \in Sync, NEW x, sync' = [sync EXCEPT ![i] = x],
         version' = version, held' \subseteq 1 .. version, excused \subseteq excused',
         x.ticks \in Seq(Tick(version)),
         excused' = {} => Wake(x, version) /\ (Len(sync) <= 1 => Ahead(x, seen'))
  PROVE  RestInv'
  <1>0. sync \in Seq(GoodStream(held)) /\ Sync = 1 .. Len(sync) /\ Len(sync) \in Nat
    BY LenProperties DEF UpInv, Sync
  <1>1. /\ Sync' = Sync /\ Len(sync') = Len(sync)
        /\ sync'[i] = x /\ \A j \in Sync : j # i => sync'[j] = sync[j]
    BY <1>0 DEF Sync
  <1>2. \A j \in Sync : sync'[j].ticks \in Seq(Tick(version))
    BY <1>1 DEF RestInv
  <1>3. ASSUME excused' = {}
        PROVE  \A j \in Sync : Wake(sync'[j], version)
    BY <1>1, <1>3 DEF RestInv
  <1>4. ASSUME excused' = {}, Len(sync) <= 1
        PROVE  \A j \in Sync : Ahead(sync'[j], seen')
    BY <1>0, <1>1, <1>4
  <1> QED BY <1>1, <1>2, <1>3, <1>4 DEF RestInv

LEMMA SeenBounded ==
  ASSUME UpInv, RestInv
  PROVE  seen \in Nat /\ version \in Nat /\ seen <= version
  <1>1. seen \in Nat /\ version \in Nat /\ (seen # 0 => seen \in held)
    BY DEF UpInv, Reached
  <1> QED BY <1>1 DEF RestInv

\* Starting and stopping leave the ticks of every stream alone.
LEMMA ServiceRests ==
  ASSUME UpInv, RestInv, NEW p \in Port, startSync(p) \/ SyncedDbCreated(p) \/ stopSync(p)
  PROVE  RestInv'
  <1>0. /\ sync \in Seq(GoodStream(held)) /\ Len(sync) \in Nat /\ dbs \in 0 .. Len(sync)
        /\ Sync = 1 .. Len(sync)
        /\ held' = held /\ version' = version /\ seen' = seen /\ excused' = excused
    BY LenProperties DEF UpInv, Sync, startSync, SyncedDbCreated, stopSync
  <1>1. ASSUME sync' = sync
        PROVE  RestInv'
    BY <1>0, <1>1 DEF RestInv, Sync
  <1>2. ASSUME NEW i \in Sync, NEW x \in GoodStream(held), sync' = [sync EXCEPT ![i] = x],
               x.ticks = sync[i].ticks, x.seq = sync[i].seq,
               x.inflightTick = sync[i].inflightTick, x.hasPendingTick = sync[i].hasPendingTick,
               \/ x.phase = "stopped"
               \/ /\ x.news = sync[i].news
                  /\ \/ x.phase = sync[i].phase
                     \/ sync[i].phase = "created" /\ x.phase = "asking"
        PROVE  RestInv'
    <2>1. Wake(sync[i], version) => Wake(x, version)
      BY <1>2 DEF Wake
    <2>2. Ahead(sync[i], seen) => Ahead(x, seen)
      BY <1>2 DEF Ahead
    <2>3. x.ticks \in Seq(Tick(version)) /\ held' \subseteq 1 .. version
      BY <1>0, <1>2 DEF RestInv
    <2>4. excused' = {} => Wake(x, version) /\ (Len(sync) <= 1 => Ahead(x, seen'))
      BY <1>0, <2>1, <2>2 DEF RestInv
    <2> QED BY <1>0, <1>2, <2>3, <2>4, OneStreamRests
  <1>3. ASSUME NEW ss, NEW i
        PROVE  \/ Started(ss, i, p) = ss
               \/ Started(ss, i, p) = [ss EXCEPT ![i] = [ss[i] EXCEPT !.ports = @ \cup {p},
                    !.phase = IF @ = "created" THEN "asking" ELSE @]]
    BY DEF Started
  <1>4. CASE startSync(p)
    <2>1. CASE dbs # 0 /\ sync' = Started(sync, dbs, p)
      <3> PICK x : x = [sync[dbs] EXCEPT !.ports = @ \cup {p},
                                         !.phase = IF @ = "created" THEN "asking" ELSE @]
        OBVIOUS
      <3>1. dbs \in Sync /\ sync[dbs] \in GoodStream(held)
        BY <1>0, <2>1, ElementOfSeq
      <3>2. /\ x \in GoodStream(held) /\ x.ticks = sync[dbs].ticks /\ x.seq = sync[dbs].seq
            /\ x.inflightTick = sync[dbs].inflightTick
            /\ x.hasPendingTick = sync[dbs].hasPendingTick /\ x.news = sync[dbs].news
            /\ \/ x.phase = sync[dbs].phase
               \/ sync[dbs].phase = "created" /\ x.phase = "asking"
        BY <3>1 DEF GoodStream
      <3>3. sync' = sync \/ sync' = [sync EXCEPT ![dbs] = x]
        BY <1>3, <2>1
      <3> QED BY <1>1, <1>2, <3>1, <3>2, <3>3
    <2> QED BY <1>1, <1>4, <2>1 DEF startSync
  <1>5. CASE SyncedDbCreated(p)
    <2> PICK ss, n : ss = Append(sync, NewSync) /\ n = Len(sync) + 1
      OBVIOUS
    <2> DEFINE x == [ss[n] EXCEPT !.ports = @ \cup {p},
                                  !.phase = IF @ = "created" THEN "asking" ELSE @]
    <2>1. /\ ss \in Seq(GoodStream(held)) /\ Len(ss) = n /\ n \in 1 .. Len(ss)
          /\ ss[n] = NewSync /\ \A j \in Sync : ss[j] = sync[j]
      BY <1>0, NewStream, AppendProperties
    <2>2. sync' = Started(ss, n, p)
      BY <1>5 DEF SyncedDbCreated
    <2>3. /\ x.ticks = <<>> /\ x.inflightTick = FALSE /\ x.hasPendingTick = FALSE
          /\ x.phase = "asking"
      BY <2>1 DEF NewSync
    <2>4. sync' = [ss EXCEPT ![n] = x]
      <3>1. ss[n].phase # "stopped"
        BY <2>1 DEF NewSync
      <3> QED BY <2>2, <3>1 DEF Started
    <2> HIDE DEF x
    <2>5. /\ Len(sync') = n /\ Sync' = 1 .. n /\ sync'[n] = x
          /\ \A j \in Sync : sync'[j] = sync[j]
      <3>1. DOMAIN sync' = 1 .. n /\ sync'[n] = x /\ \A j \in Sync : sync'[j] = ss[j]
        <4>1. DOMAIN ss = 1 .. n
          BY <2>1, LenProperties
        <4>2. n \in 1 .. n /\ \A j \in Sync : j \in 1 .. n /\ j # n
          BY <1>0, <2>1
        <4> QED BY <2>4, <4>1, <4>2
      <3>2. sync' \in Seq(GoodStream(held)')
        BY ServiceStep DEF UpInv
      <3>3. Len(sync') \in Nat /\ DOMAIN sync' = 1 .. Len(sync')
        BY <3>2, LenProperties
      <3> QED BY <1>0, <2>1, <3>1, <3>3 DEF Sync
    <2>6. Wake(x, version) /\ Ahead(x, seen) /\ x.ticks \in Seq(Tick(version))
      BY <2>3, EmptySeq DEF Wake, Ahead
    <2>7. \A j \in Sync' : j = n \/ j \in Sync
      BY <1>0, <2>5
    <2>8. \A j \in Sync' : sync'[j].ticks \in Seq(Tick(version))
      BY <2>5, <2>6, <2>7 DEF RestInv
    <2>9. excused = {} => \A j \in Sync' : Wake(sync'[j], version)
      BY <2>5, <2>6, <2>7 DEF RestInv
    <2>10. Len(sync') <= 1 => \A j \in Sync' : Ahead(sync'[j], seen)
      BY <1>0, <2>5, <2>6
    <2> QED BY <1>0, <2>8, <2>9, <2>10 DEF RestInv
  <1>6. CASE stopSync(p)
    <2>1. CASE dbs = 0
      BY <1>1, <1>6, <2>1 DEF stopSync
    <2>2. CASE dbs # 0
      <3>1. dbs \in Sync /\ sync[dbs] \in GoodStream(held)
        BY <1>0, <2>2, ElementOfSeq
      <3> PICK x, y : /\ x = [sync[dbs] EXCEPT !.ports = @ \ {p}]
                      /\ y = [sync[dbs] EXCEPT !.ports = {}, !.phase = "stopped", !.news = FALSE]
        OBVIOUS
      <3>2. sync' = [sync EXCEPT ![dbs] = x] \/ sync' = [sync EXCEPT ![dbs] = y]
        BY <1>6, <2>2 DEF stopSync
      <3>3. /\ x \in GoodStream(held) /\ x.ticks = sync[dbs].ticks /\ x.seq = sync[dbs].seq
            /\ x.inflightTick = sync[dbs].inflightTick
            /\ x.hasPendingTick = sync[dbs].hasPendingTick
            /\ x.news = sync[dbs].news /\ x.phase = sync[dbs].phase
        BY <3>1 DEF GoodStream
      <3>4. /\ y \in GoodStream(held) /\ y.ticks = sync[dbs].ticks /\ y.seq = sync[dbs].seq
            /\ y.inflightTick = sync[dbs].inflightTick
            /\ y.hasPendingTick = sync[dbs].hasPendingTick /\ y.phase = "stopped"
        BY <3>1 DEF GoodStream
      <3>5. sync' = [sync EXCEPT ![dbs] = x] => RestInv'
        BY <1>2, <3>1, <3>3
      <3>6. sync' = [sync EXCEPT ![dbs] = y] => RestInv'
        BY <1>2, <3>1, <3>4
      <3> QED BY <3>2, <3>5, <3>6
    <2> QED BY <2>1, <2>2
  <1> QED BY <1>4, <1>5, <1>6

\* A write is news to every stream that runs.
LEMMA LocalWriteRests ==
  ASSUME UpInv, RestInv, LocalWrite
  PROVE  RestInv'
  <1>0. /\ sync \in Seq(GoodStream(held)) /\ Sync = 1 .. Len(sync) /\ Len(sync) \in Nat
        /\ version \in Nat /\ version' = version + 1
        /\ held' = held /\ seen' = seen /\ excused' = excused
    BY LenProperties DEF UpInv, Sync, LocalWrite
  <1>1. sync' = [i \in Sync |-> IF sync[i].phase = "stopped" THEN sync[i]
                                ELSE [sync[i] EXCEPT !.news = TRUE]]
    BY DEF LocalWrite
  <1>2. Sync' = Sync /\ Len(sync') = Len(sync)
    <2>1. DOMAIN sync' = 1 .. Len(sync)
      BY <1>0, <1>1
    <2>2. sync' \in Seq(GoodStream(held)')
      BY LocalWriteStep DEF UpInv
    <2>3. Len(sync') \in Nat /\ DOMAIN sync' = 1 .. Len(sync')
      BY <2>2, LenProperties
    <2> QED BY <1>0, <2>1, <2>3 DEF Sync
  <1>3. ASSUME NEW i \in Sync
        PROVE  /\ sync'[i].ticks = sync[i].ticks /\ sync'[i].seq = sync[i].seq
               /\ sync'[i].inflightTick = sync[i].inflightTick
               /\ sync'[i].hasPendingTick = sync[i].hasPendingTick
               /\ sync'[i].phase = sync[i].phase
               /\ sync[i].phase = "stopped" \/ sync'[i].news
    <2>1. sync[i] \in GoodStream(held)
      BY <1>0, ElementOfSeq
    <2>2. \/ sync[i].phase = "stopped" /\ sync'[i] = sync[i]
          \/ sync'[i] = [sync[i] EXCEPT !.news = TRUE]
      BY <1>1, <1>3
    <2> QED BY <2>1, <2>2 DEF GoodStream
  <1>4. Tick(version) \subseteq Tick(version')
    BY <1>0 DEF Tick
  <1>5. Seq(Tick(version)) \subseteq Seq(Tick(version'))
    BY <1>4, SeqMonotonic
  <1>6. \A i \in Sync : sync'[i].ticks \in Seq(Tick(version'))
    BY <1>3, <1>5 DEF RestInv
  <1>7. ASSUME NEW i \in Sync, excused = {}
        PROVE  Wake(sync'[i], version')
    <2>1. Wake(sync[i], version)
      BY <1>7 DEF RestInv
    <2> QED BY <1>3, <2>1 DEF Wake
  <1>8. ASSUME NEW i \in Sync, Ahead(sync[i], seen)
        PROVE  Ahead(sync'[i], seen)
    BY <1>3, <1>8 DEF Ahead
  <1>9. held \subseteq 1 .. version'
    BY <1>0 DEF RestInv
  <1> QED BY <1>0, <1>2, <1>6, <1>7, <1>8, <1>9 DEF RestInv

LEMMA RemoveOnly ==
  ASSUME NEW S, NEW s \in Seq(S), NEW k \in DOMAIN s, Len(s) <= 1
  PROVE  k = 1 /\ RemoveAt(s, k) = <<>>
  <1>1. k = 1 /\ Len(s) = 1
    <2> PICK n : n = Len(s)
      OBVIOUS
    <2>1. n \in Nat /\ k \in 1 .. n /\ n <= 1
      BY LenProperties
    <2>2. k = 1 /\ n = 1
      BY ONLY <2>1
    <2> QED BY <2>2
  <1>2. SubSeq(s, 1, 0) = <<>> /\ SubSeq(s, 2, 1) = <<>>
    BY <1>1, SubSeqProperties, EmptySeq
  <1>3. RemoveAt(s, k) = SubSeq(s, 1, 0) \o SubSeq(s, 2, 1)
    BY <1>1 DEF RemoveAt
  <1> QED BY <1>1, <1>2, <1>3, ConcatEmptySeq, EmptySeq

\* A tick begins by reading: it will have all there is.
LEMMA NewTickWakes ==
  ASSUME NEW h, NEW n \in Nat, NEW r \in Nat, NEW s \in GoodStream(h),
         s.ticks \in Seq(Tick(n)), s.phase = "started"
  PROVE  /\ NewTick(s).ticks \in Seq(Tick(n))
         /\ [NewTick(s) EXCEPT !.inflightTick = FALSE].ticks \in Seq(Tick(n))
         /\ s.ticks = <<>> /\ ~s.hasPendingTick =>
              /\ Wake(NewTick(s), n) /\ Ahead(NewTick(s), r)
              /\ Wake([NewTick(s) EXCEPT !.inflightTick = FALSE], n)
              /\ Ahead([NewTick(s) EXCEPT !.inflightTick = FALSE], r)
  <1> DEFINE tick == [since |-> s.seq, from |-> s.seq, upto |-> 0, at |-> "reading"]
             x == NewTick(s)
             y == [NewTick(s) EXCEPT !.inflightTick = FALSE]
  <1>1. tick \in Tick(n) /\ tick.at = "reading" /\ tick.since = s.seq
    BY DEF GoodStream, Reached, Tick
  <1>2. Append(s.ticks, tick) \in Seq(Tick(n))
    BY <1>1, AppendProperties
  <1>3. /\ x \in GoodStream(h) /\ x.ticks = Append(s.ticks, tick) /\ x.seq = s.seq
        /\ x.phase = "started" /\ x.hasPendingTick = s.hasPendingTick /\ x.inflightTick = TRUE
    BY NewTickGood DEF NewTick, GoodStream
  <1> HIDE DEF x
  <1>4. /\ y.ticks = x.ticks /\ y.seq = x.seq /\ y.phase = x.phase
        /\ y.hasPendingTick = x.hasPendingTick /\ y.inflightTick = FALSE
    BY <1>3 DEF GoodStream, x
  <1> HIDE DEF y, tick
  <1>5. ASSUME s.ticks = <<>>, ~s.hasPendingTick
        PROVE  Wake(x, n) /\ Ahead(x, r) /\ Wake(y, n) /\ Ahead(y, r)
    <2>1. /\ x.ticks = <<tick>> /\ Len(x.ticks) = 1 /\ x.ticks # <<>> /\ x.ticks[1] = tick
          /\ DOMAIN x.ticks = {1}
      BY <1>3, <1>5
    <2>2. Wake(x, n) /\ Wake(y, n)
      BY <1>1, <1>3, <1>4, <1>5, <2>1 DEF Wake
    <2>3. Ahead(x, r) /\ Ahead(y, r)
      BY <1>1, <1>4, <2>1 DEF Ahead
    <2> QED BY <2>2, <2>3
  <1> QED BY <1>2, <1>3, <1>4, <1>5 DEF x, y

LEMMA StreamRests ==
  ASSUME UpInv, RestInv, NEW i \in Sync,
         CreateOrMigrate(i) \/ CreateOrMigrateFails(i) \/ LocalDbChanged(i)
  PROVE  RestInv'
  <1>0. /\ sync[i] \in GoodStream(held) /\ seen \in Reached(held) /\ seen \in Nat
        /\ version \in Nat /\ sync[i].ticks \in Seq(Tick(version)) /\ held \subseteq 1 .. version
    BY StreamIsGood, SeenBounded DEF UpInv, RestInv
  <1>1. CASE CreateOrMigrate(i)
    <2> PICK s : s = [sync[i] EXCEPT !.phase = "started", !.seq = seen]
      OBVIOUS
    <2>1. /\ s \in GoodStream(held) /\ s.ticks = sync[i].ticks /\ s.phase = "started"
          /\ s.inflightTick = sync[i].inflightTick
          /\ s.hasPendingTick = sync[i].hasPendingTick
      BY <1>0 DEF GoodStream
    <2>2. /\ sync' = [sync EXCEPT ![i] = NextTick(s)] /\ sync[i].phase = "asking"
          /\ held' = held /\ version' = version /\ seen' = seen /\ excused' = excused
      BY <1>1 DEF CreateOrMigrate
    <2>3. NextTick(s).ticks \in Seq(Tick(version))
      <3>1. NewTick(s).ticks \in Seq(Tick(version))
        BY <1>0, <2>1, NewTickWakes
      <3>2. [s EXCEPT !.hasPendingTick = TRUE].ticks = s.ticks
        BY <2>1 DEF GoodStream
      <3> QED BY <1>0, <2>1, <3>1, <3>2 DEF NextTick
    <2>4. ASSUME excused' = {}
          PROVE  Wake(NextTick(s), version) /\ Ahead(NextTick(s), seen')
      <3>1. s.ticks = <<>> /\ ~s.inflightTick /\ ~s.hasPendingTick
        BY <2>1, <2>2, <2>4 DEF RestInv, Wake
      <3>2. NextTick(s) = NewTick(s)
        BY <2>1, <3>1 DEF NextTick
      <3>3. Wake(NewTick(s), version) /\ Ahead(NewTick(s), seen)
        BY <1>0, <2>1, <3>1, NewTickWakes
      <3> QED BY <2>2, <3>2, <3>3
    <2> QED BY <1>0, <2>2, <2>3, <2>4, OneStreamRests
  <1>2. CASE CreateOrMigrateFails(i)
    <2> PICK x, y : /\ x = [sync[i] EXCEPT !.retries = @ - 1]
                    /\ y = [sync[i] EXCEPT !.phase = "failed"]
      OBVIOUS
    <2>1. /\ x.ticks = sync[i].ticks /\ y.ticks = sync[i].ticks
          /\ x.seq = sync[i].seq /\ x.phase = sync[i].phase /\ x.news = sync[i].news
          /\ x.inflightTick = sync[i].inflightTick
          /\ x.hasPendingTick = sync[i].hasPendingTick
      BY <1>0 DEF GoodStream
    <2>2. /\ held' = held /\ version' = version /\ seen' = seen /\ excused \subseteq excused'
          /\ \/ sync' = [sync EXCEPT ![i] = x]
             \/ sync' = [sync EXCEPT ![i] = y] /\ excused' # {}
      BY <1>2 DEF CreateOrMigrateFails
    <2>3. excused = {} => Wake(x, version) /\ (Len(sync) <= 1 => Ahead(x, seen))
      BY <2>1 DEF RestInv, Wake, Ahead
    <2>4. sync' = [sync EXCEPT ![i] = x] => RestInv'
      BY <1>0, <2>1, <2>2, <2>3, OneStreamRests
    <2>5. sync' = [sync EXCEPT ![i] = y] /\ excused' # {} => RestInv'
      BY <1>0, <2>1, <2>2, OneStreamRests
    <2> QED BY <2>2, <2>4, <2>5
  <1>3. CASE LocalDbChanged(i)
    <2> PICK s : s = [sync[i] EXCEPT !.news = FALSE]
      OBVIOUS
    <2> PICK y : y = [s EXCEPT !.hasPendingTick = TRUE]
      OBVIOUS
    <2>1. /\ s \in GoodStream(held) /\ s.ticks = sync[i].ticks /\ s.phase = sync[i].phase
          /\ s.inflightTick = sync[i].inflightTick /\ s.seq = sync[i].seq
          /\ s.hasPendingTick = sync[i].hasPendingTick
      BY <1>0 DEF GoodStream
    <2>2. /\ sync' = [sync EXCEPT ![i] = NextTick(s)]
          /\ excused' = IF Overlaps(sync[i]) THEN excused \cup {"overlapped"} ELSE excused
          /\ held' = held /\ version' = version /\ seen' = seen
      BY <1>3 DEF LocalDbChanged
    <2>3. /\ y.ticks = s.ticks /\ y.phase = s.phase /\ y.inflightTick = s.inflightTick
          /\ y.seq = s.seq /\ y.hasPendingTick
      BY <2>1 DEF GoodStream
    <2>4. NextTick(s).ticks \in Seq(Tick(version))
      BY <1>0, <2>1, <2>3, NewTickWakes DEF NextTick
    <2>5. ASSUME excused' = {}
          PROVE  /\ Wake(NextTick(s), version)
                 /\ Len(sync) <= 1 => Ahead(NextTick(s), seen')
      <3>1. /\ excused = {} /\ ~Overlaps(sync[i]) /\ Wake(sync[i], version)
            /\ Len(sync) <= 1 => Ahead(sync[i], seen)
        BY <2>2, <2>5 DEF RestInv
      <3>2. CASE s.phase # "started"
        <4>1. NextTick(s) = s
          BY <3>2 DEF NextTick
        <4> QED BY <2>1, <2>2, <3>1, <3>2, <4>1 DEF Wake, Ahead
      <3>3. CASE s.phase = "started" /\ s.inflightTick
        <4>1. NextTick(s) = y
          BY <3>3 DEF NextTick
        <4> QED BY <2>1, <2>2, <2>3, <3>1, <3>3, <4>1 DEF Wake, Ahead
      <3>4. CASE s.phase = "started" /\ ~s.inflightTick
        <4>1. NextTick(s) = NewTick(s)
          BY <3>4 DEF NextTick
        <4>2. s.ticks = <<>> /\ ~s.hasPendingTick
          BY <2>1, <3>1, <3>4 DEF Overlaps, Wake
        <4>3. Wake(NewTick(s), version) /\ Ahead(NewTick(s), seen)
          BY <1>0, <2>1, <3>4, <4>2, NewTickWakes
        <4> QED BY <2>2, <4>1, <4>3
      <3> QED BY <3>2, <3>3, <3>4
    <2> QED BY <1>0, <2>2, <2>4, <2>5, OneStreamRests
  <1> QED BY <1>1, <1>2, <1>3

LEMMA TickRests ==
  ASSUME UpInv, RestInv, NEW i \in Sync, NEW k \in DOMAIN sync[i].ticks,
         PullNothing(i, k) \/ Pull(i, k) \/ Posted(i, k) \/ PostFails(i, k)
  PROVE  RestInv'
  <1> PICK s, without : s = sync[i] /\ without = WithoutTick(s, k)
    OBVIOUS
  <1>0. /\ s \in GoodStream(held) /\ s.ticks[k] \in GoodTick(held) /\ k \in DOMAIN s.ticks
        /\ seen \in Nat /\ version \in Nat /\ seen <= version /\ held \subseteq 1 .. version
        /\ s.ticks \in Seq(Tick(version)) /\ s.ticks[k] \in Tick(version)
        /\ excused = {} => Wake(s, version) /\ (Len(sync) <= 1 => Ahead(s, seen))
    <2>1. s.ticks \in Seq(Tick(version))
      BY DEF RestInv
    <2>2. s.ticks[k] \in Tick(version)
      BY <2>1, LenProperties, ElementOfSeq
    <2> QED BY <2>1, <2>2, StreamIsGood, SeenBounded DEF RestInv
  <1>1. /\ without \in GoodStream(held) /\ without.ticks = RemoveAt(s.ticks, k)
        /\ without.seq = s.seq /\ without.phase = s.phase /\ without.news = s.news
        /\ without.hasPendingTick = s.hasPendingTick
    BY <1>0, WithoutTickGood DEF WithoutTick, GoodStream
  <1>2. without.ticks \in Seq(Tick(version))
    BY <1>0, <1>1, RemoveAtIn
  <1>3. Len(s.ticks) <= 1 => k = 1 /\ without.ticks = <<>> /\ s.ticks # <<>>
    BY <1>0, <1>1, RemoveOnly
  <1>4. CASE PullNothing(i, k)
    <2> PICK x : x = [without EXCEPT !.inflightTick = FALSE]
      OBVIOUS
    <2>1. /\ x.ticks = without.ticks /\ x.seq = s.seq /\ x.phase = s.phase /\ x.news = s.news
          /\ x.hasPendingTick = s.hasPendingTick /\ x.inflightTick = FALSE
      BY <1>1 DEF GoodStream
    <2>2. /\ sync' = [sync EXCEPT ![i] = x] /\ s.ticks[k].at = "reading"
          /\ s.ticks[k].since >= version
          /\ excused' = IF s.hasPendingTick THEN excused \cup {"unasked"} ELSE excused
          /\ held' = held /\ version' = version /\ seen' = seen
      BY <1>4 DEF PullNothing
    <2>3. ASSUME excused' = {}
          PROVE  Wake(x, version) /\ Ahead(x, seen')
      <3>1. Wake(s, version) /\ ~s.hasPendingTick
        BY <1>0, <2>2, <2>3
      <3>2. k = 1 /\ x.ticks = <<>> /\ s.ticks # <<>>
        BY <1>3, <2>1, <3>1 DEF Wake
      <3>3. s.phase = "started" => version <= s.seq
        <4>1. s.phase = "started" => s.ticks[k].since = s.seq
          BY <2>2, <3>1, <3>2 DEF Wake
        <4>2. s.seq \in Nat
          BY <1>0 DEF GoodStream, Reached
        <4> QED BY <1>0, <2>2, <4>1, <4>2
      <3>4. Len(x.ticks) <= 1
        BY <3>2
      <3> QED BY <2>1, <3>1, <3>2, <3>3, <3>4 DEF Wake, Ahead
    <2>4. excused \subseteq excused' /\ x.ticks \in Seq(Tick(version))
      BY <1>2, <2>1, <2>2
    <2> QED BY <1>0, <2>2, <2>3, <2>4, OneStreamRests
  <1>5. CASE Pull(i, k)
    <2> PICK tick : tick = [s.ticks[k] EXCEPT !.from = s.seq, !.upto = version, !.at = "posting"]
      OBVIOUS
    <2> PICK x : x = [s EXCEPT !.ticks[k] = tick]
      OBVIOUS
    <2>1. /\ tick \in Tick(version) /\ tick.at = "posting" /\ tick.upto = version
      <3>1. s.seq \in Nat /\ version \in 0 .. version
        BY <1>0 DEF GoodStream, Reached
      <3>2. s.ticks[k] \in [since : Nat, from : Nat, upto : 0 .. version,
                            at : {"reading", "posting", "answered", "refused"}]
        BY <1>0 DEF Tick
      <3> QED BY <3>1, <3>2 DEF Tick
    <2>2. /\ x.ticks = [s.ticks EXCEPT ![k] = tick] /\ x.seq = s.seq /\ x.phase = s.phase
          /\ x.news = s.news /\ x.hasPendingTick = s.hasPendingTick
          /\ x.inflightTick = s.inflightTick
      BY <1>0 DEF GoodStream
    <2>3. /\ sync' = [sync EXCEPT ![i] = x]
          /\ held' = held /\ version' = version /\ seen' = seen /\ excused' = excused
      BY <1>5 DEF Pull
    <2>4. x.ticks \in Seq(Tick(version)) /\ Len(x.ticks) = Len(s.ticks)
          /\ x.ticks[k] = tick /\ DOMAIN x.ticks = DOMAIN s.ticks
      BY <1>0, <2>1, <2>2, ExceptSeq, LenProperties
    <2>5. ASSUME excused = {}
          PROVE  Wake(x, version) /\ Ahead(x, seen)
      <3>1. Wake(s, version) /\ k = 1 /\ s.ticks # <<>> /\ Len(s.ticks) <= 1
        BY <1>0, <1>3, <2>5 DEF Wake
      <3>2. x.ticks[1] = tick /\ x.ticks # <<>> /\ \A j \in DOMAIN x.ticks : j = 1
        <4>1. \A j \in DOMAIN s.ticks : j = 1
          BY <1>0, <3>1, RemoveOnly
        <4> QED BY <1>0, <2>4, <3>1, <4>1
      <3>3. Wake(x, version)
        BY <1>0, <2>1, <2>2, <2>4, <3>1, <3>2 DEF Wake
      <3>4. Ahead(x, seen)
        BY <1>0, <2>1, <3>2 DEF Ahead
      <3> QED BY <3>3, <3>4
    <2> QED BY <1>0, <2>3, <2>4, <2>5, OneStreamRests
  <1>6. CASE Posted(i, k)
    <2> PICK u : u = s.ticks[k].upto
      OBVIOUS
    <2> PICK t : t = [without EXCEPT !.seq = u, !.inflightTick = FALSE, !.hasPendingTick = FALSE]
      OBVIOUS
    <2> PICK x : x = [NextTick(t) EXCEPT !.inflightTick = FALSE]
      OBVIOUS
    <2>1. /\ t \in GoodStream(held) /\ t.ticks = without.ticks /\ t.seq = u
          /\ t.phase = s.phase /\ t.news = s.news
          /\ t.hasPendingTick = FALSE /\ t.inflightTick = FALSE
      <3>1. u \in Reached(held)
        BY <1>0, <1>6 DEF Posted, GoodTick
      <3> QED BY <1>1, <3>1 DEF GoodStream
    <2>2. /\ sync' = [sync EXCEPT ![i] = IF s.hasPendingTick THEN x ELSE t]
          /\ s.ticks[k].at = "answered"
          /\ excused' = IF s.hasPendingTick /\ Overlaps(t) THEN excused \cup {"overlapped"} ELSE excused
          /\ held' = held /\ version' = version /\ seen' = seen
      BY <1>6 DEF Posted
    <2>3. CASE ~s.hasPendingTick
      <3>1. ASSUME excused' = {}
            PROVE  Wake(t, version) /\ Ahead(t, seen')
        <4>1. Wake(s, version) /\ k = 1 /\ t.ticks = <<>> /\ Len(t.ticks) <= 1
          BY <1>0, <1>3, <2>1, <2>2, <3>1 DEF Wake
        <4>2. s.phase = "started" => s.news \/ version <= u
          BY <1>3, <2>2, <2>3, <4>1 DEF Wake
        <4> QED BY <2>1, <4>1, <4>2 DEF Wake, Ahead
      <3> QED BY <1>0, <1>2, <2>1, <2>2, <2>3, <3>1, OneStreamRests
    <2>4. CASE s.hasPendingTick /\ t.phase # "started"
      <3>1. NextTick(t) = t
        BY <2>4 DEF NextTick
      <3>2. x = t
        BY <2>1, <3>1 DEF GoodStream
      <3>3. ASSUME excused' = {}
            PROVE  Wake(t, version) /\ Ahead(t, seen')
        <4>1. Wake(s, version) /\ k = 1 /\ t.ticks = <<>> /\ Len(t.ticks) <= 1
          BY <1>0, <1>3, <2>1, <2>2, <3>3 DEF Wake
        <4> QED BY <2>1, <2>4, <4>1 DEF Wake, Ahead
      <3> QED BY <1>0, <1>2, <2>1, <2>2, <2>4, <3>2, <3>3, OneStreamRests
    <2>5. CASE s.hasPendingTick /\ t.phase = "started"
      <3>1. NextTick(t) = NewTick(t) /\ x = [NewTick(t) EXCEPT !.inflightTick = FALSE]
        BY <2>1, <2>5 DEF NextTick
      <3>2. x.ticks \in Seq(Tick(version))
        <4>1. t.ticks \in Seq(Tick(version))
          BY <1>2, <2>1
        <4>2. [NewTick(t) EXCEPT !.inflightTick = FALSE].ticks \in Seq(Tick(version))
          BY <1>0, <2>1, <2>5, <4>1, NewTickWakes
        <4> QED BY <3>1, <4>2
      <3>3. ASSUME excused' = {}
            PROVE  Wake(x, version) /\ Ahead(x, seen)
        <4>1. t.ticks = <<>>
          BY <1>0, <1>3, <2>1, <2>2, <3>3 DEF Wake
        <4>2. t.ticks \in Seq(Tick(version)) /\ ~t.hasPendingTick
          BY <1>2, <2>1
        <4>3. /\ Wake([NewTick(t) EXCEPT !.inflightTick = FALSE], version)
              /\ Ahead([NewTick(t) EXCEPT !.inflightTick = FALSE], seen)
          BY <1>0, <2>1, <2>5, <4>1, <4>2, NewTickWakes
        <4> QED BY <3>1, <4>3
      <3> QED BY <1>0, <2>2, <2>5, <3>2, <3>3, OneStreamRests
    <2> QED BY <2>3, <2>4, <2>5
  <1>7. CASE PostFails(i, k)
    <2> PICK x : x = [without EXCEPT !.inflightTick = FALSE]
      OBVIOUS
    <2>1. x.ticks = without.ticks
      BY <1>1 DEF GoodStream
    <2>2. /\ sync' = [sync EXCEPT ![i] = x] /\ excused' # {} /\ excused \subseteq excused'
          /\ held' = held /\ version' = version
      BY <1>7 DEF PostFails
    <2> QED BY <1>0, <1>2, <2>1, <2>2, OneStreamRests
  <1> QED BY <1>4, <1>5, <1>6, <1>7

\* While there is one stream with one tick, a post ends at or above the record it
\* replaces.
LEMMA ApplyRests ==
  ASSUME UpInv, RestInv, NEW i \in Sync, NEW k \in DOMAIN sync[i].ticks, ApplyChanges(i, k)
  PROVE  RestInv' /\ (seen' < seen => excused # {} \/ Len(sync) > 1)
  <1> PICK s, msg, at : /\ s = sync[i] /\ msg = s.ticks[k]
                        /\ at = IF msg.from > seen THEN "refused" ELSE "answered"
    OBVIOUS
  <1> PICK tick : tick = [msg EXCEPT !.at = at]
    OBVIOUS
  <1> PICK x : x = [s EXCEPT !.ticks[k] = tick]
    OBVIOUS
  <1>0. /\ s \in GoodStream(held) /\ k \in DOMAIN s.ticks /\ msg \in Tick(version)
        /\ seen \in Nat /\ version \in Nat /\ held \subseteq 1 .. version
        /\ s.ticks \in Seq(Tick(version)) /\ Len(sync) \in Nat
        /\ excused = {} => Wake(s, version) /\ (Len(sync) <= 1 => Ahead(s, seen))
    <2>1. s.ticks \in Seq(Tick(version))
      BY DEF RestInv
    <2>2. msg \in Tick(version)
      BY <2>1, LenProperties, ElementOfSeq
    <2>3. Len(sync) \in Nat
      BY LenProperties DEF UpInv
    <2> QED BY <2>1, <2>2, <2>3, StreamIsGood, SeenBounded DEF RestInv
  <1>1. /\ msg.at = "posting" /\ sync' = [sync EXCEPT ![i] = x]
        /\ version' = version /\ excused' = excused
        /\ \/ at = "refused" /\ held' = held /\ seen' = seen
           \/ /\ at = "answered" /\ held' = held \cup (msg.since + 1 .. msg.upto)
              /\ seen' = msg.upto
    BY DEF ApplyChanges
  <1>2. tick \in Tick(version) /\ tick.at = at /\ tick.upto = msg.upto /\ at # "posting"
    BY <1>0 DEF Tick
  <1>3. /\ x.ticks = [s.ticks EXCEPT ![k] = tick] /\ x.seq = s.seq /\ x.phase = s.phase
        /\ x.news = s.news /\ x.hasPendingTick = s.hasPendingTick
        /\ x.inflightTick = s.inflightTick
    BY <1>0 DEF GoodStream
  <1>4. x.ticks \in Seq(Tick(version)) /\ Len(x.ticks) = Len(s.ticks)
        /\ x.ticks[k] = tick /\ DOMAIN x.ticks = DOMAIN s.ticks
    BY <1>0, <1>2, <1>3, ExceptSeq, LenProperties
  <1>5. held' \subseteq 1 .. version
    <2>1. msg.since \in Nat /\ msg.upto \in 0 .. version
      BY <1>0 DEF Tick
    <2> QED BY <1>0, <1>1, <2>1
  <1>6. ASSUME excused = {}
        PROVE  Wake(x, version) /\ Ahead(x, seen')
    <2>1. Wake(s, version) /\ k = 1 /\ s.ticks # <<>> /\ \A j \in DOMAIN s.ticks : j = 1
      BY <1>0, <1>6, RemoveOnly, EmptySeq DEF Wake
    <2>2. x.ticks[1] = tick /\ x.ticks # <<>> /\ \A j \in DOMAIN x.ticks : j = 1
      BY <1>0, <1>4, <2>1
    <2>3. Wake(x, version)
      BY <1>1, <1>2, <1>3, <1>4, <2>1, <2>2 DEF Wake
    <2>4. Ahead(x, seen')
      BY <1>2, <2>2 DEF Ahead
    <2> QED BY <2>3, <2>4
  <1>7. RestInv'
    BY <1>1, <1>4, <1>5, <1>6, OneStreamRests
  <1>8. ASSUME excused = {}, ~(Len(sync) > 1)
        PROVE  ~(seen' < seen)
    <2>1. Ahead(s, seen) /\ msg.upto \in Nat
      BY <1>0, <1>8 DEF Tick
    <2>2. seen <= msg.upto
      BY <1>0, <1>1, <2>1 DEF Ahead
    <2> QED BY <1>0, <1>1, <2>1, <2>2
  <1> QED BY <1>7, <1>8

LEMMA RestNext ==
  ASSUME UpInv, RestInv, [Next]_vars
  PROVE  RestInv' /\ (seen' < seen => excused # {} \/ Len(sync) > 1)
  <1>0. seen \in Nat /\ (seen' = seen => ~(seen' < seen))
    BY SeenBounded
  <1>1. CASE UNCHANGED vars
    BY <1>0, <1>1 DEF vars, RestInv, Sync
  <1>2. ASSUME NEW p \in Port, startSync(p) \/ SyncedDbCreated(p) \/ stopSync(p)
        PROVE  RestInv' /\ seen' = seen
    BY <1>2, ServiceRests DEF startSync, SyncedDbCreated, stopSync
  <1>3. CASE LocalWrite
    BY <1>0, <1>3, LocalWriteRests DEF LocalWrite
  <1>4. ASSUME NEW i \in Sync, CreateOrMigrate(i) \/ CreateOrMigrateFails(i) \/ LocalDbChanged(i)
        PROVE  RestInv' /\ seen' = seen
    BY <1>4, StreamRests DEF CreateOrMigrate, CreateOrMigrateFails, LocalDbChanged
  <1>5. ASSUME NEW i \in Sync, NEW k \in DOMAIN sync[i].ticks,
               PullNothing(i, k) \/ Pull(i, k) \/ Posted(i, k) \/ PostFails(i, k)
        PROVE  RestInv' /\ seen' = seen
    BY <1>5, TickRests DEF PullNothing, Pull, Posted, PostFails
  <1>6. ASSUME NEW i \in Sync, NEW k \in DOMAIN sync[i].ticks, ApplyChanges(i, k)
        PROVE  RestInv' /\ (seen' < seen => excused # {} \/ Len(sync) > 1)
    BY <1>6, ApplyRests
  <1> QED BY <1>0, <1>1, <1>2, <1>3, <1>4, <1>5, <1>6 DEF Next

\* OutboundStream: of what the server lacks, a stream has news, a tick that was asked
\* for, one that reads, or a post that brings it.
THEOREM RestInvariant == Spec => [](UpInv /\ RestInv)
  BY UpInit, RestInit, UpNext, RestNext, PTL DEF Spec

\* OutboundStream: a stream that has nothing left to do has had everything sent, unless
\* a tick overlapped another, was forgotten or failed.
THEOREM QuietIsSent == Spec => []QuietMeansSent
  <1>1. UpInv /\ RestInv => QuietMeansSent
    <2> SUFFICES ASSUME UpInv, RestInv, NEW i \in Sync, Quiet(i), excused = {}
                 PROVE  held = 1 .. version
      BY DEF QuietMeansSent
    <2>1. /\ sync[i].phase = "started" /\ sync[i].ticks = <<>> /\ ~sync[i].news
          /\ Wake(sync[i], version) /\ held \subseteq 1 .. version /\ version \in Nat
      BY DEF Quiet, Running, RestInv, UpInv
    <2>2. version <= sync[i].seq
      BY <2>1 DEF Wake
    <2>3. sync[i].seq \in Nat /\ 1 .. sync[i].seq \subseteq held
      <3>1. sync[i].seq \in Reached(held)
        BY StreamIsGood DEF GoodStream
      <3> QED BY <3>1 DEF Reached
    <2>4. \A v \in 1 .. version : v \in 1 .. sync[i].seq
      BY <2>1, <2>2, <2>3
    <2> QED BY <2>1, <2>3, <2>4
  <1> QED BY <1>1, RestInvariant, PTL

\* DBSyncService: with one SyncedDB whose ticks neither overlap nor fail, the version
\* recorded for the browser never goes back.
THEOREM SeenForward == Spec => SeenGoesForward
  <1>1. UpInv /\ RestInv /\ [Next]_vars =>
          [seen' < seen => excused # {} \/ Len(sync) > 1]_vars
    BY RestNext
  <1> QED BY <1>1, RestInvariant, PTL DEF Spec, SeenGoesForward

=============================================================================
