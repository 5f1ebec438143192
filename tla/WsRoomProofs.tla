----------------------------- MODULE WsRoomProofs -----------------------------
(***************************************************************************)
(* Theorems about WsRoom for any finite set of WebSockets, any schemas and *)
(* any bound on closes.                                                    *)
(***************************************************************************)
EXTENDS WsRoom, FiniteSetTheorems, SequenceTheorems, TLAPS

-----------------------------------------------------------------------------
\* The type invariant.  A broker that was never live was never closed, which
\* keeps the counter of closes within its bound.

LEMMA InitType == Init => TypeOK /\ StagesOK
  <1> SUFFICES ASSUME Init PROVE TypeOK /\ StagesOK
    OBVIOUS
  <1>1. dbs \in Seq(Entry) /\ Len(dbs) = 0
    BY EmptySeq DEF Init
  <1>2. 0 \in 0 .. MaxCloses
    BY ConstantsAssumption
  <1>3. 0 \in 0 .. Len(dbs)
    BY <1>1
  <1>4. /\ at \in [Conn -> 0 .. Len(dbs)] /\ closes \in [Conn -> 0 .. MaxCloses]
        /\ \A c \in Conn : stage[c] = "new" /\ at[c] = 0 /\ closes[c] = 0
    BY <1>2, <1>3 DEF Init
  <1>5. TypeOK
    BY <1>1, <1>3, <1>4 DEF Init, TypeOK
  <1> QED BY <1>4, <1>5 DEF StagesOK

\* Appending an entry.
LEMMA AppendEntry ==
  ASSUME NEW seq \in Seq(Entry), NEW x \in Entry
  PROVE  /\ Append(seq, x) \in Seq(Entry)
         /\ Len(Append(seq, x)) = Len(seq) + 1
         /\ \A e \in 1 .. Len(seq) : Append(seq, x)[e] = seq[e]
         /\ Append(seq, x)[Len(seq) + 1] = x
  BY AppendProperties

\* Replacing the entry e.
LEMMA ReplaceEntry ==
  ASSUME NEW seq \in Seq(Entry), NEW e \in 1 .. Len(seq), NEW x \in Entry
  PROVE  /\ [seq EXCEPT ![e] = x] \in Seq(Entry)
         /\ Len([seq EXCEPT ![e] = x]) = Len(seq)
         /\ [seq EXCEPT ![e] = x][e] = x
         /\ \A d \in 1 .. Len(seq) : d # e => [seq EXCEPT ![e] = x][d] = seq[d]
  BY ExceptSeq

\* Giving a reference back keeps the cache a sequence of entries.
LEMMA UnrefType ==
  ASSUME TypeOK, Unref
  PROVE  /\ dbs' \in Seq(Entry) /\ Len(dbs') = Len(dbs)
         /\ current' \in 0 .. Len(dbs)
         /\ crashed' \in BOOLEAN
  <1>1. CASE current = 0
    BY <1>1 DEF Unref, TypeOK
  <1>2. CASE current # 0
    <2> DEFINE old == dbs[current]
    <2>1. current \in 1 .. Len(dbs) /\ old \in Entry /\ dbs \in Seq(Entry) /\ Len(dbs) \in Nat
      BY <1>2, ElementOfSeq, LenProperties DEF TypeOK
    <2>2. CASE old.refs > 1
      <3>1. [old EXCEPT !.refs = @ - 1] \in Entry
        BY <2>1, <2>2 DEF Entry
      <3>2. dbs' = [dbs EXCEPT ![current] = [old EXCEPT !.refs = @ - 1]]
        BY <1>2, <2>2 DEF Unref
      <3> QED BY <1>2, <2>1, <2>2, <3>1, <3>2, ReplaceEntry DEF Unref, TypeOK
    <2>3. CASE old.refs = 1
      <3> DEFINE new == [old EXCEPT !.refs = 0, !.file = IF @ = "ready" THEN "closed" ELSE @]
      <3>1. new \in Entry
        BY <2>1 DEF Entry
      <3>2. /\ current' = 0 /\ crashed' = (old.file = "failed")
            /\ dbs' = [dbs EXCEPT ![current].refs = 0,
                                  ![current].file = IF @ = "ready" THEN "closed" ELSE @]
        BY <1>2, <2>1, <2>3 DEF Unref
      <3>3. dbs' = [dbs EXCEPT ![current] = new]
        BY <2>1, <3>2
      <3> QED BY <2>1, <3>1, <3>2, <3>3, ReplaceEntry
    <2> QED BY <1>2, <2>2, <2>3 DEF Unref
  <1> QED BY <1>1, <1>2

\* Announcing moves a new broker to the entry it shares or makes.
LEMMA AnnouncesType ==
  ASSUME TypeOK, StagesOK, NEW c \in Conn, GetFirst(c) \/ GetAgain(c)
  PROVE  TypeOK' /\ StagesOK'
  <1>0. dbs \in Seq(Entry) /\ Len(dbs) \in Nat
    BY LenProperties DEF TypeOK
  <1>1. CASE GetFirst(c)
    <2>1. [refs |-> 1, by |-> c, file |-> "creating"] \in Entry
      BY DEF Entry
    <2>2. dbs' \in Seq(Entry) /\ Len(dbs') = Len(dbs) + 1
      BY <1>0, <1>1, <2>1, AppendEntry DEF GetFirst
    <2> QED BY <1>0, <1>1, <2>2 DEF GetFirst, Announces, TypeOK, StagesOK
  <1>2. CASE GetAgain(c)
    <2>1. current \in 1 .. Len(dbs) /\ dbs[current] \in Entry
      BY <1>0, <1>2, ElementOfSeq DEF GetAgain, TypeOK
    <2>2. [dbs[current] EXCEPT !.refs = @ + 1] \in Entry
      BY <2>1 DEF Entry
    <2>3. dbs' = [dbs EXCEPT ![current] = [dbs[current] EXCEPT !.refs = @ + 1]]
      BY <1>2 DEF GetAgain
    <2>4. dbs' \in Seq(Entry) /\ Len(dbs') = Len(dbs)
      BY <1>0, <2>1, <2>2, <2>3, ReplaceEntry
    <2> QED BY <1>0, <1>2, <2>1, <2>4 DEF GetAgain, Announces, TypeOK, StagesOK
  <1> QED BY <1>1, <1>2

\* createDB resolves or rejects.
LEMMA CreatedType ==
  ASSUME TypeOK, StagesOK, NEW e \in 1 .. Len(dbs), DbCreated(e) \/ DbNotCreated(e)
  PROVE  TypeOK' /\ StagesOK'
  <1>1. dbs \in Seq(Entry) /\ dbs[e] \in Entry /\ Len(dbs) \in Nat
    BY ElementOfSeq, LenProperties DEF TypeOK
  <1>2. PICK f \in {"closed", "ready", "failed"} : dbs' = [dbs EXCEPT ![e] = [dbs[e] EXCEPT !.file = f]]
    <2>1. CASE DbCreated(e)
      BY <2>1 DEF DbCreated
    <2>2. CASE DbNotCreated(e)
      BY <2>2 DEF DbNotCreated
    <2> QED BY <2>1, <2>2
  <1>3. [dbs[e] EXCEPT !.file = f] \in Entry
    BY <1>1 DEF Entry
  <1>4. dbs' \in Seq(Entry) /\ Len(dbs') = Len(dbs)
    BY <1>1, <1>2, <1>3, ReplaceEntry
  <1>5. crashed' \in BOOLEAN /\ UNCHANGED <<current, brokers, socket>>
    BY DEF DbCreated, DbNotCreated, TypeOK
  <1> QED BY <1>4, <1>5 DEF TypeOK, StagesOK, brokers

\* A broker goes on, is refused or is closed.
LEMMA BrokerType ==
  ASSUME TypeOK, StagesOK, NEW c \in Conn,
         \/ Connect(c) \/ StartFails(c) \/ CreatorRefused(c) \/ Refused(c)
         \/ HandlerFails(c) \/ SocketErrors(c) \/ SocketCloses(c)
  PROVE  TypeOK' /\ StagesOK'
  <1>0. MaxCloses \in Nat \ {0} /\ closes[c] \in 0 .. MaxCloses /\ Len(dbs) \in Nat
    BY ConstantsAssumption, LenProperties DEF TypeOK
  <1>1. CASE Connect(c) \/ CreatorRefused(c)
    BY <1>1 DEF Connect, CreatorRefused, Resumable, Waiting, TypeOK, StagesOK
  <1>2. CASE StartFails(c)
    <2>1. Unref /\ stage[c] = "waiting" /\ closes[c] = 0
      BY <1>2 DEF StartFails, Resumable, Waiting, StagesOK
    <2> QED BY <1>0, <1>2, <2>1, UnrefType DEF StartFails, TypeOK, StagesOK
  <1>3. CASE Refused(c)
    <2>1. Unref /\ stage[c] = "waiting"
      BY <1>3 DEF Refused, Resumable, Waiting
    <2> QED BY <1>0, <1>3, <2>1, UnrefType DEF Refused, TypeOK, StagesOK
  <1>4. CASE HandlerFails(c) \/ SocketErrors(c) \/ SocketCloses(c)
    <2>1. Close(c) /\ UNCHANGED <<stage, asked, at>>
          /\ socket' \in [Conn -> {"open", "errored", "closed"}]
      BY <1>4 DEF HandlerFails, SocketErrors, SocketCloses, TypeOK
    <2>2. CASE stage[c] = "live"
      <3>1. Unref /\ closes[c] < MaxCloses /\ closes' = [closes EXCEPT ![c] = @ + 1]
        BY <2>1, <2>2 DEF Close
      <3> QED BY <1>0, <2>1, <2>2, <3>1, UnrefType DEF TypeOK, StagesOK
    <2>3. CASE stage[c] # "live"
      BY <2>1, <2>3 DEF Close, TypeOK, StagesOK
    <2> QED BY <2>2, <2>3
  <1> QED BY <1>1, <1>2, <1>3, <1>4

LEMMA NextType == TypeOK /\ StagesOK /\ [Next]_vars => TypeOK' /\ StagesOK'
  <1> SUFFICES ASSUME TypeOK, StagesOK, [Next]_vars PROVE TypeOK' /\ StagesOK'
    OBVIOUS
  <1>1. CASE UNCHANGED vars
    BY <1>1 DEF vars, brokers, TypeOK, StagesOK
  <1> QED BY <1>1, AnnouncesType, CreatedType, BrokerType DEF Next

\* The cache and its brokers keep their types, whatever is refused or fails
\* and however often a broker is closed (DBCache, ConnectionBroker).
THEOREM TypeCorrect == Spec => []TypeOK
  <1>1. Spec => [](TypeOK /\ StagesOK)
    BY InitType, NextType, PTL DEF Spec
  <1> QED BY <1>1, PTL

-----------------------------------------------------------------------------
\* The rest of RoomInv: what holds while every broker was closed at most once.

Core ==
  /\ ~crashed /\ UsersHaveTheirDb
  /\ \A e \in 1 .. Len(dbs) :
       /\ dbs[e].refs = Cardinality(Users(e))
       /\ e # current => Users(e) = {}
       /\ EntryOK(e)

LEMMA RoomInvIsCore == RoomInv <=> StagesOK /\ (ClosedOnce => Core)
  BY DEF RoomInv, Core, RefsCountUsers, UsersHaveTheirDbIfClosedOnce, NoIllegalState

LEMMA CountFacts ==
  ASSUME NEW e
  PROVE  /\ IsFiniteSet(Users(e)) /\ Cardinality(Users(e)) \in Nat
         /\ Cardinality(Users(e)) = 0 <=> Users(e) = {}
         /\ \A c : Cardinality({c}) = 1
         /\ \A c \in Users(e) : Cardinality(Users(e) \ {c}) = Cardinality(Users(e)) - 1
         /\ \A c \in Users(e) : Cardinality(Users(e)) = 1 => Users(e) \ {c} = {}
         /\ \A c : c \notin Users(e) => Cardinality(Users(e) \cup {c}) = Cardinality(Users(e)) + 1
  <1>1. IsFiniteSet(Users(e))
    BY ConstantsAssumption, FS_Subset DEF Users
  <1>2. \A c \in Users(e) : IsFiniteSet(Users(e) \ {c})
                            /\ Cardinality(Users(e) \ {c}) = Cardinality(Users(e)) - 1
    BY <1>1, FS_RemoveElement
  <1>3. \A c \in Users(e) : Cardinality(Users(e)) = 1 => Users(e) \ {c} = {}
    <2> SUFFICES ASSUME NEW c \in Users(e), Cardinality(Users(e)) = 1
                 PROVE  Users(e) \ {c} = {}
      OBVIOUS
    <2>1. IsFiniteSet(Users(e) \ {c}) /\ Cardinality(Users(e) \ {c}) = 0
      BY <1>2
    <2> QED BY <2>1, FS_EmptySet
  <1>4. \A c : c \notin Users(e) => Cardinality(Users(e) \cup {c}) = Cardinality(Users(e)) + 1
    BY <1>1, FS_AddElement
  <1>5. Cardinality(Users(e)) \in Nat /\ (Cardinality(Users(e)) = 0 <=> Users(e) = {})
    BY <1>1, FS_CardinalityType, FS_EmptySet
  <1> QED BY <1>1, <1>2, <1>3, <1>4, <1>5, FS_Singleton

\* Whoever holds a reference holds one of the entry in the map.
LEMMA UserOfCurrent ==
  ASSUME TypeOK, Core, NEW c \in Conn, at[c] # 0, closes[c] = 0
  PROVE  /\ at[c] = current /\ current \in 1 .. Len(dbs)
         /\ c \in Users(current)
         /\ EntryOK(current) /\ dbs[current].refs = Cardinality(Users(current))
         /\ dbs[current] \in Entry
  <1>1. Len(dbs) \in Nat /\ at[c] \in 1 .. Len(dbs)
    BY LenProperties DEF TypeOK
  <1>2. c \in Users(at[c])
    BY DEF Users
  <1>3. at[c] = current
    BY <1>1, <1>2 DEF Core
  <1> QED BY <1>1, <1>2, <1>3, ElementOfSeq DEF Core, TypeOK

(***************************************************************************)
(* A reference given back by one of those who count, unless it is the      *)
(* creator of a failed entry, leaves the room in order; the last one       *)
(* closes the database and takes the entry from the map.                   *)
(***************************************************************************)
LEMMA GivesBack ==
  ASSUME TypeOK, StagesOK, Core, Unref,
         NEW c \in Conn, at[c] # 0, closes[c] = 0,
         dbs[at[c]].file # "creating", dbs[at[c]].file = "failed" => dbs[at[c]].by # c,
         \A e \in 1 .. Len(dbs) : Users(e)' = Users(e) \ {c},
         \A d \in Conn \ {c} : stage'[d] = stage[d] /\ at'[d] = at[d] /\ closes'[d] = closes[d],
         stage'[c] # "live" \/ closes'[c] # 0
  PROVE  Core'
  <1>1. PICK r \in 1 .. Len(dbs) :
          /\ r = current /\ r # 0 /\ at[c] = r
          /\ c \in Users(r) /\ EntryOK(r)
          /\ dbs[r].refs = Cardinality(Users(r)) /\ dbs[r] \in Entry
    BY UserOfCurrent
  <1>2. dbs \in Seq(Entry) /\ Len(dbs) \in Nat
    BY LenProperties DEF TypeOK
  <1>3. /\ Users(r)' = Users(r) \ {c}
        /\ Cardinality(Users(r) \ {c}) = dbs[r].refs - 1
        /\ dbs[r].refs = 1 => Users(r) \ {c} = {}
        /\ dbs[r].refs > 1 => Users(r) \ {c} # {}
    <2>1. Cardinality(Users(r) \ {c}) = dbs[r].refs - 1
      BY <1>1, CountFacts
    <2>2. dbs[r].refs > 1 => Users(r) \ {c} # {}
      <3> SUFFICES ASSUME Users(r) \ {c} = {} PROVE dbs[r].refs - 1 = 0
        BY <1>1 DEF Entry
      <3>1. Cardinality(Users(r) \ {c}) = 0
        BY FS_EmptySet
      <3> QED BY <2>1, <3>1
    <2> QED BY <1>1, <2>1, <2>2, CountFacts
  <1>4. \A d \in Conn : stage'[d] = "live" /\ closes'[d] = 0
                          => /\ d # c /\ stage[d] = "live" /\ closes[d] = 0
                             /\ d \in Users(r) /\ at[d] = r /\ at'[d] = r
    <2> SUFFICES ASSUME NEW d \in Conn, stage'[d] = "live", closes'[d] = 0
                 PROVE  /\ d # c /\ stage[d] = "live" /\ closes[d] = 0
                        /\ d \in Users(r) /\ at[d] = r /\ at'[d] = r
      OBVIOUS
    <2>1. d # c /\ stage[d] = "live" /\ closes[d] = 0 /\ at'[d] = at[d] /\ at[d] # 0
      BY DEF StagesOK
    <2> QED BY <1>1, <2>1, UserOfCurrent
  <1>5. \A e \in 1 .. Len(dbs) : e # r =>
          /\ dbs[e].refs = 0 /\ dbs[e].file \in {"closed", "failed"}
          /\ Users(e) = {} /\ Users(e)' = {}
    BY <1>1, FS_EmptySet DEF Core, EntryOK
  <1>6. CASE dbs[r].refs > 1
    <2> DEFINE new == [dbs[r] EXCEPT !.refs = @ - 1]
    <2>1. dbs' = [dbs EXCEPT ![r] = new] /\ current' = r /\ crashed' = crashed
      BY <1>1, <1>6 DEF Unref
    <2>2. new \in Entry /\ new.refs = dbs[r].refs - 1 /\ new.by = dbs[r].by /\ new.file = dbs[r].file
      BY <1>1, <1>6 DEF Entry
    <2> HIDE DEF new
    <2>3. /\ Len(dbs') = Len(dbs) /\ dbs'[r] = new
          /\ \A e \in 1 .. Len(dbs) : e # r => dbs'[e] = dbs[e]
      BY <1>2, <2>1, <2>2, ReplaceEntry
    <2>4. EntryOK(r)'
      <3>1. dbs[r].file # "creating" /\ (dbs[r].file = "failed" => dbs[r].by # c)
        BY <1>1
      <3>2. \A d \in Users(r) \ {c} : d \in Conn /\ stage'[d] = stage[d]
        BY DEF Users
      <3> QED BY <1>1, <1>3, <1>6, <2>1, <2>2, <2>3, <3>1, <3>2 DEF EntryOK
    <2>5. \A e \in 1 .. Len(dbs) : e # r => EntryOK(e)'
      BY <1>5, <2>1, <2>3 DEF EntryOK
    <2>6. dbs'[r].refs = Cardinality(Users(r)')
      BY <1>3, <2>2, <2>3
    <2>7. \A e \in 1 .. Len(dbs) : e # r => dbs'[e].refs = Cardinality(Users(e)')
      BY <1>5, <2>3, FS_EmptySet
    <2>8. UsersHaveTheirDb'
      BY <1>4, <2>2, <2>3 DEF UsersHaveTheirDb, Core
    <2> QED BY <1>5, <2>1, <2>3, <2>4, <2>5, <2>6, <2>7, <2>8 DEF Core
  <1>7. CASE dbs[r].refs = 1
    <2>1. dbs[r].file = "ready"
      BY <1>1, <1>3, <1>7 DEF EntryOK, Entry
    <2> DEFINE new == [dbs[r] EXCEPT !.refs = 0, !.file = "closed"]
    <2>2. /\ current' = 0 /\ crashed' = (dbs[r].file = "failed")
          /\ dbs' = [dbs EXCEPT ![r].refs = 0,
                                ![r].file = IF @ = "ready" THEN "closed" ELSE @]
      BY <1>1, <1>7 DEF Unref
    <2>3. dbs' = [dbs EXCEPT ![r] = new] /\ ~crashed'
      BY <1>2, <2>1, <2>2
    <2>4. new \in Entry /\ new.refs = 0 /\ new.file = "closed"
      BY <1>1 DEF Entry
    <2> HIDE DEF new
    <2>5. /\ Len(dbs') = Len(dbs) /\ dbs'[r] = new
          /\ \A e \in 1 .. Len(dbs) : e # r => dbs'[e] = dbs[e]
      BY <1>2, <2>3, <2>4, ReplaceEntry
    <2>6. \A e \in 1 .. Len(dbs) :
            /\ Users(e)' = {} /\ e # current'
            /\ dbs'[e].file \in {"closed", "failed"} /\ dbs'[e].refs = 0
      <3>1. Users(r)' = {} /\ dbs'[r].file = "closed" /\ dbs'[r].refs = 0
        BY <1>3, <1>7, <2>4, <2>5
      <3>2. \A e \in 1 .. Len(dbs) : e # r =>
              Users(e)' = {} /\ dbs'[e].file \in {"closed", "failed"} /\ dbs'[e].refs = 0
        BY <1>5, <2>5
      <3>3. \A e \in 1 .. Len(dbs) : e # 0 /\ current' = 0
        BY <1>2, <2>2
      <3> QED BY <3>1, <3>2, <3>3
    <2>7. \A e \in 1 .. Len(dbs) : EntryOK(e)' /\ dbs'[e].refs = Cardinality(Users(e)')
      BY <2>6, FS_EmptySet DEF EntryOK
    <2>8. UsersHaveTheirDb'
      BY <1>3, <1>4, <1>7 DEF UsersHaveTheirDb
    <2> QED BY <2>3, <2>5, <2>6, <2>7, <2>8 DEF Core
  <1> QED BY <1>1, <1>6, <1>7 DEF Unref

-----------------------------------------------------------------------------
\* Every step keeps the room in order.

LEMMA FreshBroker ==
  ASSUME TypeOK, StagesOK, NEW c \in Conn, stage[c] = "new"
  PROVE  at[c] = 0 /\ closes[c] = 0 /\ \A e \in 1 .. Len(dbs) : c \notin Users(e)
  BY LenProperties DEF StagesOK, Users, TypeOK

LEMMA FirstStep ==
  ASSUME TypeOK, StagesOK, Core, NEW c \in Conn, GetFirst(c)
  PROVE  Core'
  <1>1. dbs \in Seq(Entry) /\ Len(dbs) \in Nat
    BY LenProperties DEF TypeOK
  <1>0. PICK n \in Nat : n = Len(dbs) + 1
    BY <1>1
  <1> DEFINE new == [refs |-> 1, by |-> c, file |-> "creating"]
  <1>2. new \in Entry
    BY DEF Entry
  <1>3. /\ dbs' = Append(dbs, new) /\ current = 0 /\ current' = n
        /\ stage[c] = "new" /\ stage' = [stage EXCEPT ![c] = "waiting"]
        /\ at' = [at EXCEPT ![c] = n] /\ closes' = closes /\ crashed' = crashed
    BY <1>0 DEF GetFirst, Announces
  <1>4. /\ Len(dbs') = n /\ dbs'[n] = new
        /\ \A e \in 1 .. Len(dbs) : dbs'[e] = dbs[e]
    BY <1>0, <1>1, <1>2, <1>3, AppendEntry
  <1>5. \A e \in 1 .. Len(dbs) : e # n /\ e # current /\ e # current'
    BY <1>0, <1>1, <1>3
  <1>6. \A e \in 1 .. Len(dbs) : Users(e) = {} /\ Users(e)' = {}
    <2>1. \A e \in 1 .. Len(dbs) : Users(e) = {}
      BY <1>5 DEF Core
    <2>2. \A d \in Conn \ {c} : at'[d] = at[d]
      BY <1>3 DEF TypeOK
    <2>3. at'[c] = n
      BY <1>3 DEF TypeOK
    <2> QED BY <1>3, <1>5, <2>1, <2>2, <2>3 DEF Users
  <1>7. Users(n)' = {c}
    <2>1. \A d \in Conn \ {c} : at'[d] = at[d] /\ at[d] # n
      BY <1>0, <1>1, <1>3 DEF TypeOK
    <2>2. at'[c] = n /\ closes'[c] = 0
      BY <1>3, FreshBroker DEF TypeOK
    <2> QED BY <2>1, <2>2 DEF Users
  <1>8. new.file = "creating" /\ new.refs = 1 /\ new.by = c /\ stage'[c] = "waiting"
    BY <1>3 DEF TypeOK
  <1> HIDE DEF new
  <1>9. EntryOK(n)' /\ dbs'[n].refs = Cardinality(Users(n)')
    <2>1. dbs'[n].refs = Cardinality(Users(n)')
      BY <1>4, <1>7, <1>8, FS_Singleton
    <2>2. EntryOK(n)'
      BY <1>3, <1>4, <1>7, <1>8 DEF EntryOK
    <2> QED BY <2>1, <2>2
  <1>10. \A e \in 1 .. Len(dbs) : EntryOK(e)' /\ dbs'[e].refs = Cardinality(Users(e)')
    BY <1>4, <1>5, <1>6 DEF EntryOK, Core
  <1>11. UsersHaveTheirDb'
    <2> SUFFICES ASSUME NEW d \in Conn, stage'[d] = "live", closes'[d] = 0
                 PROVE  dbs'[at'[d]].file = "ready"
      BY DEF UsersHaveTheirDb
    <2>1. d # c /\ stage[d] = "live" /\ at'[d] = at[d] /\ closes[d] = 0
      BY <1>3, <1>8 DEF TypeOK
    <2>2. at[d] \in 1 .. Len(dbs)
      BY <1>1, <2>1 DEF StagesOK, TypeOK
    <2> QED BY <1>4, <2>1, <2>2 DEF Core, UsersHaveTheirDb
  <1>12. \A e \in 1 .. Len(dbs') : e = n \/ e \in 1 .. Len(dbs)
    BY <1>0, <1>1, <1>4
  <1> QED BY <1>3, <1>5, <1>6, <1>9, <1>10, <1>11, <1>12 DEF Core

LEMMA AgainStep ==
  ASSUME TypeOK, StagesOK, Core, NEW c \in Conn, GetAgain(c)
  PROVE  Core'
  <1>1. dbs \in Seq(Entry) /\ Len(dbs) \in Nat
    BY LenProperties DEF TypeOK
  <1>2. PICK r \in 1 .. Len(dbs) : r = current /\ dbs[r] \in Entry
    BY <1>1, ElementOfSeq DEF GetAgain, TypeOK
  <1> DEFINE new == [dbs[r] EXCEPT !.refs = @ + 1]
  <1>3. /\ dbs' = [dbs EXCEPT ![r] = new] /\ current' = r
        /\ stage[c] = "new" /\ stage' = [stage EXCEPT ![c] = "waiting"]
        /\ at' = [at EXCEPT ![c] = r] /\ closes' = closes /\ crashed' = crashed
    BY <1>2 DEF GetAgain, Announces
  <1>4. new \in Entry /\ new.refs = dbs[r].refs + 1 /\ new.by = dbs[r].by /\ new.file = dbs[r].file
    BY <1>2 DEF Entry
  <1> HIDE DEF new
  <1>5. /\ Len(dbs') = Len(dbs) /\ dbs'[r] = new
        /\ \A e \in 1 .. Len(dbs) : e # r => dbs'[e] = dbs[e]
    BY <1>1, <1>2, <1>3, <1>4, ReplaceEntry
  <1>6. /\ at'[c] = r /\ closes[c] = 0 /\ closes'[c] = 0 /\ stage'[c] = "waiting"
        /\ \A d \in Conn \ {c} : at'[d] = at[d] /\ stage'[d] = stage[d]
    BY <1>3, FreshBroker DEF TypeOK
  <1>7. Users(r)' = Users(r) \cup {c} /\ c \notin Users(r)
    <2>1. c \notin Users(r)
      BY <1>3, FreshBroker
    <2> QED BY <1>3, <1>6, <2>1 DEF Users
  <1>8. \A e \in 1 .. Len(dbs) : e # r => Users(e) = {} /\ Users(e)' = {}
    <2>1. \A e \in 1 .. Len(dbs) : e # r => Users(e) = {}
      BY <1>2 DEF Core
    <2> QED BY <1>3, <1>6, <2>1 DEF Users
  <1>9. dbs'[r].refs = Cardinality(Users(r)')
    BY <1>4, <1>5, <1>7, CountFacts DEF Core
  <1>10. EntryOK(r)'
    <2>1. EntryOK(r)
      BY DEF Core
    <2>2. \A d \in Users(r) : d \in Conn \ {c} /\ stage'[d] = stage[d]
      BY <1>6, <1>7 DEF Users
    <2> QED BY <1>2, <1>3, <1>4, <1>5, <1>6, <1>7, <2>1, <2>2 DEF EntryOK
  <1>11. \A e \in 1 .. Len(dbs) : e # r => EntryOK(e)' /\ dbs'[e].refs = Cardinality(Users(e)')
    BY <1>2, <1>3, <1>5, <1>8 DEF EntryOK, Core
  <1>12. UsersHaveTheirDb'
    <2> SUFFICES ASSUME NEW d \in Conn, stage'[d] = "live", closes'[d] = 0
                 PROVE  dbs'[at'[d]].file = "ready"
      BY DEF UsersHaveTheirDb
    <2>1. d # c /\ stage[d] = "live" /\ at'[d] = at[d] /\ closes[d] = 0
      BY <1>3, <1>6
    <2>2. at[d] \in 1 .. Len(dbs) /\ dbs[at[d]].file = "ready"
      BY <1>1, <2>1 DEF StagesOK, TypeOK, Core, UsersHaveTheirDb
    <2> QED BY <1>4, <1>5, <2>1, <2>2
  <1> QED BY <1>3, <1>5, <1>8, <1>9, <1>10, <1>11, <1>12 DEF Core

\* Users only looks at the brokers' entries and closes.
LEMMA SameUsers ==
  ASSUME UNCHANGED <<at, closes>>
  PROVE  \A e : Users(e)' = Users(e)
  BY DEF Users

LEMMA CoreFrame ==
  ASSUME Core, UNCHANGED <<dbs, current, stage, at, closes, crashed>>
  PROVE  Core'
  <1>1. \A e : Users(e)' = Users(e)
    BY SameUsers
  <1>2. \A e \in 1 .. Len(dbs) : EntryOK(e)'
    <2> SUFFICES ASSUME NEW e \in 1 .. Len(dbs) PROVE EntryOK(e)'
      OBVIOUS
    <2>1. EntryOK(e)
      BY DEF Core
    <2> QED BY <1>1, <2>1 DEF EntryOK
  <1>3. UsersHaveTheirDb'
    BY DEF Core, UsersHaveTheirDb
  <1> QED BY <1>1, <1>2, <1>3 DEF Core

LEMMA CreatedStep ==
  ASSUME TypeOK, StagesOK, Core, NEW r \in 1 .. Len(dbs), DbCreated(r) \/ DbNotCreated(r)
  PROVE  Core'
  <1>1. dbs \in Seq(Entry) /\ Len(dbs) \in Nat /\ dbs[r] \in Entry
    BY ElementOfSeq, LenProperties DEF TypeOK
  <1>2. /\ dbs[r].file = "creating" /\ UNCHANGED <<current, stage, at, closes>>
        /\ EntryOK(r) /\ dbs[r].refs = Cardinality(Users(r))
    BY DEF DbCreated, DbNotCreated, Core, brokers
  <1>3. r = current /\ dbs[r].by \in Users(r) /\ \A c \in Users(r) : stage[c] = "waiting"
    BY <1>2 DEF EntryOK
  <1>4. dbs[r].refs # 0
    BY <1>2, <1>3, CountFacts
  <1>5. PICK f \in {"ready", "failed"} : dbs' = [dbs EXCEPT ![r] = [dbs[r] EXCEPT !.file = f]]
    <2>1. CASE DbCreated(r)
      BY <1>4, <2>1 DEF DbCreated
    <2>2. CASE DbNotCreated(r)
      BY <2>2 DEF DbNotCreated
    <2> QED BY <2>1, <2>2
  <1>6. ~crashed'
    BY <1>4 DEF DbCreated, DbNotCreated, Core
  <1> DEFINE new == [dbs[r] EXCEPT !.file = f]
  <1>7. new \in Entry /\ new.refs = dbs[r].refs /\ new.by = dbs[r].by /\ new.file = f
    BY <1>1 DEF Entry
  <1>8. dbs' = [dbs EXCEPT ![r] = new]
    BY <1>5
  <1> HIDE DEF new
  <1>9. /\ Len(dbs') = Len(dbs) /\ dbs'[r] = new
        /\ \A e \in 1 .. Len(dbs) : e # r => dbs'[e] = dbs[e]
    BY <1>1, <1>7, <1>8, ReplaceEntry
  <1>10. \A e : Users(e)' = Users(e)
    BY <1>2, SameUsers
  <1>11. EntryOK(r)'
    BY <1>2, <1>3, <1>7, <1>9, <1>10 DEF EntryOK
  <1>12. \A e \in 1 .. Len(dbs) : e # r => EntryOK(e)'
    <2> SUFFICES ASSUME NEW e \in 1 .. Len(dbs), e # r PROVE EntryOK(e)'
      OBVIOUS
    <2>1. EntryOK(e)
      BY DEF Core
    <2> QED BY <1>2, <1>9, <1>10, <2>1 DEF EntryOK
  <1>13. UsersHaveTheirDb'
    <2> SUFFICES ASSUME NEW d \in Conn, stage[d] = "live", closes[d] = 0
                 PROVE  dbs'[at[d]].file = "ready"
      BY <1>2 DEF UsersHaveTheirDb
    <2>1. at[d] # r
      BY <1>3 DEF Users
    <2>2. at[d] \in 1 .. Len(dbs)
      BY <1>1 DEF StagesOK, TypeOK
    <2> QED BY <1>9, <2>1, <2>2 DEF Core, UsersHaveTheirDb
  <1>14. \A e \in 1 .. Len(dbs) : dbs'[e].refs = Cardinality(Users(e)')
                               /\ (e # current' => Users(e)' = {})
    BY <1>2, <1>7, <1>9, <1>10 DEF Core
  <1> QED BY <1>6, <1>9, <1>11, <1>12, <1>13, <1>14 DEF Core

\* A broker whose promise is settled goes on; the database is there, or the
\* broker is refused.
LEMMA ResumedStep ==
  ASSUME TypeOK, StagesOK, Core, NEW c \in Conn, Connect(c) \/ StartFails(c) \/ CreatorRefused(c)
  PROVE  Core'
  <1>1. /\ stage[c] = "waiting" /\ at[c] # 0 /\ closes[c] = 0
        /\ dbs[at[c]].file # "creating"
    BY DEF Connect, StartFails, CreatorRefused, Resumable, Waiting, StagesOK
  <1>2. PICK r \in 1 .. Len(dbs) : r = current /\ at[c] = r /\ c \in Users(r) /\ EntryOK(r)
    BY <1>1, UserOfCurrent
  <1>3. dbs[r].file # "closed"
    BY <1>2 DEF EntryOK
  <1>4. PICK s \in {"live", "refused"} :
          /\ stage' = [stage EXCEPT ![c] = s]
          /\ dbs[r].file = IF s = "live" THEN "ready" ELSE "failed"
          /\ UNCHANGED <<dbs, current, at, closes, crashed>>
    BY <1>2, <1>3 DEF Connect, StartFails, CreatorRefused
  <1>5. stage'[c] = s /\ \A d \in Conn \ {c} : stage'[d] = stage[d]
    BY <1>4 DEF TypeOK
  <1>6. \A e : Users(e)' = Users(e)
    BY <1>4, SameUsers
  <1>7. EntryOK(r)'
    <2>1. CASE s = "live"
      BY <1>2, <1>4, <1>6, <2>1 DEF EntryOK
    <2>2. CASE s = "refused"
      <3>1. \A d \in Users(r) : d \in Conn /\ stage[d] # "live" /\ stage'[d] # "live"
        BY <1>2, <1>4, <1>5, <2>2 DEF EntryOK, Users
      <3> QED BY <1>2, <1>4, <1>6, <2>2, <3>1 DEF EntryOK
    <2> QED BY <2>1, <2>2
  <1>8. \A e \in 1 .. Len(dbs) : e # r => EntryOK(e)'
    <2> SUFFICES ASSUME NEW e \in 1 .. Len(dbs), e # r PROVE EntryOK(e)'
      OBVIOUS
    <2>1. EntryOK(e)
      BY DEF Core
    <2> QED BY <1>2, <1>4, <1>6, <2>1 DEF EntryOK
  <1>9. UsersHaveTheirDb'
    <2> SUFFICES ASSUME NEW d \in Conn, stage'[d] = "live", closes[d] = 0
                 PROVE  dbs[at[d]].file = "ready"
      BY <1>4 DEF UsersHaveTheirDb
    <2>1. CASE d = c
      BY <1>2, <1>4, <1>5, <2>1
    <2>2. CASE d # c
      BY <1>5, <2>2 DEF Core, UsersHaveTheirDb
    <2> QED BY <2>1, <2>2
  <1> QED BY <1>4, <1>6, <1>7, <1>8, <1>9 DEF Core

LEMMA RefusedStep ==
  ASSUME TypeOK, StagesOK, Core, NEW c \in Conn, Refused(c)
  PROVE  Core'
  <1>1. /\ stage[c] = "waiting" /\ at[c] # 0 /\ closes[c] = 0 /\ Unref
        /\ dbs[at[c]].file # "creating" /\ dbs[at[c]].by # c
        /\ stage' = [stage EXCEPT ![c] = "refused"] /\ at' = [at EXCEPT ![c] = 0]
        /\ closes' = closes
    BY DEF Refused, Resumable, Waiting, StagesOK
  <1>2. /\ stage'[c] = "refused" /\ at'[c] = 0
        /\ \A d \in Conn \ {c} : stage'[d] = stage[d] /\ at'[d] = at[d] /\ closes'[d] = closes[d]
    BY <1>1 DEF TypeOK
  <1>3. \A e \in 1 .. Len(dbs) : Users(e)' = Users(e) \ {c}
    <2> SUFFICES ASSUME NEW e \in 1 .. Len(dbs) PROVE Users(e)' = Users(e) \ {c}
      OBVIOUS
    <2>1. e # 0
      BY LenProperties DEF TypeOK
    <2> QED BY <1>1, <1>2, <2>1 DEF Users
  <1> QED BY <1>1, <1>2, <1>3, GivesBack

\* Closing a broker for the first time gives its reference back; closing one
\* without a SyncConnection does nothing.
LEMMA CloseStep ==
  ASSUME TypeOK, StagesOK, Core, ClosedOnce', NEW c \in Conn, Close(c), UNCHANGED <<stage, at>>
  PROVE  Core'
  <1>1. CASE stage[c] # "live"
    BY <1>1, CoreFrame DEF Close
  <1>2. CASE stage[c] = "live"
    <2>1. Unref /\ closes' = [closes EXCEPT ![c] = @ + 1] /\ closes[c] \in Nat
      BY <1>2, ConstantsAssumption DEF Close, TypeOK
    <2>2. /\ closes'[c] = closes[c] + 1
          /\ \A d \in Conn \ {c} : closes'[d] = closes[d]
      BY <2>1 DEF TypeOK
    <2>3. closes[c] = 0 /\ closes'[c] # 0
      BY <2>1, <2>2 DEF ClosedOnce
    <2>4. at[c] # 0 /\ dbs[at[c]].file = "ready"
      BY <1>2, <2>3 DEF StagesOK, Core, UsersHaveTheirDb
    <2>5. \A e \in 1 .. Len(dbs) : Users(e)' = Users(e) \ {c}
      BY <2>2, <2>3 DEF Users
    <2> QED BY <2>1, <2>2, <2>3, <2>4, <2>5, GivesBack
  <1> QED BY <1>1, <1>2

\* A broker that was closed at most once was so before the step.
LEMMA ClosesGrow ==
  ASSUME TypeOK, [Next]_vars, ClosedOnce'
  PROVE  ClosedOnce
  <1>1. \A c \in Conn : closes[c] \in Nat
    BY ConstantsAssumption DEF TypeOK
  <1>2. closes' = closes \/ \E c \in Conn : closes' = [closes EXCEPT ![c] = @ + 1]
    BY DEF Next, vars, brokers, GetFirst, GetAgain, Announces, Connect, StartFails, CreatorRefused,
           Refused, HandlerFails, SocketErrors, SocketCloses, Close, DbCreated, DbNotCreated
  <1>3. \A c \in Conn : closes[c] <= closes'[c]
    <2>1. CASE closes' = closes
      BY <1>1, <2>1
    <2>2. ASSUME NEW d \in Conn, closes' = [closes EXCEPT ![d] = @ + 1]
          PROVE  \A c \in Conn : closes[c] <= closes'[c]
      BY <1>1, <2>2 DEF TypeOK
    <2> QED BY <1>2, <2>1, <2>2
  <1>4. \A c \in Conn : closes'[c] \in Nat
    <2>1. CASE closes' = closes
      BY <1>1, <2>1
    <2>2. ASSUME NEW d \in Conn, closes' = [closes EXCEPT ![d] = @ + 1]
          PROVE  \A c \in Conn : closes'[c] \in Nat
      BY <1>1, <2>2 DEF TypeOK
    <2> QED BY <1>2, <2>1, <2>2
  <1> QED BY <1>1, <1>3, <1>4 DEF ClosedOnce

LEMMA CoreStep ==
  ASSUME TypeOK, StagesOK, Core, ClosedOnce', [Next]_vars
  PROVE  Core'
  <1>1. CASE UNCHANGED vars
    BY <1>1, CoreFrame DEF vars, brokers
  <1>2. ASSUME NEW c \in Conn, HandlerFails(c) \/ SocketErrors(c) \/ SocketCloses(c)
        PROVE  Close(c) /\ UNCHANGED <<stage, at>>
    BY <1>2 DEF HandlerFails, SocketErrors, SocketCloses
  <1> QED BY <1>1, <1>2, FirstStep, AgainStep, CreatedStep, ResumedStep, RefusedStep, CloseStep
          DEF Next

LEMMA CoreInit == Init => Core
  BY EmptySeq DEF Init, Core, UsersHaveTheirDb

(***************************************************************************)
(* While every broker is closed at most once, references are exact, every  *)
(* live connection has its database open and no rejection is unhandled,    *)
(* however slow, failing or refused the creation of the database is        *)
(* (DBCache.getAndRef and unref, createSyncConnection).                    *)
(***************************************************************************)
THEOREM RoomInOrder == Spec => []RoomInv
  <1>1. Init => TypeOK /\ RoomInv
    BY InitType, CoreInit, RoomInvIsCore
  <1>2. TypeOK /\ RoomInv /\ [Next]_vars => (TypeOK /\ RoomInv)'
    <2> SUFFICES ASSUME TypeOK, RoomInv, [Next]_vars PROVE TypeOK' /\ RoomInv'
      OBVIOUS
    <2>1. StagesOK /\ (ClosedOnce => Core)
      BY RoomInvIsCore
    <2>2. TypeOK' /\ StagesOK'
      BY <2>1, NextType
    <2>3. ClosedOnce' => Core'
      BY <2>1, ClosesGrow, CoreStep
    <2>4. RoomInv' <=> StagesOK' /\ (ClosedOnce' => Core')
      BY DEF RoomInv, Core, RefsCountUsers, UsersHaveTheirDbIfClosedOnce, NoIllegalState
    <2> QED BY <2>2, <2>3, <2>4
  <1> QED BY <1>1, <1>2, PTL DEF Spec

\* A connection that is not closed has its database, if none is closed twice.
THEOREM UsersKeepTheirDb == Spec => []UsersHaveTheirDbIfClosedOnce
  <1>1. RoomInv => UsersHaveTheirDbIfClosedOnce
    BY DEF RoomInv
  <1> QED BY <1>1, RoomInOrder, PTL

\* An entry of the cache counts those who wait for it or use it.
THEOREM CountsAreExact == Spec => []RefsCountUsers
  <1>1. RoomInv => RefsCountUsers
    BY DEF RoomInv
  <1> QED BY <1>1, RoomInOrder, PTL

\* The room's file is open once: what is not in the map is closed or failed.
THEOREM RoomOpenOnce == Spec => []OneOpenDb
  <1>1. RoomInv => OneOpenDb
    BY DEF RoomInv, OneOpenDb, EntryOK
  <1> QED BY <1>1, RoomInOrder, PTL
=============================================================================
