------------------------------ MODULE HookProofs ------------------------------
(***************************************************************************)
(* What the React hooks rest on.                                           *)
(*                                                                         *)
(* useSync, about SyncLock: for any tabs and any number of hooks, starts   *)
(* and failures, at most one tab syncs, whoever was not told to stop can   *)
(* still be stopped, and nobody waits for a lock that is held for nothing. *)
(*                                                                         *)
(* useQuery, about LiveQuery: what it shows is what its component asked    *)
(* for, and a component does not wait for what nothing will bring.  The    *)
(* methods of the state machine are functions of its fields, so each has   *)
(* one lemma that says which fields it sets (PrepareIs, ...) and one that  *)
(* says that it keeps the fields right (PrepareKeeps, ...); a step is then *)
(* one or two of them, and what it does to the database.                   *)
(***************************************************************************)
EXTENDS LiveQuery, SyncLock, FiniteSetTheorems, SequenceTheorems, WellFoundedInduction,
        TLAPS

(***************************************************************************)
(* PART I.  The exclusive start.                                           *)
(***************************************************************************)

-----------------------------------------------------------------------------
\* The inductive invariant.  One tab syncs because whoever is past the queue and was
\* not stopped holds the lock, the lock has one holder, and what a stop leaves behind
\* never connects.

StartsOK == starts \in [Tab -> Seq(Start)]

\* No two requests have the same place in the queue.
TurnsDiffer ==
  \A t, u \in Tab : \A i \in DOMAIN starts[t], j \in DOMAIN starts[u] :
    starts[t][i].turn # 0 /\ starts[t][i].turn = starts[u][j].turn => t = u /\ i = j

\* Whoever began to open the database and was not stopped has the lock.
OpenersHold ==
  \A t \in Tab : \A i \in DOMAIN starts[t] : ~starts[t][i].stopRequested /\ starts[t][i].stage # "queued" => Holds(t, i)

\* A stopped start neither reads nor is connected.
StoppedAreOut ==
  \A t \in Tab : \A i \in DOMAIN starts[t] : starts[t][i].stage \in {"reading", "connected"} => ~starts[t][i].stopRequested

LockInv == StartsOK /\ TurnsDiffer /\ OpenersHold /\ StoppedAreOut

-----------------------------------------------------------------------------
\* The lock has one holder.
LEMMA OneHolder ==
  ASSUME StartsOK, TurnsDiffer,
         NEW t \in Tab, NEW i \in DOMAIN starts[t], NEW u \in Tab, NEW j \in DOMAIN starts[u],
         Holds(t, i), Holds(u, j)
  PROVE  t = u /\ i = j
  <1>1. starts[t][i] \in Start /\ starts[u][j] \in Start
    BY ElementOfSeq DEF StartsOK
  <1>2. starts[t][i].turn = starts[u][j].turn
    BY <1>1 DEF Holds, Start
  <1>3. starts[t][i].turn # 0
    BY DEF Holds, Turns
  <1> QED BY <1>2, <1>3 DEF TurnsDiffer

\* A turn in the queue is the turn of a start.
LEMMA TurnsAre ==
  ASSUME NEW n
  PROVE  n \in Turns <=> n # 0 /\ \E t \in Tab : \E i \in DOMAIN starts[t] : starts[t][i].turn = n
  BY DEF Turns

LEMMA TurnsAreNext ==
  ASSUME NEW n
  PROVE  n \in Turns' <=> n # 0 /\ \E t \in Tab : \E i \in DOMAIN starts'[t] : starts'[t][i].turn = n
  BY DEF Turns

\* A step that leaves all starts but one as they were.
OthersStay(t, i) ==
  \A u \in Tab : /\ DOMAIN starts'[u] = DOMAIN starts[u]
                 /\ \A j \in DOMAIN starts[u] : (u # t \/ j # i) => starts'[u][j] = starts[u][j]

LEMMA ChangeStart ==
  ASSUME StartsOK, NEW t \in Tab, NEW i \in DOMAIN starts[t], NEW x \in Start,
         starts' = [starts EXCEPT ![t][i] = x]
  PROVE  StartsOK' /\ starts'[t][i] = x /\ OthersStay(t, i)
  <1>1. starts[t] \in Seq(Start) /\ i \in 1 .. Len(starts[t])
    BY LenProperties DEF StartsOK
  <1> DEFINE new == [starts[t] EXCEPT ![i] = x]
  <1>2. new \in Seq(Start) /\ DOMAIN new = DOMAIN starts[t] /\ new[i] = x
        /\ \A j \in DOMAIN starts[t] : j # i => new[j] = starts[t][j]
    BY <1>1, ExceptSeq, LenProperties
  <1>3. starts' = [starts EXCEPT ![t] = new]
    OBVIOUS
  <1>4. StartsOK' /\ starts'[t] = new /\ \A u \in Tab : u # t => starts'[u] = starts[u]
    BY <1>2, <1>3 DEF StartsOK
  <1> HIDE DEF new
  <1> QED BY <1>2, <1>4 DEF OthersStay

\* A step that moves a start on, its turn and its stopRequested as they were.
LEMMA GoesOn ==
  ASSUME LockInv, NEW t \in Tab, NEW i \in DOMAIN starts[t], NEW from, NEW to \in Stage,
         Goes(t, i, from, to),
         ~starts[t][i].stopRequested => Holds(t, i),
         starts[t][i].stopRequested => to \notin {"reading", "connected"}
  PROVE  LockInv'
  <1> DEFINE old == starts[t][i]
  <1>1. old \in Start
    BY ElementOfSeq DEF LockInv, StartsOK
  <1> PICK x \in Start : x = [old EXCEPT !.stage = to]
    BY <1>1 DEF Start
  <1>2. x.turn = old.turn /\ x.stopRequested = old.stopRequested /\ x.stage = to
    BY <1>1 DEF Start
  <1>3. starts' = [starts EXCEPT ![t][i] = x]
    BY DEF Goes
  <1>4. StartsOK' /\ starts'[t][i] = x /\ OthersStay(t, i)
    <2>1. StartsOK
      BY DEF LockInv
    <2> QED BY <1>3, <2>1, ChangeStart
  <1>5. \A u \in Tab : \A j \in DOMAIN starts[u] : /\ starts'[u][j].turn = starts[u][j].turn
                              /\ starts'[u][j].stopRequested = starts[u][j].stopRequested
    BY <1>2, <1>4 DEF OthersStay
  <1>6. \A n : n \in Turns' <=> n \in Turns
    BY <1>4, <1>5, TurnsAre, TurnsAreNext DEF OthersStay
  <1>7. \A u \in Tab : \A j \in DOMAIN starts[u] : Holds(u, j) => Holds(u, j)'
    BY <1>5, <1>6 DEF Holds
  <1>8. TurnsDiffer'
    BY <1>4, <1>5 DEF TurnsDiffer, LockInv, OthersStay
  <1>9. OpenersHold'
    <2> SUFFICES ASSUME NEW u \in Tab, NEW j \in DOMAIN starts[u], ~starts'[u][j].stopRequested, starts'[u][j].stage # "queued"
                 PROVE  Holds(u, j)
      BY <1>4, <1>7 DEF OpenersHold, OthersStay
    <2>1. CASE u = t /\ j = i
      BY <2>1, <1>5
    <2>2. CASE (u # t \/ j # i)
      BY <2>2, <1>4 DEF LockInv, OpenersHold, OthersStay
    <2> QED BY <2>1, <2>2
  <1>10. StoppedAreOut'
    <2> SUFFICES ASSUME NEW u \in Tab, NEW j \in DOMAIN starts[u],
                        starts'[u][j].stage \in {"reading", "connected"}
                 PROVE  ~starts'[u][j].stopRequested
      BY <1>4 DEF StoppedAreOut, OthersStay
    <2>1. CASE u = t /\ j = i
      BY <2>1, <1>2, <1>4
    <2>2. CASE u # t \/ j # i
      BY <2>2, <1>4 DEF LockInv, StoppedAreOut, OthersStay
    <2> QED BY <2>1, <2>2
  <1> QED BY <1>4, <1>8, <1>9, <1>10 DEF LockInv

-----------------------------------------------------------------------------
\* One lemma for each step that does something else to starts.

LEMMA StartSyncStep ==
  ASSUME LockInv, NEW t \in Tab, StartSync(t)
  PROVE  LockInv'
  <1>1. CASE starts' = starts
    BY <1>1 DEF LockInv, StartsOK, TurnsDiffer, OpenersHold, StoppedAreOut, Holds, Turns
  <1>2. CASE starts' # starts
    <2> PICK n \in NextTurns : starts' = [starts EXCEPT ![t] =
               Append(@, [turn |-> n, stopRequested |-> FALSE, stage |-> "queued"])]
      BY <1>2 DEF StartSync
    <2> PICK x, k : /\ x = [turn |-> n, stopRequested |-> FALSE, stage |-> "queued"]
                    /\ k = Len(starts[t]) + 1
      OBVIOUS
    <2>1. \A u \in Tab : \A j \in DOMAIN starts[u] : starts[u][j] \in Start
      BY ElementOfSeq DEF LockInv, StartsOK
    <2>2. \A l \in Turns : l \in Nat /\ l < n
      BY <2>1, TurnsAre DEF NextTurns, Start
    <2>3. n \in Nat /\ n # 0
      BY <2>2 DEF NextTurns
    <2>4. starts[t] \in Seq(Start) /\ x \in Start
      BY <2>3 DEF LockInv, StartsOK, Start, Stage
    <2>5. /\ Append(starts[t], x) \in Seq(Start)
          /\ DOMAIN Append(starts[t], x) = 1 .. k
          /\ DOMAIN starts[t] = 1 .. Len(starts[t]) /\ Len(starts[t]) \in Nat
          /\ \A j \in DOMAIN starts[t] : Append(starts[t], x)[j] = starts[t][j]
          /\ Append(starts[t], x)[k] = x
      BY <2>4, AppendProperties, LenProperties
    <2>6. /\ StartsOK' /\ starts'[t] = Append(starts[t], x)
          /\ \A u \in Tab : u # t => starts'[u] = starts[u]
      BY <2>5 DEF LockInv, StartsOK
    <2>7. /\ DOMAIN starts'[t] = DOMAIN starts[t] \cup {k}
          /\ \A u \in Tab : u # t => DOMAIN starts'[u] = DOMAIN starts[u]
          /\ \A u \in Tab : \A j \in DOMAIN starts[u] : starts'[u][j] = starts[u][j]
          /\ starts'[t][k] = x /\ x.turn = n /\ x.stage = "queued" /\ k \notin DOMAIN starts[t]
      BY <2>5, <2>6
    <2>8. \A l : l \in Turns' <=> l \in Turns \/ l = n
      BY <2>3, <2>7, TurnsAre, TurnsAreNext
    <2>9. \A u \in Tab : \A j \in DOMAIN starts[u] : Holds(u, j) => Holds(u, j)'
      <3> SUFFICES ASSUME NEW u \in Tab, NEW j \in DOMAIN starts[u], Holds(u, j)
                   PROVE  Holds(u, j)'
        OBVIOUS
      <3>1. starts'[u][j].turn = starts[u][j].turn /\ starts[u][j].turn \in Turns
            /\ starts[u][j].turn <= n
        BY <2>2, <2>3, <2>7 DEF Holds
      <3> QED BY <3>1, <2>8 DEF Holds
    <2>10. TurnsDiffer'
      <3> SUFFICES ASSUME NEW u \in Tab, NEW i \in DOMAIN starts'[u], NEW v \in Tab, NEW j \in DOMAIN starts'[v],
                          starts'[u][i].turn # 0,
                          starts'[u][i].turn = starts'[v][j].turn
                   PROVE  u = v /\ i = j
        BY DEF TurnsDiffer
      <3>1. \A w \in Tab : \A l \in DOMAIN starts[w] : starts[w][l].turn # 0 => starts[w][l].turn # n
        <4> SUFFICES ASSUME NEW w \in Tab, NEW l \in DOMAIN starts[w], starts[w][l].turn # 0
                     PROVE  starts[w][l].turn # n
          OBVIOUS
        <4>1. starts[w][l].turn \in Turns
          BY TurnsAre
        <4> QED BY <4>1, <2>2, <2>3
      <3> QED BY <2>3, <2>7, <3>1 DEF LockInv, TurnsDiffer
    <2>11. OpenersHold'
      BY <2>7, <2>9 DEF LockInv, OpenersHold
    <2>12. StoppedAreOut'
      BY <2>7 DEF LockInv, StoppedAreOut
    <2> QED BY <2>6, <2>10, <2>11, <2>12 DEF LockInv
  <1> QED BY <1>1, <1>2

\* A step that stops a start.
LEMMA StopsOne ==
  ASSUME LockInv, NEW t \in Tab, NEW i \in DOMAIN starts[t], NEW x \in Start,
         starts' = [starts EXCEPT ![t][i] = x],
         x.turn = starts[t][i].turn, x.stopRequested, x.stage \notin {"reading", "connected"}
  PROVE  LockInv'
  <1>1. StartsOK' /\ starts'[t][i] = x /\ OthersStay(t, i)
    BY ChangeStart DEF LockInv
  <1>2. \A u \in Tab : \A j \in DOMAIN starts[u] : starts'[u][j].turn = starts[u][j].turn
    BY <1>1 DEF OthersStay
  <1>3. \A n : n \in Turns' <=> n \in Turns
    BY <1>1, <1>2, TurnsAre, TurnsAreNext DEF OthersStay
  <1>4. \A u \in Tab : \A j \in DOMAIN starts[u] : Holds(u, j) => Holds(u, j)'
    BY <1>2, <1>3 DEF Holds
  <1>5. TurnsDiffer'
    BY <1>1, <1>2 DEF TurnsDiffer, LockInv, OthersStay
  <1>6. \A u \in Tab : \A j \in DOMAIN starts[u] :
           \/ starts'[u][j] = starts[u][j]
           \/ starts'[u][j].stopRequested /\ starts'[u][j].stage \notin {"reading", "connected"}
    BY <1>1 DEF OthersStay
  <1>7. OpenersHold'
    BY <1>1, <1>4, <1>6 DEF LockInv, OpenersHold, OthersStay
  <1>8. StoppedAreOut'
    BY <1>1, <1>6 DEF LockInv, StoppedAreOut, OthersStay
  <1> QED BY <1>1, <1>5, <1>7, <1>8 DEF LockInv

\* What entry names is a start of the tab.
EntryOK == entry \in [Tab -> Nat] /\ \A t \in Tab : entry[t] <= Len(starts[t])

LEMMA StopSyncStep ==
  ASSUME LockInv, EntryOK, NEW t \in Tab, StopSync(t)
  PROVE  LockInv'
  <1>1. CASE entry[t] = 0
    BY <1>1 DEF StopSync, LockInv, StartsOK, TurnsDiffer, OpenersHold, StoppedAreOut, Holds, Turns
  <1>2. CASE entry[t] # 0
    <2>1. entry[t] \in DOMAIN starts[t]
      BY <1>2, LenProperties DEF LockInv, StartsOK, EntryOK
    <2> DEFINE old == starts[t][entry[t]]
    <2>2. old \in Start
      BY <2>1, ElementOfSeq DEF LockInv, StartsOK
    <2>3. Stopped(old.stage) \in Stage \ {"reading", "connected"}
      BY <2>2 DEF Start, Stage, Stopped
    <2> PICK x \in Start : x = [turn |-> old.turn, stopRequested |-> TRUE, stage |-> Stopped(old.stage)]
      BY <2>2, <2>3 DEF Start
    <2>4. x.turn = old.turn /\ x.stopRequested /\ x.stage \notin {"reading", "connected"}
      BY <2>3
    <2>5. starts' = [starts EXCEPT ![t][entry[t]] = x]
      BY <1>2 DEF StopSync
    <2> QED BY <2>1, <2>4, <2>5, StopsOne
  <1> QED BY <1>1, <1>2

\* The one that lets the lock go is stopped, so nobody may hold it afterwards.
LEMMA ReleasedStep ==
  ASSUME LockInv, NEW t \in Tab, NEW i \in DOMAIN starts[t], Released(t, i)
  PROVE  LockInv'
  <1> DEFINE old == starts[t][i]
  <1>1. old \in Start /\ Holds(t, i) /\ old.stopRequested
    BY ElementOfSeq DEF LockInv, StartsOK, Released
  <1> PICK x \in Start : x = [old EXCEPT !.turn = 0]
    BY <1>1 DEF Start
  <1>2. x.turn = 0 /\ x.stopRequested /\ x.stage = old.stage
    BY <1>1 DEF Start
  <1>3. starts' = [starts EXCEPT ![t][i] = x]
    BY DEF Released
  <1>4. StartsOK' /\ starts'[t][i] = x /\ OthersStay(t, i)
    <2>1. StartsOK
      BY DEF LockInv
    <2> QED BY <1>3, <2>1, ChangeStart
  <1>5. TurnsDiffer'
    <2> SUFFICES ASSUME NEW u \in Tab, NEW v \in Tab, NEW j \in DOMAIN starts[u], NEW k \in DOMAIN starts[v],
                        starts'[u][j].turn # 0, starts'[u][j].turn = starts'[v][k].turn
                 PROVE  u = v /\ j = k
      BY <1>4 DEF TurnsDiffer, OthersStay
    <2>1. (u # t \/ j # i) /\ (v # t \/ k # i)
      BY <1>2, <1>4
    <2>2. starts'[u][j] = starts[u][j] /\ starts'[v][k] = starts[v][k]
      BY <1>4, <2>1 DEF OthersStay
    <2> QED BY <2>2 DEF TurnsDiffer, LockInv
  <1>6. OpenersHold'
    <2> SUFFICES ASSUME NEW u \in Tab, NEW j \in DOMAIN starts[u], ~starts'[u][j].stopRequested, starts'[u][j].stage # "queued"
                 PROVE  FALSE
      BY <1>4 DEF OpenersHold, OthersStay
    <2>1. CASE u = t /\ j = i
      BY <1>2, <1>4, <2>1 DEF OthersStay
    <2>2. CASE u # t \/ j # i
      <3>1. Holds(u, j)
        BY <1>4, <2>2 DEF LockInv, OpenersHold, OthersStay
      <3> QED BY <1>1, <2>2, <3>1, OneHolder DEF LockInv
    <2> QED BY <2>1, <2>2
  <1>7. StoppedAreOut'
    <2> SUFFICES ASSUME NEW u \in Tab, NEW j \in DOMAIN starts[u],
                        starts'[u][j].stage \in {"reading", "connected"}
                 PROVE  ~starts'[u][j].stopRequested
      BY <1>4 DEF StoppedAreOut, OthersStay
    <2>1. CASE u = t /\ j = i
      BY <1>1, <1>2, <1>4, <2>1 DEF LockInv, StoppedAreOut
    <2>2. CASE u # t \/ j # i
      BY <2>2, <1>4 DEF LockInv, StoppedAreOut, OthersStay
    <2> QED BY <2>1, <2>2
  <1> QED BY <1>4, <1>5, <1>6, <1>7 DEF LockInv

\* The starts of a closed tab are gone, their turns with them.
LEMMA TabDiesStep ==
  ASSUME LockInv, NEW t \in Tab, TabDies(t)
  PROVE  LockInv'
  <1>1. StartsOK' /\ starts'[t] = <<>> /\ \A u \in Tab : u # t => starts'[u] = starts[u]
    BY EmptySeq DEF LockInv, StartsOK, TabDies
  <1>2. \A u \in Tab : \A j \in DOMAIN starts'[u] : j \in DOMAIN starts[u] /\ starts'[u][j] = starts[u][j]
    BY <1>1
  <1>3. \A n : n \in Turns' => n \in Turns
    BY <1>2, TurnsAre, TurnsAreNext
  <1>4. \A u \in Tab : \A j \in DOMAIN starts'[u] : Holds(u, j) => Holds(u, j)'
    <2> SUFFICES ASSUME NEW u \in Tab, NEW j \in DOMAIN starts'[u], Holds(u, j)
                 PROVE  Holds(u, j)'
      OBVIOUS
    <2>1. starts'[u][j].turn = starts[u][j].turn /\ starts[u][j].turn # 0
      BY <1>2 DEF Holds, Turns
    <2>2. starts'[u][j].turn \in Turns'
      BY <2>1, TurnsAreNext
    <2> QED BY <1>3, <2>1, <2>2 DEF Holds
  <1>5. TurnsDiffer'
    BY <1>2 DEF LockInv, TurnsDiffer
  <1>6. OpenersHold' /\ StoppedAreOut'
    BY <1>2, <1>4 DEF LockInv, OpenersHold, StoppedAreOut
  <1> QED BY <1>1, <1>5, <1>6 DEF LockInv

-----------------------------------------------------------------------------
LEMMA LockInvInit == LockInit => LockInv
  <1> SUFFICES ASSUME LockInit PROVE LockInv
    OBVIOUS
  <1>1. StartsOK /\ \A t \in Tab : DOMAIN starts[t] = {}
    BY EmptySeq DEF LockInit, StartsOK
  <1> QED BY <1>1 DEF LockInv, TurnsDiffer, OpenersHold, StoppedAreOut

LEMMA LockInvNext == LockInv /\ EntryOK /\ [LockNext]_lockVars => LockInv'
  <1> SUFFICES ASSUME LockInv, EntryOK, [LockNext]_lockVars PROVE LockInv'
    OBVIOUS
  <1>1. CASE UNCHANGED starts
    BY <1>1 DEF LockInv, StartsOK, TurnsDiffer, OpenersHold, StoppedAreOut, Holds, Turns
  <1>2. ASSUME NEW t \in Tab, TabDies(t) \/ StartSync(t) \/ StopSync(t) PROVE LockInv'
    BY <1>2, TabDiesStep, StartSyncStep, StopSyncStep DEF EntryOK
  <1>3. ASSUME NEW t \in Tab, NEW i \in DOMAIN starts[t], Released(t, i) PROVE LockInv'
    BY <1>3, ReleasedStep
  <1>4. ASSUME NEW t \in Tab, NEW i \in DOMAIN starts[t],
               Granted(t, i) \/ Opened(t, i) \/ OpenFails(t, i) \/ Connected(t, i)
        PROVE  LockInv'
    <2> DEFINE s == starts[t][i]
    <2>0. ~s.stopRequested /\ s.stage # "queued" => Holds(t, i)
      BY DEF LockInv, OpenersHold
    <2>1. CASE Granted(t, i)
      BY <2>1, GoesOn DEF Granted, Stage
    <2>2. CASE Opened(t, i)
      <3> DEFINE to == IF s.stopRequested THEN "left" ELSE "reading"
      <3>1. Goes(t, i, "opening", to) /\ s.stage = "opening"
        BY <2>2 DEF Opened, Goes
      <3>2. to \in Stage /\ (s.stopRequested => to \notin {"reading", "connected"})
        BY DEF Stage
      <3> HIDE DEF to
      <3> QED BY <2>0, <3>1, <3>2, GoesOn
    <2>3. CASE OpenFails(t, i)
      BY <2>0, <2>3, GoesOn DEF OpenFails, Goes, Stage
    <2>4. CASE Connected(t, i)
      <3>1. Goes(t, i, "reading", "connected") /\ s.stage = "reading"
        BY <2>4 DEF Connected, Goes
      <3>2. ~s.stopRequested /\ Holds(t, i)
        BY <2>0, <3>1 DEF LockInv, StoppedAreOut
      <3> QED BY <3>1, <3>2, GoesOn DEF Stage
    <2> QED BY <1>4, <2>1, <2>2, <2>3, <2>4
  <1>5. ASSUME NEW t \in Tab, Mount(t) \/ Unmount(t) PROVE LockInv'
    BY <1>1, <1>5 DEF Mount, Unmount
  <1> QED BY <1>1, <1>2, <1>3, <1>4, <1>5 DEF LockNext, Worker, lockVars

\* The entry of a tab names one of its starts.
LEMMA EntryNext == LockInv /\ EntryOK /\ [LockNext]_lockVars => EntryOK'
  <1> SUFFICES ASSUME LockInv, EntryOK, [LockNext]_lockVars PROVE EntryOK'
    OBVIOUS
  <1>0. /\ entry \in [Tab -> Nat] /\ starts \in [Tab -> Seq(Start)]
        /\ \A t \in Tab : Len(starts[t]) \in Nat /\ DOMAIN starts[t] = 1 .. Len(starts[t])
    BY LenProperties DEF LockInv, StartsOK, EntryOK
  <1>1. CASE UNCHANGED <<starts, entry>>
    BY <1>1 DEF EntryOK
  <1>2. ASSUME NEW t \in Tab, TabDies(t) PROVE EntryOK'
    BY <1>0, <1>2, EmptySeq DEF TabDies, EntryOK
  <1>3. ASSUME NEW t \in Tab, StartSync(t) PROVE EntryOK'
    <2>1. CASE entry[t] # 0
      BY <1>3, <2>1 DEF StartSync, EntryOK
    <2>2. CASE entry[t] = 0
      <3> PICK x : starts' = [starts EXCEPT ![t] = Append(@, x)]
        BY <1>3, <2>2 DEF StartSync
      <3>1. Len(Append(starts[t], x)) = Len(starts[t]) + 1
        BY <1>0
      <3>2. /\ entry' = [entry EXCEPT ![t] = Len(starts[t]) + 1]
            /\ starts'[t] = Append(starts[t], x)
            /\ \A u \in Tab : u # t => starts'[u] = starts[u]
        BY <1>0, <1>3, <2>2 DEF StartSync
      <3> QED BY <1>0, <3>1, <3>2 DEF EntryOK
    <2> QED BY <2>1, <2>2
  <1>4. ASSUME NEW t \in Tab, NEW i, NEW x, starts' = [starts EXCEPT ![t][i] = x]
        PROVE  \A u \in Tab : Len(starts'[u]) = Len(starts[u])
    <2>1. DOMAIN [starts[t] EXCEPT ![i] = x] = 1 .. Len(starts[t])
      BY <1>0
    <2>2. Len([starts[t] EXCEPT ![i] = x]) = Len(starts[t])
      BY <1>0, <2>1
    <2> QED BY <1>0, <1>4, <2>2
  <1>5. ASSUME NEW t \in Tab, StopSync(t) PROVE EntryOK'
    <2>1. \A u \in Tab : Len(starts'[u]) = Len(starts[u])
      BY <1>4, <1>5 DEF StopSync
    <2>2. entry' = [entry EXCEPT ![t] = 0]
      BY <1>5 DEF StopSync
    <2> QED BY <1>0, <2>1, <2>2 DEF EntryOK
  <1>6. ASSUME NEW t \in Tab, NEW i \in DOMAIN starts[t],
               Granted(t, i) \/ Released(t, i) \/ Opened(t, i) \/ OpenFails(t, i) \/ Connected(t, i)
        PROVE  EntryOK'
    <2>1. entry' = entry /\ \E x : starts' = [starts EXCEPT ![t][i] = x]
      <3>1. ASSUME NEW from, NEW to, Goes(t, i, from, to)
            PROVE  \E x : starts' = [starts EXCEPT ![t][i] = x]
        BY <3>1 DEF Goes
      <3> QED BY <1>6, <3>1 DEF Granted, Released, Opened, OpenFails, Connected
    <2>2. \A u \in Tab : Len(starts'[u]) = Len(starts[u])
      BY <1>4, <2>1
    <2> QED BY <2>1, <2>2 DEF EntryOK
  <1>7. ASSUME NEW t \in Tab, Mount(t) \/ Unmount(t) PROVE EntryOK'
    BY <1>1, <1>7 DEF Mount, Unmount
  <1> QED BY <1>1, <1>2, <1>3, <1>5, <1>6, <1>7 DEF LockNext, Worker, lockVars

\* The inductive invariant, for any tabs, hooks, starts and failures: one holder, who
\* alone is past the queue among those that were not stopped.
THEOREM LockInvariant == LockSpec => [](LockInv /\ EntryOK)
  <1>1. LockInit => LockInv /\ EntryOK
    <2> SUFFICES ASSUME LockInit PROVE EntryOK
      BY LockInvInit
    <2> QED BY EmptySeq DEF LockInit, EntryOK
  <1> QED BY <1>1, LockInvNext, EntryNext, PTL DEF LockSpec

LEMMA AtMostOne == LockInv => OneTabSyncs
  <1> SUFFICES ASSUME LockInv PROVE Cardinality(Connections) <= 1
    BY DEF OneTabSyncs
  <1>1. ASSUME NEW r \in Connections, NEW q \in Connections PROVE r = q
    <2>1. /\ r = <<r[1], r[2]>> /\ r[1] \in Tab /\ r[2] \in DOMAIN starts[r[1]] /\ starts[r[1]][r[2]].stage = "connected"
          /\ q = <<q[1], q[2]>> /\ q[1] \in Tab /\ q[2] \in DOMAIN starts[q[1]] /\ starts[q[1]][q[2]].stage = "connected"
      BY DEF Connections
    <2>2. Holds(r[1], r[2]) /\ Holds(q[1], q[2])
      BY <2>1 DEF LockInv, OpenersHold, StoppedAreOut
    <2> QED BY <2>1, <2>2, OneHolder DEF LockInv
  <1>2. CASE Connections = {}
    BY <1>2, FS_EmptySet
  <1>3. CASE Connections # {}
    <2> PICK r : r \in Connections
      BY <1>3
    <2>1. Connections = {r}
      BY <1>1
    <2>2. Cardinality(Connections) = 1
      BY <2>1, FS_Singleton, Zenon
    <2> QED BY <2>2
  <1> QED BY <1>2, <1>3

\* createAndStartSyncedDB_Exclusive: however starts, stops, closed tabs and failures
\* fall between the lock, the opening of the database and its socket, at most one
\* worker of all tabs is connected.
THEOREM OneSyncsAtATime == LockSpec => []OneTabSyncs
  BY LockInvariant, AtMostOne, PTL

-----------------------------------------------------------------------------
\* Who has the lock is on its way.  The strengthening says which starts are known: the one
\* entry names is the only one that was not stopped, and it never stands still for good.

LEMMA EntryIsAStart ==
  ASSUME LockInv, EntryOK, NEW t \in Tab
  PROVE  /\ DOMAIN starts[t] = 1 .. Len(starts[t]) /\ Len(starts[t]) \in Nat
         /\ entry[t] \in Nat /\ (entry[t] # 0 => entry[t] \in DOMAIN starts[t])
         /\ \A i \in DOMAIN starts[t] : starts[t][i] \in Start
  <1>1. starts[t] \in Seq(Start)
    BY DEF LockInv, StartsOK
  <1>2. DOMAIN starts[t] = 1 .. Len(starts[t]) /\ Len(starts[t]) \in Nat
        /\ \A i \in DOMAIN starts[t] : starts[t][i] \in Start
    BY <1>1, LenProperties, ElementOfSeq
  <1> QED BY <1>2 DEF EntryOK

\* One start changes: it is as known as before, and goes on unless it was stopped.
LEMMA KnownChange ==
  ASSUME LockInv, EntryOK, KnownStartsGoOn, NEW t \in Tab, NEW i \in DOMAIN starts[t], NEW x \in Start,
         starts' = [starts EXCEPT ![t][i] = x], entry' = entry,
         x.stopRequested = starts[t][i].stopRequested,
         ~x.stopRequested => x.turn = starts[t][i].turn /\ x.stage \notin {"closed", "left"}
  PROVE  KnownStartsGoOn'
  <1>1. starts'[t][i] = x /\ OthersStay(t, i)
    <2>1. StartsOK
      BY DEF LockInv
    <2> QED BY <2>1, ChangeStart
  <1>2. \A u \in Tab : \A j \in DOMAIN starts[u] : starts'[u][j].stopRequested = starts[u][j].stopRequested
    BY <1>1 DEF OthersStay
  <1>3. ASSUME NEW u \in Tab, NEW j \in DOMAIN starts'[u], ~starts'[u][j].stopRequested
        PROVE  entry'[u] = j /\ starts'[u][j].turn # 0 /\ starts'[u][j].stage \notin {"closed", "left"}
    <2>1. j \in DOMAIN starts[u] /\ ~starts[u][j].stopRequested
      BY <1>1, <1>2, <1>3 DEF OthersStay
    <2>2. entry[u] = j /\ starts[u][j].turn # 0 /\ starts[u][j].stage \notin {"closed", "left"}
      BY <2>1 DEF KnownStartsGoOn
    <2>3. CASE u = t /\ j = i
      BY <1>1, <1>3, <2>2, <2>3
    <2>4. CASE u # t \/ j # i
      <3>1. starts'[u][j] = starts[u][j]
        BY <1>1, <2>1, <2>4 DEF OthersStay
      <3> QED BY <2>2, <3>1
    <2> QED BY <2>3, <2>4
  <1>4. ASSUME NEW u \in Tab, entry'[u] # 0 PROVE ~starts'[u][entry'[u]].stopRequested
    <2>1. entry[u] \in DOMAIN starts[u] /\ ~starts[u][entry[u]].stopRequested
      BY <1>4, EntryIsAStart DEF KnownStartsGoOn
    <2> QED BY <1>2, <2>1
  <1> QED BY <1>3, <1>4 DEF KnownStartsGoOn

LEMMA KnownGoes ==
  ASSUME LockInv, EntryOK, KnownStartsGoOn, NEW t \in Tab, NEW i \in DOMAIN starts[t],
         NEW from, NEW to \in Stage, Goes(t, i, from, to), entry' = entry,
         ~starts[t][i].stopRequested => to \notin {"closed", "left"}
  PROVE  KnownStartsGoOn'
  <1> DEFINE old == starts[t][i]
  <1>1. old \in Start
    BY EntryIsAStart
  <1> PICK x \in Start : x = [old EXCEPT !.stage = to]
    BY <1>1 DEF Start
  <1>2. x.turn = old.turn /\ x.stopRequested = old.stopRequested /\ x.stage = to
    BY <1>1 DEF Start
  <1>3. starts' = [starts EXCEPT ![t][i] = x]
    BY DEF Goes
  <1> QED BY <1>2, <1>3, KnownChange

LEMMA KnownStart ==
  ASSUME LockInv, EntryOK, KnownStartsGoOn, NEW t \in Tab, StartSync(t)
  PROVE  KnownStartsGoOn'
  <1>1. CASE entry[t] # 0
    BY <1>1 DEF StartSync, KnownStartsGoOn
  <1>2. CASE entry[t] = 0
    <2> PICK n \in NextTurns : starts' = [starts EXCEPT ![t] =
               Append(@, [turn |-> n, stopRequested |-> FALSE, stage |-> "queued"])]
      BY <1>2 DEF StartSync
    <2> PICK x, k : /\ x = [turn |-> n, stopRequested |-> FALSE, stage |-> "queued"]
                    /\ k = Len(starts[t]) + 1
      OBVIOUS
    <2>1. \A l \in Turns : l \in Nat
      BY TurnsAre, EntryIsAStart DEF Start
    <2>2. n \in Nat /\ n # 0
      BY <2>1 DEF NextTurns
    <2>3. starts[t] \in Seq(Start) /\ x \in Start /\ starts \in [Tab -> Seq(Start)]
      BY <2>2 DEF LockInv, StartsOK, Start, Stage
    <2>4. /\ starts'[t] = Append(starts[t], x) /\ \A u \in Tab : u # t => starts'[u] = starts[u]
      BY <2>3
    <2>5. /\ DOMAIN starts'[t] = DOMAIN starts[t] \cup {k} /\ starts'[t][k] = x /\ k # 0
          /\ k \notin DOMAIN starts[t]
          /\ \A j \in DOMAIN starts[t] : starts'[t][j] = starts[t][j]
      BY <2>3, <2>4, AppendProperties, LenProperties
    <2>6. entry'[t] = k /\ \A u \in Tab : u # t => entry'[u] = entry[u]
      BY <1>2 DEF StartSync, EntryOK
    <2>7. \A j \in DOMAIN starts[t] : starts[t][j].stopRequested
      BY <1>2, EntryIsAStart DEF KnownStartsGoOn
    <2>8. x.turn # 0 /\ ~x.stopRequested /\ x.stage = "queued"
      BY <2>2
    <2>9. ASSUME NEW u \in Tab, NEW j \in DOMAIN starts'[u], ~starts'[u][j].stopRequested
          PROVE  entry'[u] = j /\ starts'[u][j].turn # 0 /\ starts'[u][j].stage \notin {"closed", "left"}
      <3>1. CASE u = t
        BY <2>5, <2>6, <2>7, <2>8, <2>9, <3>1
      <3>2. CASE u # t
        BY <2>4, <2>6, <2>9, <3>2 DEF KnownStartsGoOn
      <3> QED BY <3>1, <3>2
    <2>10. ASSUME NEW u \in Tab, entry'[u] # 0 PROVE ~starts'[u][entry'[u]].stopRequested
      <3>1. CASE u = t
        BY <2>5, <2>6, <2>8, <3>1
      <3>2. CASE u # t
        BY <2>4, <2>6, <2>10, <3>2 DEF KnownStartsGoOn
      <3> QED BY <3>1, <3>2
    <2> QED BY <2>9, <2>10 DEF KnownStartsGoOn
  <1> QED BY <1>1, <1>2

LEMMA KnownStop ==
  ASSUME LockInv, EntryOK, KnownStartsGoOn, NEW t \in Tab, StopSync(t)
  PROVE  KnownStartsGoOn'
  <1>1. entry'[t] = 0 /\ \A u \in Tab : u # t => entry'[u] = entry[u]
    BY DEF StopSync, EntryOK
  <1>2. /\ \A u \in Tab : u # t => starts'[u] = starts[u]
        /\ \A j \in DOMAIN starts'[t] : starts'[t][j].stopRequested
    <2>1. CASE entry[t] = 0
      BY <2>1, EntryIsAStart DEF StopSync, KnownStartsGoOn
    <2>2. CASE entry[t] # 0
      <3> PICK i : i = entry[t]
        OBVIOUS
      <3>1. i \in DOMAIN starts[t] /\ starts[t][i] \in Start
        BY <2>2, EntryIsAStart
      <3>2. Stopped(starts[t][i].stage) \in Stage
        BY <3>1 DEF Start, Stage, Stopped
      <3> DEFINE x == [turn |-> starts[t][i].turn, stopRequested |-> TRUE,
                       stage |-> Stopped(starts[t][i].stage)]
      <3>3. x \in Start /\ x.stopRequested
        BY <3>1, <3>2 DEF Start
      <3>4. starts' = [starts EXCEPT ![t][i] = x]
        BY <2>2 DEF StopSync
      <3> HIDE DEF x
      <3>5. starts'[t][i] = x /\ OthersStay(t, i)
        <4>1. StartsOK
          BY DEF LockInv
        <4> QED BY <3>1, <3>3, <3>4, <4>1, ChangeStart
      <3>6. \A j \in DOMAIN starts[t] : j # i => starts[t][j].stopRequested
        BY DEF KnownStartsGoOn
      <3>7. \A u \in Tab : u # t => starts'[u] = starts[u]
        BY <3>4 DEF LockInv, StartsOK
      <3>8. \A j \in DOMAIN starts'[t] : starts'[t][j].stopRequested
        BY <3>3, <3>5, <3>6 DEF OthersStay
      <3> QED BY <3>7, <3>8
    <2> QED BY <2>1, <2>2
  <1>3. ASSUME NEW u \in Tab, NEW j \in DOMAIN starts'[u], ~starts'[u][j].stopRequested
        PROVE  entry'[u] = j /\ starts'[u][j].turn # 0 /\ starts'[u][j].stage \notin {"closed", "left"}
    BY <1>1, <1>2, <1>3 DEF KnownStartsGoOn
  <1>4. ASSUME NEW u \in Tab, entry'[u] # 0 PROVE ~starts'[u][entry'[u]].stopRequested
    BY <1>1, <1>2, <1>4 DEF KnownStartsGoOn
  <1> QED BY <1>3, <1>4 DEF KnownStartsGoOn

LEMMA KnownNext ==
  ASSUME LockInv, EntryOK, KnownStartsGoOn, [LockNext]_lockVars
  PROVE  KnownStartsGoOn'
  <1>1. CASE UNCHANGED <<starts, entry>>
    BY <1>1 DEF KnownStartsGoOn
  <1>2. ASSUME NEW t \in Tab, TabDies(t) PROVE KnownStartsGoOn'
    <2>1. /\ entry'[t] = 0 /\ DOMAIN starts'[t] = {}
          /\ \A u \in Tab : u # t => entry'[u] = entry[u] /\ starts'[u] = starts[u]
      BY <1>2, EmptySeq DEF TabDies, EntryOK, LockInv, StartsOK
    <2> QED BY <2>1 DEF KnownStartsGoOn
  <1>3. ASSUME NEW t \in Tab, NEW i \in DOMAIN starts[t],
               Granted(t, i) \/ OpenFails(t, i) \/ Connected(t, i)
        PROVE  KnownStartsGoOn'
    BY <1>3, KnownGoes DEF Granted, OpenFails, Connected, Stage
  <1>4. ASSUME NEW t \in Tab, NEW i \in DOMAIN starts[t], Opened(t, i) PROVE KnownStartsGoOn'
    <2> DEFINE to == IF starts[t][i].stopRequested THEN "left" ELSE "reading"
    <2>1. Goes(t, i, "opening", to) /\ entry' = entry
      BY <1>4 DEF Opened
    <2>2. to \in Stage /\ (~starts[t][i].stopRequested => to \notin {"closed", "left"})
      BY DEF Stage
    <2> HIDE DEF to
    <2> QED BY <2>1, <2>2, KnownGoes
  <1>5. ASSUME NEW t \in Tab, NEW i \in DOMAIN starts[t], Released(t, i) PROVE KnownStartsGoOn'
    <2>1. starts[t][i] \in Start
      BY EntryIsAStart
    <2> PICK x \in Start : x = [starts[t][i] EXCEPT !.turn = 0]
      BY <2>1 DEF Start
    <2>2. x.stopRequested = starts[t][i].stopRequested /\ x.stopRequested
      BY <1>5, <2>1 DEF Start, Released
    <2>3. starts' = [starts EXCEPT ![t][i] = x] /\ entry' = entry
      BY <1>5 DEF Released
    <2> QED BY <2>2, <2>3, KnownChange
  <1>6. ASSUME NEW t \in Tab, Mount(t) \/ Unmount(t) PROVE KnownStartsGoOn'
    BY <1>1, <1>6 DEF Mount, Unmount
  <1> QED BY <1>1, <1>2, <1>3, <1>4, <1>5, <1>6, KnownStart, KnownStop DEF LockNext, Worker, lockVars

\* A StopSync reaches every start that goes on, for any tabs, hooks, starts and failures:
\* entry names the only start of a worker that was not told to stop, and that one is in
\* the queue of the lock, with a database that is neither closed nor left open.
THEOREM NoSyncIsOrphaned == LockSpec => []KnownStartsGoOn
  <1>1. LockInit => KnownStartsGoOn
    BY EmptySeq DEF LockInit, KnownStartsGoOn
  <1> QED BY <1>1, KnownNext, LockInvariant, PTL DEF LockSpec

LEMMA FirstTurn ==
  ASSUME NEW S \in SUBSET Nat, S # {}
  PROVE  \E n \in S : \A k \in S : n <= k
  <1> DEFINE Less == OpToRel(<, Nat)
  <1>1. IsWellFoundedOn(Less, Nat)
    BY NatLessThanWellFounded
  <1>2. \A n, k \in Nat : k < n => <<k, n>> \in Less
    BY DEF OpToRel
  <1> HIDE DEF Less
  <1>3. PICK n \in S : \A k \in S : ~(<<k, n>> \in Less)
    BY <1>1, WFMin
  <1>4. ASSUME NEW k \in S PROVE n <= k
    <2>1. ~(k < n)
      BY <1>2, <1>3, Zenon
    <2> QED BY <2>1
  <1> QED BY <1>3, <1>4

\* While a worker means to sync, the lock is not held for nothing: its holder was stopped
\* and lets go, or opens the database, reads, is connected, or failed to open.  This is
\* what SomebodySyncs needs besides fairness: some step is left until somebody syncs.
THEOREM TheLockIsUsed == LockSpec => []LockIsHeldForSomething
  <1>1. LockInv /\ EntryOK /\ KnownStartsGoOn => LockIsHeldForSomething
    <2> SUFFICES ASSUME LockInv, EntryOK, KnownStartsGoOn, NEW t \in Tab, entry[t] # 0
                 PROVE  \E u \in Tab : \E j \in DOMAIN starts[u] :
                          /\ Holds(u, j)
                          /\ starts[u][j].stopRequested
                             \/ (entry[u] = j /\ starts[u][j].stage \notin {"closed", "left"})
      BY DEF LockIsHeldForSomething
    <2>1. /\ entry[t] \in DOMAIN starts[t] /\ starts[t][entry[t]].turn # 0
      BY EntryIsAStart DEF KnownStartsGoOn
    <2>2. starts[t][entry[t]].turn \in Turns
      BY <2>1, TurnsAre
    <2>3. Turns \in SUBSET Nat
      BY TurnsAre, EntryIsAStart DEF Start
    <2>4. PICK n \in Turns : \A k \in Turns : n <= k
      BY <2>2, <2>3, FirstTurn
    <2>5. PICK u \in Tab : \E j \in DOMAIN starts[u] : starts[u][j].turn = n
      BY <2>4, TurnsAre
    <2>6. PICK j \in DOMAIN starts[u] : starts[u][j].turn = n
      BY <2>5
    <2>7. Holds(u, j)
      BY <2>4, <2>6 DEF Holds
    <2>8. ~starts[u][j].stopRequested => entry[u] = j /\ starts[u][j].stage \notin {"closed", "left"}
      BY DEF KnownStartsGoOn
    <2> QED BY <2>7, <2>8
  <1> QED BY <1>1, LockInvariant, NoSyncIsOrphaned, PTL

(***************************************************************************)
(* PART II.  Live queries.                                                 *)
(***************************************************************************)

-----------------------------------------------------------------------------
\* The inductive invariant.  What the fields say of each other is kept by every
\* method, so it is stated of any state q of the machine.

Stmt == [id : Nat, query : Nat, bindings : Nat]
Data == [query : Nat, bindings : Nat, commits : Nat]
Machine ==
  [query : Nat, bindings : Nat, stmt : Stmt, data : Data, error : BOOLEAN,
   pendingPrepare : Nat, pendingFetch : Nat, queuedFetch : BOOLEAN, queuedFetchRebind : BOOLEAN,
   disposed : BOOLEAN, prepares : SUBSET [id : Nat, query : Nat],
   chained : SUBSET [id : Nat, after : Nat], reads : SUBSET [id : Nat, stmt : Stmt],
   results : SUBSET [id : Nat, data : Data], last : Nat]

\* No promise is newer than the last one made.
IdsOK(q) ==
  /\ q.pendingPrepare <= q.last /\ q.pendingFetch <= q.last
  /\ \A p \in q.prepares : 0 < p.id /\ p.id <= q.last
  /\ \A r \in q.reads : 0 < r.id /\ r.id <= q.last
  /\ \A r \in q.results : 0 < r.id /\ r.id <= q.last

Idle(q) == q.reads = {} /\ q.results = {}

\* The read under way is the one awaited, or was abandoned and another is queued behind it.
FlightOK(q) ==
  /\ q.reads = {} \/ q.results = {}
  /\ \A r, s \in q.reads : r = s
  /\ \A r, s \in q.results : r = s
  /\ Idle(q) \/ q.pendingFetch # 0 \/ q.queuedFetch
  /\ q.pendingFetch # 0 =>
       /\ \A r \in q.reads : r.id = q.pendingFetch
       /\ \A r \in q.results : r.id = q.pendingFetch

\* Until the statement that is awaited is there, nothing is read.
WaitingOK(q) ==
  /\ q.pendingPrepare = 0 => q.pendingFetch = 0
  /\ \A p \in q.prepares : p.id = q.pendingPrepare =>
       p.query = q.query /\ q.stmt = NoStmt /\ Idle(q)
  /\ \A o, p \in q.prepares : o.id = p.id => o = p

\* What is awaited or shown is of the query and the bindings as they are.
CurrentOK(q) ==
  /\ q.stmt # NoStmt /\ q.pendingPrepare # 0 => q.stmt.query = q.query
  /\ \A r \in q.reads : r.id = q.pendingFetch =>
       r.stmt.query = q.query /\ r.stmt.bindings \in {0, q.bindings}
  /\ \A r \in q.results : r.id = q.pendingFetch =>
       r.data.query = q.query /\ r.data.bindings \in {0, q.bindings}
  /\ q.data # NoData => q.data.query = q.query /\ q.data.bindings \in {0, q.bindings}

Fits(q) == q \in Machine /\ IdsOK(q) /\ FlightOK(q) /\ WaitingOK(q) /\ CurrentOK(q)

\* The statement has the bindings as they are, or is to get them before it is next read.
Bound(q) == q.stmt.bindings \in {0, q.bindings} \/ q.queuedFetchRebind

Good(q) == Fits(q) /\ Bound(q)

\* There is something the database may have to say anything about.
Listens(q) == q.stmt # NoStmt \/ ~Idle(q)

\* A result holds the mutex, and from the first statement on the machine hears of commits.
Heard(q) ==
  /\ \A r \in q.results : ~writing /\ r.data.commits = commits
  /\ ~q.disposed /\ Listens(q) => subscribed
  /\ ~q.disposed /\ q.data # NoData =>
       subscribed /\ (news \/ (~writing /\ q.data.commits = commits))

QueryInv == commits \in Nat /\ Good(m) /\ Heard(m)

\* What the methods that only start something leave alone: q is before, r after.
Follows(q, r) ==
  /\ r.results \subseteq q.results
  /\ r.data \in {NoData, q.data}
  /\ r.disposed = q.disposed
  /\ Listens(r) => Listens(q)

-----------------------------------------------------------------------------
\* Lemmas about the methods.

LEMMA NothingYet == NoStmt \in Stmt /\ NoData \in Data /\ NoStmt.bindings = 0
  BY DEF NoStmt, NoData, Stmt, Data

LEMMA PrepareIs ==
  ASSUME NEW q \in Machine
  PROVE  /\ Prepare(q) \in Machine
         /\ Prepare(q).query = q.query /\ Prepare(q).bindings = q.bindings
         /\ Prepare(q).stmt = NoStmt /\ Prepare(q).data = NoData
         /\ Prepare(q).pendingPrepare = q.last + 1 /\ Prepare(q).pendingFetch = 0
         /\ Prepare(q).queuedFetch = q.queuedFetch
         /\ Prepare(q).queuedFetchRebind = q.queuedFetchRebind
         /\ Prepare(q).disposed = q.disposed
         /\ Prepare(q).prepares = q.prepares \cup {[id |-> q.last + 1, query |-> q.query]}
         /\ Prepare(q).reads = q.reads /\ Prepare(q).results = q.results
         /\ Prepare(q).last = q.last + 1
  <1> DEFINE r == Prepare(q)
             n == q.last + 1
             prepares == q.prepares \cup {[id |-> n, query |-> q.query]}
  <1>1. q.last \in Nat /\ q.query \in Nat /\ q.prepares \in SUBSET [id : Nat, query : Nat]
    BY DEF Machine
  <1>2. n \in Nat /\ prepares \in SUBSET [id : Nat, query : Nat]
    BY <1>1
  <1>3. NoStmt \in Stmt /\ NoData \in Data
    BY NothingYet
  <1>4. r =
          [q EXCEPT !.error = FALSE, !.data = NoData, !.pendingFetch = 0, !.stmt = NoStmt,
                    !.pendingPrepare = n, !.last = n, !.prepares = prepares]
    BY DEF Prepare
  <1> HIDE DEF r, n, prepares
  <1>5. /\ r \in Machine
        /\ r.query = q.query /\ r.bindings = q.bindings
        /\ r.stmt = NoStmt /\ r.data = NoData
        /\ r.pendingPrepare = n /\ r.pendingFetch = 0
        /\ r.queuedFetch = q.queuedFetch
        /\ r.queuedFetchRebind = q.queuedFetchRebind
        /\ r.disposed = q.disposed
        /\ r.prepares = prepares
        /\ r.reads = q.reads /\ r.results = q.results
        /\ r.last = n
    BY <1>2, <1>3, <1>4 DEF Machine
  <1> QED BY <1>5 DEF r, n, prepares

LEMMA PrepareKeeps ==
  ASSUME NEW q, Fits(q), Idle(q)
  PROVE  /\ Fits(Prepare(q)) /\ Idle(Prepare(q)) /\ Follows(q, Prepare(q))
         /\ Prepare(q).stmt = NoStmt
         /\ Prepare(q).pendingPrepare # 0 /\ Prepare(q).pendingFetch = 0
         /\ Prepare(q).queuedFetch = q.queuedFetch /\ Prepare(q).disposed = q.disposed
  <1> DEFINE r == Prepare(q)
             p == [id |-> q.last + 1, query |-> q.query]
  <1>1. q \in Machine
    BY DEF Fits
  <1>2. q.last \in Nat /\ q.query \in Nat /\ q.prepares \subseteq [id : Nat, query : Nat]
    BY <1>1 DEF Machine
  <1>3. /\ r \in Machine
        /\ r.query = q.query /\ r.bindings = q.bindings
        /\ r.stmt = NoStmt /\ r.data = NoData
        /\ r.pendingPrepare = q.last + 1 /\ r.pendingFetch = 0
        /\ r.queuedFetch = q.queuedFetch /\ r.disposed = q.disposed
        /\ r.prepares = q.prepares \cup {p}
        /\ r.reads = q.reads /\ r.results = q.results
        /\ r.last = q.last + 1
    BY <1>1, PrepareIs
  <1>4. p.id = q.last + 1 /\ p.query = q.query
    OBVIOUS
  <1> HIDE DEF r, p
  <1>5. \A o \in q.prepares : 0 < o.id /\ o.id <= q.last /\ o.id \in Nat
    BY <1>2 DEF Fits, IdsOK
  <1>6. r.reads = {} /\ r.results = {}
    BY <1>3 DEF Idle
  <1>7. IdsOK(r)
    BY <1>2, <1>3, <1>4, <1>5, <1>6 DEF IdsOK
  <1>8. FlightOK(r)
    BY <1>3, <1>6 DEF FlightOK, Idle
  <1>9. WaitingOK(r)
    <2>1. \A o \in q.prepares : o.id # q.last + 1
      BY <1>2, <1>5
    <2>2. r.pendingPrepare # 0
      BY <1>2, <1>3
    <2>3. \A a, b \in q.prepares : a.id = b.id => a = b
      BY DEF Fits, WaitingOK
    <2> QED BY <2>1, <2>2, <2>3, <1>3, <1>4, <1>6 DEF WaitingOK, Idle
  <1>10. CurrentOK(r)
    BY <1>3, <1>6 DEF CurrentOK
  <1>11. Follows(q, r)
    BY <1>3, <1>6 DEF Follows, Listens, Idle
  <1>12. r.pendingPrepare # 0
    BY <1>2, <1>3
  <1>13. Fits(r) /\ Idle(r)
    BY <1>3, <1>6, <1>7, <1>8, <1>9, <1>10 DEF Fits, Idle
  <1> QED BY <1>3, <1>11, <1>12, <1>13 DEF r

LEMMA FetchInternalIs ==
  ASSUME NEW q \in Machine, NEW rebind \in BOOLEAN
  PROVE  LET r == FetchInternal(q, rebind)
             bound == IF rebind \/ q.queuedFetchRebind THEN q.bindings ELSE q.stmt.bindings
         IN  /\ r \in Machine
             /\ r.query = q.query /\ r.bindings = q.bindings /\ r.data = q.data
             /\ r.stmt.query = q.stmt.query /\ r.stmt.bindings = bound
             /\ r.pendingPrepare = q.pendingPrepare /\ r.pendingFetch = q.last + 1
             /\ r.queuedFetch = q.queuedFetch /\ r.disposed = q.disposed
             /\ r.prepares = q.prepares
             /\ r.reads = q.reads \cup {[id |-> q.last + 1, stmt |-> r.stmt]}
             /\ r.results = q.results
             /\ r.last = q.last + 1
  <1> DEFINE binds == rebind \/ q.queuedFetchRebind
             stmt == [q.stmt EXCEPT !.bindings = IF binds THEN q.bindings ELSE @]
             later == q.queuedFetchRebind /\ ~binds
             n == q.last + 1
             reads == q.reads \cup {[id |-> n, stmt |-> stmt]}
             r == FetchInternal(q, rebind)
  <1>1. /\ q.stmt \in Stmt /\ q.bindings \in Nat /\ q.queuedFetchRebind \in BOOLEAN
        /\ q.last \in Nat /\ q.reads \in SUBSET [id : Nat, stmt : Stmt]
    BY DEF Machine
  <1>2. /\ stmt \in Stmt /\ stmt.query = q.stmt.query
        /\ stmt.bindings = IF binds THEN q.bindings ELSE q.stmt.bindings
    BY <1>1 DEF Stmt
  <1>3. later \in BOOLEAN
    BY <1>1
  <1>4. n \in Nat /\ reads \in SUBSET [id : Nat, stmt : Stmt]
    <2>1. n \in Nat
      BY <1>1
    <2>2. [id |-> n, stmt |-> stmt] \in [id : Nat, stmt : Stmt]
      BY <2>1, <1>2
    <2> QED BY <2>1, <2>2, <1>1
  <1>5. r = [q EXCEPT !.stmt = stmt, !.queuedFetchRebind = later, !.pendingFetch = n,
                      !.last = n, !.reads = reads]
    BY DEF FetchInternal
  <1>6. /\ r \in Machine
        /\ r.query = q.query /\ r.bindings = q.bindings /\ r.data = q.data
        /\ r.stmt = stmt
        /\ r.pendingPrepare = q.pendingPrepare /\ r.pendingFetch = n
        /\ r.queuedFetch = q.queuedFetch /\ r.disposed = q.disposed
        /\ r.prepares = q.prepares
        /\ r.reads = reads
        /\ r.results = q.results
        /\ r.last = n
    <2> HIDE DEF stmt, later, n, reads, r
    <2> QED BY <1>2, <1>3, <1>4, <1>5 DEF Machine
  <1> QED BY <1>2, <1>6

LEMMA FetchInternalKeeps ==
  ASSUME NEW q, NEW rebind \in BOOLEAN, Fits(q), Idle(q),
         q.stmt # NoStmt, q.pendingPrepare # 0, Bound(q) \/ rebind
  PROVE  Good(FetchInternal(q, rebind)) /\ Follows(q, FetchInternal(q, rebind))
  <1> DEFINE r == FetchInternal(q, rebind)
             read == [id |-> q.last + 1, stmt |-> r.stmt]
             bound == IF rebind \/ q.queuedFetchRebind THEN q.bindings ELSE q.stmt.bindings
  <1>1. q \in Machine
    BY DEF Fits
  <1>2. q.last \in Nat /\ q.pendingPrepare \in Nat /\ q.prepares \subseteq [id : Nat, query : Nat]
    BY <1>1 DEF Machine
  <1>3. /\ r \in Machine
        /\ r.query = q.query /\ r.bindings = q.bindings /\ r.data = q.data
        /\ r.stmt.query = q.stmt.query /\ r.stmt.bindings = bound
        /\ r.pendingPrepare = q.pendingPrepare /\ r.pendingFetch = q.last + 1
        /\ r.queuedFetch = q.queuedFetch /\ r.disposed = q.disposed
        /\ r.prepares = q.prepares
        /\ r.reads = q.reads \cup {read}
        /\ r.results = q.results
        /\ r.last = q.last + 1
    BY <1>1, FetchInternalIs
  <1>4. read.id = q.last + 1 /\ read.stmt = r.stmt
    OBVIOUS
  <1>5. bound \in {0, q.bindings}
    BY DEF Bound
  <1> HIDE DEF r, read, bound
  <1>6. r.reads = {read} /\ r.results = {}
    BY <1>3 DEF Idle
  <1>7. IdsOK(r)
    <2>1. q.pendingPrepare <= q.last /\ \A o \in q.prepares : 0 < o.id /\ o.id <= q.last /\ o.id \in Nat
      BY <1>2 DEF Fits, IdsOK
    <2> QED BY <2>1, <1>2, <1>3, <1>4, <1>6 DEF IdsOK
  <1>8. FlightOK(r)
    BY <1>2, <1>3, <1>4, <1>6 DEF FlightOK
  <1>9. WaitingOK(r)
    <2>1. \A o \in q.prepares : o.id # q.pendingPrepare
      BY DEF Fits, WaitingOK
    <2>2. \A a, b \in q.prepares : a.id = b.id => a = b
      BY DEF Fits, WaitingOK
    <2> QED BY <2>1, <2>2, <1>3 DEF WaitingOK
  <1>10. CurrentOK(r)
    <2>1. q.stmt.query = q.query
      BY DEF Fits, CurrentOK
    <2>2. q.data # NoData => q.data.query = q.query /\ q.data.bindings \in {0, q.bindings}
      BY DEF Fits, CurrentOK
    <2> QED BY <2>1, <2>2, <1>3, <1>4, <1>5, <1>6 DEF CurrentOK
  <1>11. Follows(q, r)
    BY <1>3 DEF Follows, Listens
  <1>12. Bound(r)
    BY <1>3, <1>5 DEF Bound
  <1> QED BY <1>3, <1>7, <1>8, <1>9, <1>10, <1>11, <1>12 DEF Good, Fits, r

LEMMA FollowsOn ==
  ASSUME NEW q, NEW r, NEW s, Follows(q, r), Follows(r, s)
  PROVE  Follows(q, s)
  BY DEF Follows

\* Data and errors may be forgotten at any time.
LEMMA ForgetKeeps ==
  ASSUME NEW q, Fits(q), NEW r, r = [q EXCEPT !.error = FALSE, !.data = NoData]
  PROVE  /\ Fits(r) /\ Follows(q, r) /\ r.data = NoData
         /\ Bound(q) => Bound(r)
         /\ r.stmt = q.stmt /\ r.pendingPrepare = q.pendingPrepare
         /\ r.last = q.last /\ r.chained = q.chained
         /\ Idle(q) => Idle(r)
  <1>1. q \in Machine /\ NoData \in Data
    BY NothingYet DEF Fits
  <1>2. /\ r \in Machine /\ r.data = NoData
        /\ r.query = q.query /\ r.bindings = q.bindings /\ r.stmt = q.stmt
        /\ r.pendingPrepare = q.pendingPrepare /\ r.pendingFetch = q.pendingFetch
        /\ r.queuedFetch = q.queuedFetch /\ r.queuedFetchRebind = q.queuedFetchRebind
        /\ r.disposed = q.disposed /\ r.prepares = q.prepares /\ r.chained = q.chained
        /\ r.reads = q.reads /\ r.results = q.results /\ r.last = q.last
    BY <1>1 DEF Machine
  <1>3. IdsOK(r)
    BY <1>2 DEF Fits, IdsOK
  <1>4. FlightOK(r)
    BY <1>2 DEF Fits, FlightOK, Idle
  <1>5. WaitingOK(r)
    BY <1>2 DEF Fits, WaitingOK, Idle
  <1>6. CurrentOK(r)
    BY <1>2 DEF Fits, CurrentOK
  <1> QED BY <1>2, <1>3, <1>4, <1>5, <1>6 DEF Fits, Follows, Bound, Listens, Idle

LEMMA FetchKeeps ==
  ASSUME NEW q, NEW rebind \in BOOLEAN, Fits(q), Idle(q),
         q.pendingPrepare # 0, Bound(q) \/ rebind
  PROVE  Good(Fetch(q, rebind)) /\ Follows(q, Fetch(q, rebind))
  <1> DEFINE c == [q EXCEPT !.error = FALSE, !.data = NoData]
             n == q.last + 1
             chained == c.chained \cup {[id |-> n, after |-> q.pendingPrepare]}
             r == [c EXCEPT !.pendingFetch = n, !.last = n, !.chained = chained]
  <1>1. /\ Fits(c) /\ Follows(q, c) /\ Idle(c) /\ c.data = NoData
        /\ Bound(q) => Bound(c)
        /\ c.stmt = q.stmt /\ c.pendingPrepare = q.pendingPrepare /\ c.last = q.last
    BY ForgetKeeps
  <1>2. Fetch(q, rebind) = IF q.stmt # NoStmt THEN FetchInternal(c, rebind) ELSE r
    BY DEF Fetch
  <1>3. CASE q.stmt # NoStmt
    <2>1. Good(FetchInternal(c, rebind)) /\ Follows(c, FetchInternal(c, rebind))
      <3> HIDE DEF c
      <3> QED BY <1>1, <1>3, FetchInternalKeeps
    <2>2. Follows(q, FetchInternal(c, rebind))
      <3> HIDE DEF c
      <3> QED BY <1>1, <2>1, FollowsOn
    <2> QED BY <1>2, <1>3, <2>1, <2>2
  <1>4. CASE q.stmt = NoStmt
    <2>1. c \in Machine /\ c.last \in Nat /\ c.pendingPrepare \in Nat
          /\ c.chained \in SUBSET [id : Nat, after : Nat]
          /\ c.prepares \subseteq [id : Nat, query : Nat]
      <3> HIDE DEF c
      <3>1. c \in Machine
        BY <1>1 DEF Fits
      <3> QED BY <3>1 DEF Machine
    <2>2. n \in Nat /\ n # 0 /\ n > c.last /\ chained \in SUBSET [id : Nat, after : Nat]
      <3> HIDE DEF c
      <3> QED BY <1>1, <2>1
    <2>3. /\ r \in Machine /\ r.data = c.data
          /\ r.query = c.query /\ r.bindings = c.bindings /\ r.stmt = c.stmt
          /\ r.pendingPrepare = c.pendingPrepare /\ r.pendingFetch = n
          /\ r.queuedFetch = c.queuedFetch /\ r.queuedFetchRebind = c.queuedFetchRebind
          /\ r.disposed = c.disposed /\ r.prepares = c.prepares
          /\ r.reads = c.reads /\ r.results = c.results /\ r.last = n
      <3> HIDE DEF c, n, chained
      <3> QED BY <2>1, <2>2 DEF Machine
    <2> HIDE DEF r, c, n, chained
    <2>4. r.reads = {} /\ r.results = {}
      BY <1>1, <2>3 DEF Idle
    <2>5. IdsOK(r)
      <3>1. c.pendingPrepare <= c.last /\ \A o \in c.prepares : 0 < o.id /\ o.id <= c.last /\ o.id \in Nat
        BY <1>1, <2>1 DEF Fits, IdsOK
      <3> QED BY <3>1, <2>1, <2>2, <2>3, <2>4 DEF IdsOK
    <2>6. FlightOK(r)
      BY <2>4 DEF FlightOK, Idle
    <2>7. WaitingOK(r)
      BY <1>1, <2>3, <2>4 DEF Fits, WaitingOK, Idle
    <2>8. CurrentOK(r)
      BY <1>1, <2>3, <2>4 DEF Fits, CurrentOK
    <2>9. Bound(r)
      BY <1>1, <1>4, <2>3, NothingYet DEF Bound
    <2>10. Follows(c, r)
      BY <2>3 DEF Follows, Listens, Idle
    <2>11. Follows(q, r)
      BY <1>1, <2>10, FollowsOn
    <2> QED BY <1>2, <1>4, <2>3, <2>5, <2>6, <2>7, <2>8, <2>9, <2>11 DEF Good, Fits
  <1> QED BY <1>3, <1>4

\* Bindings that have changed are bound at once, if nothing keeps PullData from it.
LEMMA PullDataKeeps ==
  ASSUME NEW q, NEW rebind \in BOOLEAN, Fits(q),
         Bound(q) \/ (rebind /\ ~q.disposed /\ ~q.queuedFetch /\ q.pendingFetch = 0)
  PROVE  Good(PullData(q, rebind)) /\ Follows(q, PullData(q, rebind))
  <1> DEFINE p == IF q.pendingPrepare = 0 THEN Prepare(q) ELSE q
  <1>1. PullData(q, rebind) =
          IF q.disposed \/ q.queuedFetch THEN q
          ELSE IF p.pendingFetch = 0 THEN Fetch(p, rebind) ELSE p
    BY DEF PullData
  <1>2. Follows(q, q)
    BY DEF Follows
  <1>3. CASE q.disposed \/ q.queuedFetch
    BY <1>1, <1>2, <1>3 DEF Good
  <1>4. CASE ~(q.disposed \/ q.queuedFetch)
    <2>1. q.pendingFetch = 0 => Idle(q)
      BY <1>4 DEF Fits, FlightOK
    <2>2. CASE q.pendingPrepare = 0
      <3>1. Idle(q)
        BY <2>1, <2>2 DEF Fits, WaitingOK
      <3>2. p = Prepare(q)
        BY <2>2
      <3>3. /\ Fits(p) /\ Idle(p) /\ Follows(q, p)
            /\ p.stmt = NoStmt /\ p.pendingPrepare # 0 /\ p.pendingFetch = 0
        BY <3>1, <3>2, PrepareKeeps
      <3>4. Bound(p)
        BY <3>3, NothingYet DEF Bound
      <3> HIDE DEF p
      <3>5. Good(Fetch(p, rebind)) /\ Follows(p, Fetch(p, rebind))
        BY <3>3, <3>4, FetchKeeps
      <3>6. Follows(q, Fetch(p, rebind))
        BY <3>3, <3>5, FollowsOn
      <3> QED BY <1>1, <1>4, <3>3, <3>5, <3>6
    <2>3. CASE q.pendingPrepare # 0
      <3>1. p = q
        BY <2>3
      <3>2. CASE q.pendingFetch = 0
        <4>1. Good(Fetch(q, rebind)) /\ Follows(q, Fetch(q, rebind))
          BY <2>1, <2>3, <3>2, FetchKeeps
        <4> QED BY <1>1, <1>4, <3>1, <3>2, <4>1
      <3>3. CASE q.pendingFetch # 0
        BY <1>1, <1>2, <1>4, <3>1, <3>3 DEF Good
      <3> QED BY <3>2, <3>3
    <2> QED BY <2>2, <2>3
  <1> QED BY <1>3, <1>4

\* With nothing under way, the queued fetch may be started.
LEMMA UnflagKeeps ==
  ASSUME NEW q, Good(q), Idle(q), NEW r, r = [q EXCEPT !.queuedFetch = FALSE]
  PROVE  Good(r) /\ Follows(q, r) /\ Idle(r)
  <1>1. q \in Machine
    BY DEF Good, Fits
  <1>2. /\ r \in Machine /\ r.data = q.data
        /\ r.query = q.query /\ r.bindings = q.bindings /\ r.stmt = q.stmt
        /\ r.pendingPrepare = q.pendingPrepare /\ r.pendingFetch = q.pendingFetch
        /\ r.queuedFetchRebind = q.queuedFetchRebind
        /\ r.disposed = q.disposed /\ r.prepares = q.prepares
        /\ r.reads = q.reads /\ r.results = q.results /\ r.last = q.last
    BY <1>1 DEF Machine
  <1>3. IdsOK(r)
    BY <1>2 DEF Good, Fits, IdsOK
  <1>4. FlightOK(r)
    BY <1>2 DEF FlightOK, Idle
  <1>5. WaitingOK(r)
    BY <1>2 DEF Good, Fits, WaitingOK, Idle
  <1>6. CurrentOK(r)
    BY <1>2 DEF Good, Fits, CurrentOK
  <1> QED BY <1>2, <1>3, <1>4, <1>5, <1>6 DEF Good, Fits, Follows, Bound, Listens, Idle

LEMMA UnqueueKeeps ==
  ASSUME NEW q, Good(q), Idle(q)
  PROVE  Good(Unqueue(q)) /\ Follows(q, Unqueue(q))
  <1> DEFINE r == [q EXCEPT !.queuedFetch = FALSE]
  <1>1. Unqueue(q) = IF q.queuedFetch THEN PullData(r, FALSE) ELSE q
    BY DEF Unqueue
  <1>2. Good(r) /\ Follows(q, r)
    BY UnflagKeeps
  <1> HIDE DEF r
  <1>3. Good(PullData(r, FALSE)) /\ Follows(r, PullData(r, FALSE))
    BY <1>2, PullDataKeeps DEF Good
  <1>4. Follows(q, PullData(r, FALSE))
    BY <1>2, <1>3, FollowsOn
  <1>5. Follows(q, q)
    BY DEF Follows
  <1> QED BY <1>1, <1>3, <1>4, <1>5

LEMMA RunChainedKeeps ==
  ASSUME NEW q, NEW p, Good(q), Idle(q), q.stmt # NoStmt, q.pendingPrepare # 0
  PROVE  Good(RunChained(q, p)) /\ Follows(q, RunChained(q, p))
  <1> DEFINE fs == {f \in q.chained : f.after = p.id}
             chained == q.chained \ fs
             r == [q EXCEPT !.chained = chained]
  <1>1. RunChained(q, p) =
          IF fs = {} THEN q
          ELSE IF \E f \in fs : q.pendingFetch = f.id THEN FetchInternal(r, TRUE)
          ELSE Unqueue(r)
    BY DEF RunChained
  <1>2. q \in Machine
    BY DEF Good, Fits
  <1>3. chained \in SUBSET [id : Nat, after : Nat]
    BY <1>2 DEF Machine
  <1>4. /\ r \in Machine /\ r.data = q.data
        /\ r.query = q.query /\ r.bindings = q.bindings /\ r.stmt = q.stmt
        /\ r.pendingPrepare = q.pendingPrepare /\ r.pendingFetch = q.pendingFetch
        /\ r.queuedFetch = q.queuedFetch /\ r.queuedFetchRebind = q.queuedFetchRebind
        /\ r.disposed = q.disposed /\ r.prepares = q.prepares
        /\ r.reads = q.reads /\ r.results = q.results /\ r.last = q.last
    <2> HIDE DEF chained
    <2> QED BY <1>2, <1>3 DEF Machine
  <1>5. Follows(q, q)
    BY DEF Follows
  <1> HIDE DEF r, fs
  <1>6. Good(r) /\ Idle(r) /\ Follows(q, r)
    <2>1. IdsOK(r)
      BY <1>4 DEF Good, Fits, IdsOK
    <2>2. FlightOK(r)
      BY <1>4 DEF Good, Fits, FlightOK, Idle
    <2>3. WaitingOK(r)
      BY <1>4 DEF Good, Fits, WaitingOK, Idle
    <2>4. CurrentOK(r)
      BY <1>4 DEF Good, Fits, CurrentOK
    <2> QED BY <1>4, <2>1, <2>2, <2>3, <2>4 DEF Good, Fits, Follows, Bound, Listens, Idle
  <1>7. Good(FetchInternal(r, TRUE)) /\ Follows(r, FetchInternal(r, TRUE))
    BY <1>4, <1>6, FetchInternalKeeps DEF Good
  <1>8. Good(Unqueue(r)) /\ Follows(r, Unqueue(r))
    BY <1>6, UnqueueKeeps
  <1>9. Follows(q, FetchInternal(r, TRUE)) /\ Follows(q, Unqueue(r))
    BY <1>6, <1>7, <1>8, FollowsOn
  <1> QED BY <1>1, <1>5, <1>7, <1>8, <1>9

LEMMA CancelIs ==
  ASSUME NEW q \in Machine
  PROVE  LET r == Cancel(q)
         IN  /\ r \in Machine /\ r.data = NoData /\ r.pendingFetch = 0
             /\ r.query = q.query /\ r.bindings = q.bindings /\ r.stmt = q.stmt
             /\ r.pendingPrepare = q.pendingPrepare
             /\ r.queuedFetch = (q.queuedFetch \/ q.pendingFetch # 0)
             /\ r.queuedFetchRebind = q.queuedFetchRebind
             /\ r.disposed = q.disposed /\ r.prepares = q.prepares
             /\ r.reads = q.reads /\ r.results = q.results /\ r.last = q.last
  <1> DEFINE r == Cancel(q)
             b == q.queuedFetch \/ q.pendingFetch # 0
  <1>1. b \in BOOLEAN /\ NoData \in Data
    BY NothingYet DEF Machine
  <1>2. r = [q EXCEPT !.queuedFetch = b, !.pendingFetch = 0, !.error = FALSE, !.data = NoData]
    BY DEF Cancel
  <1>3. /\ r \in Machine /\ r.data = NoData /\ r.pendingFetch = 0
        /\ r.query = q.query /\ r.bindings = q.bindings /\ r.stmt = q.stmt
        /\ r.pendingPrepare = q.pendingPrepare
        /\ r.queuedFetch = b
        /\ r.queuedFetchRebind = q.queuedFetchRebind
        /\ r.disposed = q.disposed /\ r.prepares = q.prepares
        /\ r.reads = q.reads /\ r.results = q.results /\ r.last = q.last
    <2> HIDE DEF r, b
    <2> QED BY <1>1, <1>2 DEF Machine
  <1> QED BY <1>3

\* A fetch in flight is abandoned for the one queued behind it, whether or not the
\* query or the bindings have changed.
LEMMA CancelKeeps ==
  ASSUME NEW q, Good(q), NEW r \in Machine,
         r.data = NoData, r.pendingFetch = 0, r.stmt = q.stmt,
         r.pendingPrepare = 0 \/ (r.pendingPrepare = q.pendingPrepare /\ r.query = q.query),
         r.queuedFetch = (q.queuedFetch \/ q.pendingFetch # 0),
         r.disposed = q.disposed, r.prepares = q.prepares,
         r.reads = q.reads, r.results = q.results, r.last = q.last
  PROVE  Fits(r) /\ Follows(q, r)
  <1>1. q \in Machine /\ q.last \in Nat
    BY DEF Good, Fits, Machine
  <1>2. /\ q.prepares \subseteq [id : Nat, query : Nat]
        /\ q.reads \subseteq [id : Nat, stmt : Stmt]
        /\ q.results \subseteq [id : Nat, data : Data]
    BY <1>1 DEF Machine
  <1>3. IdsOK(r)
    BY <1>1 DEF Good, Fits, IdsOK
  <1>4. FlightOK(r)
    BY DEF Good, Fits, FlightOK, Idle
  <1>5. /\ \A p \in q.prepares : p.id # 0
        /\ \A x \in q.reads : x.id # 0
        /\ \A x \in q.results : x.id # 0
    BY <1>2 DEF Good, Fits, IdsOK
  <1>6. WaitingOK(r)
    <2>1. \A p \in r.prepares : p.id = r.pendingPrepare =>
             p.query = r.query /\ r.stmt = NoStmt /\ Idle(r)
      BY <1>5 DEF Good, Fits, WaitingOK, Idle
    <2> QED BY <2>1 DEF Good, Fits, WaitingOK
  <1>7. CurrentOK(r)
    BY <1>5 DEF Good, Fits, CurrentOK
  <1> QED BY <1>3, <1>4, <1>6, <1>7 DEF Fits, Follows, Listens, Idle

LEMMA HeardFollows ==
  ASSUME NEW q, NEW r, Heard(q), Follows(q, r)
  PROVE  Heard(r)
  BY DEF Heard, Follows

LEMMA KeptByMethod ==
  ASSUME commits \in Nat, NEW r, Good(r), Heard(r), m' = r,
         UNCHANGED <<commits, writing, news, subscribed>>
  PROVE  QueryInv'
  BY DEF QueryInv, Heard, Listens, Idle

-----------------------------------------------------------------------------
\* One lemma per action.

LEMMA InitGood == Init => QueryInv
  <1> SUFFICES ASSUME Init PROVE QueryInv
    OBVIOUS
  <1>1. m \in Machine
    BY NothingYet DEF Init, Machine
  <1>2. /\ m.stmt = NoStmt /\ m.data = NoData /\ m.pendingPrepare = 0 /\ m.pendingFetch = 0
        /\ m.prepares = {} /\ m.reads = {} /\ m.results = {} /\ m.last = 0
    BY DEF Init
  <1>3. IdsOK(m) /\ FlightOK(m) /\ WaitingOK(m) /\ CurrentOK(m)
    BY <1>2 DEF IdsOK, FlightOK, WaitingOK, CurrentOK, Idle
  <1>4. Bound(m)
    BY <1>2, NothingYet DEF Bound
  <1>5. Heard(m)
    BY <1>2 DEF Heard, Listens, Idle
  <1> QED BY <1>1, <1>3, <1>4, <1>5 DEF QueryInv, Good, Fits, Init

LEMMA GetSnapshotKeeps == QueryInv /\ GetSnapshot => QueryInv'
  <1> SUFFICES ASSUME QueryInv, GetSnapshot PROVE QueryInv'
    OBVIOUS
  <1>1. Good(PullData(m, FALSE)) /\ Follows(m, PullData(m, FALSE))
    BY PullDataKeeps DEF QueryInv, Good
  <1>2. Heard(PullData(m, FALSE))
    BY <1>1, HeardFollows DEF QueryInv
  <1>3. m' = PullData(m, FALSE) /\ UNCHANGED <<commits, writing, news, subscribed>>
    BY DEF GetSnapshot
  <1>4. commits \in Nat
    BY DEF QueryInv
  <1> QED BY <1>1, <1>2, <1>3, <1>4, KeptByMethod

LEMMA RespondToQueryChangeKeeps == QueryInv /\ RespondToQueryChange => QueryInv'
  <1> SUFFICES ASSUME QueryInv, RespondToQueryChange PROVE QueryInv'
    OBVIOUS
  <1> DEFINE c == Cancel(m)
             n == c.query + 1
             r == [c EXCEPT !.query = n, !.pendingPrepare = 0]
  <1>1. m' = PullData(r, TRUE) /\ UNCHANGED <<commits, writing, news, subscribed>>
    BY DEF RespondToQueryChange
  <1>2. commits \in Nat /\ Good(m) /\ Heard(m) /\ m \in Machine
    BY DEF QueryInv, Good, Fits
  <1>3. /\ c \in Machine /\ c.data = NoData /\ c.pendingFetch = 0
        /\ c.bindings = m.bindings /\ c.stmt = m.stmt
        /\ c.queuedFetch = (m.queuedFetch \/ m.pendingFetch # 0)
        /\ c.queuedFetchRebind = m.queuedFetchRebind
        /\ c.disposed = m.disposed /\ c.prepares = m.prepares
        /\ c.reads = m.reads /\ c.results = m.results /\ c.last = m.last
    BY <1>2, CancelIs
  <1> HIDE DEF c
  <1>4. n \in Nat
    BY <1>3 DEF Machine
  <1>5. /\ r \in Machine /\ r.data = NoData /\ r.pendingFetch = 0 /\ r.pendingPrepare = 0
        /\ r.bindings = m.bindings /\ r.stmt = m.stmt
        /\ r.queuedFetch = (m.queuedFetch \/ m.pendingFetch # 0)
        /\ r.queuedFetchRebind = m.queuedFetchRebind
        /\ r.disposed = m.disposed /\ r.prepares = m.prepares
        /\ r.reads = m.reads /\ r.results = m.results /\ r.last = m.last
    <2> HIDE DEF n
    <2> QED BY <1>3, <1>4 DEF Machine
  <1> HIDE DEF r
  <1>6. Fits(r) /\ Follows(m, r)
    BY <1>2, <1>5, CancelKeeps
  <1>7. Bound(r)
    BY <1>2, <1>5 DEF Good, Bound
  <1>8. Good(PullData(r, TRUE)) /\ Follows(r, PullData(r, TRUE))
    BY <1>6, <1>7, PullDataKeeps
  <1>9. Heard(PullData(r, TRUE))
    BY <1>2, <1>6, <1>8, HeardFollows
  <1> QED BY <1>1, <1>2, <1>8, <1>9, KeptByMethod

LEMMA RespondToBindingsChangeKeeps == QueryInv /\ RespondToBindingsChange => QueryInv'
  <1> SUFFICES ASSUME QueryInv, RespondToBindingsChange PROVE QueryInv'
    OBVIOUS
  <1> DEFINE c == Cancel(m)
             n == c.bindings + 1
             later == c.queuedFetchRebind \/ c.queuedFetch
             r == [c EXCEPT !.bindings = n, !.queuedFetchRebind = later]
  <1>1. m' = PullData(r, TRUE) /\ UNCHANGED <<commits, writing, news, subscribed>> /\ ~m.disposed
    BY DEF RespondToBindingsChange
  <1>2. commits \in Nat /\ Good(m) /\ Heard(m) /\ m \in Machine
    BY DEF QueryInv, Good, Fits
  <1>3. /\ c \in Machine /\ c.data = NoData /\ c.pendingFetch = 0
        /\ c.query = m.query /\ c.pendingPrepare = m.pendingPrepare /\ c.stmt = m.stmt
        /\ c.queuedFetch = (m.queuedFetch \/ m.pendingFetch # 0)
        /\ c.disposed = m.disposed /\ c.prepares = m.prepares
        /\ c.reads = m.reads /\ c.results = m.results /\ c.last = m.last
    BY <1>2, CancelIs
  <1> HIDE DEF c
  <1>4. n \in Nat /\ later \in BOOLEAN
    BY <1>3 DEF Machine
  <1>5. /\ r \in Machine /\ r.data = NoData /\ r.pendingFetch = 0
        /\ r.query = m.query /\ r.pendingPrepare = m.pendingPrepare /\ r.stmt = m.stmt
        /\ r.queuedFetch = c.queuedFetch
        /\ r.queuedFetchRebind = later
        /\ r.disposed = m.disposed /\ r.prepares = m.prepares
        /\ r.reads = m.reads /\ r.results = m.results /\ r.last = m.last
    <2> HIDE DEF n, later
    <2> QED BY <1>3, <1>4 DEF Machine
  <1>6. Bound(r) \/ (~r.disposed /\ ~r.queuedFetch /\ r.pendingFetch = 0)
    <2> HIDE DEF r
    <2>1. c.queuedFetch => r.queuedFetchRebind
      BY <1>5
    <2> QED BY <2>1, <1>1, <1>5 DEF Bound
  <1> HIDE DEF r
  <1>7. Fits(r) /\ Follows(m, r)
    <2>1. r.queuedFetch = (m.queuedFetch \/ m.pendingFetch # 0)
      BY <1>3, <1>5
    <2> QED BY <1>2, <1>5, <2>1, CancelKeeps
  <1>8. Good(PullData(r, TRUE)) /\ Follows(r, PullData(r, TRUE))
    BY <1>6, <1>7, PullDataKeeps
  <1>9. Heard(PullData(r, TRUE))
    BY <1>2, <1>7, <1>8, HeardFollows
  <1> QED BY <1>1, <1>2, <1>8, <1>9, KeptByMethod

LEMMA RespondToDatabaseChangeKeeps == QueryInv /\ RespondToDatabaseChange => QueryInv'
  <1> SUFFICES ASSUME QueryInv, RespondToDatabaseChange PROVE QueryInv'
    OBVIOUS
  <1>1. commits \in Nat /\ Good(m) /\ Heard(m) /\ m \in Machine
    BY DEF QueryInv, Good, Fits
  <1>2. UNCHANGED <<commits, writing>> /\ news' = FALSE
    BY DEF RespondToDatabaseChange
  <1>3. CASE subscribed /\ ~m.disposed
    <2> DEFINE r == Cancel(m)
               s == PullData(r, FALSE)
    <2>1. m' = s /\ subscribed' = TRUE
      BY <1>3 DEF RespondToDatabaseChange
    <2>2. /\ r \in Machine /\ r.data = NoData /\ r.pendingFetch = 0
          /\ r.query = m.query /\ r.bindings = m.bindings
          /\ r.pendingPrepare = m.pendingPrepare /\ r.stmt = m.stmt
          /\ r.queuedFetch = (m.queuedFetch \/ m.pendingFetch # 0)
          /\ r.queuedFetchRebind = m.queuedFetchRebind
          /\ r.disposed = m.disposed /\ r.prepares = m.prepares
          /\ r.reads = m.reads /\ r.results = m.results /\ r.last = m.last
      BY <1>1, CancelIs
    <2> HIDE DEF r
    <2>3. Fits(r) /\ Follows(m, r)
      BY <1>1, <2>2, CancelKeeps
    <2>4. Bound(r)
      BY <1>1, <2>2 DEF Good, Bound
    <2>5. Good(s) /\ Follows(r, s)
      BY <2>3, <2>4, PullDataKeeps
    <2> HIDE DEF s
    <2>6. s.data = NoData /\ s.results \subseteq m.results
      BY <2>2, <2>5 DEF Follows
    <2> QED BY <1>1, <1>2, <2>1, <2>5, <2>6 DEF QueryInv, Heard, Listens, Idle
  <1>4. CASE ~(subscribed /\ ~m.disposed)
    <2>1. m' = m /\ subscribed' = FALSE
      BY <1>4 DEF RespondToDatabaseChange
    <2> QED BY <1>1, <1>2, <1>4, <2>1 DEF QueryInv, Heard, Listens, Idle
  <1> QED BY <1>3, <1>4

LEMMA DisposeKeeps == QueryInv /\ Dispose => QueryInv'
  <1> SUFFICES ASSUME QueryInv, Dispose PROVE QueryInv'
    OBVIOUS
  <1> DEFINE r == [m EXCEPT !.disposed = TRUE, !.stmt = NoStmt]
  <1>1. commits \in Nat /\ Good(m) /\ Heard(m) /\ m \in Machine
    BY DEF QueryInv, Good, Fits
  <1>2. m' = r /\ UNCHANGED <<commits, writing, news>>
    BY DEF Dispose
  <1>3. /\ r \in Machine /\ r.data = m.data /\ r.disposed = TRUE
        /\ r.query = m.query /\ r.bindings = m.bindings /\ r.stmt = NoStmt
        /\ r.pendingPrepare = m.pendingPrepare /\ r.pendingFetch = m.pendingFetch
        /\ r.queuedFetch = m.queuedFetch /\ r.prepares = m.prepares
        /\ r.reads = m.reads /\ r.results = m.results /\ r.last = m.last
    BY <1>1, NothingYet DEF Machine
  <1> HIDE DEF r
  <1>4. IdsOK(r)
    BY <1>1, <1>3 DEF Good, Fits, IdsOK
  <1>5. FlightOK(r)
    BY <1>1, <1>3 DEF Good, Fits, FlightOK, Idle
  <1>6. WaitingOK(r)
    BY <1>1, <1>3 DEF Good, Fits, WaitingOK, Idle
  <1>7. CurrentOK(r)
    BY <1>1, <1>3 DEF Good, Fits, CurrentOK
  <1>8. Bound(r)
    BY <1>3, NothingYet DEF Bound
  <1>9. Good(r)
    BY <1>3, <1>4, <1>5, <1>6, <1>7, <1>8 DEF Good, Fits
  <1> QED BY <1>1, <1>2, <1>3, <1>9 DEF QueryInv, Heard

LEMMA WriterKeeps == QueryInv /\ (Write \/ CommitWrite) => QueryInv'
  <1> SUFFICES ASSUME QueryInv, Write \/ CommitWrite PROVE QueryInv'
    OBVIOUS
  <1>1. commits \in Nat /\ Good(m) /\ Heard(m) /\ m' = m
    BY DEF QueryInv, Write, CommitWrite
  <1>2. CASE Write
    BY <1>1, <1>2 DEF Write, QueryInv, Heard, Listens, Idle
  <1>3. CASE CommitWrite
    BY <1>1, <1>3 DEF CommitWrite, QueryInv, Heard, Listens, Idle
  <1> QED BY <1>2, <1>3

\* A prepare that ends without being of use only leaves the machine.
LEMMA PrepareGone ==
  ASSUME NEW p, NEW q, Good(q), NEW chained \in SUBSET [id : Nat, after : Nat], NEW r,
         r = [q EXCEPT !.prepares = @ \ {p}, !.chained = chained]
  PROVE  Good(r) /\ Follows(q, r)
  <1> DEFINE left == q.prepares \ {p}
  <1>1. q \in Machine
    BY DEF Good, Fits
  <1>2. left \in SUBSET [id : Nat, query : Nat]
    BY <1>1 DEF Machine
  <1>3. r = [q EXCEPT !.prepares = left, !.chained = chained]
    OBVIOUS
  <1>4. /\ r \in Machine /\ r.data = q.data
        /\ r.query = q.query /\ r.bindings = q.bindings /\ r.stmt = q.stmt
        /\ r.pendingPrepare = q.pendingPrepare /\ r.pendingFetch = q.pendingFetch
        /\ r.queuedFetch = q.queuedFetch /\ r.queuedFetchRebind = q.queuedFetchRebind
        /\ r.disposed = q.disposed /\ r.prepares = left
        /\ r.reads = q.reads /\ r.results = q.results /\ r.last = q.last
    <2> HIDE DEF left
    <2> QED BY <1>1, <1>2, <1>3 DEF Machine
  <1>5. IdsOK(r)
    BY <1>4 DEF Good, Fits, IdsOK
  <1>6. FlightOK(r)
    BY <1>4 DEF Good, Fits, FlightOK, Idle
  <1>7. WaitingOK(r)
    BY <1>4 DEF Good, Fits, WaitingOK, Idle
  <1>8. CurrentOK(r)
    BY <1>4 DEF Good, Fits, CurrentOK
  <1> QED BY <1>4, <1>5, <1>6, <1>7, <1>8 DEF Good, Fits, Follows, Bound, Listens, Idle

LEMMA PrepareDoneKeeps == QueryInv /\ PrepareDone => QueryInv'
  <1> SUFFICES ASSUME QueryInv, PrepareDone PROVE QueryInv'
    OBVIOUS
  <1>1. commits \in Nat /\ Good(m) /\ Heard(m) /\ m \in Machine
    BY DEF QueryInv, Good, Fits
  <1>2. PICK p \in m.prepares :
          LET q == [m EXCEPT !.prepares = @ \ {p}]
          IN  IF m.pendingPrepare = p.id
              THEN /\ m' = RunChained([q EXCEPT !.stmt = [id |-> p.id, query |-> p.query, bindings |-> 0]], p)
                   /\ subscribed' = TRUE
                   /\ UNCHANGED <<commits, writing, news, interrupted>>
              ELSE /\ m' = [q EXCEPT !.chained = {f \in @ : f.after # p.id}]
                   /\ UNCHANGED <<commits, writing, news, subscribed, interrupted>>
    BY DEF PrepareDone
  <1> DEFINE left == m.prepares \ {p}
  <1>3. p \in [id : Nat, query : Nat] /\ left \in SUBSET [id : Nat, query : Nat] /\ p.id # 0
    <2>1. p \in [id : Nat, query : Nat] /\ left \in SUBSET [id : Nat, query : Nat]
      BY <1>1 DEF Machine
    <2>2. 0 < p.id
      BY <1>1 DEF Good, Fits, IdsOK
    <2> QED BY <2>1, <2>2
  <1>4. CASE m.pendingPrepare = p.id
    <2> DEFINE stmt == [id |-> p.id, query |-> p.query, bindings |-> 0]
               r == [m EXCEPT !.prepares = left, !.stmt = stmt]
               s == RunChained(r, p)
    <2>1. m' = s /\ subscribed' = TRUE /\ UNCHANGED <<commits, writing, news>>
      BY <1>2, <1>4
    <2>2. stmt \in Stmt /\ stmt # NoStmt /\ stmt.query = p.query /\ stmt.bindings = 0
      BY <1>3 DEF Stmt, NoStmt
    <2>3. /\ r \in Machine /\ r.data = m.data
          /\ r.query = m.query /\ r.bindings = m.bindings /\ r.stmt = stmt
          /\ r.pendingPrepare = m.pendingPrepare /\ r.pendingFetch = m.pendingFetch
          /\ r.queuedFetch = m.queuedFetch
          /\ r.disposed = m.disposed /\ r.prepares = left
          /\ r.reads = m.reads /\ r.results = m.results /\ r.last = m.last
      <3> HIDE DEF left, stmt
      <3> QED BY <1>1, <1>3, <2>2 DEF Machine
    <2> HIDE DEF r, stmt
    <2>4. p.query = m.query /\ Idle(m) /\ \A o \in left : o.id # m.pendingPrepare
      BY <1>1, <1>4 DEF Good, Fits, WaitingOK
    <2>5. Idle(r) /\ r.stmt # NoStmt /\ r.pendingPrepare # 0
      BY <1>3, <1>4, <2>2, <2>3, <2>4 DEF Idle
    <2>6. IdsOK(r)
      BY <1>1, <2>3 DEF Good, Fits, IdsOK
    <2>7. FlightOK(r)
      BY <1>1, <2>3 DEF Good, Fits, FlightOK, Idle
    <2>8. WaitingOK(r)
      BY <1>1, <2>3, <2>4 DEF Good, Fits, WaitingOK
    <2>9. CurrentOK(r)
      BY <1>1, <2>2, <2>3, <2>4 DEF Good, Fits, CurrentOK
    <2>10. Good(r)
      BY <2>2, <2>3, <2>6, <2>7, <2>8, <2>9 DEF Good, Fits, Bound
    <2>11. Good(s) /\ Follows(r, s)
      BY <2>5, <2>10, RunChainedKeeps
    <2> HIDE DEF s
    <2>12. s.data \in {NoData, m.data} /\ s.disposed = m.disposed /\ s.results \subseteq m.results
      BY <2>3, <2>11 DEF Follows
    <2> QED BY <1>1, <2>1, <2>11, <2>12 DEF QueryInv, Heard
  <1>5. CASE m.pendingPrepare # p.id
    <2> DEFINE chained == {f \in m.chained : f.after # p.id}
               r == [m EXCEPT !.prepares = @ \ {p}, !.chained = chained]
    <2>1. m' = r /\ UNCHANGED <<commits, writing, news, subscribed>>
      BY <1>2, <1>5
    <2>2. chained \in SUBSET [id : Nat, after : Nat]
      BY <1>1 DEF Machine
    <2>3. Good(r) /\ Follows(m, r)
      <3> HIDE DEF chained
      <3> QED BY <1>1, <2>2, PrepareGone
    <2> HIDE DEF r
    <2> QED BY <1>1, <2>1, <2>3, HeardFollows, KeptByMethod
  <1> QED BY <1>4, <1>5

LEMMA PrepareFailsKeeps == QueryInv /\ PrepareFails => QueryInv'
  <1> SUFFICES ASSUME QueryInv, PrepareFails PROVE QueryInv'
    OBVIOUS
  <1>1. commits \in Nat /\ Good(m) /\ Heard(m) /\ m \in Machine
    BY DEF QueryInv, Good, Fits
  <1>2. PICK p \in m.prepares :
          m' = [m EXCEPT !.prepares = @ \ {p}, !.chained = {f \in @ : f.after # p.id}]
    BY DEF PrepareFails
  <1> DEFINE chained == {f \in m.chained : f.after # p.id}
             r == [m EXCEPT !.prepares = @ \ {p}, !.chained = chained]
  <1>3. m' = r /\ UNCHANGED <<commits, writing, news, subscribed>>
    BY <1>2 DEF PrepareFails
  <1>4. chained \in SUBSET [id : Nat, after : Nat]
    BY <1>1 DEF Machine
  <1>5. Good(r) /\ Follows(m, r)
    <2> HIDE DEF chained
    <2> QED BY <1>1, <1>4, PrepareGone
  <1> HIDE DEF r
  <1> QED BY <1>1, <1>3, <1>5, HeardFollows, KeptByMethod

\* What a read sees is of the machine and the database as they are, if it is awaited.
LEMMA ReadKeeps == QueryInv /\ Read => QueryInv'
  <1> SUFFICES ASSUME QueryInv, Read PROVE QueryInv'
    OBVIOUS
  <1>1. commits \in Nat /\ Good(m) /\ Heard(m) /\ m \in Machine
    BY DEF QueryInv, Good, Fits
  <1>2. PICK x \in m.reads :
          m' = [m EXCEPT !.reads = @ \ {x},
                         !.results = @ \cup {[id |-> x.id,
                                              data |-> [query |-> x.stmt.query,
                                                        bindings |-> x.stmt.bindings,
                                                        commits |-> commits]]}]
    BY DEF Read
  <1> DEFINE data == [query |-> x.stmt.query, bindings |-> x.stmt.bindings, commits |-> commits]
             y == [id |-> x.id, data |-> data]
             reads == m.reads \ {x}
             results == m.results \cup {y}
             r == [m EXCEPT !.reads = reads, !.results = results]
  <1>3. m' = r /\ ~writing /\ UNCHANGED <<commits, writing, news, subscribed>>
    BY <1>2 DEF Read
  <1>4. x \in [id : Nat, stmt : Stmt] /\ m.reads \in SUBSET [id : Nat, stmt : Stmt]
        /\ m.results \in SUBSET [id : Nat, data : Data]
    BY <1>1 DEF Machine
  <1>5. data \in Data /\ data.query = x.stmt.query /\ data.bindings = x.stmt.bindings
        /\ data.commits = commits
    BY <1>1, <1>4 DEF Data, Stmt
  <1>6. y \in [id : Nat, data : Data] /\ y.id = x.id /\ y.data = data
    <2> HIDE DEF data
    <2> QED BY <1>4, <1>5
  <1> HIDE DEF data, y
  <1>7. reads \in SUBSET [id : Nat, stmt : Stmt] /\ results \in SUBSET [id : Nat, data : Data]
    BY <1>4, <1>6
  <1>8. /\ r \in Machine /\ r.data = m.data
        /\ r.query = m.query /\ r.bindings = m.bindings /\ r.stmt = m.stmt
        /\ r.pendingPrepare = m.pendingPrepare /\ r.pendingFetch = m.pendingFetch
        /\ r.queuedFetch = m.queuedFetch /\ r.queuedFetchRebind = m.queuedFetchRebind
        /\ r.disposed = m.disposed /\ r.prepares = m.prepares
        /\ r.reads = reads /\ r.results = results /\ r.last = m.last
    <2> HIDE DEF reads, results
    <2> QED BY <1>1, <1>7 DEF Machine
  <1> HIDE DEF r
  <1>9. m.results = {} /\ m.reads = {x}
    BY <1>1 DEF Good, Fits, FlightOK
  <1>10. r.reads = {} /\ r.results = {y}
    BY <1>8, <1>9
  <1>11. IdsOK(r)
    BY <1>1, <1>6, <1>8, <1>10 DEF Good, Fits, IdsOK
  <1>12. FlightOK(r)
    <2>1. m.pendingFetch # 0 \/ m.queuedFetch
      BY <1>1, <1>9 DEF Good, Fits, FlightOK, Idle
    <2>2. m.pendingFetch # 0 => x.id = m.pendingFetch
      BY <1>1 DEF Good, Fits, FlightOK
    <2> QED BY <1>6, <1>8, <1>10, <2>1, <2>2 DEF FlightOK
  <1>13. WaitingOK(r)
    <2>1. \A p \in m.prepares : p.id # m.pendingPrepare
      BY <1>1, <1>9 DEF Good, Fits, WaitingOK, Idle
    <2> QED BY <1>1, <1>8, <2>1 DEF Good, Fits, WaitingOK
  <1>14. CurrentOK(r)
    <2>1. x.id = m.pendingFetch => x.stmt.query = m.query /\ x.stmt.bindings \in {0, m.bindings}
      BY <1>1 DEF Good, Fits, CurrentOK
    <2> QED BY <1>1, <1>5, <1>6, <1>8, <1>10, <2>1 DEF Good, Fits, CurrentOK
  <1>15. Good(r)
    BY <1>1, <1>8, <1>11, <1>12, <1>13, <1>14 DEF Good, Fits, Bound
  <1>16. Heard(r)
    BY <1>1, <1>3, <1>5, <1>6, <1>8, <1>9, <1>10 DEF Heard, Listens, Idle
  <1> QED BY <1>1, <1>3, <1>15, <1>16, KeptByMethod

\* When a read ends, its result is shown if it was awaited.
LEMMA ReadDoneKeeps == QueryInv /\ ReadDone => QueryInv'
  <1> SUFFICES ASSUME QueryInv, ReadDone PROVE QueryInv'
    OBVIOUS
  <1>1. commits \in Nat /\ Good(m) /\ Heard(m) /\ m \in Machine
    BY DEF QueryInv, Good, Fits
  <1>2. PICK x \in m.results :
          LET q == [m EXCEPT !.results = @ \ {x}]
          IN  m' = IF q.pendingFetch # x.id
                   THEN LET unqueued == [q EXCEPT !.queuedFetch = FALSE]
                        IN  IF q.pendingFetch = 0 THEN PullData(unqueued, FALSE) ELSE unqueued
                   ELSE Unqueue([q EXCEPT !.data = x.data, !.pendingFetch = 0])
    BY DEF ReadDone
  <1>3. UNCHANGED <<commits, writing, news, subscribed>>
    BY DEF ReadDone
  <1> DEFINE results == m.results \ {x}
             q == [m EXCEPT !.results = results]
  <1>4. x \in [id : Nat, data : Data] /\ results \in SUBSET [id : Nat, data : Data]
    BY <1>1 DEF Machine
  <1>5. m.reads = {} /\ results = {}
    BY <1>1 DEF Good, Fits, FlightOK
  <1>6. /\ q \in Machine /\ q.data = m.data
        /\ q.query = m.query /\ q.bindings = m.bindings /\ q.stmt = m.stmt
        /\ q.pendingPrepare = m.pendingPrepare /\ q.pendingFetch = m.pendingFetch
        /\ q.queuedFetch = m.queuedFetch /\ q.queuedFetchRebind = m.queuedFetchRebind
        /\ q.disposed = m.disposed /\ q.prepares = m.prepares
        /\ q.reads = {} /\ q.results = {} /\ q.last = m.last
    <2>1. q.results = results /\ q.reads = m.reads
      <3> HIDE DEF results
      <3> QED BY <1>1, <1>4 DEF Machine
    <2>2. /\ q \in Machine /\ q.data = m.data
          /\ q.query = m.query /\ q.bindings = m.bindings /\ q.stmt = m.stmt
          /\ q.pendingPrepare = m.pendingPrepare /\ q.pendingFetch = m.pendingFetch
          /\ q.queuedFetch = m.queuedFetch /\ q.queuedFetchRebind = m.queuedFetchRebind
          /\ q.disposed = m.disposed /\ q.prepares = m.prepares /\ q.last = m.last
      <3> HIDE DEF results
      <3> QED BY <1>1, <1>4 DEF Machine
    <2> QED BY <1>5, <2>1, <2>2
  <1>7. m' = IF q.pendingFetch # x.id
             THEN IF q.pendingFetch = 0 THEN PullData([q EXCEPT !.queuedFetch = FALSE], FALSE)
                  ELSE [q EXCEPT !.queuedFetch = FALSE]
             ELSE Unqueue([q EXCEPT !.data = x.data, !.pendingFetch = 0])
    BY <1>2
  <1> HIDE DEF q
  <1>8. Good(q) /\ Idle(q) /\ Follows(m, q)
    <2>1. IdsOK(q)
      BY <1>1, <1>6 DEF Good, Fits, IdsOK
    <2>2. FlightOK(q)
      BY <1>6 DEF FlightOK, Idle
    <2>3. WaitingOK(q)
      BY <1>1, <1>6 DEF Good, Fits, WaitingOK, Idle
    <2>4. CurrentOK(q)
      BY <1>1, <1>6 DEF Good, Fits, CurrentOK
    <2> QED BY <1>1, <1>6, <2>1, <2>2, <2>3, <2>4 DEF Good, Fits, Follows, Bound, Listens, Idle
  <1>9. Heard(q)
    BY <1>1, <1>8, HeardFollows
  <1>10. CASE q.pendingFetch # x.id
    <2> DEFINE u == [q EXCEPT !.queuedFetch = FALSE]
    <2>1. Good(u) /\ Follows(q, u)
      BY <1>8, UnflagKeeps
    <2> HIDE DEF u
    <2>2. Heard(u)
      BY <1>9, <2>1, HeardFollows
    <2>3. Good(PullData(u, FALSE)) /\ Follows(u, PullData(u, FALSE))
      BY <2>1, PullDataKeeps DEF Good
    <2>4. Heard(PullData(u, FALSE))
      BY <2>2, <2>3, HeardFollows
    <2>5. m' = PullData(u, FALSE) \/ m' = u
      BY <1>7, <1>10 DEF u
    <2>6. CASE m' = u
      BY <1>1, <1>3, <2>1, <2>2, <2>6, KeptByMethod
    <2>7. CASE m' = PullData(u, FALSE)
      BY <1>1, <1>3, <2>3, <2>4, <2>7, KeptByMethod
    <2> QED BY <2>5, <2>6, <2>7
  <1>11. CASE q.pendingFetch = x.id
    <2> DEFINE s == [q EXCEPT !.data = x.data, !.pendingFetch = 0]
    <2>1. m' = Unqueue(s)
      BY <1>7, <1>11
    <2>2. x.data \in Data
      BY <1>4
    <2>3. /\ s \in Machine /\ s.data = x.data
          /\ s.query = q.query /\ s.bindings = q.bindings /\ s.stmt = q.stmt
          /\ s.pendingPrepare = q.pendingPrepare /\ s.pendingFetch = 0
          /\ s.queuedFetch = q.queuedFetch /\ s.queuedFetchRebind = q.queuedFetchRebind
          /\ s.disposed = q.disposed /\ s.prepares = q.prepares
          /\ s.reads = {} /\ s.results = {} /\ s.last = q.last
      BY <1>6, <2>2 DEF Machine
    <2> HIDE DEF s
    <2>4. x.data.query = m.query /\ x.data.bindings \in {0, m.bindings}
      BY <1>1, <1>6, <1>11 DEF Good, Fits, CurrentOK
    <2>5. IdsOK(s)
      <3>1. q.last \in Nat
        BY <1>6 DEF Machine
      <3> QED BY <1>8, <2>3, <3>1 DEF Good, Fits, IdsOK
    <2>6. FlightOK(s) /\ Idle(s)
      BY <2>3 DEF FlightOK, Idle
    <2>7. WaitingOK(s)
      BY <1>8, <2>3 DEF Good, Fits, WaitingOK, Idle
    <2>8. CurrentOK(s)
      BY <1>6, <1>8, <2>3, <2>4 DEF Good, Fits, CurrentOK
    <2>9. Good(s)
      BY <1>8, <2>3, <2>5, <2>6, <2>7, <2>8 DEF Good, Fits, Bound
    <2>10. Heard(s)
      <3>1. ~writing /\ x.data.commits = commits /\ (~m.disposed => subscribed)
        BY <1>1 DEF Heard, Listens, Idle
      <3> QED BY <1>6, <2>3, <3>1 DEF Heard
    <2>11. Good(Unqueue(s)) /\ Follows(s, Unqueue(s))
      BY <2>6, <2>9, UnqueueKeeps
    <2> QED BY <1>1, <1>3, <2>1, <2>10, <2>11, HeardFollows, KeptByMethod
  <1> QED BY <1>10, <1>11

LEMMA ReadFailsKeeps == QueryInv /\ ReadFails => QueryInv'
  <1> SUFFICES ASSUME QueryInv, ReadFails PROVE QueryInv'
    OBVIOUS
  <1>1. commits \in Nat /\ Good(m) /\ Heard(m) /\ m \in Machine
    BY DEF QueryInv, Good, Fits
  <1>2. PICK x \in m.reads :
          m' = Unqueue([m EXCEPT !.reads = @ \ {x}, !.error = TRUE, !.pendingFetch = 0])
    BY DEF ReadFails
  <1> DEFINE reads == m.reads \ {x}
             s == [m EXCEPT !.reads = reads, !.error = TRUE, !.pendingFetch = 0]
  <1>3. m' = Unqueue(s) /\ UNCHANGED <<commits, writing, news, subscribed>>
    BY <1>2 DEF ReadFails
  <1>4. reads \in SUBSET [id : Nat, stmt : Stmt]
    BY <1>1 DEF Machine
  <1>5. m.results = {} /\ reads = {}
    BY <1>1 DEF Good, Fits, FlightOK
  <1>6. /\ s \in Machine /\ s.data = m.data
        /\ s.query = m.query /\ s.bindings = m.bindings /\ s.stmt = m.stmt
        /\ s.pendingPrepare = m.pendingPrepare /\ s.pendingFetch = 0
        /\ s.queuedFetch = m.queuedFetch /\ s.queuedFetchRebind = m.queuedFetchRebind
        /\ s.disposed = m.disposed /\ s.prepares = m.prepares
        /\ s.reads = reads /\ s.results = m.results /\ s.last = m.last
    <2> HIDE DEF reads
    <2> QED BY <1>1, <1>4 DEF Machine
  <1> HIDE DEF s, reads
  <1>7. IdsOK(s)
    <2>1. m.last \in Nat
      BY <1>1 DEF Machine
    <2> QED BY <1>1, <1>5, <1>6, <2>1 DEF Good, Fits, IdsOK
  <1>8. FlightOK(s) /\ Idle(s)
    BY <1>5, <1>6 DEF FlightOK, Idle
  <1>9. WaitingOK(s)
    BY <1>1, <1>5, <1>6 DEF Good, Fits, WaitingOK, Idle
  <1>10. CurrentOK(s)
    BY <1>1, <1>5, <1>6 DEF Good, Fits, CurrentOK
  <1>11. Good(s) /\ Follows(m, s)
    BY <1>1, <1>5, <1>6, <1>7, <1>8, <1>9, <1>10 DEF Good, Fits, Follows, Bound, Listens, Idle
  <1>12. Good(Unqueue(s)) /\ Follows(s, Unqueue(s))
    BY <1>8, <1>11, UnqueueKeeps
  <1>13. Heard(Unqueue(s))
    BY <1>1, <1>11, <1>12, HeardFollows
  <1> QED BY <1>1, <1>3, <1>12, <1>13, KeptByMethod

-----------------------------------------------------------------------------
(***************************************************************************)
(* Whatever overtakes what - a change of query, of bindings or of the      *)
(* table, a prepare or a read that ends late or fails - an abandoned fetch *)
(* has another queued behind it, nothing is read before the statement that *)
(* is awaited is there, and what is read is of the query, the bindings and *)
(* the table as they are (AsyncResultStateMachine in queryHooks.ts).       *)
(***************************************************************************)
THEOREM QueryInvariant == Spec => []QueryInv
  <1>1. QueryInv /\ [Next]_vars => QueryInv'
    <2> SUFFICES ASSUME QueryInv, [Next]_vars PROVE QueryInv'
      OBVIOUS
    <2>1. CASE Component
      BY <2>1, GetSnapshotKeeps, RespondToQueryChangeKeeps, RespondToBindingsChangeKeeps,
         DisposeKeeps DEF Component
    <2>2. CASE Settle
      BY <2>2, RespondToDatabaseChangeKeeps, PrepareDoneKeeps, PrepareFailsKeeps, ReadKeeps,
         ReadDoneKeeps, ReadFailsKeeps DEF Settle
    <2>3. CASE Write \/ CommitWrite
      BY <2>3, WriterKeeps
    <2>4. CASE UNCHANGED vars
      BY <2>4 DEF vars, QueryInv, Heard, Listens, Idle
    <2> QED BY <2>1, <2>2, <2>3, <2>4 DEF Next
  <1> QED BY <1>1, InitGood, PTL DEF Spec

(***************************************************************************)
(* However often the query is invalidated while it is read, one read is    *)
(* under way at a time (OneReadAtATime, queryHooks.ts:171): a fetch is     *)
(* started only when none is in flight, and one in flight is awaited or    *)
(* has the queued one to keep others from being started.                   *)
(***************************************************************************)
THEOREM OneRead == Spec => []OneReadAtATime
  <1>1. QueryInv => OneReadAtATime
    <2> SUFFICES ASSUME QueryInv PROVE OneReadAtATime
      OBVIOUS
    <2> DEFINE u == m.reads \cup m.results
    <2>1. \A x, y \in u : x = y
      BY DEF QueryInv, Good, Fits, FlightOK
    <2>2. CASE u = {}
      BY <2>2, FS_EmptySet DEF OneReadAtATime
    <2>3. CASE u # {}
      <3>1. PICK x \in u : u = {x}
        BY <2>1, <2>3
      <3>2. Cardinality(u) = 1
        BY <3>1, FS_Singleton
      <3> QED BY <3>2 DEF OneReadAtATime
    <2> QED BY <2>2, <2>3
  <1> QED BY <1>1, QueryInvariant, PTL

(***************************************************************************)
(* The data a component is shown answers its current query, over the table *)
(* as it is unless its listeners are still to be told (DataIsFresh).       *)
(***************************************************************************)
THEOREM Fresh == Spec => []DataIsFresh
  <1>1. QueryInv => DataIsFresh
    BY DEF QueryInv, Good, Fits, CurrentOK, Heard, DataIsFresh
  <1> QED BY <1>1, QueryInvariant, PTL

(***************************************************************************)
(* The bindings it was read with are the current ones or none: never those *)
(* of before a change (BindingsAreNotStale).                               *)
(***************************************************************************)
THEOREM NotStale == Spec => []BindingsAreNotStale
  <1>1. QueryInv => BindingsAreNotStale
    BY DEF QueryInv, Good, Fits, CurrentOK, BindingsAreNotStale
  <1> QED BY <1>1, QueryInvariant, PTL

-----------------------------------------------------------------------------
\* Nothing is awaited in vain.  The strengthening: a statement is of a promise.

Named(q) == q.stmt # NoStmt => q.stmt.id # 0

\* Nothing keeps the machine from being asked, and the statement is there or comes.
Askable(q) ==
  /\ q \in Machine /\ Named(q)
  /\ q.pendingPrepare # 0 /\ q.stmt = NoStmt => \E p \in q.prepares : p.id = q.pendingPrepare

Apt(q) == Served(q) /\ Named(q)

ServedInv == interrupted \/ m.disposed \/ Apt(m)

LEMMA FetchInternalServes ==
  ASSUME NEW q \in Machine, NEW rebind \in BOOLEAN, q.stmt.id # 0
  PROVE  Apt(FetchInternal(q, rebind))
  <1> DEFINE r == FetchInternal(q, rebind)
             read == [id |-> q.last + 1, stmt |-> r.stmt]
             binds == rebind \/ q.queuedFetchRebind
             b == IF binds THEN q.bindings ELSE q.stmt.bindings
  <1>1. /\ r.pendingFetch = q.last + 1
        /\ r.reads = q.reads \cup {read}
    BY FetchInternalIs
  <1>2. r.stmt.id # 0
    <2> DEFINE stmt == [q.stmt EXCEPT !.bindings = b]
               n == q.last + 1
               later == q.queuedFetchRebind /\ ~binds
               reads == q.reads \cup {[id |-> n, stmt |-> stmt]}
    <2>1. q.stmt \in Stmt
      BY DEF Machine
    <2>2. stmt.id = q.stmt.id
      <3> HIDE DEF b
      <3> QED BY <2>1 DEF Stmt
    <2>3. r = [q EXCEPT !.stmt = stmt, !.queuedFetchRebind = later, !.pendingFetch = n,
                        !.last = n, !.reads = reads]
      BY DEF FetchInternal
    <2>4. r.stmt = stmt
      <3> HIDE DEF r, stmt, n, later, reads
      <3> QED BY <2>3 DEF Machine
    <2> HIDE DEF r, stmt
    <2> QED BY <2>2, <2>4
  <1>3. read \in UnderWay(r) /\ read.id = q.last + 1
    <2> HIDE DEF r
    <2> QED BY <1>1 DEF UnderWay
  <1>4. r.stmt # NoStmt
    <2> HIDE DEF r
    <2> QED BY <1>2 DEF NoStmt
  <1> HIDE DEF r, read
  <1> QED BY <1>1, <1>2, <1>3, <1>4 DEF Apt, Served, Named, r

LEMMA FetchServes ==
  ASSUME NEW q, NEW rebind \in BOOLEAN, Askable(q), ~q.queuedFetch, q.pendingPrepare # 0
  PROVE  Apt(Fetch(q, rebind))
  <1> DEFINE c == [q EXCEPT !.error = FALSE, !.data = NoData]
             n == q.last + 1
             f == [id |-> n, after |-> q.pendingPrepare]
             chained == c.chained \cup {f}
             r == [c EXCEPT !.pendingFetch = n, !.last = n, !.chained = chained]
  <1>1. q \in Machine
    BY DEF Askable
  <1>2. /\ c \in Machine /\ c.stmt = q.stmt /\ c.prepares = q.prepares
        /\ c.pendingPrepare = q.pendingPrepare /\ c.queuedFetch = q.queuedFetch
    BY <1>1, NothingYet DEF Machine
  <1>3. Fetch(q, rebind) = IF q.stmt # NoStmt THEN FetchInternal(c, rebind) ELSE r
    BY DEF Fetch
  <1>4. CASE q.stmt # NoStmt
    <2>1. c.stmt.id # 0
      <3> HIDE DEF c
      <3> QED BY <1>2, <1>4 DEF Askable, Named
    <2> HIDE DEF c
    <2> QED BY <1>2, <1>3, <1>4, <2>1, FetchInternalServes
  <1>5. CASE q.stmt = NoStmt
    <2>1. /\ r.stmt = c.stmt /\ r.prepares = c.prepares /\ r.pendingPrepare = c.pendingPrepare
          /\ r.queuedFetch = c.queuedFetch /\ r.pendingFetch = n /\ r.chained = chained
      <3> HIDE DEF c, n, chained
      <3> QED BY <1>2 DEF Machine
    <2>2. f.id = n /\ f.after = q.pendingPrepare /\ f \in chained
      OBVIOUS
    <2> HIDE DEF r, c, n, f, chained
    <2>3. PICK p \in q.prepares : p.id = q.pendingPrepare
      BY <1>5 DEF Askable
    <2>4. f \in UnderWay(r)
      BY <1>2, <2>1, <2>2, <2>3 DEF UnderWay
    <2>5. Served(r)
      BY <1>2, <2>1, <2>2, <2>3, <2>4 DEF Served
    <2> QED BY <1>2, <1>3, <1>5, <2>1, <2>5 DEF Apt, Named
  <1> QED BY <1>4, <1>5

LEMMA PullDataServes ==
  ASSUME NEW q \in Machine, NEW rebind \in BOOLEAN, Apt(q)
  PROVE  Apt(PullData(q, rebind))
  <1> DEFINE p == IF q.pendingPrepare = 0 THEN Prepare(q) ELSE q
  <1>1. PullData(q, rebind) =
          IF q.disposed \/ q.queuedFetch THEN q
          ELSE IF p.pendingFetch = 0 THEN Fetch(p, rebind) ELSE p
    BY DEF PullData
  <1>2. CASE q.disposed \/ q.queuedFetch
    BY <1>1, <1>2
  <1>3. CASE ~(q.disposed \/ q.queuedFetch) /\ q.pendingPrepare = 0
    <2> DEFINE o == [id |-> q.last + 1, query |-> q.query]
    <2>1. p = Prepare(q)
      BY <1>3
    <2>2. /\ p \in Machine /\ p.stmt = NoStmt
          /\ p.pendingPrepare = q.last + 1 /\ p.pendingFetch = 0
          /\ p.queuedFetch = q.queuedFetch
          /\ p.prepares = q.prepares \cup {o}
      BY <2>1, PrepareIs
    <2>3. q.last + 1 # 0 /\ o.id = q.last + 1
      BY DEF Machine
    <2> HIDE DEF p, o
    <2>4. Askable(p)
      BY <2>2, <2>3 DEF Askable, Named
    <2>5. Apt(Fetch(p, rebind))
      BY <1>3, <2>2, <2>3, <2>4, FetchServes
    <2> QED BY <1>1, <1>3, <2>2, <2>5
  <1>4. CASE ~(q.disposed \/ q.queuedFetch) /\ q.pendingPrepare # 0
    <2>1. p = q
      BY <1>4
    <2> HIDE DEF p
    <2>2. Askable(q)
      BY DEF Apt, Served, Askable
    <2>3. Apt(Fetch(q, rebind))
      BY <1>4, <2>2, FetchServes
    <2> QED BY <1>1, <1>4, <2>1, <2>3
  <1> QED BY <1>2, <1>3, <1>4

\* With no fetch awaited any more, the queued one is started or there is none.
LEMMA UnqueueServes ==
  ASSUME NEW q, Askable(q), q.pendingFetch = 0
  PROVE  Apt(Unqueue(q))
  <1> DEFINE r == [q EXCEPT !.queuedFetch = FALSE]
  <1>1. q \in Machine
    BY DEF Askable
  <1>2. /\ r \in Machine /\ r.queuedFetch = FALSE /\ r.pendingFetch = 0 /\ r.stmt = q.stmt
        /\ r.prepares = q.prepares /\ r.pendingPrepare = q.pendingPrepare
    BY <1>1 DEF Machine
  <1>3. Unqueue(q) = IF q.queuedFetch THEN PullData(r, FALSE) ELSE q
    BY DEF Unqueue
  <1> HIDE DEF r
  <1>4. Apt(r)
    BY <1>2 DEF Askable, Named, Apt, Served
  <1>5. Apt(PullData(r, FALSE))
    BY <1>2, <1>4, PullDataServes
  <1>6. ~q.queuedFetch => Apt(q)
    BY DEF Askable, Apt, Served
  <1> QED BY <1>3, <1>5, <1>6

\* An abandoned fetch is still under way for the one queued behind it; it would not be if
\* the prepare it is chained after were abandoned as well.
LEMMA CancelServes ==
  ASSUME NEW q, Apt(q), NEW r,
         r.pendingFetch = 0, r.stmt = q.stmt,
         r.pendingPrepare = q.pendingPrepare \/ (r.pendingPrepare = 0 /\ q.prepares = {}),
         r.queuedFetch = (q.queuedFetch \/ q.pendingFetch # 0),
         r.prepares = q.prepares, r.chained = q.chained,
         r.reads = q.reads, r.results = q.results
  PROVE  Apt(r)
  <1>1. UnderWay(q) \subseteq UnderWay(r)
    BY DEF UnderWay
  <1>2. r.queuedFetch => UnderWay(q) # {}
    BY DEF Apt, Served
  <1>3. r.queuedFetch => UnderWay(r) # {}
    BY <1>1, <1>2
  <1> QED BY <1>3 DEF Apt, Served, Named

LEMMA CancelChains ==
  ASSUME NEW q \in Machine
  PROVE  Cancel(q).chained = q.chained
  <1> DEFINE b == q.queuedFetch \/ q.pendingFetch # 0
  <1>1. Cancel(q) = [q EXCEPT !.queuedFetch = b, !.pendingFetch = 0, !.error = FALSE, !.data = NoData]
    BY DEF Cancel
  <1> HIDE DEF b
  <1> QED BY <1>1 DEF Machine

\* One lemma per action that the strengthening can be disturbed by.
LEMMA AskServes == QueryInv /\ ServedInv /\ GetSnapshot => ServedInv'
  <1> SUFFICES ASSUME QueryInv, ServedInv, GetSnapshot PROVE ServedInv'
    OBVIOUS
  <1>1. m \in Machine
    BY DEF QueryInv, Good, Fits
  <1>2. m' = PullData(m, FALSE) /\ interrupted' = interrupted /\ ~m.disposed
    BY DEF GetSnapshot
  <1>3. ~interrupted => Apt(PullData(m, FALSE))
    BY <1>1, <1>2, PullDataServes DEF ServedInv
  <1> HIDE DEF Apt
  <1> QED BY <1>2, <1>3 DEF ServedInv, Apt

LEMMA QueryChangeServes == QueryInv /\ ServedInv /\ RespondToQueryChange => ServedInv'
  <1> SUFFICES ASSUME QueryInv, ServedInv, RespondToQueryChange, ~interrupted'
               PROVE  Apt(m)'
    BY DEF ServedInv
  <1> DEFINE c == Cancel(m)
             n == c.query + 1
             r == [c EXCEPT !.query = n, !.pendingPrepare = 0]
  <1>1. m' = PullData(r, TRUE) /\ m.prepares = {} /\ ~interrupted /\ ~m.disposed
    BY DEF RespondToQueryChange
  <1>2. m \in Machine /\ Apt(m)
    BY <1>1 DEF QueryInv, Good, Fits, ServedInv
  <1>3. /\ c \in Machine /\ c.pendingFetch = 0 /\ c.stmt = m.stmt
        /\ c.queuedFetch = (m.queuedFetch \/ m.pendingFetch # 0)
        /\ c.prepares = m.prepares /\ c.chained = m.chained
        /\ c.reads = m.reads /\ c.results = m.results
    BY <1>2, CancelIs, CancelChains
  <1> HIDE DEF c
  <1>4. n \in Nat
    BY <1>3 DEF Machine
  <1>5. /\ r \in Machine /\ r.pendingFetch = 0 /\ r.pendingPrepare = 0 /\ r.stmt = m.stmt
        /\ r.queuedFetch = (m.queuedFetch \/ m.pendingFetch # 0)
        /\ r.prepares = m.prepares /\ r.chained = m.chained
        /\ r.reads = m.reads /\ r.results = m.results
    <2> HIDE DEF n
    <2> QED BY <1>3, <1>4 DEF Machine
  <1> HIDE DEF r
  <1>6. Apt(r)
    BY <1>1, <1>2, <1>5, CancelServes
  <1>7. Apt(PullData(r, TRUE))
    BY <1>5, <1>6, PullDataServes
  <1> QED BY <1>1, <1>7 DEF Apt, Served, UnderWay, Named

LEMMA BindingsChangeServes == QueryInv /\ ServedInv /\ RespondToBindingsChange => ServedInv'
  <1> SUFFICES ASSUME QueryInv, ServedInv, RespondToBindingsChange, ~interrupted'
               PROVE  Apt(m)'
    BY DEF ServedInv
  <1> DEFINE c == Cancel(m)
             n == c.bindings + 1
             later == c.queuedFetchRebind \/ c.queuedFetch
             r == [c EXCEPT !.bindings = n, !.queuedFetchRebind = later]
  <1>1. m' = PullData(r, TRUE) /\ ~interrupted /\ ~m.disposed
    BY DEF RespondToBindingsChange
  <1>2. m \in Machine /\ Apt(m)
    BY <1>1 DEF QueryInv, Good, Fits, ServedInv
  <1>3. /\ c \in Machine /\ c.pendingFetch = 0 /\ c.stmt = m.stmt
        /\ c.pendingPrepare = m.pendingPrepare
        /\ c.queuedFetch = (m.queuedFetch \/ m.pendingFetch # 0)
        /\ c.prepares = m.prepares /\ c.chained = m.chained
        /\ c.reads = m.reads /\ c.results = m.results
    BY <1>2, CancelIs, CancelChains
  <1> HIDE DEF c
  <1>4. n \in Nat /\ later \in BOOLEAN
    BY <1>3 DEF Machine
  <1>5. /\ r \in Machine /\ r.pendingFetch = 0 /\ r.pendingPrepare = m.pendingPrepare
        /\ r.stmt = m.stmt
        /\ r.queuedFetch = (m.queuedFetch \/ m.pendingFetch # 0)
        /\ r.prepares = m.prepares /\ r.chained = m.chained
        /\ r.reads = m.reads /\ r.results = m.results
    <2> HIDE DEF n, later
    <2> QED BY <1>3, <1>4 DEF Machine
  <1> HIDE DEF r
  <1>6. Apt(r)
    BY <1>2, <1>5, CancelServes
  <1>7. Apt(PullData(r, TRUE))
    BY <1>5, <1>6, PullDataServes
  <1> QED BY <1>1, <1>7 DEF Apt, Served, UnderWay, Named

LEMMA DatabaseChangeServes == QueryInv /\ ServedInv /\ RespondToDatabaseChange => ServedInv'
  <1> SUFFICES ASSUME QueryInv, ServedInv, RespondToDatabaseChange PROVE ServedInv'
    OBVIOUS
  <1> DEFINE r == Cancel(m)
  <1>1. /\ m' = IF subscribed /\ ~m.disposed THEN PullData(r, FALSE) ELSE m
        /\ interrupted' = interrupted
    BY DEF RespondToDatabaseChange
  <1>2. m \in Machine
    BY DEF QueryInv, Good, Fits
  <1>3. /\ r \in Machine /\ r.pendingFetch = 0 /\ r.stmt = m.stmt
        /\ r.pendingPrepare = m.pendingPrepare
        /\ r.queuedFetch = (m.queuedFetch \/ m.pendingFetch # 0)
        /\ r.prepares = m.prepares /\ r.chained = m.chained
        /\ r.reads = m.reads /\ r.results = m.results
    BY <1>2, CancelIs, CancelChains
  <1> HIDE DEF r
  <1>4. CASE subscribed /\ ~m.disposed /\ ~interrupted
    <2>1. Apt(r)
      BY <1>3, <1>4, CancelServes DEF ServedInv
    <2>2. Apt(PullData(r, FALSE))
      BY <1>3, <2>1, PullDataServes
    <2> QED BY <1>1, <1>4, <2>2 DEF ServedInv, Apt, Served, UnderWay, Named
  <1>5. CASE interrupted
    BY <1>1, <1>5 DEF ServedInv
  <1>6. CASE ~(subscribed /\ ~m.disposed)
    BY <1>1, <1>6 DEF ServedInv, Apt, Served, UnderWay, Named
  <1> QED BY <1>4, <1>5, <1>6

\* The prepare that was awaited lets the fetches chained after it go on: the one awaited
\* reads, or one that was abandoned starts the one queued.
LEMMA PrepareDoneServes == QueryInv /\ ServedInv /\ PrepareDone => ServedInv'
  <1> SUFFICES ASSUME QueryInv, ServedInv, PrepareDone, ~interrupted', ~m'.disposed
               PROVE  Apt(m)'
    BY DEF ServedInv
  <1>1. Good(m) /\ m \in Machine
    BY DEF QueryInv, Good, Fits
  <1>2. PICK p \in m.prepares :
          LET q == [m EXCEPT !.prepares = @ \ {p}]
          IN  IF m.pendingPrepare = p.id
              THEN /\ m' = RunChained([q EXCEPT !.stmt = [id |-> p.id, query |-> p.query, bindings |-> 0]], p)
                   /\ subscribed' = TRUE
                   /\ UNCHANGED <<commits, writing, news, interrupted>>
              ELSE /\ m' = [q EXCEPT !.chained = {f \in @ : f.after # p.id}]
                   /\ UNCHANGED <<commits, writing, news, subscribed, interrupted>>
    BY DEF PrepareDone
  <1>0. ~interrupted
    BY <1>2
  <1> DEFINE left == m.prepares \ {p}
  <1>3. p \in [id : Nat, query : Nat] /\ left \in SUBSET [id : Nat, query : Nat] /\ p.id # 0
    <2>1. p \in [id : Nat, query : Nat] /\ left \in SUBSET [id : Nat, query : Nat]
      BY <1>1 DEF Machine
    <2>2. 0 < p.id
      BY <1>1 DEF Good, Fits, IdsOK
    <2> QED BY <2>1, <2>2
  <1>4. CASE m.pendingPrepare = p.id
    <2> DEFINE stmt == [id |-> p.id, query |-> p.query, bindings |-> 0]
               r == [m EXCEPT !.prepares = left, !.stmt = stmt]
               fs == {f \in r.chained : f.after = p.id}
               chained == r.chained \ fs
               s == [r EXCEPT !.chained = chained]
    <2>1. m' = IF fs = {} THEN r
               ELSE IF \E f \in fs : r.pendingFetch = f.id THEN FetchInternal(s, TRUE)
               ELSE Unqueue(s)
      BY <1>2, <1>4 DEF RunChained
    <2>2. stmt \in Stmt /\ stmt # NoStmt /\ stmt.id = p.id
      BY <1>3 DEF Stmt, NoStmt
    <2>3. /\ r \in Machine /\ r.stmt = stmt
          /\ r.pendingPrepare = m.pendingPrepare /\ r.pendingFetch = m.pendingFetch
          /\ r.queuedFetch = m.queuedFetch
          /\ r.disposed = m.disposed /\ r.prepares = left /\ r.chained = m.chained
          /\ r.reads = m.reads /\ r.results = m.results
      <3> HIDE DEF left, stmt
      <3> QED BY <1>1, <1>3, <2>2 DEF Machine
    <2> HIDE DEF r, stmt
    <2>4. chained \in SUBSET [id : Nat, after : Nat]
      BY <2>3 DEF Machine
    <2>5. /\ s \in Machine /\ s.stmt = stmt
          /\ s.pendingPrepare = m.pendingPrepare /\ s.pendingFetch = m.pendingFetch
          /\ s.queuedFetch = m.queuedFetch /\ s.disposed = m.disposed
      <3> HIDE DEF chained
      <3> QED BY <2>3, <2>4 DEF Machine
    <2> HIDE DEF s
    <2>6. m.reads = {} /\ m.results = {}
      BY <1>1, <1>4 DEF Good, Fits, WaitingOK, Idle
    <2>7. UnderWay(m) \subseteq fs
      BY <1>4, <2>3, <2>6 DEF UnderWay
    <2>8. CASE m.disposed
      <3>1. m'.disposed
        <4>1. CASE fs = {}
          BY <2>1, <2>3, <2>8, <4>1
        <4>2. CASE fs # {} /\ \E f \in fs : r.pendingFetch = f.id
          BY <2>1, <2>5, <2>8, <4>2, FetchInternalIs
        <4>3. CASE fs # {} /\ ~(\E f \in fs : r.pendingFetch = f.id)
          <5> DEFINE u == [s EXCEPT !.queuedFetch = FALSE]
          <5>1. u.disposed
            BY <2>5, <2>8 DEF Machine
          <5>2. Unqueue(s) \in {s, u}
            BY <5>1 DEF Unqueue, PullData
          <5> HIDE DEF u
          <5> QED BY <2>1, <2>5, <2>8, <4>3, <5>1, <5>2
        <4> QED BY <4>1, <4>2, <4>3
      <3> QED BY <3>1
    <2>9. CASE ~m.disposed
      <3>1. Apt(m)
        BY <1>0, <2>9 DEF ServedInv
      <3>2. m.pendingFetch # 0 => \E f \in fs : f.id = m.pendingFetch
        BY <2>7, <3>1 DEF Apt, Served
      <3>3. m.queuedFetch => fs # {}
        BY <2>7, <3>1 DEF Apt, Served
      <3> HIDE DEF fs
      <3>4. CASE fs = {}
        <4>1. Apt(r)
          BY <1>3, <2>2, <2>3, <3>2, <3>3, <3>4 DEF Apt, Served, Named
        <4> QED BY <2>1, <3>4, <4>1 DEF Apt, Served, UnderWay, Named
      <3>5. CASE fs # {} /\ \E f \in fs : r.pendingFetch = f.id
        <4>1. Apt(FetchInternal(s, TRUE))
          BY <1>3, <2>2, <2>5, FetchInternalServes
        <4>2. m' = FetchInternal(s, TRUE)
          BY <2>1, <3>5
        <4> QED BY <4>1, <4>2 DEF Apt, Served, UnderWay, Named
      <3>6. CASE fs # {} /\ ~(\E f \in fs : r.pendingFetch = f.id)
        <4>1. s.pendingFetch = 0
          BY <2>3, <2>5, <3>2, <3>6
        <4>2. Askable(s)
          BY <1>3, <2>2, <2>5 DEF Askable, Named
        <4>3. Apt(Unqueue(s))
          BY <4>1, <4>2, UnqueueServes
        <4>4. m' = Unqueue(s)
          BY <2>1, <3>6
        <4> QED BY <4>3, <4>4 DEF Apt, Served, UnderWay, Named
      <3> QED BY <3>4, <3>5, <3>6
    <2> QED BY <2>8, <2>9
  <1>5. CASE m.pendingPrepare # p.id
    <2> DEFINE chained == {f \in m.chained : f.after # p.id}
               r == [m EXCEPT !.prepares = left, !.chained = chained]
    <2>1. m' = r
      BY <1>2, <1>5
    <2>2. chained \in SUBSET [id : Nat, after : Nat]
      BY <1>1 DEF Machine
    <2>3. /\ r.stmt = m.stmt /\ r.disposed = m.disposed
          /\ r.pendingPrepare = m.pendingPrepare /\ r.pendingFetch = m.pendingFetch
          /\ r.queuedFetch = m.queuedFetch /\ r.prepares = left /\ r.chained = chained
          /\ r.reads = m.reads /\ r.results = m.results
      <3> HIDE DEF left, chained
      <3> QED BY <1>1, <1>3, <2>2 DEF Machine
    <2> HIDE DEF r
    <2>4. Apt(m)
      BY <1>0, <2>1, <2>3 DEF ServedInv
    <2>5. UnderWay(m) \subseteq UnderWay(r)
      BY <1>5, <2>3 DEF UnderWay
    <2>6. m.pendingPrepare # 0 /\ m.stmt = NoStmt => \E o \in left : o.id = m.pendingPrepare
      BY <1>5, <2>4 DEF Apt, Served
    <2>7. Apt(r)
      <3>1. r.pendingFetch # 0 => \E f \in UnderWay(r) : f.id = r.pendingFetch
        BY <2>3, <2>4, <2>5 DEF Apt, Served
      <3>2. r.queuedFetch => UnderWay(r) # {}
        BY <2>3, <2>4, <2>5 DEF Apt, Served
      <3> QED BY <2>3, <2>4, <2>6, <3>1, <3>2 DEF Apt, Served, Named
    <2> QED BY <2>1, <2>7 DEF Apt, Served, UnderWay, Named
  <1> QED BY <1>4, <1>5

\* A read that has read is under way as before.
LEMMA ReadServes == QueryInv /\ ServedInv /\ Read => ServedInv'
  <1> SUFFICES ASSUME QueryInv, ServedInv, Read, ~interrupted', ~m'.disposed
               PROVE  Apt(m)'
    BY DEF ServedInv
  <1>1. m \in Machine /\ commits \in Nat
    BY DEF QueryInv, Good, Fits
  <1>2. PICK x \in m.reads :
          m' = [m EXCEPT !.reads = @ \ {x},
                         !.results = @ \cup {[id |-> x.id,
                                              data |-> [query |-> x.stmt.query,
                                                        bindings |-> x.stmt.bindings,
                                                        commits |-> commits]]}]
    BY DEF Read
  <1> DEFINE data == [query |-> x.stmt.query, bindings |-> x.stmt.bindings, commits |-> commits]
             y == [id |-> x.id, data |-> data]
             reads == m.reads \ {x}
             results == m.results \cup {y}
             r == [m EXCEPT !.reads = reads, !.results = results]
  <1>3. m' = r /\ y.id = x.id
    BY <1>2
  <1> HIDE DEF y
  <1>4. /\ r.stmt = m.stmt /\ r.disposed = m.disposed
        /\ r.pendingPrepare = m.pendingPrepare /\ r.pendingFetch = m.pendingFetch
        /\ r.queuedFetch = m.queuedFetch /\ r.prepares = m.prepares /\ r.chained = m.chained
        /\ r.reads = reads /\ r.results = results
    <2> HIDE DEF reads, results
    <2> QED BY <1>1 DEF Machine
  <1> HIDE DEF r
  <1>5. Apt(m)
    <2>1. interrupted' = interrupted
      BY DEF Read
    <2> QED BY <1>3, <1>4, <2>1 DEF ServedInv
  <1>6. \A f \in UnderWay(m) : \E g \in UnderWay(r) : g.id = f.id
    <2> SUFFICES ASSUME NEW f \in UnderWay(m) PROVE \E g \in UnderWay(r) : g.id = f.id
      OBVIOUS
    <2>1. CASE f = x
      <3>1. y \in UnderWay(r)
        BY <1>4 DEF UnderWay
      <3> QED BY <1>3, <2>1, <3>1
    <2>2. CASE f # x
      <3>1. f \in UnderWay(r)
        BY <1>4, <2>2 DEF UnderWay
      <3> QED BY <3>1
    <2> QED BY <2>1, <2>2
  <1>7. r.pendingFetch # 0 => \E f \in UnderWay(r) : f.id = r.pendingFetch
    BY <1>4, <1>5, <1>6 DEF Apt, Served
  <1>8. r.queuedFetch => UnderWay(r) # {}
    BY <1>4, <1>5, <1>6 DEF Apt, Served
  <1>9. Apt(r)
    BY <1>4, <1>5, <1>7, <1>8 DEF Apt, Served, Named
  <1> QED BY <1>3, <1>9 DEF Apt, Served, UnderWay, Named

\* A read ends, and with it whatever a queued fetch was queued behind.
LEMMA ReadDoneServes == QueryInv /\ ServedInv /\ ReadDone => ServedInv'
  <1> SUFFICES ASSUME QueryInv, ServedInv, ReadDone, ~interrupted', ~m'.disposed
               PROVE  Apt(m)'
    BY DEF ServedInv
  <1>1. Good(m) /\ m \in Machine
    BY DEF QueryInv, Good, Fits
  <1>2. PICK x \in m.results :
          LET q == [m EXCEPT !.results = @ \ {x}]
          IN  m' = IF q.pendingFetch # x.id
                   THEN LET unqueued == [q EXCEPT !.queuedFetch = FALSE]
                        IN  IF q.pendingFetch = 0 THEN PullData(unqueued, FALSE) ELSE unqueued
                   ELSE Unqueue([q EXCEPT !.data = x.data, !.pendingFetch = 0])
    BY DEF ReadDone
  <1> DEFINE results == m.results \ {x}
             q == [m EXCEPT !.results = results]
             u == [q EXCEPT !.queuedFetch = FALSE]
             s == [q EXCEPT !.data = x.data, !.pendingFetch = 0]
  <1>3. x \in [id : Nat, data : Data] /\ results \in SUBSET [id : Nat, data : Data]
    BY <1>1 DEF Machine
  <1>4. /\ q \in Machine /\ q.stmt = m.stmt /\ q.disposed = m.disposed
        /\ q.pendingPrepare = m.pendingPrepare /\ q.pendingFetch = m.pendingFetch
        /\ q.queuedFetch = m.queuedFetch /\ q.prepares = m.prepares
    <2> HIDE DEF results
    <2> QED BY <1>1, <1>3 DEF Machine
  <1>5. m' = IF q.pendingFetch # x.id
             THEN IF q.pendingFetch = 0 THEN PullData(u, FALSE) ELSE u
             ELSE Unqueue(s)
    BY <1>2
  <1> HIDE DEF q
  <1>6. /\ u \in Machine /\ u.stmt = m.stmt /\ u.pendingPrepare = m.pendingPrepare
        /\ u.pendingFetch = m.pendingFetch /\ u.queuedFetch = FALSE
        /\ u.prepares = m.prepares /\ u.disposed = m.disposed
    BY <1>4 DEF Machine
  <1>7. /\ s \in Machine /\ s.stmt = m.stmt /\ s.pendingPrepare = m.pendingPrepare
        /\ s.pendingFetch = 0
        /\ s.prepares = m.prepares /\ s.disposed = m.disposed
    BY <1>3, <1>4 DEF Machine
  <1> HIDE DEF u, s
  <1>8. m.pendingFetch # 0 => m.pendingFetch = x.id
    BY <1>1 DEF Good, Fits, FlightOK
  <1>9. m' = IF q.pendingFetch # x.id THEN PullData(u, FALSE) ELSE Unqueue(s)
    BY <1>4, <1>5, <1>8
  <1>10. CASE m.disposed
    <2>1. m' = PullData(u, FALSE) => m'.disposed
      BY <1>6, <1>10 DEF PullData
    <2>2. m' = Unqueue(s) => m'.disposed
      <3> DEFINE v == [s EXCEPT !.queuedFetch = FALSE]
      <3>1. v.disposed
        BY <1>7, <1>10 DEF Machine
      <3>2. Unqueue(s) \in {s, v}
        BY <3>1 DEF Unqueue, PullData
      <3> HIDE DEF v
      <3> QED BY <1>7, <1>10, <3>1, <3>2
    <2> QED BY <1>9, <2>1, <2>2
  <1>11. CASE ~m.disposed
    <2>1. Apt(m)
      <3>1. interrupted' = interrupted
        BY DEF ReadDone
      <3> QED BY <1>11, <3>1 DEF ServedInv
    <2>2. CASE q.pendingFetch # x.id
      <3>1. Apt(u)
        BY <1>4, <1>6, <1>8, <2>1, <2>2 DEF Apt, Served, Named
      <3>2. Apt(PullData(u, FALSE))
        BY <1>6, <3>1, PullDataServes
      <3> QED BY <1>9, <2>2, <3>2 DEF Apt, Served, UnderWay, Named
    <2>3. CASE q.pendingFetch = x.id
      <3>1. Askable(s)
        BY <1>7, <2>1 DEF Apt, Served, Named, Askable
      <3>2. Apt(Unqueue(s))
        BY <1>7, <3>1, UnqueueServes
      <3> QED BY <1>9, <2>3, <3>2 DEF Apt, Served, UnderWay, Named
    <2> QED BY <2>2, <2>3
  <1> QED BY <1>10, <1>11

LEMMA ReadFailsServes == QueryInv /\ ServedInv /\ ReadFails => ServedInv'
  <1> SUFFICES ASSUME QueryInv, ServedInv, ReadFails, ~interrupted', ~m'.disposed
               PROVE  Apt(m)'
    BY DEF ServedInv
  <1>1. m \in Machine
    BY DEF QueryInv, Good, Fits
  <1>2. PICK x \in m.reads :
          m' = Unqueue([m EXCEPT !.reads = @ \ {x}, !.error = TRUE, !.pendingFetch = 0])
    BY DEF ReadFails
  <1> DEFINE reads == m.reads \ {x}
             s == [m EXCEPT !.reads = reads, !.error = TRUE, !.pendingFetch = 0]
  <1>3. m' = Unqueue(s) /\ interrupted' = interrupted
    BY <1>2 DEF ReadFails
  <1>4. reads \in SUBSET [id : Nat, stmt : Stmt]
    BY <1>1 DEF Machine
  <1>5. /\ s \in Machine /\ s.stmt = m.stmt /\ s.pendingPrepare = m.pendingPrepare
        /\ s.pendingFetch = 0
        /\ s.prepares = m.prepares /\ s.disposed = m.disposed
    <2> HIDE DEF reads
    <2> QED BY <1>1, <1>4 DEF Machine
  <1> HIDE DEF s
  <1>6. CASE m.disposed
    <2> DEFINE v == [s EXCEPT !.queuedFetch = FALSE]
    <2>1. v.disposed
      BY <1>5, <1>6 DEF Machine
    <2>2. Unqueue(s) \in {s, v}
      BY <2>1 DEF Unqueue, PullData
    <2> HIDE DEF v
    <2> QED BY <1>3, <1>5, <1>6, <2>1, <2>2
  <1>7. CASE ~m.disposed
    <2>1. Apt(m)
      BY <1>3, <1>7 DEF ServedInv
    <2>2. Askable(s)
      BY <1>5, <2>1 DEF Apt, Served, Named, Askable
    <2>3. Apt(Unqueue(s))
      BY <1>5, <2>2, UnqueueServes
    <2> QED BY <1>3, <2>3 DEF Apt, Served, UnderWay, Named
  <1> QED BY <1>6, <1>7

LEMMA OtherwiseServed ==
  QueryInv /\ ServedInv /\ (Dispose \/ Write \/ CommitWrite \/ PrepareFails \/ UNCHANGED vars) => ServedInv'
  <1>1. ServedInv /\ PrepareFails => ServedInv'
    BY DEF PrepareFails, ServedInv
  <1>2. QueryInv /\ ServedInv /\ Dispose => ServedInv'
    <2> SUFFICES ASSUME QueryInv, Dispose PROVE m'.disposed
      BY DEF ServedInv
    <2>1. m \in Machine
      BY DEF QueryInv, Good, Fits
    <2> QED BY <2>1 DEF Dispose, Machine
  <1>3. ServedInv /\ m' = m /\ interrupted' = interrupted => ServedInv'
    BY DEF ServedInv, Apt, Served, UnderWay, Named
  <1> QED BY <1>1, <1>2, <1>3 DEF Write, CommitWrite, vars

(***************************************************************************)
(* No component waits for what nothing will bring                          *)
(* (NothingIsAwaitedInVain).  Until a query change overtakes a prepare or  *)
(* a prepare fails, the fetch that is awaited is being read or is chained  *)
(* after the prepare that is awaited, which runs; and a queued fetch,      *)
(* which keeps PullData from starting anything, has one under way to be    *)
(* started by when it ends (queryHooks.ts:400-487).  It is the safety half *)
(* of SettlesUnlessInterrupted: what is left to fairness is only that the  *)
(* promises settle.                                                        *)
(***************************************************************************)
THEOREM NoWaitInVain == Spec => []NothingIsAwaitedInVain
  <1>1. Init => ServedInv
    BY DEF Init, ServedInv, Apt, Served, Named
  <1>2. QueryInv /\ ServedInv /\ [Next]_vars => ServedInv'
    <2> SUFFICES ASSUME QueryInv, ServedInv, [Next]_vars PROVE ServedInv'
      OBVIOUS
    <2>1. CASE Dispose \/ Write \/ CommitWrite \/ PrepareFails \/ UNCHANGED vars
      BY <2>1, OtherwiseServed
    <2>2. CASE Component /\ ~Dispose
      BY <2>2, AskServes, QueryChangeServes, BindingsChangeServes DEF Component
    <2>3. CASE Settle /\ ~PrepareFails
      BY <2>3, DatabaseChangeServes, PrepareDoneServes, ReadServes, ReadDoneServes,
         ReadFailsServes DEF Settle
    <2> QED BY <2>1, <2>2, <2>3 DEF Next
  <1>3. ServedInv => NothingIsAwaitedInVain
    BY DEF ServedInv, Apt, NothingIsAwaitedInVain
  <1> QED BY <1>1, <1>2, <1>3, QueryInvariant, PTL DEF Spec

=============================================================================
