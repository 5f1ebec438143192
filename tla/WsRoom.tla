-------------------------------- MODULE WsRoom --------------------------------
(***************************************************************************)
(* The life of one room's database on the server: DBCache counts the       *)
(* SyncConnections that use it, the ConnectionBroker of a WebSocket makes  *)
(* and closes its SyncConnection, and IDBFactory.createDB may take time    *)
(* (the LiteFS factory asks the primary) or reject.  What a connection     *)
(* sends and receives is in WsServer; here only whether it has a database. *)
(*                                                                         *)
(* The server is one event loop: what waits for a promise goes on as soon  *)
(* as the promise is settled, before the next socket event (Quiet).        *)
(***************************************************************************)
EXTENDS Naturals, Sequences, FiniteSets

CONSTANTS
  Conn,      \* the WebSockets opened for the room
  Schema,    \* the schemas, with version, that clients announce
  MaxCloses  \* bound: how often one ConnectionBroker is closed

ASSUME ConstantsAssumption ==
  /\ IsFiniteSet(Conn)
  /\ MaxCloses \in Nat \ {0}

VARIABLES
  dbs,      \* the cache entries ever made, each with its DB
  current,  \* the entry the map holds for the room, 0 when none
  stage,    \* how far each broker is: only a "live" one has a SyncConnection
  asked,    \* the schema each client announced
  at,       \* the entry each broker holds a reference of
  closes,   \* how often the broker closed its SyncConnection
  socket,   \* what the WebSocket told the broker last
  crashed   \* an unhandled rejection ended the process

brokers == <<stage, asked, at, closes>>
vars == <<dbs, current, brokers, socket, crashed>>

Entry == [refs : Nat, by : Conn, file : {"creating", "ready", "failed", "closed"}]

Init ==
  /\ dbs = <<>> /\ current = 0
  /\ stage = [c \in Conn |-> "new"]
  /\ asked \in [Conn -> Schema]
  /\ at = [c \in Conn |-> 0] /\ closes = [c \in Conn |-> 0]
  /\ socket = [c \in Conn |-> "open"]
  /\ crashed = FALSE

Waiting(c) == stage[c] = "waiting"

\* The promise this broker waits for is settled.
Resumable(c) == Waiting(c) /\ dbs[at[c]].file # "creating"

Quiet == ~crashed /\ \A c \in Conn : ~Resumable(c)

-----------------------------------------------------------------------------
\* DBCache.unref goes by room, to whichever entry the room has now.  With no
\* entry, or an entry whose DB never came, a promise nobody awaits rejects.
Unref ==
  \/ /\ current = 0
     /\ crashed' = TRUE
     /\ UNCHANGED <<dbs, current>>
  \/ /\ current # 0 /\ dbs[current].refs > 1
     /\ dbs' = [dbs EXCEPT ![current].refs = @ - 1]
     /\ UNCHANGED <<current, crashed>>
  \/ /\ current # 0 /\ dbs[current].refs = 1
     /\ dbs' = [dbs EXCEPT ![current].refs = 0,
                           ![current].file = IF @ = "ready" THEN "closed" ELSE @]
     /\ current' = 0
     /\ crashed' = (dbs[current].file = "failed")

Announces(c) ==
  /\ Quiet
  /\ stage[c] = "new" /\ socket[c] = "open"
  /\ stage' = [stage EXCEPT ![c] = "waiting"]
  /\ UNCHANGED <<asked, closes, socket, crashed>>

\* getAndRef without an entry: the new one is in the map before createDB is done.
GetFirst(c) ==
  /\ current = 0
  /\ Announces(c)
  /\ dbs' = Append(dbs, [refs |-> 1, by |-> c, file |-> "creating"])
  /\ current' = Len(dbs) + 1
  /\ at' = [at EXCEPT ![c] = Len(dbs) + 1]

\* Mutant of GetAgain: the reference is not counted.
GetAgainUncounted(c) ==
  /\ current # 0
  /\ Announces(c)
  /\ at' = [at EXCEPT ![c] = current]
  /\ UNCHANGED <<dbs, current>>

\* Mutant of GetAgain: an entry whose DB is not there yet is not shared.
GetAgainUnshared(c) ==
  /\ current # 0
  /\ Announces(c)
  /\ dbs' = Append(dbs, [refs |-> 1, by |-> c, file |-> "creating"])
  /\ current' = Len(dbs) + 1
  /\ at' = [at EXCEPT ![c] = Len(dbs) + 1]

\* getAndRef with an entry: the reference is counted before the await.
GetAgain(c) ==
  /\ current # 0
  /\ Announces(c)
  /\ dbs' = [dbs EXCEPT ![current].refs = @ + 1]
  /\ at' = [at EXCEPT ![c] = current]
  /\ UNCHANGED current

\* createDB resolves; a DB that was unreferenced meanwhile is closed at once.
DbCreated(e) ==
  /\ Quiet
  /\ dbs[e].file = "creating"
  /\ dbs' = [dbs EXCEPT ![e].file = IF dbs[e].refs = 0 THEN "closed" ELSE "ready"]
  /\ UNCHANGED <<current, brokers, socket, crashed>>

\* createDB rejects; nothing takes the entry out of the map.
DbNotCreated(e) ==
  /\ Quiet
  /\ dbs[e].file = "creating"
  /\ dbs' = [dbs EXCEPT ![e].file = "failed"]
  /\ crashed' = (dbs[e].refs = 0)
  /\ UNCHANGED <<current, brokers, socket>>

-----------------------------------------------------------------------------
\* createSyncConnection goes on, whatever became of the WebSocket meanwhile.

Fits(c) == asked[c] = asked[dbs[at[c]].by]

Connect(c) ==
  /\ ~crashed
  /\ Resumable(c) /\ Fits(c)
  /\ dbs[at[c]].file = "ready"
  /\ stage' = [stage EXCEPT ![c] = "live"]
  /\ UNCHANGED <<dbs, current, asked, at, closes, socket, crashed>>

\* SyncConnection.start throws on a closed DB, and the broker closes it.
StartFails(c) ==
  /\ ~crashed
  /\ Resumable(c) /\ Fits(c)
  /\ dbs[at[c]].file = "closed"
  /\ stage' = [stage EXCEPT ![c] = "live"]
  /\ closes' = [closes EXCEPT ![c] = @ + 1]
  /\ Unref
  /\ UNCHANGED <<asked, at, socket>>

\* The broker that made the entry gives nothing back: the entry, with the
\* rejected promise and its reference, stays in the map.
CreatorRefused(c) ==
  /\ ~crashed
  /\ Resumable(c) /\ dbs[at[c]].by = c
  /\ dbs[at[c]].file = "failed"
  /\ stage' = [stage EXCEPT ![c] = "refused"]
  /\ UNCHANGED <<dbs, current, asked, at, closes, socket, crashed>>

\* Mutant of Refused: the reference is kept.
RefusedKeepsReference(c) ==
  /\ ~crashed
  /\ Resumable(c) /\ dbs[at[c]].by # c
  /\ dbs[at[c]].file = "failed" \/ ~Fits(c)
  /\ stage' = [stage EXCEPT ![c] = "refused"]
  /\ at' = [at EXCEPT ![c] = 0]
  /\ UNCHANGED <<dbs, current, crashed, asked, closes, socket>>

\* Everybody else counted one more reference, and gives it back.
Refused(c) ==
  /\ ~crashed
  /\ Resumable(c) /\ dbs[at[c]].by # c
  /\ dbs[at[c]].file = "failed" \/ ~Fits(c)
  /\ stage' = [stage EXCEPT ![c] = "refused"]
  /\ at' = [at EXCEPT ![c] = 0]
  /\ Unref
  /\ UNCHANGED <<asked, closes, socket>>

-----------------------------------------------------------------------------
\* ConnectionBroker.close: every call closes the SyncConnection, if there is
\* one; that stops its streams and gives a reference back.
Close(c) ==
  \/ /\ stage[c] = "live" /\ closes[c] < MaxCloses
     /\ closes' = [closes EXCEPT ![c] = @ + 1]
     /\ Unref
  \/ /\ stage[c] # "live"
     /\ UNCHANGED <<dbs, current, closes, crashed>>

\* The handling of a message throws: its transaction fails, or the DB is closed.
HandlerFails(c) ==
  /\ Quiet
  /\ socket[c] # "closed" /\ stage[c] = "live"
  /\ Close(c)
  /\ UNCHANGED <<stage, asked, at, socket>>

SocketErrors(c) ==
  /\ Quiet
  /\ socket[c] = "open"
  /\ socket' = [socket EXCEPT ![c] = "errored"]
  /\ Close(c)
  /\ UNCHANGED <<stage, asked, at>>

SocketCloses(c) ==
  /\ Quiet
  /\ socket[c] # "closed"
  /\ socket' = [socket EXCEPT ![c] = "closed"]
  /\ Close(c)
  /\ UNCHANGED <<stage, asked, at>>

Next ==
  \/ \E c \in Conn :
       \/ GetFirst(c) \/ GetAgain(c)
       \/ Connect(c) \/ StartFails(c) \/ CreatorRefused(c) \/ Refused(c)
       \/ HandlerFails(c) \/ SocketErrors(c) \/ SocketCloses(c)
  \/ \E e \in 1 .. Len(dbs) : DbCreated(e) \/ DbNotCreated(e)

Spec == Init /\ [][Next]_vars

-----------------------------------------------------------------------------
\* The cache stays a sequence of counted entries and brokers in their stages
\* (DBCache.#dbs, ConnectionBroker.#syncConnection).
TypeOK ==
  /\ dbs \in Seq(Entry) /\ current \in 0 .. Len(dbs)
  /\ stage \in [Conn -> {"new", "waiting", "live", "refused"}]
  /\ asked \in [Conn -> Schema]
  /\ at \in [Conn -> 0 .. Len(dbs)] /\ closes \in [Conn -> 0 .. MaxCloses]
  /\ socket \in [Conn -> {"open", "errored", "closed"}]
  /\ crashed \in BOOLEAN

\* Every broker was closed at most once, on whichever of its three occasions.
ClosedOnce == \A c \in Conn : closes[c] <= 1

\* A connection that is not closed has its DB: "It'll close the db on 0
\* references" (SyncConnection.close), and only then.
UsersHaveTheirDb ==
  \A c \in Conn : stage[c] = "live" /\ closes[c] = 0 => dbs[at[c]].file = "ready"

UsersHaveTheirDbIfClosedOnce == ClosedOnce => UsersHaveTheirDb

(***************************************************************************)
(* The count is exact: an entry has one reference for every broker that    *)
(* waits for it or uses it, one more for ever if its creation failed, and  *)
(* an entry that left the map has none (DBCache.getAndRef, unref).         *)
(***************************************************************************)
Users(e) == {c \in Conn : at[c] = e /\ closes[c] = 0}

RefsCountUsers ==
  ClosedOnce =>
    \A e \in 1 .. Len(dbs) :
      /\ dbs[e].refs = Cardinality(Users(e))
      /\ e # current => Users(e) = {}

\* The room's file is never open twice; the change notifications rely on it:
\* "all connections share the same DB instance" (DB.#notifyOfChange).
OneOpenDb ==
  ClosedOnce => \A d, e \in 1 .. Len(dbs) :
    dbs[d].file \in {"creating", "ready"} /\ dbs[e].file \in {"creating", "ready"} => d = e

\* As long as every broker is closed once the process lives.
NoIllegalState == ClosedOnce => ~crashed

(***************************************************************************)
(* Why these hold while every broker is closed once: whoever uses an entry *)
(* uses the one in the map, so a reference is given back where it was      *)
(* counted; nobody is live on a database that is not there yet; and the    *)
(* creator of a failed entry never leaves it (DBCache.getAndRef, unref).   *)
(***************************************************************************)
StagesOK ==
  \A c \in Conn :
    /\ stage[c] = "new" => at[c] = 0
    /\ stage[c] \in {"waiting", "live"} => at[c] # 0
    /\ stage[c] # "live" => closes[c] = 0

EntryOK(e) ==
  /\ e # current => dbs[e].file \in {"closed", "failed"}
  /\ e = current => dbs[e].file # "closed" /\ Users(e) # {}
  /\ e = current /\ dbs[e].file \in {"creating", "failed"} =>
       /\ dbs[e].by \in Users(e)
       /\ \A c \in Users(e) : stage[c] # "live"
  /\ dbs[e].file = "creating" => \A c \in Users(e) : stage[c] = "waiting"

RoomInv ==
  /\ StagesOK
  /\ RefsCountUsers /\ UsersHaveTheirDbIfClosedOnce /\ NoIllegalState
  /\ ClosedOnce => \A e \in 1 .. Len(dbs) : EntryOK(e)
=============================================================================
