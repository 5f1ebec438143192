------------------------------ MODULE P2PProofs ------------------------------
(***************************************************************************)
(* Theorems about P2P for any sites, writes, connections and failures: a   *)
(* recorded version promises every change below it, over a single          *)
(* connection it never goes back, and when nothing is on its way connected *)
(* sites have each other's writes.                                         *)
(***************************************************************************)
EXTENDS P2P, FiniteSetTheorems, SequenceTheorems, TLAPS

-----------------------------------------------------------------------------
\* The inductive invariant.  A recorded version is right because every answer on its
\* way says enough: with the changes it carries, its receiver has all that the sender
\* had up to each version it names.

Message ==
  [tag : {"poke"}, version : Nat] \cup [tag : {"request-changes"}, since : Nat]
    \cup [tag : {"apply-changes"}, changes : SUBSET (Nat \X Change)]

Connection ==
  [by : Site, down : BOOLEAN, end : [Site -> {"none", "opening", "open", "closed"}]]

TypeInv ==
  /\ log \in [Site -> Seq(SUBSET Change)]
  /\ peers \in [Site -> [Site -> Nat]]
  /\ conns \in Seq(Connection) /\ Len(conns) <= MaxConns
  /\ established \in [Site -> [Site -> Nat]]
  /\ wire \in [Conn -> [Site -> Seq(Message)]]
  /\ writes \in Nat

\* A connection is between two sites.
PairsOK ==
  \A c \in DOMAIN conns : \E a, b \in Site :
    a # b /\ \A e \in Site : conns[c].end[e] # "none" <=> e \in {a, b}

\* The connection a site has of a peer is one between the two.
EstablishedOK ==
  \A s, p \in Site : established[s][p] # 0 =>
    established[s][p] \in DOMAIN conns /\ Joins(established[s][p], s, p)

\* Nothing is on its way over what has not been opened yet.
UnusedOK == \A c \in Conn, s \in Site : c \notin DOMAIN conns => wire[c][s] = <<>>

\* s has all that p had by version n, but for its own.
Knows(s, p, n) ==
  n \in 0 .. Len(log[p]) /\ \A v \in 1 .. n : {ch \in log[p][v] : ch[1] # s} \subseteq Holds(s)

\* A version of p that brought something s did not make.
Foreign(s, p, v) == v \in DOMAIN log[p] /\ \E ch \in log[p][v] : ch[1] # s

PeersOK ==
  \A s, p \in Site : Knows(s, p, peers[s][p]) /\ (peers[s][p] # 0 => Foreign(s, p, peers[s][p]))

\* What s gets from p: an answer to s, a request for what s had.
AnswerOK(changes, s, p) ==
  \A row \in changes :
    /\ Foreign(s, p, row[1])
    /\ \A v \in 1 .. row[1] :
         {ch \in log[p][v] : ch[1] # s} \subseteq Holds(s) \cup {r[2] : r \in changes}

MessageOK(msg, s, p) ==
  /\ msg.tag = "request-changes" => Knows(p, s, msg.since)
  /\ msg.tag = "apply-changes" => AnswerOK(msg.changes, s, p)

WireOK ==
  \A c \in DOMAIN conns : \A s, p \in Site :
    Joins(c, s, p) =>
      \A msg \in Message : (\E i \in DOMAIN wire[c][s] : wire[c][s][i] = msg) => MessageOK(msg, s, p)

TracksInv == TypeInv /\ PairsOK /\ EstablishedOK /\ UnusedOK /\ PeersOK /\ WireOK

\* Over a single connection answers come in the order of the versions they reach,
\* and none ends below what is recorded.
Only(c, s, p) == Joins(c, s, p) /\ \A d \in DOMAIN conns : Joins(d, s, p) => d = c

Reaches(msg, v) == msg.tag = "apply-changes" => \E row \in msg.changes : v <= row[1]

Ordered(q) ==
  \A i, j \in DOMAIN q : i < j /\ q[i].tag = "apply-changes" =>
    \A row \in q[i].changes : Reaches(q[j], row[1])

OrderOK ==
  \A c \in DOMAIN conns : \A s, p \in Site : Only(c, s, p) =>
    Ordered(wire[c][s]) /\ \A i \in DOMAIN wire[c][s] : Reaches(wire[c][s][i], peers[s][p])

-----------------------------------------------------------------------------
\* What a step does: logs only grow, who is joined stays so, and each wire loses a
\* part and gets at most one message, which is right and as recent as can be.

LogGrows ==
  \A p \in Site : /\ Len(log[p]) <= Len(log'[p])
                  /\ \A v \in DOMAIN log[p] : log'[p][v] = log[p][v]

EndsStay ==
  \A c \in DOMAIN conns, s \in Site :
    c \in DOMAIN conns' /\ (conns'[c].end[s] # "none" <=> conns[c].end[s] # "none")

Part(q, r) == \E o \in Nat : \A i \in DOMAIN q : i + o \in DOMAIN r /\ q[i] = r[i + o]

Fresh(msg, s, p) ==
  MessageOK(msg, s, p) /\ \A v \in Nat : (v = 0 \/ Foreign(s, p, v)) => Reaches(msg, v)

WireMoves(c, s, p) ==
  \E q \in Seq(Message) :
    /\ Part(q, wire[c][s])
    /\ \/ wire'[c][s] = q
       \/ \E msg \in Message : Fresh(msg, s, p) /\ wire'[c][s] = Append(q, msg)

WiresMove ==
  \A c \in DOMAIN conns : \A s, p \in Site : Joins(c, s, p) => WireMoves(c, s, p)

LEMMA LogTypes ==
  ASSUME TypeInv, NEW p \in Site
  PROVE  log[p] \in Seq(SUBSET Change) /\ Len(log[p]) \in Nat /\ DOMAIN log[p] = 1 .. Len(log[p])
  <1>1. log[p] \in Seq(SUBSET Change)
    BY DEF TypeInv
  <1> QED BY <1>1, LenProperties

LEMMA HoldsStays ==
  ASSUME TypeInv, TypeInv', LogGrows, NEW s \in Site
  PROVE  Holds(s) \subseteq Holds(s)' /\ DOMAIN log[s] \subseteq DOMAIN log'[s]
  <1>1. DOMAIN log[s] = 1 .. Len(log[s]) /\ Len(log[s]) \in Nat
    BY LogTypes
  <1>2. DOMAIN log'[s] = 1 .. Len(log'[s]) /\ Len(log'[s]) \in Nat
    <2>1. log'[s] \in Seq(SUBSET Change)
      BY DEF TypeInv
    <2> QED BY <2>1, LenProperties
  <1>3. Len(log[s]) <= Len(log'[s]) /\ \A v \in DOMAIN log[s] : log'[s][v] = log[s][v]
    BY DEF LogGrows
  <1>4. DOMAIN log[s] \subseteq DOMAIN log'[s]
    BY <1>1, <1>2, <1>3
  <1>5. Holds(s) \subseteq Holds(s)'
    BY <1>3, <1>4 DEF Holds
  <1> QED BY <1>4, <1>5

LEMMA KnowsStays ==
  ASSUME TypeInv, TypeInv', LogGrows, NEW s \in Site, NEW p \in Site, NEW n, Knows(s, p, n)
  PROVE  Knows(s, p, n)'
  <1>1. DOMAIN log[p] = 1 .. Len(log[p]) /\ Len(log[p]) \in Nat /\ Len(log[p]) <= Len(log'[p])
    BY LogTypes DEF LogGrows
  <1>2. Len(log'[p]) \in Nat
    <2>1. log'[p] \in Seq(SUBSET Change)
      BY DEF TypeInv
    <2> QED BY <2>1, LenProperties
  <1>3. n \in 0 .. Len(log[p]) /\ n \in 0 .. Len(log'[p])
    BY <1>1, <1>2 DEF Knows
  <1>4. ASSUME NEW v \in 1 .. n
        PROVE  {ch \in log'[p][v] : ch[1] # s} \subseteq Holds(s)'
    <2>1. v \in DOMAIN log[p]
      BY <1>1, <1>3
    <2>2. log'[p][v] = log[p][v]
      BY <2>1 DEF LogGrows
    <2>3. {ch \in log[p][v] : ch[1] # s} \subseteq Holds(s)
      BY DEF Knows
    <2> QED BY <2>2, <2>3, HoldsStays
  <1> QED BY <1>3, <1>4 DEF Knows

LEMMA ForeignStays ==
  ASSUME TypeInv, TypeInv', LogGrows, NEW s \in Site, NEW p \in Site, NEW v, Foreign(s, p, v)
  PROVE  Foreign(s, p, v)'
  BY HoldsStays DEF Foreign, LogGrows

LEMMA MessageStays ==
  ASSUME TypeInv, TypeInv', LogGrows, NEW s \in Site, NEW p \in Site, NEW msg \in Message,
         MessageOK(msg, s, p)
  PROVE  MessageOK(msg, s, p)'
  <1>1. CASE msg.tag = "request-changes"
    BY <1>1, KnowsStays DEF MessageOK
  <1>2. ASSUME msg.tag = "apply-changes", NEW row \in msg.changes, NEW v \in 1 .. row[1]
        PROVE  {ch \in log'[p][v] : ch[1] # s} \subseteq Holds(s)' \cup {r[2] : r \in msg.changes}
    <2>1. AnswerOK(msg.changes, s, p)
      BY <1>2 DEF MessageOK
    <2>2. row[1] \in DOMAIN log[p] /\ {ch \in log[p][v] : ch[1] # s} \subseteq Holds(s) \cup {r[2] : r \in msg.changes}
      BY <2>1 DEF AnswerOK, Foreign
    <2>3. v \in DOMAIN log[p]
      BY <2>2, LogTypes
    <2>4. log'[p][v] = log[p][v]
      BY <2>3 DEF LogGrows
    <2> QED BY <2>2, <2>4, HoldsStays
  <1>3. CASE msg.tag = "apply-changes"
    BY <1>2, <1>3, ForeignStays DEF MessageOK, AnswerOK
  <1> QED BY <1>1, <1>3 DEF MessageOK

LEMMA WireStep ==
  ASSUME TracksInv, TypeInv', LogGrows, EndsStay, WiresMove,
         NEW c \in DOMAIN conns, NEW s \in Site, NEW p \in Site, Joins(c, s, p),
         NEW m \in Message, NEW i \in DOMAIN wire'[c][s], wire'[c][s][i] = m
  PROVE  MessageOK(m, s, p)'
  <1>0. TypeInv
    BY DEF TracksInv
  <1>1. PICK q \in Seq(Message) :
          /\ Part(q, wire[c][s])
          /\ \/ wire'[c][s] = q
             \/ \E msg \in Message : Fresh(msg, s, p) /\ wire'[c][s] = Append(q, msg)
    BY DEF WiresMove, WireMoves
  <1>2. ASSUME NEW k \in DOMAIN q
        PROVE  q[k] \in Message /\ MessageOK(q[k], s, p)
    <2>1. \E o \in Nat : k + o \in DOMAIN wire[c][s] /\ q[k] = wire[c][s][k + o]
      BY <1>1 DEF Part
    <2>2. q[k] \in Message
      BY ElementOfSeq, LenProperties
    <2>3. MessageOK(q[k], s, p)
      BY <2>1, <2>2 DEF TracksInv, WireOK
    <2> QED BY <2>2, <2>3
  <1>3. CASE wire'[c][s] = q
    BY <1>0, <1>2, <1>3, MessageStays
  <1>4. ASSUME NEW msg \in Message, Fresh(msg, s, p), wire'[c][s] = Append(q, msg)
        PROVE  MessageOK(m, s, p)'
    <2>1. m = msg \/ (i \in DOMAIN q /\ m = q[i])
      BY <1>4, AppendProperties, LenProperties
    <2>2. MessageOK(msg, s, p)
      BY <1>4 DEF Fresh
    <2> QED BY <1>0, <1>2, <2>1, <2>2, MessageStays
  <1> QED BY <1>1, <1>3, <1>4

LEMMA JoinsStay ==
  ASSUME EndsStay, NEW c \in DOMAIN conns, NEW s \in Site, NEW p \in Site
  PROVE  c \in DOMAIN conns' /\ (Joins(c, s, p)' <=> Joins(c, s, p))
  BY DEF EndsStay, Joins

LEMMA OrderStep ==
  ASSUME TracksInv, OrderOK, TypeInv', EndsStay, WiresMove,
         NEW c \in DOMAIN conns, NEW s \in Site, NEW p \in Site, Only(c, s, p)
  PROVE  /\ Ordered(wire'[c][s])
         /\ \A i \in DOMAIN wire'[c][s] : Reaches(wire'[c][s][i], peers[s][p])
  <1>0. TypeInv /\ Joins(c, s, p) /\ peers[s][p] \in Nat
    <2>1. TypeInv
      BY DEF TracksInv
    <2>2. Joins(c, s, p)
      BY DEF Only
    <2>3. peers[s][p] \in Nat
      BY <2>1 DEF TypeInv
    <2> QED BY <2>1, <2>2, <2>3
  <1>1. PICK q \in Seq(Message) :
          /\ Part(q, wire[c][s])
          /\ \/ wire'[c][s] = q
             \/ \E msg \in Message : Fresh(msg, s, p) /\ wire'[c][s] = Append(q, msg)
    BY <1>0 DEF WiresMove, WireMoves
  <1>2. PICK o \in Nat : \A i \in DOMAIN q : i + o \in DOMAIN wire[c][s] /\ q[i] = wire[c][s][i + o]
    BY <1>1 DEF Part
  <1>3. DOMAIN q = 1 .. Len(q) /\ Len(q) \in Nat
    BY LenProperties
  <1>4. Ordered(wire[c][s]) /\ \A i \in DOMAIN wire[c][s] : Reaches(wire[c][s][i], peers[s][p])
    BY DEF OrderOK
  <1>5. Ordered(q) /\ \A i \in DOMAIN q : Reaches(q[i], peers[s][p])
    <2>1. ASSUME NEW i \in DOMAIN q, NEW j \in DOMAIN q, i < j, q[i].tag = "apply-changes",
                 NEW row \in q[i].changes
          PROVE  Reaches(q[j], row[1])
      <3>1. i + o < j + o
        BY <1>3, <2>1
      <3> QED BY <1>2, <1>4, <2>1, <3>1 DEF Ordered
    <2>2. Ordered(q)
      BY <2>1 DEF Ordered
    <2> QED BY <1>2, <1>4, <2>2
  <1>6. CASE wire'[c][s] = q
    BY <1>5, <1>6
  <1>7. ASSUME NEW msg \in Message, Fresh(msg, s, p), wire'[c][s] = Append(q, msg)
        PROVE  /\ Ordered(wire'[c][s])
               /\ \A i \in DOMAIN wire'[c][s] : Reaches(wire'[c][s][i], peers[s][p])
    <2> PICK r : r = Append(q, msg)
      OBVIOUS
    <2>1. /\ DOMAIN r = 1 .. Len(q) + 1 /\ r[Len(q) + 1] = msg
          /\ \A i \in DOMAIN q : i \in DOMAIN r /\ r[i] = q[i]
      BY <1>3, AppendProperties, LenProperties
    <2>2. Reaches(msg, peers[s][p])
      BY <1>0, <1>7 DEF Fresh, TracksInv, PeersOK
    <2>3. ASSUME NEW i \in DOMAIN q, q[i].tag = "apply-changes", NEW row \in q[i].changes
          PROVE  Reaches(msg, row[1])
      <3>1. q[i] \in Message
        BY <1>3, ElementOfSeq
      <3>2. MessageOK(q[i], s, p)
        BY <1>0, <1>2, <3>1 DEF TracksInv, WireOK
      <3>3. Foreign(s, p, row[1])
        BY <2>3, <3>2 DEF MessageOK, AnswerOK
      <3>4. row[1] \in Nat
        BY <1>0, <3>3, LogTypes DEF Foreign
      <3> QED BY <1>7, <3>3, <3>4 DEF Fresh
    <2>4. \A i \in DOMAIN r : i \in DOMAIN q \/ i = Len(q) + 1
      BY <1>3, <2>1
    <2>5. \A i \in DOMAIN r : Reaches(r[i], peers[s][p])
      BY <1>5, <2>1, <2>2, <2>4
    <2>6. ASSUME NEW i \in DOMAIN r, NEW j \in DOMAIN r, i < j, r[i].tag = "apply-changes",
                 NEW row \in r[i].changes
          PROVE  Reaches(r[j], row[1])
      <3>1. i \in DOMAIN q /\ r[i] = q[i]
        BY <1>3, <2>1, <2>6
      <3>2. CASE j \in DOMAIN q
        BY <1>5, <2>1, <2>6, <3>1, <3>2 DEF Ordered
      <3>3. CASE j = Len(q) + 1
        BY <2>1, <2>3, <2>6, <3>1, <3>3
      <3> QED BY <2>4, <3>2, <3>3
    <2>7. Ordered(r)
      BY <2>6 DEF Ordered
    <2> QED BY <1>7, <2>5, <2>7
  <1> QED BY <1>1, <1>6, <1>7

LEMMA Combine ==
  ASSUME TracksInv, TypeInv', PairsOK', EstablishedOK', UnusedOK', PeersOK',
         LogGrows, EndsStay, WiresMove,
         \A c \in DOMAIN conns' : c \in DOMAIN conns \/ \A s \in Site : wire'[c][s] = <<>>
  PROVE  TracksInv'
  <1>1. ASSUME NEW c \in DOMAIN conns', NEW s \in Site, NEW p \in Site, Joins(c, s, p)',
               NEW m \in Message, NEW i \in DOMAIN wire'[c][s], wire'[c][s][i] = m
        PROVE  MessageOK(m, s, p)'
    <2>1. c \in DOMAIN conns
      BY <1>1
    <2>2. Joins(c, s, p)
      BY <1>1, <2>1, JoinsStay
    <2> QED BY <1>1, <2>1, <2>2, WireStep
  <1>2. WireOK'
    BY <1>1 DEF WireOK
  <1> QED BY <1>2 DEF TracksInv

LEMMA OnlyWas ==
  ASSUME EndsStay, NEW c \in DOMAIN conns, NEW s \in Site, NEW p \in Site, Only(c, s, p)'
  PROVE  Only(c, s, p)
  <1>1. Joins(c, s, p)' /\ \A d \in DOMAIN conns' : Joins(d, s, p)' => d = c
    BY DEF Only
  <1>2. Joins(c, s, p)
    BY <1>1, JoinsStay
  <1>3. ASSUME NEW d \in DOMAIN conns, Joins(d, s, p) PROVE d = c
    BY <1>1, <1>3, JoinsStay
  <1> QED BY <1>2, <1>3 DEF Only

LEMMA CombineOrder ==
  ASSUME TracksInv, OrderOK, TypeInv', EndsStay, WiresMove, peers' = peers,
         \A c \in DOMAIN conns' : c \in DOMAIN conns \/ \A s \in Site : wire'[c][s] = <<>>
  PROVE  OrderOK'
  <1>1. ASSUME NEW c \in DOMAIN conns', NEW s \in Site, NEW p \in Site, Only(c, s, p)'
        PROVE  /\ Ordered(wire'[c][s])
               /\ \A i \in DOMAIN wire'[c][s] : Reaches(wire'[c][s][i], peers'[s][p])
    <2>1. CASE wire'[c][s] = <<>>
      BY <2>1 DEF Ordered
    <2>2. CASE c \in DOMAIN conns
      <3>1. Only(c, s, p)
        BY <1>1, <2>2, OnlyWas
      <3> QED BY <2>2, <3>1, OrderStep
    <2> QED BY <2>1, <2>2
  <1> QED BY <1>1 DEF OrderOK

LEMMA SamePeers ==
  ASSUME TracksInv, TypeInv', LogGrows, peers' = peers
  PROVE  PeersOK'
  <1>1. TypeInv
    BY DEF TracksInv
  <1>2. ASSUME NEW s \in Site, NEW p \in Site
        PROVE  /\ Knows(s, p, peers[s][p])'
               /\ peers[s][p] # 0 => Foreign(s, p, peers[s][p])'
    <2> PICK n : n = peers[s][p]
      OBVIOUS
    <2>1. Knows(s, p, n) /\ (n # 0 => Foreign(s, p, n))
      BY DEF TracksInv, PeersOK
    <2>2. Knows(s, p, n)' /\ (n # 0 => Foreign(s, p, n)')
      BY <1>1, <2>1, KnowsStays, ForeignStays
    <2> QED BY <2>2 DEF Knows, Foreign
  <1> QED BY <1>2 DEF PeersOK

-----------------------------------------------------------------------------
\* What the operators return.

LEMMA ConnTypes ==
  ASSUME TypeInv
  PROVE  /\ conns \in Seq(Connection) /\ DOMAIN conns = 1 .. Len(conns) /\ Len(conns) \in Nat
         /\ DOMAIN conns \subseteq Conn
         /\ \A c \in DOMAIN conns : conns[c] \in Connection
  <1>1. conns \in Seq(Connection) /\ Len(conns) <= MaxConns /\ MaxConns \in Nat
    BY ConstantsAssumption DEF TypeInv
  <1>2. DOMAIN conns = 1 .. Len(conns) /\ Len(conns) \in Nat
    BY <1>1, LenProperties
  <1>3. \A c \in DOMAIN conns : conns[c] \in Connection
    BY <1>1, <1>2, ElementOfSeq
  <1> QED BY <1>1, <1>2, <1>3 DEF Conn

LEMMA WireTypes ==
  ASSUME TypeInv, NEW c \in DOMAIN conns, NEW s \in Site
  PROVE  /\ c \in Conn /\ wire[c][s] \in Seq(Message)
         /\ DOMAIN wire[c][s] = 1 .. Len(wire[c][s]) /\ Len(wire[c][s]) \in Nat
  <1>1. c \in Conn /\ wire[c][s] \in Seq(Message)
    BY ConnTypes DEF TypeInv
  <1> QED BY <1>1, LenProperties

LEMMA ConnChange ==
  ASSUME TypeInv, NEW c \in DOMAIN conns, NEW k \in Connection,
         conns' = [conns EXCEPT ![c] = k],
         \A e \in Site : k.end[e] # "none" <=> conns[c].end[e] # "none"
  PROVE  /\ conns' \in Seq(Connection) /\ Len(conns') = Len(conns)
         /\ DOMAIN conns' = DOMAIN conns /\ EndsStay
  <1>1. conns \in Seq(Connection) /\ c \in 1 .. Len(conns)
    BY ConnTypes
  <1>2. conns' \in Seq(Connection) /\ Len(conns') = Len(conns)
    BY <1>1, ExceptSeq
  <1>3. DOMAIN conns' = DOMAIN conns
    OBVIOUS
  <1>4. EndsStay
    BY <1>3 DEF EndsStay
  <1> QED BY <1>2, <1>3, <1>4

LEMMA PairsStay ==
  ASSUME PairsOK, EndsStay, DOMAIN conns' = DOMAIN conns
  PROVE  PairsOK'
  <1>1. ASSUME NEW c \in DOMAIN conns
        PROVE  \E a, b \in Site : a # b /\ \A e \in Site : conns'[c].end[e] # "none" <=> e \in {a, b}
    BY DEF PairsOK, EndsStay
  <1> QED BY <1>1 DEF PairsOK

LEMMA EstablishedStays ==
  ASSUME EstablishedOK, EndsStay,
         \A s, p \in Site : established'[s][p] \in {0, established[s][p]}
  PROVE  EstablishedOK'
  <1>1. ASSUME NEW s \in Site, NEW p \in Site, established'[s][p] # 0
        PROVE  \E c \in DOMAIN conns' : c = established'[s][p] /\ Joins(c, s, p)'
    <2>1. PICK c : c = established[s][p]
      OBVIOUS
    <2>2. c \in DOMAIN conns /\ Joins(c, s, p) /\ established'[s][p] = c
      BY <1>1, <2>1 DEF EstablishedOK
    <2> QED BY <2>2, JoinsStay
  <1> QED BY <1>1 DEF EstablishedOK, Joins

LEMMA PeerIs ==
  ASSUME PairsOK, NEW c \in DOMAIN conns, NEW s \in Site, conns[c].end[s] # "none"
  PROVE  /\ PeerAt(c, s) \in Site /\ PeerAt(c, s) # s /\ Joins(c, s, PeerAt(c, s))
         /\ \A p \in Site : Joins(c, s, p) => p = PeerAt(c, s)
  <1>1. PICK a, b \in Site : a # b /\ \A e \in Site : conns[c].end[e] # "none" <=> e \in {a, b}
    BY DEF PairsOK
  <1>2. \E p \in Site \ {s} : conns[c].end[p] # "none"
    BY <1>1
  <1>3. PeerAt(c, s) \in Site \ {s} /\ conns[c].end[PeerAt(c, s)] # "none"
    BY <1>2 DEF PeerAt
  <1> QED BY <1>1, <1>3 DEF Joins

LEMMA PartOfItself ==
  ASSUME NEW q \in Seq(Message) PROVE Part(q, q)
  <1>1. DOMAIN q = 1 .. Len(q) /\ Len(q) \in Nat
    BY LenProperties
  <1>2. \A i \in DOMAIN q : i + 0 = i
    BY <1>1
  <1> QED BY <1>2 DEF Part

LEMMA PartWithoutHead ==
  ASSUME NEW q \in Seq(Message), q # <<>>
  PROVE  /\ Tail(q) \in Seq(Message) /\ Part(Tail(q), q)
         /\ Head(q) \in Message /\ 1 \in DOMAIN q /\ q[1] = Head(q)
         /\ \A i \in DOMAIN Tail(q) : i + 1 \in DOMAIN q /\ 1 < i + 1 /\ Tail(q)[i] = q[i + 1]
  <1>1. /\ DOMAIN q = 1 .. Len(q) /\ Len(q) \in Nat /\ Len(q) # 0
        /\ Tail(q) \in Seq(Message) /\ Len(Tail(q)) = Len(q) - 1
        /\ \A i \in 1 .. Len(Tail(q)) : Tail(q)[i] = q[i + 1]
    BY LenProperties, EmptySeq, HeadTailProperties
  <1>2. DOMAIN Tail(q) = 1 .. Len(Tail(q))
    BY <1>1, LenProperties
  <1>3. \A i \in DOMAIN Tail(q) : i + 1 \in DOMAIN q /\ 1 < i + 1 /\ Tail(q)[i] = q[i + 1]
    BY <1>1, <1>2
  <1> QED BY <1>1, <1>3, HeadTailProperties DEF Part

LEMMA PartUpTo ==
  ASSUME NEW q \in Seq(Message), NEW n \in 0 .. Len(q)
  PROVE  SubSeq(q, 1, n) \in Seq(Message) /\ Part(SubSeq(q, 1, n), q)
  <1>1. Len(q) \in Nat /\ DOMAIN q = 1 .. Len(q) /\ \A i \in 1 .. Len(q) : q[i] \in Message
    BY LenProperties, ElementOfSeq
  <1> PICK r : r = SubSeq(q, 1, n)
    OBVIOUS
  <1>2. /\ r \in Seq(Message) /\ Len(r) = n
        /\ \A i \in 1 .. n : r[i] = q[1 + i - 1]
    BY <1>1, SubSeqProperties
  <1>3. DOMAIN r = 1 .. n
    BY <1>2, LenProperties
  <1>4. \A i \in DOMAIN r : i + 0 \in DOMAIN q /\ r[i] = q[i + 0]
    BY <1>1, <1>2, <1>3
  <1> QED BY <1>2, <1>4 DEF Part

LEMMA WireKept ==
  ASSUME TypeInv, NEW c \in DOMAIN conns, NEW s \in Site, NEW p \in Site, wire'[c][s] = wire[c][s]
  PROVE  WireMoves(c, s, p)
  BY WireTypes, PartOfItself DEF WireMoves

LEMMA SentIs ==
  ASSUME TypeInv, EstablishedOK, NEW w \in [Conn -> [Site -> Seq(Message)]],
         NEW s \in Site, NEW p \in Site, NEW msg \in Message, wire' = Sent(w, s, p, msg)
  PROVE  /\ wire' \in [Conn -> [Site -> Seq(Message)]]
         /\ \A c \in Conn, e \in Site :
              \/ wire'[c][e] = w[c][e]
              \/ /\ c \in DOMAIN conns /\ e = p /\ Joins(c, s, p)
                 /\ wire'[c][e] = Append(w[c][e], msg)
  <1>1. CASE wire' = w
    BY <1>1
  <1>2. CASE established[s][p] # 0 /\ wire' = [w EXCEPT ![established[s][p]][p] = Append(@, msg)]
    <2> PICK c, q : c = established[s][p] /\ q = Append(w[c][p], msg)
      OBVIOUS
    <2>1. c \in DOMAIN conns /\ Joins(c, s, p) /\ c \in Conn
      BY <1>2, ConnTypes DEF EstablishedOK
    <2>2. q \in Seq(Message)
      BY <2>1, AppendProperties
    <2>3. wire' = [w EXCEPT ![c][p] = q]
      BY <1>2
    <2> QED BY <2>1, <2>2, <2>3
  <1> QED BY <1>1, <1>2 DEF Sent, IsUp

-----------------------------------------------------------------------------
\* The steps.

LEMMA ConnectIs ==
  ASSUME TypeInv, NEW s0 \in Site, NEW p0 \in Site, connectTo(s0, p0)
  PROVE  \E n \in Nat :
           /\ n = Len(conns) /\ n < MaxConns /\ DOMAIN conns = 1 .. n
           /\ conns' \in Seq(Connection) /\ Len(conns') = n + 1 /\ DOMAIN conns' = 1 .. n + 1
           /\ \A e \in Site : conns'[n + 1].end[e] = IF e \in {s0, p0} THEN "opening" ELSE "none"
           /\ \A c \in 1 .. n : conns'[c].end = conns[c].end /\ (conns[c].down => conns'[c].down)
  <1>n. PICK n : n = Len(conns)
    OBVIOUS
  <1>1. n \in Nat /\ DOMAIN conns = 1 .. n /\ n < MaxConns /\ \A c \in 1 .. n : conns[c] \in Connection
    BY <1>n, ConnTypes DEF connectTo
  <1>o. PICK old, new :
        /\ old = [c \in DOMAIN conns |->
                    IF conns[c].by = s0 /\ conns[c].end[p0] # "none" /\ conns[c].end[s0] = "opening"
                    THEN [conns[c] EXCEPT !.down = TRUE] ELSE conns[c]]
        /\ new = [by |-> s0, down |-> FALSE,
                  end |-> [e \in Site |-> IF e \in {s0, p0} THEN "opening" ELSE "none"]]
    OBVIOUS
  <1>2. conns' = Append(old, new)
    BY <1>o DEF connectTo
  <1>3. /\ old \in [1 .. n -> Connection]
        /\ \A c \in 1 .. n : old[c].end = conns[c].end /\ (conns[c].down => old[c].down)
    BY <1>1, <1>o DEF Connection
  <1>4. old \in Seq(Connection) /\ Len(old) = n
    <2>1. old \in UNION {[1 .. k -> Connection] : k \in Nat}
      BY <1>1, <1>3
    <2>2. old \in Seq(Connection)
      BY <2>1, SeqDef, Zenon
    <2> QED BY <1>1, <1>3, <2>2, LenProperties
  <1>5. new \in Connection
    BY <1>o DEF Connection
  <1>6. /\ conns' \in Seq(Connection) /\ Len(conns') = n + 1 /\ conns'[n + 1] = new
        /\ \A c \in 1 .. n : conns'[c] = old[c]
    BY <1>2, <1>4, <1>5, AppendProperties
  <1>7. DOMAIN conns' = 1 .. n + 1
    BY <1>6, LenProperties
  <1> QED
    <2>1. \A e \in Site : conns'[n + 1].end[e] = IF e \in {s0, p0} THEN "opening" ELSE "none"
      BY <1>6, <1>o
    <2>2. \A c \in 1 .. n : conns'[c].end = conns[c].end /\ (conns[c].down => conns'[c].down)
      BY <1>3, <1>6
    <2> QED BY <1>1, <1>6, <1>7, <1>n, <2>1, <2>2

LEMMA ConnectStep ==
  ASSUME TracksInv, OrderOK, NEW s0 \in Site, NEW p0 \in Site, connectTo(s0, p0)
  PROVE  TracksInv' /\ OrderOK'
  <1>0. TypeInv /\ PairsOK /\ EstablishedOK /\ UnusedOK
    BY DEF TracksInv
  <1>1. PICK n \in Nat :
           /\ n = Len(conns) /\ n < MaxConns /\ DOMAIN conns = 1 .. n
           /\ conns' \in Seq(Connection) /\ Len(conns') = n + 1 /\ DOMAIN conns' = 1 .. n + 1
           /\ \A e \in Site : conns'[n + 1].end[e] = IF e \in {s0, p0} THEN "opening" ELSE "none"
           /\ \A c \in 1 .. n : conns'[c].end = conns[c].end /\ (conns[c].down => conns'[c].down)
    BY <1>0, ConnectIs
  <1>8. TypeInv'
    <2>1. Len(conns') <= MaxConns
      BY <1>1, ConstantsAssumption
    <2>2. log' = log /\ peers' = peers /\ established' = established /\ wire' = wire /\ writes' = writes
      BY DEF connectTo
    <2> QED BY <1>0, <1>1, <2>1, <2>2 DEF TypeInv
  <1>9. EndsStay
    <2>1. \A c \in 1 .. n : c \in 1 .. n + 1 /\ conns'[c].end = conns[c].end
      BY <1>1
    <2> QED BY <1>1, <2>1 DEF EndsStay
  <1>10. PairsOK'
    <2>1. ASSUME NEW c \in DOMAIN conns'
          PROVE  \E a, b \in Site : a # b /\ \A e \in Site : conns'[c].end[e] # "none" <=> e \in {a, b}
      <3>1. CASE c = n + 1
        <4>1. \A e \in Site : conns'[n + 1].end[e] # "none" <=> e \in {s0, p0}
          BY <1>1
        <4> QED BY <3>1, <4>1 DEF connectTo
      <3>2. CASE c \in DOMAIN conns
        BY <1>0, <1>9, <3>2 DEF PairsOK, EndsStay
      <3> QED BY <1>1, <3>1, <3>2
    <2> QED BY <2>1 DEF PairsOK
  <1>11. LogGrows /\ WiresMove
    <2>1. LogGrows
      BY <1>0, LogTypes DEF LogGrows, connectTo
    <2>2. WiresMove
      BY <1>0, WireKept DEF WiresMove, connectTo
    <2> QED BY <2>1, <2>2
  <1>12. EstablishedOK'
    BY <1>0, <1>9, EstablishedStays DEF connectTo
  <1>13. UnusedOK'
    BY <1>0, <1>1 DEF UnusedOK, connectTo
  <1>14. peers' = peers
    BY DEF connectTo
  <1>15. \A c \in DOMAIN conns' : c \in DOMAIN conns \/ \A s \in Site : wire'[c][s] = <<>>
    <2>1. n + 1 \in Conn /\ n + 1 \notin DOMAIN conns
      BY <1>1, ConstantsAssumption DEF Conn
    <2>2. \A s \in Site : wire'[n + 1][s] = <<>>
      BY <1>0, <2>1 DEF UnusedOK, connectTo
    <2> QED BY <1>1, <2>2
  <1> QED BY <1>8, <1>9, <1>10, <1>11, <1>12, <1>13, <1>14, <1>15, SamePeers, Combine, CombineOrder

\* A step that changes one connection and no log: its ends move on, or it goes down.
LEMMA ConnStep ==
  ASSUME TracksInv, OrderOK, NEW c \in DOMAIN conns, NEW k \in Connection,
         conns' = [conns EXCEPT ![c] = k],
         \A e \in Site : k.end[e] # "none" <=> conns[c].end[e] # "none",
         log' = log, peers' = peers, writes' = writes,
         established' \in [Site -> [Site -> Nat]], EstablishedOK',
         wire' \in [Conn -> [Site -> Seq(Message)]],
         \A d \in Conn, e \in Site : wire'[d][e] = wire[d][e] \/ (d = c /\ Part(wire'[d][e], wire[d][e]))
  PROVE  TracksInv' /\ OrderOK'
  <1>0. TypeInv /\ PairsOK /\ EstablishedOK /\ UnusedOK
    BY DEF TracksInv
  <1>1. /\ conns' \in Seq(Connection) /\ Len(conns') = Len(conns)
        /\ DOMAIN conns' = DOMAIN conns /\ EndsStay
    BY <1>0, ConnChange
  <1>2. TypeInv'
    BY <1>0, <1>1 DEF TypeInv
  <1>3. LogGrows
    BY <1>0, LogTypes DEF LogGrows
  <1>4. WiresMove
    <2>1. ASSUME NEW d \in DOMAIN conns, NEW s \in Site, NEW p \in Site
          PROVE  WireMoves(d, s, p)
      <3>1. d \in Conn /\ wire'[d][s] \in Seq(Message)
        BY <1>0, ConnTypes
      <3>2. CASE wire'[d][s] = wire[d][s]
        BY <1>0, <3>2, WireKept
      <3>3. CASE Part(wire'[d][s], wire[d][s])
        BY <3>1, <3>3 DEF WireMoves
      <3> QED BY <3>1, <3>2, <3>3
    <2> QED BY <2>1 DEF WiresMove
  <1>5. PairsOK'
    BY <1>0, <1>1, PairsStay
  <1>6. UnusedOK'
    <2>1. ASSUME NEW d \in Conn, NEW e \in Site, d \notin DOMAIN conns
          PROVE  wire'[d][e] = <<>>
      BY <1>0, <2>1 DEF UnusedOK
    <2> QED BY <1>1, <2>1 DEF UnusedOK
  <1> QED BY <1>1, <1>2, <1>3, <1>4, <1>5, <1>6, SamePeers, Combine, CombineOrder

LEMMA BreakStep ==
  ASSUME TracksInv, OrderOK, NEW c \in DOMAIN conns, Break(c)
  PROVE  TracksInv' /\ OrderOK'
  <1>0. TypeInv /\ EstablishedOK /\ conns[c] \in Connection
    BY ConnTypes DEF TracksInv
  <1>k. PICK k : k = [conns[c] EXCEPT !.down = TRUE]
    OBVIOUS
  <1>1. k \in Connection /\ k.end = conns[c].end /\ conns' = [conns EXCEPT ![c] = k]
    BY <1>0, <1>k DEF Break, Connection
  <1>2. log' = log /\ peers' = peers /\ writes' = writes /\ established' = established /\ wire' = wire
    BY DEF Break
  <1>3. EndsStay
    BY <1>0, <1>1, ConnChange
  <1>4. EstablishedOK'
    BY <1>0, <1>2, <1>3, EstablishedStays
  <1>5. established' \in [Site -> [Site -> Nat]] /\ wire' \in [Conn -> [Site -> Seq(Message)]]
    BY <1>0, <1>2 DEF TypeInv
  <1> QED BY <1>1, <1>2, <1>4, <1>5, ConnStep

LEMMA OpenStep ==
  ASSUME TracksInv, OrderOK, NEW c \in DOMAIN conns, NEW s \in Site, newConnection(c, s)
  PROVE  TracksInv' /\ OrderOK'
  <1>0. TypeInv /\ PairsOK /\ EstablishedOK /\ conns[c] \in Connection /\ c \in Nat
    BY ConnTypes DEF TracksInv
  <1>k. PICK k, p : k = [conns[c] EXCEPT !.end[s] = "open"] /\ p = PeerAt(c, s)
    OBVIOUS
  <1>1. k \in Connection /\ conns' = [conns EXCEPT ![c] = k]
        /\ \A e \in Site : k.end[e] # "none" <=> conns[c].end[e] # "none"
    BY <1>0, <1>k DEF newConnection, Connection
  <1>2. established' = [established EXCEPT ![s][p] = c]
    BY <1>k DEF newConnection
  <1>u. log' = log /\ peers' = peers /\ writes' = writes /\ wire' = wire
    BY DEF newConnection
  <1>3. p \in Site /\ Joins(c, s, p)
    BY <1>0, <1>k, PeerIs DEF newConnection
  <1>4. EndsStay
    BY <1>0, <1>1, ConnChange
  <1>5. EstablishedOK'
    <2>1. ASSUME NEW a \in Site, NEW b \in Site, established'[a][b] # 0
          PROVE  \E d \in DOMAIN conns' : d = established'[a][b] /\ Joins(d, a, b)'
      <3>1. CASE a = s /\ b = p
        <4>1. established'[a][b] = c
          BY <1>0, <1>2, <1>3, <3>1 DEF TypeInv
        <4> QED BY <1>3, <1>4, <3>1, <4>1, JoinsStay
      <3>2. CASE ~(a = s /\ b = p)
        <4> PICK d : d = established[a][b]
          OBVIOUS
        <4>1. established'[a][b] = d
          BY <1>0, <1>2, <1>3, <3>2 DEF TypeInv
        <4>2. d \in DOMAIN conns /\ Joins(d, a, b)
          BY <1>0, <2>1, <4>1 DEF EstablishedOK
        <4> QED BY <1>4, <4>1, <4>2, JoinsStay
      <3> QED BY <3>1, <3>2
    <2> QED BY <2>1 DEF EstablishedOK, Joins
  <1>6. established' \in [Site -> [Site -> Nat]] /\ wire' \in [Conn -> [Site -> Seq(Message)]]
    BY <1>0, <1>2, <1>3, <1>u DEF TypeInv
  <1> QED BY <1>1, <1>5, <1>6, <1>u, ConnStep

LEMMA CloseStep ==
  ASSUME TracksInv, OrderOK, NEW c \in DOMAIN conns, NEW s \in Site, onClose(c, s)
  PROVE  TracksInv' /\ OrderOK'
  <1>0. TypeInv /\ PairsOK /\ EstablishedOK /\ conns[c] \in Connection
    BY ConnTypes DEF TracksInv
  <1>k. PICK k, p : k = [conns[c] EXCEPT !.end[s] = "closed"] /\ p = PeerAt(c, s)
    OBVIOUS
  <1>1. k \in Connection /\ conns' = [conns EXCEPT ![c] = k]
        /\ \A e \in Site : k.end[e] # "none" <=> conns[c].end[e] # "none"
    BY <1>0, <1>k DEF onClose, Connection
  <1>2. established' = [established EXCEPT ![s][p] = 0]
    BY <1>k DEF onClose
  <1>u. log' = log /\ peers' = peers /\ writes' = writes
    BY DEF onClose
  <1>3. p \in Site
    BY <1>0, <1>k, PeerIs DEF onClose
  <1>4. established' \in [Site -> [Site -> Nat]]
        /\ \A a, b \in Site : established'[a][b] \in {0, established[a][b]}
    BY <1>0, <1>2, <1>3 DEF TypeInv
  <1>5. EstablishedOK'
    BY <1>0, <1>1, <1>4, ConnChange, EstablishedStays
  <1>6. PICK came \in 0 .. Len(wire[c][s]) : wire' = [wire EXCEPT ![c][s] = SubSeq(@, 1, came)]
    BY DEF onClose
  <1>q. PICK q : q = SubSeq(wire[c][s], 1, came)
    OBVIOUS
  <1>7. q \in Seq(Message) /\ Part(q, wire[c][s])
    BY <1>0, <1>q, WireTypes, PartUpTo
  <1>8. wire' = [wire EXCEPT ![c][s] = q]
    BY <1>6, <1>q
  <1>9. c \in Conn /\ wire \in [Conn -> [Site -> Seq(Message)]]
    BY <1>0, ConnTypes DEF TypeInv
  <1>10. /\ wire' \in [Conn -> [Site -> Seq(Message)]]
         /\ \A d \in Conn, e \in Site : wire'[d][e] = wire[d][e] \/ (d = c /\ Part(wire'[d][e], wire[d][e]))
    BY <1>7, <1>8, <1>9
  <1> QED BY <1>1, <1>4, <1>5, <1>10, <1>u, ConnStep

LEMMA SameConns ==
  ASSUME TracksInv, conns' = conns, established' = established, TypeInv', LogGrows, WiresMove,
         \A c \in Conn, s \in Site : c \notin DOMAIN conns => wire'[c][s] = wire[c][s]
  PROVE  /\ EndsStay
         /\ PeersOK' => TracksInv'
         /\ peers' = peers => TracksInv'
         /\ peers' = peers /\ OrderOK => OrderOK'
  <1>0. PairsOK /\ EstablishedOK /\ UnusedOK
    BY DEF TracksInv
  <1>1. EndsStay
    BY DEF EndsStay
  <1>2. PairsOK'
    BY <1>0, <1>1, PairsStay
  <1>3. EstablishedOK'
    BY <1>0, <1>1, EstablishedStays
  <1>4. UnusedOK'
    <2>1. ASSUME NEW c \in Conn, NEW s \in Site, c \notin DOMAIN conns
          PROVE  wire'[c][s] = <<>>
      BY <1>0, <2>1 DEF UnusedOK
    <2> QED BY <2>1 DEF UnusedOK
  <1>5. \A c \in DOMAIN conns' : c \in DOMAIN conns \/ \A s \in Site : wire'[c][s] = <<>>
    OBVIOUS
  <1>6. PeersOK' => TracksInv'
    BY <1>1, <1>2, <1>3, <1>4, <1>5, Combine
  <1>7. peers' = peers => TracksInv'
    BY <1>6, SamePeers
  <1>8. peers' = peers /\ OrderOK => OrderOK'
    BY <1>1, <1>5, CombineOrder
  <1> QED BY <1>1, <1>6, <1>7, <1>8

LEMMA LogAppends ==
  ASSUME TypeInv, NEW s \in Site, NEW new \in SUBSET Change,
         log' = [log EXCEPT ![s] = Append(log[s], new)]
  PROVE  /\ log' \in [Site -> Seq(SUBSET Change)] /\ LogGrows
         /\ new \subseteq Holds(s)' /\ \A p \in Site \ {s} : log'[p] = log[p]
  <1>n. PICK n, q : n = Len(log[s]) /\ q = Append(log[s], new)
    OBVIOUS
  <1>1. log[s] \in Seq(SUBSET Change) /\ n \in Nat /\ DOMAIN log[s] = 1 .. n
    BY <1>n, LogTypes
  <1>2. /\ q \in Seq(SUBSET Change) /\ Len(q) = n + 1 /\ q[n + 1] = new
        /\ \A v \in 1 .. n : q[v] = log[s][v]
    BY <1>1, <1>n, AppendProperties
  <1>3. log \in [Site -> Seq(SUBSET Change)] /\ log' = [log EXCEPT ![s] = q]
    BY <1>n DEF TypeInv
  <1>4. log'[s] = q /\ (\A p \in Site \ {s} : log'[p] = log[p]) /\ log' \in [Site -> Seq(SUBSET Change)]
    BY <1>2, <1>3
  <1>5. LogGrows
    <2>1. ASSUME NEW p \in Site
          PROVE  Len(log[p]) <= Len(log'[p]) /\ \A v \in DOMAIN log[p] : log'[p][v] = log[p][v]
      <3>1. CASE p = s
        BY <1>1, <1>2, <1>4, <1>n, <3>1
      <3>2. CASE p # s
        BY <1>4, <3>2, LogTypes
      <3> QED BY <3>1, <3>2
    <2> QED BY <2>1 DEF LogGrows
  <1>6. new \subseteq Holds(s)'
    <2>1. n + 1 \in DOMAIN q
      BY <1>1, <1>2, LenProperties
    <2> QED BY <1>2, <1>4, <2>1 DEF Holds
  <1> QED BY <1>4, <1>5, <1>6

LEMMA WriteStep ==
  ASSUME TracksInv, OrderOK, NEW s \in Site, LocalWrite(s)
  PROVE  TracksInv' /\ OrderOK'
  <1>0. TypeInv
    BY DEF TracksInv
  <1>1. /\ writes < MaxWrites /\ writes' = writes + 1
        /\ log' = [log EXCEPT ![s] = Append(log[s], {<<s, writes'>>})]
        /\ peers' = peers /\ conns' = conns /\ established' = established /\ wire' = wire
    BY DEF LocalWrite
  <1>2. writes' \in Nat /\ {<<s, writes'>>} \in SUBSET Change
    BY <1>0, <1>1, ConstantsAssumption DEF TypeInv, Change
  <1>3. log' \in [Site -> Seq(SUBSET Change)] /\ LogGrows
    BY <1>0, <1>1, <1>2, LogAppends
  <1>4. TypeInv'
    BY <1>0, <1>1, <1>2, <1>3 DEF TypeInv
  <1>5. WiresMove
    BY <1>0, <1>1, WireKept DEF WiresMove
  <1> QED BY <1>1, <1>3, <1>4, <1>5, SameConns

LEMMA PokeStep ==
  ASSUME TracksInv, OrderOK, NEW s \in Site, Poke(s)
  PROVE  TracksInv' /\ OrderOK'
  <1>0. TypeInv /\ EstablishedOK
    BY DEF TracksInv
  <1>1. /\ peers' = peers /\ conns' = conns /\ established' = established /\ log' = log
        /\ writes' = writes
    BY DEF Poke
  <1>2. LogGrows
    BY <1>0, <1>1, LogTypes DEF LogGrows
  <1>m. PICK msg : msg = [tag |-> "poke", version |-> Len(log[s])]
    OBVIOUS
  <1>3. msg \in Message /\ msg.tag = "poke"
    BY <1>0, <1>m, LogTypes DEF Message
  <1>4. \A p \in Site : Fresh(msg, p, s)
    BY <1>3 DEF Fresh, MessageOK, Reaches
  <1>5. ASSUME NEW c \in Conn, NEW p \in Site
        PROVE  \/ wire'[c][p] = wire[c][p]
               \/ /\ c \in DOMAIN conns /\ s # p /\ Joins(c, s, p)
                  /\ wire'[c][p] = Append(wire[c][p], msg)
    <2>1. CASE wire' = wire
      BY <2>1
    <2>2. CASE wire' = [d \in Conn |-> [e \in Site |->
                 IF s # e /\ established[s][e] = d /\ IsUp(d, s) THEN Append(wire[d][e], msg) ELSE wire[d][e]]]
      <3>1. wire'[c][p] = IF s # p /\ established[s][p] = c /\ IsUp(c, s)
                          THEN Append(wire[c][p], msg) ELSE wire[c][p]
        BY <2>2
      <3>2. CASE s # p /\ established[s][p] = c /\ IsUp(c, s)
        BY <1>0, <3>1, <3>2 DEF EstablishedOK, IsUp
      <3> QED BY <3>1, <3>2
    <2> QED BY <1>m, <2>1, <2>2 DEF Poke
  <1>6. wire' \in [Conn -> [Site -> Seq(Message)]]
    <2>1. wire \in [Conn -> [Site -> Seq(Message)]]
      BY <1>0 DEF TypeInv
    <2>2. \A c \in Conn, p \in Site : Append(wire[c][p], msg) \in Seq(Message)
      BY <1>3, <2>1, AppendProperties
    <2>3. CASE wire' = [d \in Conn |-> [e \in Site |->
                 IF s # e /\ established[s][e] = d /\ IsUp(d, s) THEN Append(wire[d][e], msg) ELSE wire[d][e]]]
      BY <2>1, <2>2, <2>3
    <2> QED BY <1>m, <2>1, <2>3 DEF Poke
  <1>7. TypeInv'
    BY <1>0, <1>1, <1>6 DEF TypeInv
  <1>8. WiresMove
    <2>1. ASSUME NEW c \in DOMAIN conns, NEW p \in Site, NEW q \in Site, Joins(c, p, q)
          PROVE  WireMoves(c, p, q)
      <3>1. CASE wire'[c][p] = wire[c][p]
        BY <1>0, <3>1, WireKept
      <3>2. CASE s # p /\ Joins(c, s, p) /\ wire'[c][p] = Append(wire[c][p], msg)
        <4>1. q = s
          <5>1. PairsOK
            BY DEF TracksInv
          <5> QED BY <2>1, <3>2, <5>1 DEF PairsOK, Joins
        <4> QED BY <1>0, <1>3, <1>4, <3>2, <4>1, WireTypes, PartOfItself DEF WireMoves
      <3> QED BY <1>0, <1>5, <3>1, <3>2, WireTypes
    <2> QED BY <2>1 DEF WiresMove
  <1>9. \A c \in Conn, p \in Site : c \notin DOMAIN conns => wire'[c][p] = wire[c][p]
    BY <1>5
  <1> QED BY <1>1, <1>2, <1>7, <1>8, <1>9, SameConns

-----------------------------------------------------------------------------
\* A message is handled.  It came from the peer of its connection, and what is sent
\* goes back to it.

Arrives(c, s, p, msg, rest) ==
  /\ p \in Site /\ Joins(c, s, p) /\ msg \in Message /\ MessageOK(msg, s, p)
  /\ wire[c][s] \in Seq(Message) /\ 1 \in DOMAIN wire[c][s] /\ wire[c][s][1] = msg
  /\ rest \in [Conn -> [Site -> Seq(Message)]]
  /\ rest[c][s] = Tail(wire[c][s]) /\ rest[c][s] \in Seq(Message) /\ Part(rest[c][s], wire[c][s])
  /\ \A i \in DOMAIN rest[c][s] :
       i + 1 \in DOMAIN wire[c][s] /\ 1 < i + 1 /\ rest[c][s][i] = wire[c][s][i + 1]
  /\ \A d \in Conn, e \in Site : ~(d = c /\ e = s) => rest[d][e] = wire[d][e]

LEMMA Arrival ==
  ASSUME TracksInv, NEW c \in DOMAIN conns, NEW s \in Site,
         conns[c].end[s] \in {"open", "closed"}, wire[c][s] # <<>>
  PROVE  Arrives(c, s, PeerAt(c, s), Head(wire[c][s]), [wire EXCEPT ![c][s] = Tail(@)])
  <1>0. TypeInv /\ PairsOK /\ WireOK
    BY DEF TracksInv
  <1>p. PICK p, q, msg, rest, tail :
          /\ p = PeerAt(c, s) /\ q = wire[c][s] /\ msg = Head(q) /\ tail = Tail(q)
          /\ rest = [wire EXCEPT ![c][s] = Tail(@)]
    OBVIOUS
  <1>1. p \in Site /\ p # s /\ Joins(c, s, p)
    BY <1>0, <1>p, PeerIs
  <1>2. q \in Seq(Message) /\ c \in Conn /\ q # <<>>
    BY <1>0, <1>p, WireTypes
  <1>3. /\ tail \in Seq(Message) /\ Part(tail, q) /\ msg \in Message /\ 1 \in DOMAIN q /\ q[1] = msg
        /\ \A i \in DOMAIN tail : i + 1 \in DOMAIN q /\ 1 < i + 1 /\ tail[i] = q[i + 1]
    BY <1>2, <1>p, PartWithoutHead
  <1>4. MessageOK(msg, s, p)
    <2>1. wire[c][s][1] = msg /\ 1 \in DOMAIN wire[c][s]
      BY <1>3, <1>p
    <2> QED BY <1>0, <1>1, <1>3, <2>1 DEF WireOK
  <1>5. wire \in [Conn -> [Site -> Seq(Message)]] /\ rest = [wire EXCEPT ![c][s] = tail]
    BY <1>0, <1>p DEF TypeInv
  <1>6. /\ rest \in [Conn -> [Site -> Seq(Message)]] /\ rest[c][s] = tail
        /\ \A d \in Conn, e \in Site : ~(d = c /\ e = s) => rest[d][e] = wire[d][e]
    BY <1>2, <1>3, <1>5
  <1>7. Arrives(c, s, p, msg, rest)
    BY <1>1, <1>2, <1>3, <1>4, <1>6, <1>p DEF Arrives
  <1> QED BY <1>7, <1>p

Answers(s, p, rest) ==
  \/ wire' = rest
  \/ \E m \in Message : Fresh(m, p, s) /\ wire' = Sent(rest, s, p, m)

\* What goes back is right and fresh.
LEMMA Answered ==
  ASSUME TracksInv, NEW c \in DOMAIN conns, NEW s \in Site, NEW p, NEW msg, NEW rest,
         Arrives(c, s, p, msg, rest), Answers(s, p, rest)
  PROVE  /\ wire' \in [Conn -> [Site -> Seq(Message)]]
         /\ WiresMove
         /\ \A d \in Conn, e \in Site : d \notin DOMAIN conns => wire'[d][e] = wire[d][e]
  <1>0. TypeInv /\ EstablishedOK /\ PairsOK
    BY DEF TracksInv
  <1>1. /\ p \in Site /\ Joins(c, s, p) /\ rest \in [Conn -> [Site -> Seq(Message)]]
        /\ rest[c][s] \in Seq(Message) /\ Part(rest[c][s], wire[c][s])
        /\ \A d \in Conn, e \in Site : ~(d = c /\ e = s) => rest[d][e] = wire[d][e]
    BY DEF Arrives
  <1>2. PICK m \in Message :
          /\ wire' \in [Conn -> [Site -> Seq(Message)]]
          /\ \A d \in Conn, e \in Site :
               \/ wire'[d][e] = rest[d][e]
               \/ /\ d \in DOMAIN conns /\ e = p /\ Joins(d, s, p)
                  /\ Fresh(m, p, s) /\ wire'[d][e] = Append(rest[d][e], m)
    <2>1. CASE wire' = rest
      <3>1. [tag |-> "poke", version |-> 0] \in Message
        BY DEF Message
      <3> QED BY <1>1, <2>1, <3>1
    <2>2. ASSUME NEW m \in Message, Fresh(m, p, s), wire' = Sent(rest, s, p, m)
          PROVE  /\ wire' \in [Conn -> [Site -> Seq(Message)]]
                 /\ \A d \in Conn, e \in Site :
                      \/ wire'[d][e] = rest[d][e]
                      \/ /\ d \in DOMAIN conns /\ e = p /\ Joins(d, s, p)
                         /\ Fresh(m, p, s) /\ wire'[d][e] = Append(rest[d][e], m)
      <3>1. TypeInv /\ EstablishedOK /\ rest \in [Conn -> [Site -> Seq(Message)]] /\ p \in Site
        BY <1>0, <1>1
      <3>2. /\ wire' \in [Conn -> [Site -> Seq(Message)]]
            /\ \A d \in Conn, e \in Site :
                 \/ wire'[d][e] = rest[d][e]
                 \/ /\ d \in DOMAIN conns /\ e = p /\ Joins(d, s, p)
                    /\ wire'[d][e] = Append(rest[d][e], m)
        <4>1. wire' = Sent(rest, s, p, m)
          BY <2>2
        <4> HIDE <2>2
        <4>2. wire' \in [Conn -> [Site -> Seq(Message)]]
          BY <3>1, <4>1, SentIs
        <4>3. ASSUME NEW d \in Conn, NEW e \in Site
              PROVE  \/ wire'[d][e] = rest[d][e]
                     \/ /\ d \in DOMAIN conns /\ e = p /\ Joins(d, s, p)
                        /\ wire'[d][e] = Append(rest[d][e], m)
          BY <3>1, <4>1, SentIs
        <4> QED BY <4>2, <4>3
      <3> QED BY <2>2, <3>2
    <2> QED BY <2>1, <2>2 DEF Answers
  <1>3. ASSUME NEW d \in DOMAIN conns, NEW e \in Site, NEW f \in Site, Joins(d, e, f)
        PROVE  WireMoves(d, e, f)
    <2>1. d \in Conn /\ wire[d][e] \in Seq(Message) /\ rest[d][e] \in Seq(Message) /\ Part(rest[d][e], wire[d][e])
      BY <1>0, <1>1, WireTypes, PartOfItself
    <2>2. CASE wire'[d][e] = rest[d][e]
      BY <2>1, <2>2 DEF WireMoves
    <2>3. CASE /\ e = p /\ Joins(d, s, p) /\ Fresh(m, p, s) /\ wire'[d][e] = Append(rest[d][e], m)
      <3>1. f = s
        <4>1. PICK a, b \in Site : a # b /\ \A x \in Site : conns[d].end[x] # "none" <=> x \in {a, b}
          BY <1>0 DEF PairsOK
        <4> QED BY <1>1, <1>3, <2>3, <4>1 DEF Joins
      <3> QED BY <2>1, <2>3, <3>1 DEF WireMoves
    <2> QED BY <1>2, <2>1, <2>2, <2>3
  <1>4. ASSUME NEW d \in Conn, NEW e \in Site, d \notin DOMAIN conns
        PROVE  wire'[d][e] = wire[d][e]
    BY <1>1, <1>2, <1>4
  <1> QED BY <1>2, <1>3, <1>4 DEF WiresMove

LEMMA PokedStep ==
  ASSUME TracksInv, OrderOK, NEW c \in DOMAIN conns, NEW s \in Site, NEW p, NEW msg, NEW rest,
         Arrives(c, s, p, msg, rest), Poked(s, p, msg, rest),
         conns' = conns, established' = established, writes' = writes
  PROVE  TracksInv' /\ OrderOK' /\ peers' = peers
  <1>0. TypeInv /\ PeersOK /\ p \in Site
    BY DEF TracksInv, Arrives
  <1>1. log' = log /\ peers' = peers
    BY DEF Poked
  <1>m. PICK m : m = [tag |-> "request-changes", since |-> peers[s][p]]
    OBVIOUS
  <1>2. m \in Message /\ m.tag = "request-changes" /\ m.since = peers[s][p]
    BY <1>0, <1>m DEF TypeInv, Message
  <1>3. Fresh(m, p, s)
    <2>1. Knows(s, p, m.since)
      BY <1>0, <1>2 DEF PeersOK
    <2> QED BY <1>2, <2>1 DEF Fresh, MessageOK, Reaches
  <1>4. wire' = rest \/ wire' = Sent(rest, s, p, m)
    BY <1>m DEF Poked
  <1>5. LogGrows
    BY <1>0, <1>1, LogTypes DEF LogGrows
  <1>6. /\ wire' \in [Conn -> [Site -> Seq(Message)]] /\ WiresMove
        /\ \A d \in Conn, e \in Site : d \notin DOMAIN conns => wire'[d][e] = wire[d][e]
    BY <1>2, <1>3, <1>4, Answered DEF Answers
  <1>7. TypeInv'
    BY <1>0, <1>1, <1>6 DEF TypeInv
  <1> QED BY <1>1, <1>5, <1>6, <1>7, SameConns

LEMMA RequestedStep ==
  ASSUME TracksInv, OrderOK, NEW c \in DOMAIN conns, NEW s \in Site, NEW p, NEW msg, NEW rest,
         Arrives(c, s, p, msg, rest), ChangesRequested(s, p, msg, rest),
         conns' = conns, established' = established, writes' = writes
  PROVE  TracksInv' /\ OrderOK' /\ peers' = peers
  <1>0. TypeInv /\ PeersOK /\ p \in Site
    BY DEF TracksInv, Arrives
  <1>1. log' = log /\ peers' = peers /\ msg.tag = "request-changes"
    BY DEF ChangesRequested
  <1>2. Knows(p, s, msg.since)
    BY <1>1 DEF Arrives, MessageOK
  <1>m. PICK m, rows : m = [tag |-> "apply-changes", changes |-> rows] /\ rows = RowsSince(s, msg.since, p)
    OBVIOUS
  <1>3. /\ log[s] \in Seq(SUBSET Change) /\ DOMAIN log[s] = 1 .. Len(log[s]) /\ Len(log[s]) \in Nat
        /\ msg.since \in 0 .. Len(log[s])
    BY <1>0, <1>2, LogTypes DEF Knows
  <1>4. rows \subseteq Nat \X Change
    BY <1>3, <1>m DEF RowsSince
  <1>5. m \in Message /\ m.tag = "apply-changes" /\ m.changes = rows
    BY <1>4, <1>m DEF Message
  <1>6. ASSUME NEW v \in DOMAIN log[s], v > msg.since, NEW ch \in log[s][v], ch[1] # p
        PROVE  \E row \in rows : row[1] = v /\ row[2] = ch
    <2>1. ch \in Change
      BY <1>3, ElementOfSeq
    <2>2. <<v, ch>> \in rows
      BY <1>6, <1>m, <2>1 DEF RowsSince
    <2> QED BY <2>2
  <1>7. AnswerOK(rows, p, s)
    <2>1. ASSUME NEW row \in rows
          PROVE  Foreign(p, s, row[1])
      BY <1>m DEF RowsSince, Foreign
    <2>2. ASSUME NEW row \in rows, NEW v \in 1 .. row[1], NEW ch \in log[s][v], ch[1] # p
          PROVE  ch \in Holds(p) \cup {r[2] : r \in rows}
      <3>1. row[1] \in 1 .. Len(log[s])
        BY <1>3, <2>1 DEF Foreign
      <3>2. v \in DOMAIN log[s]
        BY <1>3, <3>1
      <3>3. CASE v > msg.since
        BY <1>6, <2>2, <3>2, <3>3
      <3>4. CASE ~(v > msg.since)
        BY <1>2, <1>3, <2>2, <3>2, <3>4 DEF Knows
      <3> QED BY <3>3, <3>4
    <2> QED BY <2>1, <2>2 DEF AnswerOK
  <1>8. ASSUME rows # {} PROVE Fresh(m, p, s)
    <2>1. ASSUME NEW v \in Nat, v = 0 \/ Foreign(p, s, v)
          PROVE  \E row \in rows : v <= row[1]
      <3>1. PICK row \in rows : TRUE
        BY <1>8
      <3>2. row[1] \in Nat /\ row[1] > msg.since
        BY <1>3, <1>m DEF RowsSince
      <3>3. CASE v <= msg.since
        BY <1>3, <3>2, <3>3
      <3>4. CASE v > msg.since
        BY <1>3, <1>6, <2>1, <3>4 DEF Foreign
      <3> QED BY <1>3, <3>3, <3>4
    <2> QED BY <1>5, <1>7, <2>1 DEF Fresh, MessageOK, Reaches
  <1>9. wire' = rest \/ (Fresh(m, p, s) /\ wire' = Sent(rest, s, p, m))
    BY <1>8, <1>m DEF ChangesRequested
  <1>10. LogGrows
    BY <1>0, <1>1, LogTypes DEF LogGrows
  <1>11. /\ wire' \in [Conn -> [Site -> Seq(Message)]] /\ WiresMove
         /\ \A d \in Conn, e \in Site : d \notin DOMAIN conns => wire'[d][e] = wire[d][e]
    BY <1>5, <1>9, Answered DEF Answers
  <1>12. TypeInv'
    BY <1>0, <1>1, <1>11 DEF TypeInv
  <1> QED BY <1>1, <1>10, <1>11, <1>12, SameConns

LEMMA ReceivedStep ==
  ASSUME TracksInv, OrderOK, NEW c \in DOMAIN conns, NEW s \in Site, NEW p, NEW msg, NEW rest,
         Arrives(c, s, p, msg, rest), ChangesReceived(s, p, msg, rest),
         conns' = conns, established' = established, writes' = writes
  PROVE  /\ TracksInv' /\ OrderOK'
         /\ \A a, b \in Site : peers'[a][b] < peers[a][b] => a = s /\ b = p /\ ~Only(c, s, p)
  <1>0. TypeInv /\ PeersOK /\ p \in Site /\ p # s /\ Joins(c, s, p) /\ msg \in Message
    BY DEF TracksInv, Arrives, Joins
  <1>1. wire' = rest /\ msg.tag = "apply-changes"
    BY DEF ChangesReceived
  <1>2. AnswerOK(msg.changes, s, p)
    BY <1>1 DEF Arrives, MessageOK
  <1>3. msg.changes \in SUBSET (Nat \X Change)
    BY <1>0, <1>1 DEF Message
  <1>4. /\ wire' \in [Conn -> [Site -> Seq(Message)]] /\ WiresMove
        /\ \A d \in Conn, e \in Site : d \notin DOMAIN conns => wire'[d][e] = wire[d][e]
    BY <1>1, Answered DEF Answers
  <1>5. \A a, b \in Site : peers[a][b] \in Nat
    BY <1>0 DEF TypeInv
  <1>6. CASE log' = log /\ peers' = peers
    <2>1. LogGrows
      BY <1>0, <1>6, LogTypes DEF LogGrows
    <2>2. TypeInv'
      BY <1>0, <1>4, <1>6 DEF TypeInv
    <2> QED BY <1>4, <1>5, <1>6, <2>1, <2>2, SameConns
  <1>7. ASSUME NEW last \in msg.changes, \A row \in msg.changes : row[1] <= last[1],
               peers' = [peers EXCEPT ![s][p] = last[1]],
               log' = IF {row[2] : row \in msg.changes} \ Holds(s) = {} THEN log
                      ELSE [log EXCEPT ![s] = Append(@, {row[2] : row \in msg.changes} \ Holds(s))]
        PROVE  /\ TracksInv' /\ OrderOK'
               /\ \A a, b \in Site : peers'[a][b] < peers[a][b] => a = s /\ b = p /\ ~Only(c, s, p)
    <2>n. PICK n, new : n = last[1] /\ new = {row[2] : row \in msg.changes} \ Holds(s)
      OBVIOUS
    <2>1. n \in Nat /\ new \in SUBSET Change
      BY <1>3, <2>n
    <2>2. /\ log' \in [Site -> Seq(SUBSET Change)] /\ LogGrows
          /\ new \subseteq Holds(s)' /\ log'[p] = log[p]
      <3>1. CASE new = {}
        <4>1. log' = log
          BY <1>7, <2>n, <3>1
        <4>2. log' \in [Site -> Seq(SUBSET Change)]
          BY <1>0, <4>1 DEF TypeInv
        <4> QED BY <1>0, <3>1, <4>1, <4>2, LogTypes DEF LogGrows
      <3>2. CASE log' = [log EXCEPT ![s] = Append(log[s], new)]
        BY <1>0, <2>1, <3>2, LogAppends
      <3> QED BY <1>7, <2>n, <3>1, <3>2
    <2>3. /\ peers' \in [Site -> [Site -> Nat]] /\ peers'[s][p] = n
          /\ \A a, b \in Site : ~(a = s /\ b = p) => peers'[a][b] = peers[a][b]
      BY <1>0, <1>7, <2>1, <2>n DEF TypeInv
    <2>4. TypeInv'
      BY <1>0, <1>4, <2>2, <2>3 DEF TypeInv
    <2>5. Knows(s, p, n)' /\ Foreign(s, p, n)'
      <3>1. Foreign(s, p, n)
        BY <1>2, <1>7, <2>n DEF AnswerOK
      <3>2. n \in 0 .. Len(log[p]) /\ 1 .. n \subseteq DOMAIN log[p]
        BY <1>0, <3>1, LogTypes DEF Foreign
      <3>3. {row[2] : row \in msg.changes} \subseteq Holds(s)'
        <4>1. Holds(s) \subseteq Holds(s)'
          BY <1>0, <2>2, <2>4, HoldsStays
        <4> QED BY <2>2, <2>n, <4>1
      <3>4. ASSUME NEW v \in 1 .. n
            PROVE  {ch \in log[p][v] : ch[1] # s} \subseteq Holds(s)'
        <4>1. {ch \in log[p][v] : ch[1] # s} \subseteq Holds(s) \cup {r[2] : r \in msg.changes}
          BY <1>2, <1>7, <2>n DEF AnswerOK
        <4>2. Holds(s) \subseteq Holds(s)'
          BY <1>0, <2>2, <2>4, HoldsStays
        <4> QED BY <3>3, <4>1, <4>2
      <3>5. Foreign(s, p, n)'
        BY <1>0, <2>2, <2>4, <3>1, ForeignStays
      <3> QED BY <2>2, <3>2, <3>4, <3>5 DEF Knows
    <2>6. PeersOK'
      <3>1. ASSUME NEW a \in Site, NEW b \in Site
            PROVE  \E v \in Nat : v = peers'[a][b] /\ Knows(a, b, v)' /\ (v # 0 => Foreign(a, b, v)')
        <4>1. CASE a = s /\ b = p
          BY <2>1, <2>3, <2>5, <4>1
        <4>2. CASE ~(a = s /\ b = p)
          <5>v. PICK v : v = peers[a][b]
            OBVIOUS
          <5>1. Knows(a, b, v) /\ (v # 0 => Foreign(a, b, v)) /\ v \in Nat /\ peers'[a][b] = v
            BY <1>0, <1>5, <2>3, <4>2, <5>v DEF PeersOK
          <5>2. Knows(a, b, v)' /\ (v # 0 => Foreign(a, b, v)')
            BY <1>0, <2>2, <2>4, <5>1, KnowsStays, ForeignStays
          <5> QED BY <5>1, <5>2
        <4> QED BY <4>1, <4>2
      <3> QED BY <3>1 DEF PeersOK, Knows, Foreign
    <2>7. EndsStay /\ TracksInv'
      BY <1>4, <2>2, <2>4, <2>6, SameConns
    <2>8. Only(c, s, p) => peers[s][p] <= n /\ \A i \in DOMAIN wire'[c][s] : Reaches(wire'[c][s][i], n)
      <3>1. SUFFICES ASSUME Only(c, s, p)
                     PROVE  peers[s][p] <= n /\ \A i \in DOMAIN wire'[c][s] : Reaches(wire'[c][s][i], n)
        OBVIOUS
      <3>2. Ordered(wire[c][s]) /\ 1 \in DOMAIN wire[c][s] /\ wire[c][s][1] = msg /\ Reaches(msg, peers[s][p])
        BY <1>0, <3>1 DEF OrderOK, Arrives
      <3>3. PICK row \in msg.changes : peers[s][p] <= row[1]
        BY <1>1, <3>2 DEF Reaches
      <3>4. peers[s][p] <= n
        <4>1. row[1] \in Nat /\ row[1] <= n
          BY <1>3, <1>7, <2>n
        <4> QED BY <1>0, <1>5, <2>1, <3>3, <4>1
      <3>5. ASSUME NEW i \in DOMAIN wire'[c][s]
            PROVE  Reaches(wire'[c][s][i], n)
        <4>1. i + 1 \in DOMAIN wire[c][s] /\ 1 < i + 1 /\ wire'[c][s][i] = wire[c][s][i + 1]
          BY <1>1 DEF Arrives
        <4>2. last \in wire[c][s][1].changes /\ wire[c][s][1].tag = "apply-changes"
          BY <1>1, <1>7, <3>2
        <4> QED BY <2>n, <3>2, <4>1, <4>2 DEF Ordered
      <3> QED BY <3>4, <3>5
    <2>9. OrderOK'
      <3>1. ASSUME NEW d \in DOMAIN conns', NEW a \in Site, NEW b \in Site, Only(d, a, b)'
            PROVE  /\ Ordered(wire'[d][a])
                   /\ \A i \in DOMAIN wire'[d][a] : Reaches(wire'[d][a][i], peers'[a][b])
        <4>1. d \in DOMAIN conns /\ Only(d, a, b)
          BY <2>7, <3>1, OnlyWas
        <4>2. /\ Ordered(wire'[d][a])
              /\ \A i \in DOMAIN wire'[d][a] : Reaches(wire'[d][a][i], peers[a][b])
          BY <1>4, <2>4, <2>7, <4>1, OrderStep
        <4>3. CASE a = s /\ b = p
          <5>1. d = c
            BY <1>0, <4>1, <4>3 DEF Only
          <5> QED BY <2>3, <2>8, <4>1, <4>2, <4>3, <5>1
        <4>4. CASE ~(a = s /\ b = p)
          BY <2>3, <4>2, <4>4
        <4> QED BY <4>3, <4>4
      <3> QED BY <3>1 DEF OrderOK
    <2>10. ASSUME NEW a \in Site, NEW b \in Site, peers'[a][b] < peers[a][b]
           PROVE  a = s /\ b = p /\ ~Only(c, s, p)
      BY <1>5, <2>1, <2>3, <2>8, <2>10
    <2> QED BY <2>7, <2>9, <2>10
  <1> QED BY <1>6, <1>7 DEF ChangesReceived

LEMMA DataStep ==
  ASSUME TracksInv, OrderOK, NEW c \in DOMAIN conns, NEW s \in Site, dataReceived(c, s)
  PROVE  /\ TracksInv' /\ OrderOK'
         /\ \A a, b \in Site : peers'[a][b] < peers[a][b] => Joins(c, a, b) /\ ~Only(c, a, b)
  <1>p. PICK p, msg, rest : /\ p = PeerAt(c, s) /\ msg = Head(wire[c][s])
                            /\ rest = [wire EXCEPT ![c][s] = Tail(@)]
    OBVIOUS
  <1>1. Arrives(c, s, p, msg, rest)
    BY <1>p, Arrival DEF dataReceived
  <1>2. conns' = conns /\ established' = established /\ writes' = writes
    BY DEF dataReceived
  <1>3. Poked(s, p, msg, rest) \/ ChangesRequested(s, p, msg, rest) \/ ChangesReceived(s, p, msg, rest)
    BY <1>p DEF dataReceived
  <1>4. \A a, b \in Site : peers[a][b] \in Nat
    BY DEF TracksInv, TypeInv
  <1>5. Joins(c, s, p)
    BY <1>1 DEF Arrives
  <1>6. CASE Poked(s, p, msg, rest)
    BY <1>1, <1>2, <1>4, <1>6, PokedStep
  <1>7. CASE ChangesRequested(s, p, msg, rest)
    BY <1>1, <1>2, <1>4, <1>7, RequestedStep
  <1>8. CASE ChangesReceived(s, p, msg, rest)
    BY <1>1, <1>2, <1>5, <1>8, ReceivedStep
  <1> QED BY <1>3, <1>6, <1>7, <1>8

-----------------------------------------------------------------------------
LEMMA P2PInit == Init => TracksInv /\ OrderOK
  <1> SUFFICES ASSUME Init PROVE TracksInv /\ OrderOK
    OBVIOUS
  <1>1. DOMAIN conns = {} /\ conns \in Seq(Connection) /\ Len(conns) = 0
    BY EmptySeq DEF Init
  <1>2. \A s \in Site : log[s] = <<>> /\ log[s] \in Seq(SUBSET Change) /\ Len(log[s]) = 0
    BY EmptySeq DEF Init
  <1>3. TypeInv
    <2>1. log \in [Site -> Seq(SUBSET Change)]
      BY <1>2 DEF Init
    <2>2. wire \in [Conn -> [Site -> Seq(Message)]]
      BY EmptySeq DEF Init
    <2> QED BY <1>1, <2>1, <2>2, ConstantsAssumption DEF Init, TypeInv
  <1>4. PairsOK /\ WireOK /\ OrderOK
    BY <1>1 DEF PairsOK, WireOK, OrderOK
  <1>5. EstablishedOK /\ UnusedOK
    BY DEF Init, EstablishedOK, UnusedOK
  <1>6. PeersOK
    <2>1. ASSUME NEW s \in Site, NEW p \in Site
          PROVE  Knows(s, p, peers[s][p]) /\ peers[s][p] = 0
      BY <1>2 DEF Init, Knows
    <2> QED BY <2>1 DEF PeersOK
  <1> QED BY <1>3, <1>4, <1>5, <1>6 DEF TracksInv

LEMMA P2PNext ==
  ASSUME TracksInv, OrderOK, [Next]_vars
  PROVE  /\ TracksInv' /\ OrderOK'
         /\ \A a, b \in Site : peers'[a][b] < peers[a][b] =>
              \E c \in DOMAIN conns : Joins(c, a, b) /\ ~Only(c, a, b)
  <1>1. \A a, b \in Site : peers[a][b] \in Nat
    BY DEF TracksInv, TypeInv
  <1>2. CASE UNCHANGED vars
    <2>1. /\ log' = log /\ peers' = peers /\ conns' = conns /\ established' = established
          /\ wire' = wire /\ writes' = writes
      BY <1>2 DEF vars
    <2>2. TypeInv /\ TypeInv'
      BY <2>1 DEF TracksInv, TypeInv
    <2>3. LogGrows
      BY <2>1, <2>2, LogTypes DEF LogGrows
    <2>4. WiresMove
      BY <2>1, <2>2, WireKept DEF WiresMove, TracksInv
    <2> QED BY <1>1, <2>1, <2>2, <2>3, <2>4, SameConns
  <1>3. ASSUME NEW s \in Site, NEW p \in Site, connectTo(s, p)
        PROVE  TracksInv' /\ OrderOK' /\ peers' = peers
    BY <1>3, ConnectStep DEF connectTo
  <1>4. ASSUME NEW c \in DOMAIN conns, Break(c)
        PROVE  TracksInv' /\ OrderOK' /\ peers' = peers
    BY <1>4, BreakStep DEF Break
  <1>5. ASSUME NEW c \in DOMAIN conns, NEW s \in Site, newConnection(c, s)
        PROVE  TracksInv' /\ OrderOK' /\ peers' = peers
    BY <1>5, OpenStep DEF newConnection
  <1>6. ASSUME NEW c \in DOMAIN conns, NEW s \in Site, onClose(c, s)
        PROVE  TracksInv' /\ OrderOK' /\ peers' = peers
    BY <1>6, CloseStep DEF onClose
  <1>7. ASSUME NEW c \in DOMAIN conns, NEW s \in Site, dataReceived(c, s)
        PROVE  /\ TracksInv' /\ OrderOK'
               /\ \A a, b \in Site : peers'[a][b] < peers[a][b] => Joins(c, a, b) /\ ~Only(c, a, b)
    BY <1>7, DataStep
  <1>8. ASSUME NEW s \in Site, LocalWrite(s)
        PROVE  TracksInv' /\ OrderOK' /\ peers' = peers
    BY <1>8, WriteStep DEF LocalWrite
  <1>9. ASSUME NEW s \in Site, Poke(s)
        PROVE  TracksInv' /\ OrderOK' /\ peers' = peers
    BY <1>9, PokeStep DEF Poke
  <1> QED BY <1>1, <1>2, <1>3, <1>4, <1>5, <1>6, <1>7, <1>8, <1>9 DEF Next

\* The inductive invariant: whatever breaks, crosses or fails, an answer on its way
\* says enough for the version that will be recorded with it.
THEOREM TracksInvariant == Spec => [](TracksInv /\ OrderOK)
  <1>1. TracksInv /\ OrderOK /\ [Next]_vars => (TracksInv /\ OrderOK)'
    BY P2PNext
  <1> QED BY P2PInit, <1>1, PTL DEF Spec

\* WholeDbReplicator: the version a site records of a peer in __crsql_wdbreplicator_peers
\* never promises a change the site does not hold, although the answers of two
\* connections overtake each other and it may go back.
THEOREM TracksHeld == Spec => []TracksOnlyWhatItHolds
  <1>1. TracksInv /\ OrderOK => TracksOnlyWhatItHolds
    BY DEF TracksInv, PeersOK, Knows, TracksOnlyWhatItHolds
  <1> QED BY <1>1, TracksInvariant, PTL

\* WholeDbReplicator.changesReceived: without a check for contiguity the recorded version
\* still never goes back, as long as two sites have only ever opened one connection.
THEOREM GoesForward == Spec => PeersGoForward
  <1>1. ASSUME TracksInv, OrderOK, Next, NEW s \in Site, NEW p \in Site, peers'[s][p] < peers[s][p]
        PROVE  Cardinality({c \in DOMAIN conns : Joins(c, s, p)}) > 1
    <2>1. PICK c \in DOMAIN conns : Joins(c, s, p) /\ ~Only(c, s, p)
      BY <1>1, P2PNext
    <2>2. PICK d \in DOMAIN conns : Joins(d, s, p) /\ d # c
      BY <2>1 DEF Only
    <2>j. PICK J : J = {e \in DOMAIN conns : Joins(e, s, p)}
      OBVIOUS
    <2>3. IsFiniteSet(DOMAIN conns)
      <3>1. DOMAIN conns = 1 .. Len(conns) /\ Len(conns) \in Nat
        BY <1>1, ConnTypes DEF TracksInv
      <3> QED BY <3>1, FS_Interval
    <2>4. {c, d} \subseteq J /\ IsFiniteSet(J) /\ Cardinality(J) \in Nat
      BY <2>1, <2>2, <2>3, <2>j, FS_Subset, FS_CardinalityType
    <2>5. Cardinality({c, d}) = 2
      <3>1. Cardinality({c}) = 1 /\ IsFiniteSet({c})
        BY FS_Singleton
      <3>2. Cardinality({c} \cup {d}) = 2
        BY <2>2, <3>1, FS_AddElement
      <3>3. {c} \cup {d} = {c, d}
        OBVIOUS
      <3> QED BY <3>2, <3>3
    <2>6. Cardinality({c, d}) <= Cardinality(J)
      BY <2>4, FS_Subset
    <2> QED BY <2>4, <2>5, <2>6, <2>j
  <1>2. TracksInv /\ OrderOK /\ [Next]_vars =>
          [\A s, p \in Site :
             peers'[s][p] < peers[s][p] => Cardinality({c \in DOMAIN conns : Joins(c, s, p)}) > 1]_vars
    BY <1>1
  <1> QED BY <1>2, TracksInvariant, PTL DEF Spec, PeersGoForward

-----------------------------------------------------------------------------
\* Nothing is left behind.  A site's poke, the request it brings about and the answer
\* may go over three connections; the invariant says where the news of p's writes is on
\* its way to s.

Covers(msg, p) ==
  msg.tag = "poke" /\ \A v \in DOMAIN log[p] : (\E ch \in log[p][v] : ch[1] = p) => v <= msg.version

Brings(msg, s, p) ==
  msg.tag = "apply-changes" /\ Own(p) \subseteq Holds(s) \cup {row[2] : row \in msg.changes}

\* s has asked p, over a connection that still works.
Asked(s, p) ==
  \E d \in DOMAIN conns :
    /\ Joins(d, s, p) /\ conns[d].end[s] = "open" /\ ~conns[d].down
    /\ \E msg \in ToSet(wire[d][p]) : msg.tag = "request-changes"

\* s has yet to see a connection to p close, and will lose what it has of p then.
Doomed(s, p) == \E d \in DOMAIN conns : Joins(d, s, p) /\ conns[d].end[s] = "open" /\ conns[d].down

InSync(s, p) ==
  LET c == established[p][s] IN
  c # 0 /\ ~conns[c].down =>
    \/ Own(p) \subseteq Holds(s)
    \/ notice[p] = "due"
    \/ \E msg \in ToSet(wire[c][s]) : Covers(msg, p)
    \/ /\ conns[c].end[s] = "open"
       /\ \/ Asked(s, p) \/ Doomed(s, p)
          \/ \E msg \in ToSet(wire[c][s]) : Brings(msg, s, p)

\* A site has a connection of every peer it has one open with, and it is open.
Opened(s, p) ==
  /\ established[s][p] # 0 => conns[established[s][p]].end[s] = "open"
  /\ \A c \in DOMAIN conns : Joins(c, s, p) /\ conns[c].end[s] = "open" => established[s][p] # 0

\* Nobody is told what he did himself.
Echoless(msg, s) == msg.tag = "apply-changes" => \A row \in msg.changes : row[2][1] # s

NoEcho == \A c \in DOMAIN conns, s \in Site : \A msg \in ToSet(wire[c][s]) : Echoless(msg, s)

SyncBase ==
  /\ notice \in [Site -> {"none", "due", "stuck"}]
  /\ \A c \in DOMAIN conns, s \in Site : conns[c].end[s] = "closed" => conns[c].down
  /\ NoEcho

NothingLeft ==
  /\ \A s \in Site : notice[s] # "stuck"
  /\ \A s, p \in Site : s # p => Opened(s, p) /\ InSync(s, p)

SyncInv == SyncBase /\ (excused = {} => NothingLeft)

LEMMA ToSetIs ==
  /\ ToSet(<<>>) = {}
  /\ \A q \in Seq(Message), msg \in Message : ToSet(Append(q, msg)) = ToSet(q) \cup {msg}
  <1>1. ToSet(<<>>) = {}
    BY DEF ToSet
  <1>2. ASSUME NEW q \in Seq(Message), NEW msg \in Message
        PROVE  ToSet(Append(q, msg)) = ToSet(q) \cup {msg}
    <2> PICK r : r = Append(q, msg)
      OBVIOUS
    <2>1. DOMAIN q = 1 .. Len(q) /\ Len(q) \in Nat
      BY LenProperties
    <2>2. /\ DOMAIN r = 1 .. Len(q) + 1 /\ r[Len(q) + 1] = msg
          /\ \A i \in 1 .. Len(q) : r[i] = q[i]
      BY <2>1, AppendProperties, LenProperties
    <2>3. ToSet(r) = ToSet(q) \cup {msg}
      BY <2>1, <2>2 DEF ToSet
    <2> QED BY <2>3
  <1> QED BY <1>1, <1>2

\* What is on its way to an end: what was, but for the message handled, and what is sent.
LEMMA Handled ==
  ASSUME TracksInv, NEW c \in DOMAIN conns, NEW s \in Site, NEW p, NEW msg, NEW rest,
         Arrives(c, s, p, msg, rest)
  PROVE  \A d \in DOMAIN conns, e \in Site :
           /\ ToSet(wire[d][e]) \subseteq ToSet(rest[d][e]) \cup (IF d = c /\ e = s THEN {msg} ELSE {})
           /\ ToSet(rest[d][e]) \subseteq ToSet(wire[d][e])
  <1>0. TypeInv
    BY DEF TracksInv
  <1>1. /\ wire[c][s][1] = msg /\ rest[c][s] = Tail(wire[c][s]) /\ wire[c][s] \in Seq(Message)
        /\ \A i \in DOMAIN rest[c][s] : i + 1 \in DOMAIN wire[c][s] /\ rest[c][s][i] = wire[c][s][i + 1]
    BY DEF Arrives
  <1>2. ASSUME NEW i \in DOMAIN wire[c][s]
        PROVE  wire[c][s][i] = msg \/ \E j \in DOMAIN rest[c][s] : rest[c][s][j] = wire[c][s][i]
    <2>1. CASE i = 1
      BY <1>1, <2>1
    <2>2. CASE i # 1
      <3>1. DOMAIN wire[c][s] = 1 .. Len(wire[c][s]) /\ Len(wire[c][s]) \in Nat
        BY <1>0, WireTypes
      <3>2. wire[c][s] # <<>>
        <4>1. DOMAIN wire[c][s] # {}
          BY <1>2
        <4> QED BY <4>1
      <3>3. rest[c][s] \in Seq(Message) /\ Len(rest[c][s]) = Len(wire[c][s]) - 1
        BY <1>1, <3>2, HeadTailProperties
      <3>4. DOMAIN rest[c][s] = 1 .. Len(wire[c][s]) - 1
        BY <3>3, LenProperties
      <3>5. i - 1 \in DOMAIN rest[c][s] /\ (i - 1) + 1 = i
        BY <2>2, <3>1, <3>4
      <3> QED BY <1>1, <3>5
    <2> QED BY <2>1, <2>2
  <1>3. \A d \in DOMAIN conns, e \in Site : ~(d = c /\ e = s) => rest[d][e] = wire[d][e]
    BY <1>0, ConnTypes DEF Arrives
  <1>4. ToSet(wire[c][s]) \subseteq ToSet(rest[c][s]) \cup {msg} /\ ToSet(rest[c][s]) \subseteq ToSet(wire[c][s])
    BY <1>1, <1>2 DEF ToSet
  <1>5. ASSUME NEW d \in DOMAIN conns, NEW e \in Site
        PROVE  /\ ToSet(wire[d][e]) \subseteq ToSet(rest[d][e]) \cup (IF d = c /\ e = s THEN {msg} ELSE {})
               /\ ToSet(rest[d][e]) \subseteq ToSet(wire[d][e])
    <2>1. CASE d = c /\ e = s
      BY <1>4, <2>1
    <2>2. CASE ~(d = c /\ e = s)
      BY <1>3, <2>2
    <2> QED BY <2>1, <2>2
  <1> QED BY <1>5

LEMMA SendsTo ==
  ASSUME TracksInv, NEW c \in DOMAIN conns, NEW s \in Site, NEW p, NEW msg, NEW rest,
         Arrives(c, s, p, msg, rest), NEW m \in Message, wire' = Sent(rest, s, p, m)
  PROVE  /\ \A d \in DOMAIN conns, e \in Site :
              /\ ToSet(rest[d][e]) \subseteq ToSet(wire'[d][e])
              /\ ToSet(wire'[d][e]) \subseteq ToSet(rest[d][e]) \cup (IF e = p THEN {m} ELSE {})
         /\ IsUp(established[s][p], s) => m \in ToSet(wire'[established[s][p]][p])
  <1>0. TypeInv /\ EstablishedOK
    BY DEF TracksInv
  <1>1. p \in Site /\ rest \in [Conn -> [Site -> Seq(Message)]]
    BY DEF Arrives
  <1>2. CASE ~IsUp(established[s][p], s)
    <2>1. wire' = rest
      BY <1>2 DEF Sent
    <2> QED BY <1>2, <2>1
  <1>3. CASE IsUp(established[s][p], s)
    <2> PICK a, q : a = established[s][p] /\ q = rest[a][p]
      OBVIOUS
    <2>1. a \in DOMAIN conns /\ a \in Conn
      BY <1>0, <1>1, <1>3, ConnTypes DEF EstablishedOK, IsUp
    <2>2. q \in Seq(Message)
      BY <1>1, <2>1
    <2>3. wire' = [rest EXCEPT ![a][p] = Append(q, m)]
      BY <1>3 DEF Sent
    <2>4. /\ wire'[a][p] = Append(q, m)
          /\ \A d \in Conn, e \in Site : ~(d = a /\ e = p) => wire'[d][e] = rest[d][e]
      BY <1>1, <2>1, <2>3
    <2>5. ToSet(wire'[a][p]) = ToSet(q) \cup {m}
      BY <2>2, <2>4, ToSetIs
    <2>6. DOMAIN conns \subseteq Conn
      BY <1>0, ConnTypes
    <2> QED BY <2>4, <2>5, <2>6
  <1> QED BY <1>2, <1>3

\* Of what is on its way, only msg, to x over c, is taken.
Takes(c, x, msg) ==
  \A d \in DOMAIN conns, e \in Site :
    ToSet(wire[d][e]) \subseteq ToSet(wire'[d][e]) \cup (IF d = c /\ e = x THEN {msg} ELSE {})

LEMMA Replied ==
  ASSUME TracksInv, NEW c \in DOMAIN conns, NEW s \in Site, NEW p, NEW msg, NEW rest,
         Arrives(c, s, p, msg, rest), NEW m \in Message,
         wire' = rest \/ wire' = Sent(rest, s, p, m)
  PROVE  /\ Takes(c, s, msg)
         /\ \A d \in DOMAIN conns, e \in Site :
              ToSet(wire'[d][e]) \subseteq ToSet(wire[d][e]) \cup (IF e = p THEN {m} ELSE {})
  <1>1. ASSUME NEW d \in DOMAIN conns, NEW e \in Site
        PROVE  /\ ToSet(rest[d][e]) \subseteq ToSet(wire'[d][e])
               /\ ToSet(wire'[d][e]) \subseteq ToSet(rest[d][e]) \cup (IF e = p THEN {m} ELSE {})
    <2>1. CASE wire' = rest
      BY <2>1
    <2>2. CASE wire' = Sent(rest, s, p, m)
      BY <2>2, SendsTo
    <2> QED BY <2>1, <2>2
  <1>2. ASSUME NEW d \in DOMAIN conns, NEW e \in Site
        PROVE  /\ ToSet(wire[d][e]) \subseteq ToSet(rest[d][e]) \cup (IF d = c /\ e = s THEN {msg} ELSE {})
               /\ ToSet(rest[d][e]) \subseteq ToSet(wire[d][e])
    BY Handled
  <1>3. ASSUME NEW d \in DOMAIN conns, NEW e \in Site
        PROVE  /\ ToSet(wire[d][e]) \subseteq ToSet(wire'[d][e]) \cup (IF d = c /\ e = s THEN {msg} ELSE {})
               /\ ToSet(wire'[d][e]) \subseteq ToSet(wire[d][e]) \cup (IF e = p THEN {m} ELSE {})
    BY <1>1, <1>2
  <1> QED BY <1>3 DEF Takes

\* What s holds and what p did only grow, and what is new in the log of p is not its own.
Later(s, p) ==
  /\ Holds(s) \subseteq Holds(s)' /\ Own(p)' = Own(p)
  /\ \A v \in DOMAIN log'[p] : (\E ch \in log'[p][v] : ch[1] = p) =>
       v \in DOMAIN log[p] /\ \E ch \in log[p][v] : ch[1] = p

\* The connections of s and p, and what is on its way over them, go on.
GoesOn(s, p) ==
  \A d \in DOMAIN conns : Joins(d, s, p) =>
    /\ d \in DOMAIN conns' /\ Joins(d, s, p)'
    /\ conns[d].down => conns'[d].down
    /\ conns[d].end[s] = "open" => conns'[d].end[s] = "open"
    /\ ToSet(wire[d][s]) \subseteq ToSet(wire'[d][s]) /\ ToSet(wire[d][p]) \subseteq ToSet(wire'[d][p])

LEMMA CoversStays ==
  ASSUME NEW s, NEW p, Later(s, p), NEW msg
  PROVE  /\ Covers(msg, p) => Covers(msg, p)'
         /\ Brings(msg, s, p) => Brings(msg, s, p)'
  BY DEF Later, Covers, Brings

LEMMA SyncStays ==
  ASSUME EstablishedOK, NEW s \in Site, NEW p \in Site, s # p, InSync(s, p),
         established'[p][s] \in {0, established[p][s]}, notice[p] = "due" => notice'[p] = "due",
         Later(s, p), GoesOn(s, p)
  PROVE  InSync(s, p)'
  <1>c. PICK c : c = established[p][s]
    OBVIOUS
  <1>1. SUFFICES ASSUME established'[p][s] = c, c # 0, ~conns'[c].down
                 PROVE  \/ Own(p)' \subseteq Holds(s)'
                        \/ notice'[p] = "due"
                        \/ \E msg \in ToSet(wire'[c][s]) : Covers(msg, p)'
                        \/ /\ conns'[c].end[s] = "open"
                           /\ \/ Asked(s, p)' \/ Doomed(s, p)'
                              \/ \E msg \in ToSet(wire'[c][s]) : Brings(msg, s, p)'
    BY <1>c DEF InSync
  <1>2. c \in DOMAIN conns /\ Joins(c, s, p)
    BY <1>1, <1>c DEF EstablishedOK, Joins
  <1>3. /\ ~conns[c].down /\ ToSet(wire[c][s]) \subseteq ToSet(wire'[c][s])
        /\ conns[c].end[s] = "open" => conns'[c].end[s] = "open"
    BY <1>1, <1>2 DEF GoesOn
  <1>4. CASE Own(p) \subseteq Holds(s) \/ notice[p] = "due"
    BY <1>4 DEF Later
  <1>5. CASE \E msg \in ToSet(wire[c][s]) : Covers(msg, p)
    BY <1>3, <1>5, CoversStays
  <1>6. CASE conns[c].end[s] = "open" /\ \E msg \in ToSet(wire[c][s]) : Brings(msg, s, p)
    BY <1>3, <1>6, CoversStays
  <1>7. ASSUME Asked(s, p) \/ Doomed(s, p)
        PROVE  Asked(s, p)' \/ Doomed(s, p)'
    <2>1. PICK d \in DOMAIN conns :
            /\ Joins(d, s, p) /\ conns[d].end[s] = "open"
            /\ conns[d].down \/ \E msg \in ToSet(wire[d][p]) : msg.tag = "request-changes"
      BY <1>7 DEF Asked, Doomed
    <2>2. /\ d \in DOMAIN conns' /\ Joins(d, s, p)' /\ conns'[d].end[s] = "open"
          /\ conns[d].down => conns'[d].down
          /\ ToSet(wire[d][p]) \subseteq ToSet(wire'[d][p])
      BY <2>1 DEF GoesOn
    <2> QED BY <2>1, <2>2 DEF Asked, Doomed
  <1> QED BY <1>1, <1>3, <1>4, <1>5, <1>6, <1>7, <1>c DEF InSync

\* The same for a step that handles a message, if what depended on it finds another way.
LEMMA SyncHandled ==
  ASSUME EstablishedOK, NEW s \in Site, NEW p \in Site, s # p, InSync(s, p),
         conns' = conns, established' = established, notice' = notice, Later(s, p),
         NEW c \in DOMAIN conns, NEW e \in Site, NEW msg, Takes(c, e, msg),
         established[p][s] = c /\ s = e /\ ~conns[c].down /\ Covers(msg, p) => InSync(s, p)',
         established[p][s] = c /\ s = e /\ IsUp(c, s) /\ Brings(msg, s, p) => InSync(s, p)',
         /\ IsUp(established[p][s], s) /\ p = e /\ Joins(c, s, p) /\ ~conns[c].down
         /\ msg.tag = "request-changes"
         => InSync(s, p)'
  PROVE  InSync(s, p)'
  <1>a. PICK a : a = established[p][s]
    OBVIOUS
  <1>1. CASE a = 0 \/ conns[a].down
    BY <1>1, <1>a DEF InSync
  <1>2. CASE a # 0 /\ ~conns[a].down
    <2>1. a \in DOMAIN conns
      BY <1>2, <1>a DEF EstablishedOK
    <2>2. InSync(s, p)' <=>
            \/ Own(p)' \subseteq Holds(s)'
            \/ notice'[p] = "due"
            \/ \E m \in ToSet(wire'[a][s]) : Covers(m, p)'
            \/ /\ conns[a].end[s] = "open"
               /\ \/ Asked(s, p)' \/ Doomed(s, p)'
                  \/ \E m \in ToSet(wire'[a][s]) : Brings(m, s, p)'
      BY <1>2, <1>a DEF InSync
    <2>3. CASE Own(p) \subseteq Holds(s) \/ notice[p] = "due"
      BY <2>2, <2>3 DEF Later
    <2>4. ASSUME NEW m \in ToSet(wire[a][s]), Covers(m, p)
          PROVE  InSync(s, p)'
      <3>1. m \in ToSet(wire'[a][s]) \/ (a = c /\ s = e /\ m = msg)
        BY <2>1 DEF Takes
      <3>2. Covers(m, p)'
        BY <2>4, CoversStays
      <3> QED BY <1>2, <1>a, <2>2, <2>4, <3>1, <3>2
    <2>5. ASSUME conns[a].end[s] = "open", NEW m \in ToSet(wire[a][s]), Brings(m, s, p)
          PROVE  InSync(s, p)'
      <3>1. m \in ToSet(wire'[a][s]) \/ (a = c /\ s = e /\ m = msg)
        BY <2>1 DEF Takes
      <3>2. Brings(m, s, p)'
        BY <2>5, CoversStays
      <3> QED BY <1>2, <1>a, <2>2, <2>5, <3>1, <3>2 DEF IsUp
    <2>6. ASSUME conns[a].end[s] = "open", Asked(s, p)
          PROVE  InSync(s, p)'
      <3>1. PICK d \in DOMAIN conns :
              /\ Joins(d, s, p) /\ conns[d].end[s] = "open" /\ ~conns[d].down
              /\ \E m \in ToSet(wire[d][p]) : m.tag = "request-changes"
        BY <2>6 DEF Asked
      <3>2. PICK m \in ToSet(wire[d][p]) : m.tag = "request-changes"
        BY <3>1
      <3>3. m \in ToSet(wire'[d][p]) \/ (d = c /\ p = e /\ m = msg)
        BY DEF Takes
      <3>4. CASE m \in ToSet(wire'[d][p])
        <4>1. Asked(s, p)'
          BY <3>1, <3>2, <3>4 DEF Asked, Joins
        <4> QED BY <2>2, <2>6, <4>1
      <3>5. CASE d = c /\ p = e /\ m = msg
        BY <1>2, <1>a, <2>6, <3>1, <3>2, <3>5 DEF IsUp
      <3> QED BY <3>3, <3>4, <3>5
    <2>7. CASE conns[a].end[s] = "open" /\ Doomed(s, p)
      <3>1. Doomed(s, p)'
        BY <2>7 DEF Doomed, Joins
      <3> QED BY <2>2, <2>7, <3>1
    <2> QED BY <1>2, <1>a, <2>3, <2>4, <2>5, <2>6, <2>7 DEF InSync
  <1> QED BY <1>1, <1>2

-----------------------------------------------------------------------------
\* One lemma per action.

LEMMA SameLog ==
  ASSUME log' = log
  PROVE  \A s, p \in Site : Later(s, p)
  BY DEF Later, Holds, Own

LEMMA OpenedStays ==
  ASSUME EstablishedOK, EndsStay, NEW s \in Site, NEW p \in Site, s # p, Opened(s, p),
         established'[s][p] = established[s][p],
         \A c \in DOMAIN conns : Joins(c, s, p) => conns'[c].end[s] = conns[c].end[s],
         \A c \in DOMAIN conns' : c \in DOMAIN conns \/ conns'[c].end[s] # "open"
  PROVE  Opened(s, p)'
  <1>c. PICK c : c = established[s][p]
    OBVIOUS
  <1>1. c # 0 => conns'[c].end[s] = "open"
    BY <1>c DEF EstablishedOK, Opened
  <1>2. ASSUME NEW d \in DOMAIN conns', Joins(d, s, p)', conns'[d].end[s] = "open"
        PROVE  c # 0
    <2>1. d \in DOMAIN conns /\ Joins(d, s, p)
      BY <1>2, JoinsStay
    <2> QED BY <1>2, <1>c, <2>1 DEF Opened
  <1> QED BY <1>1, <1>2, <1>c DEF Opened

LEMMA ConnectSync ==
  ASSUME TracksInv, SyncBase, NEW s0 \in Site, NEW p0 \in Site, connectTo(s0, p0)
  PROVE  SyncBase' /\ (NothingLeft => NothingLeft')
  <1>0. TypeInv /\ EstablishedOK /\ UnusedOK
    BY DEF TracksInv
  <1>1. PICK n \in Nat :
          /\ n < MaxConns /\ DOMAIN conns = 1 .. n /\ DOMAIN conns' = 1 .. n + 1
          /\ \A e \in Site : conns'[n + 1].end[e] \in {"opening", "none"}
          /\ \A c \in 1 .. n : conns'[c].end = conns[c].end /\ (conns[c].down => conns'[c].down)
    <2>1. PICK n \in Nat :
            /\ n = Len(conns) /\ n < MaxConns /\ DOMAIN conns = 1 .. n
            /\ conns' \in Seq(Connection) /\ Len(conns') = n + 1 /\ DOMAIN conns' = 1 .. n + 1
            /\ \A e \in Site : conns'[n + 1].end[e] = IF e \in {s0, p0} THEN "opening" ELSE "none"
            /\ \A c \in 1 .. n : conns'[c].end = conns[c].end /\ (conns[c].down => conns'[c].down)
      BY <1>0, ConnectIs
    <2> QED BY <2>1
  <1>2. log' = log /\ notice' = notice /\ established' = established /\ wire' = wire
    BY DEF connectTo
  <1>3. EndsStay
    BY <1>1 DEF EndsStay
  <1>4. \A c \in DOMAIN conns' : c \in DOMAIN conns \/ (c = n + 1 /\ c \in Conn /\ c \notin DOMAIN conns)
    BY <1>1, ConstantsAssumption DEF Conn
  <1>5. SyncBase'
    <2>1. ASSUME NEW c \in DOMAIN conns', NEW s \in Site
          PROVE  /\ conns'[c].end[s] = "closed" => conns'[c].down
                 /\ \A msg \in ToSet(wire'[c][s]) : Echoless(msg, s)
      <3>1. CASE c \in DOMAIN conns
        BY <1>1, <1>2, <3>1 DEF SyncBase, NoEcho
      <3>2. CASE c = n + 1 /\ c \in Conn /\ c \notin DOMAIN conns
        BY <1>0, <1>1, <1>2, <3>2, ToSetIs DEF UnusedOK
      <3> QED BY <1>4, <3>1, <3>2
    <2> QED BY <1>2, <2>1 DEF SyncBase, NoEcho
  <1>6. ASSUME NothingLeft, NEW s \in Site, NEW p \in Site, s # p
        PROVE  Opened(s, p)' /\ InSync(s, p)'
    <2>1. GoesOn(s, p)
      BY <1>1, <1>2, <1>3, JoinsStay DEF GoesOn
    <2>2. Opened(s, p) /\ InSync(s, p)
      BY <1>6 DEF NothingLeft
    <2>3. Opened(s, p)'
      BY <1>0, <1>1, <1>2, <1>3, <1>4, <1>6, <2>2, OpenedStays
    <2>4. InSync(s, p)'
      BY <1>0, <1>2, <1>6, <2>1, <2>2, SameLog, SyncStays
    <2> QED BY <2>3, <2>4
  <1> QED BY <1>2, <1>5, <1>6 DEF NothingLeft

LEMMA BreakSync ==
  ASSUME TracksInv, SyncBase, NEW c \in DOMAIN conns, Break(c)
  PROVE  SyncBase' /\ (NothingLeft => NothingLeft')
  <1>0. TypeInv /\ EstablishedOK /\ conns[c] \in Connection
    BY ConnTypes DEF TracksInv
  <1>1. /\ DOMAIN conns' = DOMAIN conns
        /\ \A d \in DOMAIN conns : conns'[d].end = conns[d].end /\ (conns[d].down => conns'[d].down)
    BY <1>0 DEF Break, Connection
  <1>2. log' = log /\ notice' = notice /\ established' = established /\ wire' = wire
    BY DEF Break
  <1>3. EndsStay
    BY <1>1 DEF EndsStay
  <1>4. SyncBase'
    BY <1>1, <1>2 DEF SyncBase, NoEcho
  <1>5. ASSUME NothingLeft, NEW s \in Site, NEW p \in Site, s # p
        PROVE  Opened(s, p)' /\ InSync(s, p)'
    <2>1. GoesOn(s, p)
      BY <1>1, <1>2, <1>3, JoinsStay DEF GoesOn
    <2>2. Opened(s, p) /\ InSync(s, p)
      BY <1>5 DEF NothingLeft
    <2>3. Opened(s, p)'
      BY <1>0, <1>1, <1>2, <1>3, <1>5, <2>2, OpenedStays
    <2>4. InSync(s, p)'
      BY <1>0, <1>2, <1>5, <2>1, <2>2, SameLog, SyncStays
    <2> QED BY <2>3, <2>4
  <1> QED BY <1>2, <1>4, <1>5 DEF NothingLeft

LEMMA OpenSync ==
  ASSUME TracksInv, SyncBase, NEW c \in DOMAIN conns, NEW x \in Site, newConnection(c, x)
  PROVE  SyncBase' /\ (NothingLeft => NothingLeft')
  <1>0. TypeInv /\ PairsOK /\ EstablishedOK /\ conns[c] \in Connection /\ c # 0
    BY ConnTypes DEF TracksInv
  <1>y. PICK y : y = PeerAt(c, x)
    OBVIOUS
  <1>1. y \in Site /\ Joins(c, x, y) /\ \A p \in Site : Joins(c, x, p) => p = y
    BY <1>0, <1>y, PeerIs DEF newConnection
  <1>2. /\ DOMAIN conns' = DOMAIN conns
        /\ \A d \in DOMAIN conns, e \in Site :
             /\ conns'[d].down = conns[d].down
             /\ conns'[d].end[e] = IF d = c /\ e = x THEN "open" ELSE conns[d].end[e]
        /\ conns[c].end[x] = "opening"
    BY <1>0 DEF newConnection, Connection
  <1>3. log' = log /\ wire' = wire
    BY DEF newConnection
  <1>4. \A s, p \in Site : established'[s][p] = IF s = x /\ p = y THEN c ELSE established[s][p]
    BY <1>0, <1>1, <1>y DEF newConnection, TypeInv
  <1>5. /\ notice' \in [Site -> {"none", "due", "stuck"}]
        /\ \A s \in Site : s # x => notice'[s] = notice[s]
        /\ notice[x] # "stuck" => notice'[x] = "due"
    BY DEF newConnection, CrrChanged, SyncBase
  <1>6. EndsStay
    BY <1>2 DEF EndsStay
  <1>7. SyncBase'
    BY <1>2, <1>3, <1>5 DEF SyncBase, NoEcho
  <1>8. ASSUME NothingLeft, NEW s \in Site, NEW p \in Site, s # p
        PROVE  Opened(s, p)' /\ InSync(s, p)'
    <2>1. Opened(s, p) /\ InSync(s, p) /\ notice[x] # "stuck"
      BY <1>8 DEF NothingLeft
    <2>2. Opened(s, p)'
      <3>1. CASE s = x /\ p = y
        BY <1>0, <1>2, <1>4, <3>1 DEF Opened
      <3>2. CASE ~(s = x /\ p = y)
        <4>1. \A d \in DOMAIN conns : Joins(d, s, p) => ~(d = c /\ s = x)
          BY <1>1, <3>2
        <4> QED BY <1>0, <1>2, <1>4, <1>6, <1>8, <2>1, <3>2, <4>1, OpenedStays
      <3> QED BY <3>1, <3>2
    <2>3. InSync(s, p)'
      <3>1. CASE p = x
        BY <1>5, <2>1, <3>1 DEF InSync
      <3>2. CASE p # x
        <4>1. GoesOn(s, p)
          BY <1>2, <1>3, <1>6, JoinsStay DEF GoesOn
        <4> QED BY <1>0, <1>3, <1>4, <1>5, <1>8, <2>1, <3>2, <4>1, SameLog, SyncStays
      <3> QED BY <3>1, <3>2
    <2> QED BY <2>2, <2>3
  <1> QED BY <1>5, <1>8, <1>7 DEF NothingLeft

LEMMA CloseSync ==
  ASSUME TracksInv, SyncBase, NEW c \in DOMAIN conns, NEW x \in Site, onClose(c, x)
  PROVE  SyncBase' /\ (NothingLeft /\ excused' = {} => excused = {} /\ NothingLeft')
  <1>0. TypeInv /\ PairsOK /\ EstablishedOK /\ conns[c] \in Connection
    BY ConnTypes DEF TracksInv
  <1>y. PICK y : y = PeerAt(c, x)
    OBVIOUS
  <1>1. /\ y \in Site /\ Joins(c, x, y) /\ conns[c].down
        /\ \A s, p \in Site : Joins(c, s, p) => (s = x /\ p = y) \/ (s = y /\ p = x)
    <2>1. conns[c].down /\ conns[c].end[x] = "open"
      BY DEF onClose
    <2>2. y \in Site /\ Joins(c, x, y) /\ \A p \in Site : Joins(c, x, p) => p = y
      BY <1>0, <1>y, <2>1, PeerIs
    <2> QED BY <1>0, <2>1, <2>2 DEF PairsOK, Joins
  <1>2. /\ DOMAIN conns' = DOMAIN conns
        /\ \A d \in DOMAIN conns, e \in Site :
             /\ conns'[d].down = conns[d].down
             /\ conns'[d].end[e] = IF d = c /\ e = x THEN "closed" ELSE conns[d].end[e]
        /\ conns[c].end[x] = "open"
    BY <1>0 DEF onClose, Connection
  <1>3. log' = log /\ notice' = notice
    BY DEF onClose
  <1>4. \A s, p \in Site : established'[s][p] = IF s = x /\ p = y THEN 0 ELSE established[s][p]
    BY <1>0, <1>1, <1>y DEF onClose, TypeInv
  <1>5. /\ excused \subseteq excused'
        /\ excused' = {} => \A d \in DOMAIN conns : d # c /\ Joins(d, x, y) => conns[d].end[x] # "open"
    <2>1. ASSUME NEW d \in DOMAIN conns, d # c, Joins(d, x, y), conns[d].end[x] = "open", excused' = {}
          PROVE  FALSE
      <3>1. PeerAt(d, x) = y
        BY <1>0, <1>1, <2>1, PeerIs DEF Joins
      <3>2. excused' = excused \cup {"orphaned"}
        BY <1>y, <2>1, <3>1 DEF onClose
      <3> QED BY <2>1, <3>2
    <2> QED BY <2>1 DEF onClose
  <1>6. \A d \in DOMAIN conns, e \in Site :
          /\ ToSet(wire'[d][e]) \subseteq ToSet(wire[d][e])
          /\ d # c => wire'[d][e] = wire[d][e]
    <2>1. PICK came \in 0 .. Len(wire[c][x]) : wire' = [wire EXCEPT ![c][x] = SubSeq(@, 1, came)]
      BY DEF onClose
    <2>q. PICK q : q = SubSeq(wire[c][x], 1, came)
      OBVIOUS
    <2>2. q \in Seq(Message) /\ Part(q, wire[c][x])
      BY <1>0, <2>q, WireTypes, PartUpTo
    <2>3. ToSet(q) \subseteq ToSet(wire[c][x])
      BY <2>2 DEF Part, ToSet
    <2>4. /\ c \in Conn /\ DOMAIN conns \subseteq Conn
          /\ wire \in [Conn -> [Site -> Seq(Message)]] /\ wire' = [wire EXCEPT ![c][x] = q]
      BY <1>0, <2>1, <2>q, ConnTypes DEF TypeInv
    <2>5. /\ wire'[c][x] = q
          /\ \A d \in DOMAIN conns, e \in Site : ~(d = c /\ e = x) => wire'[d][e] = wire[d][e]
      BY <2>4
    <2> QED BY <2>3, <2>5
  <1>7. EndsStay
    BY <1>2 DEF EndsStay
  <1>8. SyncBase'
    <2>1. NoEcho'
      BY <1>2, <1>6 DEF SyncBase, NoEcho
    <2>2. \A d \in DOMAIN conns', e \in Site : conns'[d].end[e] = "closed" => conns'[d].down
      BY <1>1, <1>2 DEF SyncBase
    <2> QED BY <1>3, <2>1, <2>2 DEF SyncBase
  <1>9. ASSUME NothingLeft, excused' = {}, NEW s \in Site, NEW p \in Site, s # p
        PROVE  Opened(s, p)' /\ InSync(s, p)'
    <2>1. Opened(s, p) /\ InSync(s, p)
      BY <1>9 DEF NothingLeft
    <2>2. \A d \in DOMAIN conns : d # c /\ Joins(d, x, y) => conns[d].end[x] # "open"
      BY <1>5, <1>9
    <2>3. CASE s = x /\ p = y
      <3>1. Opened(s, p)'
        <4>1. ASSUME NEW d \in DOMAIN conns', Joins(d, x, y)', conns'[d].end[x] = "open"
              PROVE  FALSE
          <5>1. d \in DOMAIN conns /\ Joins(d, x, y)
            BY <1>1, <1>2, <1>7, <4>1, JoinsStay
          <5> QED BY <1>2, <2>2, <4>1, <5>1
        <4> QED BY <1>4, <2>3, <4>1 DEF Opened
      <3>2. InSync(s, p)'
        <4>a. PICK a : a = established[y][x]
          OBVIOUS
        <4>1. established'[y][x] = a
          BY <1>1, <1>4, <2>3, <1>9, <4>a
        <4>2. SUFFICES ASSUME a # 0, ~conns'[a].down
                       PROVE  InSync(x, y)'
          BY <2>3, <4>1 DEF InSync
        <4>3. a \in DOMAIN conns /\ Joins(a, x, y) /\ a # c
          <5>1. a \in DOMAIN conns /\ Joins(a, y, x)
            BY <1>0, <1>1, <4>2, <4>a DEF EstablishedOK
          <5> QED BY <1>1, <1>2, <4>2, <5>1 DEF Joins
        <4>4. conns[a].end[x] # "open" /\ ~conns[a].down /\ wire'[a][x] = wire[a][x]
          BY <1>2, <1>6, <2>2, <4>2, <4>3
        <4>5. \/ Own(y) \subseteq Holds(x)
              \/ notice[y] = "due"
              \/ \E msg \in ToSet(wire[a][x]) : Covers(msg, y)
          BY <2>1, <2>3, <4>2, <4>4, <4>a DEF InSync
        <4>6. Later(x, y)
          BY <1>1, <1>3, SameLog
        <4> QED BY <1>3, <4>1, <4>4, <4>5, <4>6, CoversStays DEF InSync, Later
      <3> QED BY <3>1, <3>2
    <2>4. CASE s = y /\ p = x
      <3>1. Opened(s, p)'
        <4>1. y # x
          BY <1>9, <2>4
        <4> QED BY <1>0, <1>2, <1>4, <1>7, <1>9, <2>1, <2>4, <4>1, OpenedStays
      <3>2. InSync(s, p)'
        BY <1>1, <1>4, <2>4 DEF InSync
      <3> QED BY <3>1, <3>2
    <2>5. CASE ~(s = x /\ p = y) /\ ~(s = y /\ p = x)
      <3>1. \A d \in DOMAIN conns : Joins(d, s, p) => d # c
        BY <1>1, <2>5
      <3>2. GoesOn(s, p)
        BY <1>2, <1>6, <1>7, <3>1, JoinsStay DEF GoesOn
      <3>3. Opened(s, p)'
        BY <1>0, <1>2, <1>4, <1>7, <1>9, <2>1, <2>5, <3>1, OpenedStays
      <3>4. InSync(s, p)'
        BY <1>0, <1>3, <1>4, <1>9, <2>1, <2>5, <3>2, SameLog, SyncStays
      <3> QED BY <3>3, <3>4
    <2> QED BY <2>3, <2>4, <2>5
  <1> QED BY <1>3, <1>5, <1>8, <1>9 DEF NothingLeft

LEMMA LaterGrown ==
  ASSUME TypeInv, NEW x \in Site, NEW new \in SUBSET Change,
         log' = [log EXCEPT ![x] = Append(log[x], new)],
         NEW s \in Site, NEW p \in Site, \A ch \in new : x = p => ch[1] # p
  PROVE  Later(s, p)
  <1>n. PICK n, q : n = Len(log[x]) /\ q = Append(log[x], new)
    OBVIOUS
  <1>1. log[x] \in Seq(SUBSET Change) /\ n \in Nat /\ DOMAIN log[x] = 1 .. n
    BY <1>n, LogTypes
  <1>2. /\ q \in Seq(SUBSET Change) /\ Len(q) = n + 1 /\ q[n + 1] = new
        /\ \A v \in 1 .. n : q[v] = log[x][v]
    BY <1>1, <1>n, AppendProperties
  <1>3. DOMAIN q = 1 .. n + 1
    BY <1>2, LenProperties
  <1>4. log \in [Site -> Seq(SUBSET Change)] /\ log' = [log EXCEPT ![x] = q]
    BY <1>n DEF TypeInv
  <1>5. log'[x] = q /\ \A t \in Site : t # x => log'[t] = log[t]
    BY <1>4
  <1>6. \A t \in Site : t # x => Holds(t)' = Holds(t)
    BY <1>5 DEF Holds
  <1>7. Holds(x)' = Holds(x) \cup new
    <2>1. Holds(x)' = UNION {q[v] : v \in 1 .. n + 1}
      BY <1>3, <1>5 DEF Holds
    <2>2. Holds(x) = UNION {q[v] : v \in 1 .. n}
      BY <1>1, <1>2 DEF Holds
    <2>3. 1 .. n + 1 = (1 .. n) \cup {n + 1}
      BY <1>1
    <2> QED BY <1>2, <2>1, <2>2, <2>3
  <1>8. ASSUME NEW v \in DOMAIN log'[p], NEW ch \in log'[p][v], ch[1] = p
        PROVE  v \in DOMAIN log[p] /\ ch \in log[p][v]
    <2>1. CASE p = x
      <3>1. v \in 1 .. n + 1 /\ ch \in q[v]
        BY <1>3, <1>5, <1>8, <2>1
      <3>2. v # n + 1
        BY <1>2, <1>8, <2>1, <3>1
      <3>3. v \in 1 .. n
        BY <1>1, <3>1, <3>2
      <3> QED BY <1>1, <1>2, <2>1, <3>1, <3>3
    <2>2. CASE p # x
      BY <1>5, <1>8, <2>2
    <2> QED BY <2>1, <2>2
  <1>9. Own(p)' = Own(p)
    BY <1>6, <1>7 DEF Own
  <1> QED BY <1>6, <1>7, <1>8, <1>9 DEF Later

LEMMA WriteSync ==
  ASSUME TracksInv, SyncBase, NEW x \in Site, LocalWrite(x)
  PROVE  SyncBase' /\ (NothingLeft => NothingLeft')
  <1>0. TypeInv /\ EstablishedOK
    BY DEF TracksInv
  <1>1. /\ writes < MaxWrites /\ writes' = writes + 1
        /\ log' = [log EXCEPT ![x] = Append(log[x], {<<x, writes'>>})]
        /\ conns' = conns /\ established' = established /\ wire' = wire
    BY DEF LocalWrite
  <1>2. writes' \in Nat /\ {<<x, writes'>>} \in SUBSET Change
    BY <1>0, <1>1, ConstantsAssumption DEF TypeInv, Change
  <1>3. /\ notice' \in [Site -> {"none", "due", "stuck"}]
        /\ \A s \in Site : s # x => notice'[s] = notice[s]
        /\ notice[x] # "stuck" => notice'[x] = "due"
    BY DEF LocalWrite, CrrChanged, SyncBase
  <1>4. SyncBase'
    BY <1>1, <1>3 DEF SyncBase, NoEcho
  <1>5. ASSUME NothingLeft, NEW s \in Site, NEW p \in Site, s # p
        PROVE  Opened(s, p)' /\ InSync(s, p)'
    <2>1. Opened(s, p) /\ InSync(s, p) /\ notice[x] # "stuck"
      BY <1>5 DEF NothingLeft
    <2>2. Opened(s, p)'
      BY <1>1, <2>1 DEF Opened, Joins
    <2>3. CASE p = x
      BY <1>3, <2>1, <2>2, <2>3 DEF InSync
    <2>4. CASE p # x
      <3>1. Later(s, p)
        BY <1>0, <1>1, <1>2, <2>4, LaterGrown
      <3>2. GoesOn(s, p)
        BY <1>1 DEF GoesOn, Joins
      <3> QED BY <1>0, <1>1, <1>3, <1>5, <2>1, <2>2, <2>4, <3>1, <3>2, SyncStays
    <2> QED BY <2>3, <2>4
  <1> QED BY <1>3, <1>4, <1>5 DEF NothingLeft

LEMMA PokeSync ==
  ASSUME TracksInv, SyncBase, NEW x \in Site, Poke(x)
  PROVE  SyncBase' /\ (NothingLeft /\ excused' = {} => excused = {} /\ NothingLeft')
  <1>0. TypeInv /\ EstablishedOK
    BY DEF TracksInv
  <1>1. log' = log /\ conns' = conns /\ established' = established
    BY DEF Poke
  <1>m. PICK msg : msg = [tag |-> "poke", version |-> Len(log[x])]
    OBVIOUS
  <1>2. msg \in Message /\ msg.tag = "poke" /\ msg.version = Len(log[x])
    BY <1>0, <1>m, LogTypes DEF Message
  <1>3. \/ /\ notice' = [notice EXCEPT ![x] = "stuck"] /\ wire' = wire
           /\ excused' = excused \cup {"unannounced"}
        \/ /\ notice' = [notice EXCEPT ![x] = "none"] /\ excused' = excused
           /\ wire' = [d \in Conn |-> [e \in Site |->
                IF x # e /\ established[x][e] = d /\ IsUp(d, x) THEN Append(wire[d][e], msg) ELSE wire[d][e]]]
    BY <1>m DEF Poke
  <1>4. notice' \in [Site -> {"none", "due", "stuck"}]
    BY <1>3 DEF SyncBase
  <1>5. ASSUME NEW d \in DOMAIN conns, NEW e \in Site
        PROVE  /\ ToSet(wire[d][e]) \subseteq ToSet(wire'[d][e])
               /\ ToSet(wire'[d][e]) \subseteq ToSet(wire[d][e]) \cup {msg}
    <2>1. d \in Conn /\ wire[d][e] \in Seq(Message)
      BY <1>0, WireTypes
    <2>2. wire'[d][e] = wire[d][e] \/ wire'[d][e] = Append(wire[d][e], msg)
      BY <1>3, <2>1
    <2> QED BY <1>2, <2>1, <2>2, ToSetIs
  <1>6. SyncBase'
    <2>1. \A e \in Site : Echoless(msg, e)
      BY <1>2 DEF Echoless
    <2>2. NoEcho'
      BY <1>1, <1>5, <2>1 DEF SyncBase, NoEcho
    <2> QED BY <1>1, <1>4, <2>2 DEF SyncBase
  <1>7. ASSUME NothingLeft, excused' = {}
        PROVE  excused = {} /\ NothingLeft'
    <2>1. /\ notice' = [notice EXCEPT ![x] = "none"] /\ excused = {}
          /\ wire' = [d \in Conn |-> [e \in Site |->
                IF x # e /\ established[x][e] = d /\ IsUp(d, x) THEN Append(wire[d][e], msg) ELSE wire[d][e]]]
      BY <1>3, <1>7
    <2>2. \A s \in Site : notice'[s] = IF s = x THEN "none" ELSE notice[s]
      BY <2>1 DEF SyncBase
    <2>3. ASSUME NEW s \in Site, NEW p \in Site, s # p
          PROVE  Opened(s, p)' /\ InSync(s, p)'
      <3>1. Opened(s, p) /\ Opened(p, s) /\ InSync(s, p)
        BY <1>7, <2>3 DEF NothingLeft
      <3>2. Opened(s, p)'
        BY <1>1, <3>1 DEF Opened, Joins
      <3>3. CASE p = x
        <4>a. PICK a : a = established[x][s]
          OBVIOUS
        <4>1. SUFFICES ASSUME a # 0, ~conns[a].down
                       PROVE  \E m \in ToSet(wire'[a][s]) : Covers(m, x)'
          BY <1>1, <3>2, <3>3, <4>a DEF InSync
        <4>2. a \in DOMAIN conns /\ IsUp(a, x)
          BY <1>0, <3>1, <3>3, <4>1, <4>a DEF EstablishedOK, Opened, IsUp
        <4>3. a \in Conn /\ wire[a][s] \in Seq(Message)
          BY <1>0, <4>2, WireTypes
        <4>4. wire'[a][s] = Append(wire[a][s], msg)
          BY <2>1, <2>3, <3>3, <4>2, <4>3, <4>a
        <4>5. msg \in ToSet(wire'[a][s])
          BY <1>2, <4>3, <4>4, ToSetIs
        <4>6. Covers(msg, x)'
          BY <1>0, <1>1, <1>2, LogTypes DEF Covers
        <4> QED BY <4>5, <4>6
      <3>4. CASE p # x
        <4>1. GoesOn(s, p)
          BY <1>1, <1>5 DEF GoesOn, Joins
        <4> QED BY <1>0, <1>1, <2>2, <2>3, <3>1, <3>2, <3>4, <4>1, SameLog, SyncStays
      <3> QED BY <3>3, <3>4
    <2> QED BY <1>7, <2>1, <2>2, <2>3 DEF NothingLeft
  <1> QED BY <1>6, <1>7

LEMMA PokedSync ==
  ASSUME TracksInv, SyncBase, NEW c \in DOMAIN conns, NEW x \in Site, NEW y, NEW msg, NEW rest,
         Arrives(c, x, y, msg, rest), Poked(x, y, msg, rest), conns[c].end[x] \in {"open", "closed"},
         conns' = conns, established' = established, notice' = notice
  PROVE  SyncBase' /\ (NothingLeft => NothingLeft')
  <1>0. TypeInv /\ EstablishedOK /\ PeersOK /\ y \in Site /\ Joins(c, x, y) /\ x # y
    BY DEF TracksInv, Arrives, Joins
  <1>1. log' = log /\ peers' = peers /\ msg.tag = "poke"
    BY DEF Poked
  <1>m. PICK m : m = [tag |-> "request-changes", since |-> peers[x][y]]
    OBVIOUS
  <1>2. m \in Message /\ m.tag = "request-changes"
    BY <1>0, <1>m DEF TypeInv, Message
  <1>3. IF msg.version <= peers[x][y] THEN wire' = rest ELSE wire' = Sent(rest, x, y, m)
    BY <1>m DEF Poked
  <1>4. /\ Takes(c, x, msg)
        /\ \A d \in DOMAIN conns, e \in Site :
             ToSet(wire'[d][e]) \subseteq ToSet(wire[d][e]) \cup (IF e = y THEN {m} ELSE {})
    BY <1>2, <1>3, Replied
  <1>5. SyncBase'
    <2>1. \A e \in Site : Echoless(m, e)
      BY <1>2 DEF Echoless
    <2>2. NoEcho'
      BY <1>4, <2>1 DEF SyncBase, NoEcho
    <2> QED BY <2>2 DEF SyncBase
  <1>6. ASSUME NothingLeft, established[y][x] = c, ~conns[c].down, Covers(msg, y)
        PROVE  InSync(x, y)'
    <2>1. conns[c].end[x] = "open" /\ Opened(x, y)
      BY <1>0, <1>6 DEF SyncBase, NothingLeft
    <2>2. CASE msg.version <= peers[x][y]
      <3>1. Knows(x, y, peers[x][y]) /\ DOMAIN log[y] = 1 .. Len(log[y]) /\ Len(log[y]) \in Nat
            /\ peers[x][y] \in Nat /\ msg.version \in Nat
        <4>1. msg \in Message
          BY DEF Arrives
        <4>2. msg.version \in Nat
          BY <1>1, <4>1 DEF Message
        <4>3. Knows(x, y, peers[x][y])
          BY <1>0 DEF PeersOK
        <4>4. peers[x][y] \in Nat
          BY <1>0 DEF TypeInv
        <4> QED BY <1>0, <4>2, <4>3, <4>4, LogTypes
      <3>2. ASSUME NEW v \in DOMAIN log[y], NEW ch \in log[y][v], ch[1] = y
            PROVE  ch \in Holds(x)
        <4>1. v <= msg.version
          BY <1>6, <3>2 DEF Covers
        <4>2. v \in 1 .. peers[x][y]
          BY <2>2, <3>1, <4>1
        <4> QED BY <1>0, <3>1, <3>2, <4>2 DEF Knows
      <3>3. Own(y) \subseteq Holds(x)
        BY <3>2 DEF Own, Holds
      <3> QED BY <1>1, <3>3 DEF InSync, Own, Holds
    <2>3. CASE ~(msg.version <= peers[x][y])
      <3>a. PICK d : d = established[x][y]
        OBVIOUS
      <3>1. d # 0 /\ d \in DOMAIN conns /\ Joins(d, x, y) /\ conns[d].end[x] = "open"
        BY <1>0, <2>1, <3>a DEF Opened, EstablishedOK
      <3>2. CASE conns[d].down
        <4>1. Doomed(x, y)'
          BY <3>1, <3>2 DEF Doomed, Joins
        <4> QED BY <1>6, <2>1, <4>1 DEF InSync
      <3>3. CASE ~conns[d].down
        <4>1. m \in ToSet(wire'[d][y])
          BY <1>2, <1>3, <2>3, <3>1, <3>3, <3>a, SendsTo DEF IsUp
        <4>2. Asked(x, y)'
          BY <1>2, <3>1, <3>3, <4>1 DEF Asked, Joins
        <4> QED BY <1>6, <2>1, <4>2 DEF InSync
      <3> QED BY <3>2, <3>3
    <2> QED BY <2>2, <2>3
  <1>7. ASSUME NothingLeft, NEW s \in Site, NEW p \in Site, s # p
        PROVE  Opened(s, p)' /\ InSync(s, p)'
    <2>1. Opened(s, p) /\ InSync(s, p)
      BY <1>7 DEF NothingLeft
    <2>2. Opened(s, p)'
      BY <2>1 DEF Opened, Joins
    <2>3. ASSUME established[p][s] = c, s = x, ~conns[c].down, Covers(msg, p)
          PROVE  InSync(s, p)'
      <3>1. Joins(c, x, p)
        <4>1. established[p][x] # 0
          BY <1>0, <2>3, ConnTypes
        <4> QED BY <1>0, <2>3, <4>1 DEF EstablishedOK, Joins
      <3>2. p = y
        BY <1>0, <3>1, PeerIs DEF Joins, TracksInv
      <3> QED BY <1>6, <1>7, <2>3, <3>2
    <2>4. InSync(s, p)'
      <3>1. Later(s, p)
        BY <1>1, SameLog
      <3>2. ~Brings(msg, s, p) /\ msg.tag # "request-changes"
        BY <1>1 DEF Brings
      <3> QED BY <1>0, <1>4, <1>7, <2>1, <2>3, <3>1, <3>2, SyncHandled
    <2> QED BY <2>2, <2>4
  <1> QED BY <1>5, <1>7 DEF NothingLeft

LEMMA RequestedSync ==
  ASSUME TracksInv, SyncBase, NEW c \in DOMAIN conns, NEW x \in Site, NEW y, NEW msg, NEW rest,
         Arrives(c, x, y, msg, rest), ChangesRequested(x, y, msg, rest),
         conns' = conns, established' = established, notice' = notice
  PROVE  SyncBase' /\ (NothingLeft => NothingLeft')
  <1>0. TypeInv /\ EstablishedOK /\ y \in Site /\ Joins(c, x, y) /\ x # y /\ MessageOK(msg, x, y)
    BY DEF TracksInv, Arrives, Joins
  <1>1. log' = log /\ msg.tag = "request-changes"
    BY DEF ChangesRequested
  <1>m. PICK rows, m : /\ rows = RowsSince(x, msg.since, y)
                       /\ m = [tag |-> "apply-changes", changes |-> rows]
    OBVIOUS
  <1>2. log[x] \in Seq(SUBSET Change) /\ DOMAIN log[x] = 1 .. Len(log[x]) /\ Len(log[x]) \in Nat
    BY <1>0, LogTypes
  <1>3. m \in Message /\ m.tag = "apply-changes" /\ m.changes = rows
    BY <1>2, <1>m DEF Message, RowsSince
  <1>4. wire' = rest \/ wire' = Sent(rest, x, y, m)
    BY <1>m DEF ChangesRequested
  <1>5. /\ Takes(c, x, msg)
        /\ \A d \in DOMAIN conns, e \in Site :
             ToSet(wire'[d][e]) \subseteq ToSet(wire[d][e]) \cup (IF e = y THEN {m} ELSE {})
    BY <1>3, <1>4, Replied
  <1>6. SyncBase'
    <2>1. Echoless(m, y)
      BY <1>3, <1>m DEF Echoless, RowsSince
    <2>2. NoEcho'
      BY <1>5, <2>1 DEF SyncBase, NoEcho
    <2> QED BY <2>2 DEF SyncBase
  <1>7. Own(x) \subseteq Holds(y) \cup {row[2] : row \in rows}
    <2>1. Knows(y, x, msg.since)
      BY <1>0, <1>1 DEF MessageOK
    <2>2. ASSUME NEW v \in DOMAIN log[x], NEW ch \in log[x][v], ch[1] = x
          PROVE  ch \in Holds(y) \cup {row[2] : row \in rows}
      <3>1. CASE v > msg.since
        <4>1. ch \in Change
          BY <1>2, <2>2, ElementOfSeq
        <4>2. <<v, ch>> \in rows
          BY <1>0, <1>m, <2>2, <3>1, <4>1 DEF RowsSince
        <4> QED BY <4>2
      <3>2. CASE ~(v > msg.since)
        BY <1>0, <1>2, <2>1, <2>2, <3>2 DEF Knows
      <3> QED BY <3>1, <3>2
    <2> QED BY <2>2 DEF Own, Holds
  <1>8. ASSUME NothingLeft, IsUp(established[x][y], y)
        PROVE  InSync(y, x)'
    <2>a. PICK a : a = established[x][y]
      OBVIOUS
    <2>1. CASE rows = {}
      BY <1>1, <1>7, <2>1 DEF InSync, Own, Holds
    <2>2. CASE rows # {}
      <3>1. wire' = Sent(rest, x, y, m)
        BY <1>m, <2>2 DEF ChangesRequested
      <3>2. Opened(x, y) /\ a # 0 /\ ~conns[a].down /\ conns[a].end[y] = "open"
        BY <1>0, <1>8, <2>a DEF NothingLeft, IsUp
      <3>3. IsUp(a, x)
        BY <2>a, <3>2 DEF Opened, IsUp
      <3>4. m \in ToSet(wire'[a][y])
        BY <1>3, <2>a, <3>1, <3>3, SendsTo
      <3>5. Brings(m, y, x)'
        BY <1>1, <1>3, <1>7 DEF Brings, Own, Holds
      <3> QED BY <2>a, <3>2, <3>4, <3>5 DEF InSync
    <2> QED BY <2>1, <2>2
  <1>9. ASSUME NothingLeft, NEW s \in Site, NEW p \in Site, s # p
        PROVE  Opened(s, p)' /\ InSync(s, p)'
    <2>1. Opened(s, p) /\ InSync(s, p)
      BY <1>9 DEF NothingLeft
    <2>2. Opened(s, p)'
      BY <2>1 DEF Opened, Joins
    <2>3. ASSUME p = x, Joins(c, s, p), IsUp(established[p][s], s)
          PROVE  InSync(s, p)'
      <3>1. s = y
        BY <1>0, <2>3, PeerIs DEF Joins, TracksInv
      <3> QED BY <1>8, <1>9, <2>3, <3>1
    <2>4. InSync(s, p)'
      <3>1. Later(s, p)
        BY <1>1, SameLog
      <3>2. ~Brings(msg, s, p) /\ ~Covers(msg, p)
        BY <1>1 DEF Brings, Covers
      <3> QED BY <1>0, <1>5, <1>9, <2>1, <2>3, <3>1, <3>2, SyncHandled
    <2> QED BY <2>2, <2>4
  <1> QED BY <1>6, <1>9 DEF NothingLeft

LEMMA ReceivedSync ==
  ASSUME TracksInv, SyncBase, NEW c \in DOMAIN conns, NEW x \in Site, NEW y, NEW msg, NEW rest,
         Arrives(c, x, y, msg, rest), ChangesReceived(x, y, msg, rest),
         conns' = conns, established' = established, notice' = notice
  PROVE  SyncBase' /\ (NothingLeft /\ excused' = {} => excused = {} /\ NothingLeft')
  <1>0. TypeInv /\ EstablishedOK /\ y \in Site /\ Joins(c, x, y) /\ x # y /\ msg \in Message
    BY DEF TracksInv, Arrives, Joins
  <1>1. wire' = rest /\ msg.tag = "apply-changes"
    BY DEF ChangesReceived
  <1>2. /\ Takes(c, x, msg)
        /\ \A d \in DOMAIN conns, e \in Site : ToSet(wire'[d][e]) \subseteq ToSet(wire[d][e])
    <2>1. ASSUME NEW d \in DOMAIN conns, NEW e \in Site
          PROVE  /\ ToSet(wire[d][e]) \subseteq ToSet(rest[d][e]) \cup (IF d = c /\ e = x THEN {msg} ELSE {})
                 /\ ToSet(rest[d][e]) \subseteq ToSet(wire[d][e])
      BY Handled
    <2> QED BY <1>1, <2>1 DEF Takes
  <1>3. SyncBase'
    <2>1. NoEcho'
      BY <1>2 DEF SyncBase, NoEcho
    <2> QED BY <2>1 DEF SyncBase
  <1>4. ASSUME NothingLeft, excused' = {}
        PROVE  excused = {} /\ NothingLeft'
    <2>n. PICK new : new = {row[2] : row \in msg.changes} \ Holds(x)
      OBVIOUS
    <2>1. excused = {} /\ log' = IF new = {} THEN log ELSE [log EXCEPT ![x] = Append(log[x], new)]
      BY <1>4, <2>n DEF ChangesReceived
    <2>2. new \in SUBSET Change
      BY <1>0, <1>1, <2>n DEF Message
    <2>3. \A ch \in new : ch[1] # x
      <3>1. msg \in ToSet(wire[c][x])
        BY DEF Arrives, ToSet
      <3> QED BY <1>1, <2>n, <3>1 DEF SyncBase, NoEcho, Echoless
    <2>4. \A s, p \in Site : Later(s, p)
      <3>1. CASE new = {}
        BY <2>1, <3>1, SameLog
      <3>2. ASSUME new # {}, NEW s \in Site, NEW p \in Site
            PROVE  Later(s, p)
        BY <1>0, <2>1, <2>2, <2>3, <3>2, LaterGrown
      <3> QED BY <3>1, <3>2
    <2>5. {row[2] : row \in msg.changes} \cup Holds(x) \subseteq Holds(x)'
      <3>1. CASE new = {}
        BY <2>1, <2>n, <3>1 DEF Holds
      <3>2. CASE new # {}
        <4>1. new \subseteq Holds(x)'
          BY <1>0, <2>1, <2>2, <3>2, LogAppends
        <4> QED BY <2>4, <2>n, <4>1 DEF Later
      <3> QED BY <3>1, <3>2
    <2>6. ASSUME NEW s \in Site, NEW p \in Site, s # p
          PROVE  Opened(s, p)' /\ InSync(s, p)'
      <3>1. Opened(s, p) /\ InSync(s, p)
        BY <1>4, <2>6 DEF NothingLeft
      <3>2. Opened(s, p)'
        BY <3>1 DEF Opened, Joins
      <3>3. s = x /\ Brings(msg, s, p) => InSync(s, p)'
        BY <2>4, <2>5 DEF Brings, InSync, Later
      <3>4. InSync(s, p)'
        <4>1. Later(s, p)
          BY <2>4
        <4>2. ~Covers(msg, p) /\ msg.tag # "request-changes"
          BY <1>1 DEF Covers
        <4> QED BY <1>0, <1>2, <2>6, <3>1, <3>3, <4>1, <4>2, SyncHandled
      <3> QED BY <3>2, <3>4
    <2> QED BY <1>4, <2>1, <2>6 DEF NothingLeft
  <1> QED BY <1>3, <1>4

LEMMA DataSync ==
  ASSUME TracksInv, SyncBase, NEW c \in DOMAIN conns, NEW x \in Site, dataReceived(c, x)
  PROVE  SyncBase' /\ (NothingLeft /\ excused' = {} => excused = {} /\ NothingLeft')
  <1>p. PICK y, msg, rest : /\ y = PeerAt(c, x) /\ msg = Head(wire[c][x])
                            /\ rest = [wire EXCEPT ![c][x] = Tail(@)]
    OBVIOUS
  <1>1. Arrives(c, x, y, msg, rest)
    BY <1>p, Arrival DEF dataReceived
  <1>2. conns' = conns /\ established' = established /\ notice' = notice /\ conns[c].end[x] \in {"open", "closed"}
    BY DEF dataReceived
  <1>3. Poked(x, y, msg, rest) \/ ChangesRequested(x, y, msg, rest) \/ ChangesReceived(x, y, msg, rest)
    BY <1>p DEF dataReceived
  <1>4. CASE Poked(x, y, msg, rest)
    <2>1. excused' = excused
      BY <1>4 DEF Poked
    <2> QED BY <1>1, <1>2, <1>4, <2>1, PokedSync
  <1>5. CASE ChangesRequested(x, y, msg, rest)
    <2>1. excused' = excused
      BY <1>5 DEF ChangesRequested
    <2> QED BY <1>1, <1>2, <1>5, <2>1, RequestedSync
  <1>6. CASE ChangesReceived(x, y, msg, rest)
    BY <1>1, <1>2, <1>6, ReceivedSync
  <1> QED BY <1>3, <1>4, <1>5, <1>6

LEMMA SyncInit == Init => SyncInv
  <1> SUFFICES ASSUME Init PROVE SyncInv
    OBVIOUS
  <1>1. DOMAIN conns = {}
    BY DEF Init
  <1>2. SyncBase
    BY <1>1 DEF Init, SyncBase, NoEcho
  <1>3. \A s, p \in Site : Opened(s, p) /\ InSync(s, p)
    BY <1>1 DEF Init, Opened, InSync
  <1> QED BY <1>2, <1>3 DEF Init, SyncInv, NothingLeft

LEMMA SyncNext ==
  ASSUME TracksInv, SyncInv, [Next]_vars
  PROVE  SyncInv'
  <1>0. SyncBase /\ (excused = {} => NothingLeft)
    BY DEF SyncInv
  <1>1. CASE UNCHANGED vars
    <2>1. SyncBase'
      BY <1>0, <1>1 DEF vars, SyncBase, NoEcho
    <2>2. NothingLeft => NothingLeft'
      BY <1>1 DEF vars, NothingLeft, Opened, InSync, Joins, Own, Holds, Covers, Brings, Asked, Doomed
    <2> QED BY <1>0, <1>1, <2>1, <2>2 DEF vars, SyncInv
  <1>2. ASSUME NEW s \in Site, NEW p \in Site, connectTo(s, p)
        PROVE  SyncInv'
    <2>1. excused' = excused
      BY <1>2 DEF connectTo
    <2> QED BY <1>0, <1>2, <2>1, ConnectSync DEF SyncInv
  <1>3. ASSUME NEW c \in DOMAIN conns, Break(c)
        PROVE  SyncInv'
    <2>1. excused' = excused
      BY <1>3 DEF Break
    <2> QED BY <1>0, <1>3, <2>1, BreakSync DEF SyncInv
  <1>4. ASSUME NEW c \in DOMAIN conns, NEW s \in Site, newConnection(c, s)
        PROVE  SyncInv'
    <2>1. excused' = excused
      BY <1>4 DEF newConnection
    <2> QED BY <1>0, <1>4, <2>1, OpenSync DEF SyncInv
  <1>5. ASSUME NEW c \in DOMAIN conns, NEW s \in Site, onClose(c, s)
        PROVE  SyncInv'
    <2>1. excused' = {} => excused = {}
      BY <1>5 DEF onClose
    <2> QED BY <1>0, <1>5, <2>1, CloseSync DEF SyncInv
  <1>6. ASSUME NEW c \in DOMAIN conns, NEW s \in Site, dataReceived(c, s)
        PROVE  SyncInv'
    <2>1. excused' = {} => excused = {}
      BY <1>6 DEF dataReceived, Poked, ChangesRequested, ChangesReceived
    <2> QED BY <1>0, <1>6, <2>1, DataSync DEF SyncInv
  <1>7. ASSUME NEW s \in Site, LocalWrite(s)
        PROVE  SyncInv'
    <2>1. excused' = excused
      BY <1>7 DEF LocalWrite
    <2> QED BY <1>0, <1>7, <2>1, WriteSync DEF SyncInv
  <1>8. ASSUME NEW s \in Site, Poke(s)
        PROVE  SyncInv'
    <2>1. excused' = {} => excused = {}
      BY <1>8 DEF Poke
    <2> QED BY <1>0, <1>8, <2>1, PokeSync DEF SyncInv
  <1> QED BY <1>1, <1>2, <1>3, <1>4, <1>5, <1>6, <1>7, <1>8 DEF Next

\* The second invariant: until something happens that the code does not retry, the news of
\* what a site wrote is due, or in a poke, a request or an answer that still gets through,
\* whichever connections these go over.
THEOREM SyncInvariant == Spec => []SyncInv
  <1>1. TracksInv /\ SyncInv /\ [Next]_vars => SyncInv'
    BY SyncNext
  <1> QED BY SyncInit, <1>1, TracksInvariant, PTL DEF Spec

\* WholeDbReplicator and WholeDbRtc: once nothing is on its way, sites that are connected
\* have each other's writes, although a poke, the request and the answer may each go over
\* another connection, and each is simply dropped when that connection is broken.
THEOREM QuietIsInSync == Spec => []QuietMeansInSync
  <1>1. TracksInv /\ SyncInv => QuietMeansInSync
    <2> SUFFICES ASSUME TracksInv, SyncInv, excused = {}, Quiet,
                        NEW s \in Site, NEW p \in Site, Connected(s, p)
                 PROVE  Own(p) \subseteq Holds(s)
      BY DEF QuietMeansInSync
    <2>1. PICK c \in DOMAIN conns : Joins(c, s, p) /\ IsUp(c, s) /\ IsUp(c, p)
      BY DEF Connected
    <2>a. PICK a : a = established[p][s]
      OBVIOUS
    <2>2. s # p /\ Opened(p, s) /\ InSync(s, p)
      BY <2>1 DEF SyncInv, NothingLeft, Joins
    <2>3. a # 0 /\ conns[a].end[p] = "open"
      BY <2>1, <2>2, <2>a DEF Opened, Joins, IsUp
    <2>4. a \in DOMAIN conns
      BY <2>3, <2>a DEF TracksInv, EstablishedOK
    <2>5. ~conns[a].down /\ wire[a][s] = <<>> /\ ToSet(wire[a][s]) = {}
      BY <2>3, <2>4, ToSetIs DEF Quiet
    <2>6. notice[p] # "due" /\ ~Doomed(s, p)
      BY DEF Quiet, Doomed
    <2>7. ~Asked(s, p)
      BY ToSetIs DEF Quiet, Asked
    <2> QED BY <2>2, <2>3, <2>5, <2>6, <2>7, <2>a DEF InSync
  <1> QED BY <1>1, TracksInvariant, SyncInvariant, PTL

=============================================================================
