------------------------------- MODULE Codecs -------------------------------
(***************************************************************************)
(* The codecs of the two sync protocols: the binary form of ws-common      *)
(* messages (WebSockets, and the TCP connections of ws-litefs), and the    *)
(* binary and JSON forms of direct-connect messages.  What one end writes  *)
(* and what the other reads are listed separately, field by field, from    *)
(* the encoder and from the decoder.                                       *)
(*                                                                         *)
(* Everything is scaled down: a byte is four bits, a 64-bit integer two    *)
(* bytes, an id two bytes (of 16), and the doubles of JavaScript hold every*)
(* integer up to MaxSafe and the even ones above it.                       *)
(***************************************************************************)
EXTENDS Integers, SequencesExt

Byte == 0..15
MaxSafe == 15

\* Characters: 0..9 are the digits, then the minus sign and a letter.
Minus == 10
Letter == 11

-----------------------------------------------------------------------------
(* The primitives of lib0: bytes, fixed integers, integers of variable      *)
(* length (the top bit says that another byte follows; a signed one has its *)
(* sign below that bit), and sequences with their length in front.          *)

K(kind, of) == [kind |-> kind, of |-> of]
U8 == K("u8", <<>>)
Bool == K("bool", <<>>)
Id == K("id", <<>>)
I64 == K("i64", <<>>)
VarUint == K("varuint", <<>>)
VarInt == K("varint", <<>>)
Bytes == K("bytes", <<>>)       \* varString and varUint8Array
Value == K("value", <<>>)
Fields(kinds) == K("fields", kinds)
ListOf(kind) == K("list", <<kind>>)
Optional(kind) == K("optional", <<kind>>)

RECURSIVE WriteVarUint(_)
WriteVarUint(n) == IF n < 8 THEN <<n>> ELSE <<8 + (n % 8)>> \o WriteVarUint(n \div 8)

WriteVarInt(n) ==
  LET a == IF n < 0 THEN 0 - n ELSE n
      sign == IF n < 0 THEN 4 ELSE 0
  IN IF a < 4 THEN <<sign + a>> ELSE <<8 + sign + (a % 4)>> \o WriteVarUint(a \div 4)

WriteI64(n) == LET w == n % 256 IN <<w % 16, w \div 16>>

\* The types of a value: the bytes that tell them apart.
TypeByte == [null |-> 0, bigint |-> 1, number |-> 2, string |-> 3, bool |-> 4, blob |-> 5]
TypeOf(byte) == CHOOSE t \in DOMAIN TypeByte : TypeByte[t] = byte

\* A value of a change: its JavaScript type and what it holds.
Val(type, v) == [type |-> type, v |-> v]

WriteValue(x) ==
  <<TypeByte[x.type]>> \o
  CASE x.type = "null" -> <<>>
    [] x.type \in {"bigint", "number"} -> WriteI64(x.v[1])   \* a float has the width of an i64
    [] x.type = "bool" -> x.v
    [] x.type \in {"string", "blob"} -> WriteVarUint(Len(x.v)) \o x.v

RECURSIVE Write(_, _)
Write(k, x) ==
  CASE k.kind = "u8" -> <<x>>
    [] k.kind = "bool" -> IF x THEN <<1>> ELSE <<0>>
    [] k.kind = "id" -> x
    [] k.kind = "i64" -> WriteI64(x)
    [] k.kind = "varuint" -> WriteVarUint(x)
    [] k.kind = "varint" -> WriteVarInt(x)
    [] k.kind = "bytes" -> WriteVarUint(Len(x)) \o x
    [] k.kind = "value" -> WriteValue(x)
    [] k.kind = "fields" -> FlattenSeq([i \in DOMAIN k.of |-> Write(k.of[i], x[i])])
    [] k.kind = "list" ->
         WriteVarUint(Len(x)) \o FlattenSeq([i \in DOMAIN x |-> Write(k.of[1], x[i])])
    [] k.kind = "optional" ->
         IF x = <<>> THEN <<TypeByte["null"]>> ELSE <<TypeByte["blob"]>> \o Write(k.of[1], x)

\* What a read returns: what it read, and where it stopped.
R(v, at) == [v |-> v, at |-> at]

RECURSIVE ReadVarUint(_, _)
ReadVarUint(b, at) ==
  IF b[at] < 8 THEN R(b[at], at + 1)
  ELSE LET more == ReadVarUint(b, at + 1) IN R((b[at] % 8) + 8 * more.v, more.at)

ReadVarInt(b, at) ==
  LET sign == IF (b[at] \div 4) % 2 = 1 THEN -1 ELSE 1
      more == IF b[at] < 8 THEN R(0, at + 1) ELSE ReadVarUint(b, at + 1)
  IN R(sign * ((b[at] % 4) + 4 * more.v), more.at)

ReadI64(b, at) ==
  LET w == b[at] + 16 * b[at + 1] IN R(IF w < 128 THEN w ELSE w - 256, at + 2)

ReadArray(b, at, n) == R(SubSeq(b, at, at + n - 1), at + n)

ReadBytes(b, at) == LET n == ReadVarUint(b, at) IN ReadArray(b, n.at, n.v)

ReadValue(b, at) ==
  LET t == TypeOf(b[at])
      r == CASE t = "null" -> R(<<>>, at + 1)
             [] t \in {"bigint", "number"} ->
                  LET n == ReadI64(b, at + 1) IN R(<<n.v>>, n.at)
             [] t = "bool" -> ReadArray(b, at + 1, 1)
             [] t \in {"string", "blob"} -> ReadBytes(b, at + 1)
  IN R(Val(t, r.v), r.at)

RECURSIVE Read(_, _, _)
Read(k, b, at) ==
  LET ReadAll(kinds, from) ==
        FoldLeft(LAMBDA acc, kind : LET r == Read(kind, b, acc.at)
                                    IN R(Append(acc.v, r.v), r.at),
                 R(<<>>, from), kinds)
  IN CASE k.kind = "u8" -> R(b[at], at + 1)
       [] k.kind = "bool" -> R(b[at] = 1, at + 1)
       [] k.kind = "id" -> ReadArray(b, at, 2)
       [] k.kind = "i64" -> ReadI64(b, at)
       [] k.kind = "varuint" -> ReadVarUint(b, at)
       [] k.kind = "varint" -> ReadVarInt(b, at)
       [] k.kind = "bytes" -> ReadBytes(b, at)
       [] k.kind = "value" -> ReadValue(b, at)
       [] k.kind = "fields" -> ReadAll(k.of, at)
       [] k.kind = "list" ->
            LET n == ReadVarUint(b, at)
            IN ReadAll([i \in 1..n.v |-> k.of[1]], n.at)
       [] k.kind = "optional" ->
            IF b[at] = TypeByte["null"] THEN R(<<>>, at + 1) ELSE Read(k.of[1], b, at + 1)

-----------------------------------------------------------------------------
(* The messages, as what their encoders write and their decoders read.     *)

Seq64 == Fields(<<I64, VarInt>>)
Seq64U == Fields(<<I64, VarUint>>)

WsWriteChange == <<Bytes, Bytes, Bytes, Value, I64, I64, Optional(Id), I64, VarInt>>
\* Mutant of WsReadChange: the seq is taken for unsigned, as in direct-connect.
WsReadChangeUnsigned ==
  <<Bytes, Bytes, Bytes, Value, I64, I64, Optional(Id), I64, VarUint>>

WsReadChange == <<Bytes, Bytes, Bytes, Value, I64, I64, Optional(Id), I64, VarInt>>

WsTag == [AnnouncePresence |-> 1, Changes |-> 2, RejectChanges |-> 3, StartStreaming |-> 4,
          CreateDbOnPrimary |-> 5, ApplyChangesOnPrimary |-> 6, Ping |-> 7, Pong |-> 8,
          CreateDbOnPrimaryResponse |-> 9, Err |-> 10, ApplyChangesOnPrimaryResponse |-> 11]

WsWrites == [
  AnnouncePresence |-> <<<<"sender", Id>>, <<"lastSeens", ListOf(Fields(<<Id, Seq64>>))>>,
                         <<"schemaName", Bytes>>, <<"schemaVersion", I64>>>>,
  Changes |-> <<<<"sender", Id>>, <<"since", Seq64>>,
                <<"changes", ListOf(Fields(WsWriteChange))>>>>,
  RejectChanges |-> <<<<"whose", Id>>, <<"since", Seq64>>>>,
  StartStreaming |-> <<<<"since", Seq64>>, <<"excludeSites", ListOf(Id)>>,
                       <<"localOnly", Bool>>>>,
  CreateDbOnPrimary |-> <<<<"_reqid", VarInt>>, <<"room", Bytes>>, <<"schemaName", Bytes>>,
                          <<"schemaVersion", I64>>>>,
  ApplyChangesOnPrimary |-> <<<<"_reqid", VarInt>>, <<"sender", Id>>,
                              <<"changes", ListOf(Fields(WsWriteChange))>>, <<"room", Bytes>>,
                              <<"newLastSeen", Seq64>>>>,
  Ping |-> <<>>,
  Pong |-> <<>>,
  CreateDbOnPrimaryResponse |-> <<<<"_reqid", VarInt>>, <<"txid", I64>>>>,
  Err |-> <<<<"_reqid", VarInt>>, <<"err", Bytes>>>>,
  ApplyChangesOnPrimaryResponse |-> <<<<"_reqid", VarInt>>>>]

WsReads == [
  AnnouncePresence |-> <<<<"sender", Id>>, <<"lastSeens", ListOf(Fields(<<Id, Seq64>>))>>,
                         <<"schemaName", Bytes>>, <<"schemaVersion", I64>>>>,
  Changes |-> <<<<"sender", Id>>, <<"since", Seq64>>,
                <<"changes", ListOf(Fields(WsReadChange))>>>>,
  RejectChanges |-> <<<<"whose", Id>>, <<"since", Seq64>>>>,
  StartStreaming |-> <<<<"since", Seq64>>, <<"excludeSites", ListOf(Id)>>,
                       <<"localOnly", Bool>>>>,
  CreateDbOnPrimary |-> <<<<"_reqid", VarInt>>, <<"room", Bytes>>, <<"schemaName", Bytes>>,
                          <<"schemaVersion", I64>>>>,
  ApplyChangesOnPrimary |-> <<<<"_reqid", VarInt>>, <<"sender", Id>>,
                              <<"changes", ListOf(Fields(WsReadChange))>>, <<"room", Bytes>>,
                              <<"newLastSeen", Seq64>>>>,
  Ping |-> <<>>,
  Pong |-> <<>>,
  CreateDbOnPrimaryResponse |-> <<<<"_reqid", VarInt>>, <<"txid", I64>>>>,
  Err |-> <<<<"_reqid", VarInt>>, <<"err", Bytes>>>>,
  ApplyChangesOnPrimaryResponse |-> <<<<"_reqid", VarInt>>>>]

DirectWriteChange == <<Bytes, Bytes, Bytes, Value, I64, I64, I64, VarInt>>
DirectReadChange == <<Bytes, Bytes, Bytes, Value, I64, I64, I64, VarInt>>

DirectTag == [applyChanges |-> 0, getChanges |-> 1, establishOutboundStream |-> 2,
              ackChanges |-> 3, streamingChanges |-> 4, applyChangesResponse |-> 5,
              createOrMigrateResponse |-> 6, createOrMigrate |-> 7, getLastSeen |-> 8,
              getLastSeenResponse |-> 9, getChangesResponse |-> 10, uploadSchema |-> 11,
              activateSchema |-> 12, establishOutboundStreamResponse |-> 13]

\* writeBigUint64 leaves the bytes that readBigInt64 takes for a signed integer.
DirectWrites ==
  LET changes == <<"changes", ListOf(Fields(DirectWriteChange))>>
  IN [applyChanges |-> <<<<"toDbid", Id>>, <<"fromDbid", Id>>, <<"schemaVersion", I64>>,
                         <<"seqStart", Seq64U>>, <<"seqEnd", Seq64U>>, changes>>,
      getChanges |-> <<<<"dbid", Id>>, <<"requestorDbid", Id>>, <<"schemaVersion", I64>>,
                       <<"since", Seq64U>>>>,
      establishOutboundStream |-> <<<<"toDbid", Id>>, <<"fromDbid", Id>>,
                                    <<"schemaVersion", I64>>, <<"seqStart", Seq64U>>>>,
      getLastSeen |-> <<<<"toDbid", Id>>, <<"fromDbid", Id>>>>,
      getLastSeenResponse |-> <<<<"seq", Seq64U>>>>,
      getChangesResponse |-> <<<<"seqStart", Seq64U>>, <<"seqEnd", Seq64U>>, changes>>,
      createOrMigrate |-> <<<<"dbid", Id>>, <<"requestorDbid", Id>>, <<"schemaName", Bytes>>,
                            <<"schemaVersion", I64>>>>,
      createOrMigrateResponse |-> <<<<"status", Bytes>>, <<"seq", Seq64U>>>>,
      ackChanges |-> <<<<"seqEnd", Seq64U>>>>,
      streamingChanges |-> <<<<"seqStart", Seq64U>>, <<"seqEnd", Seq64U>>, changes>>,
      applyChangesResponse |-> <<>>,
      establishOutboundStreamResponse |-> <<>>,
      uploadSchema |-> <<<<"name", Bytes>>, <<"version", I64>>, <<"content", Bytes>>,
                         <<"activate", Bool>>>>,
      activateSchema |-> <<<<"name", Bytes>>, <<"version", I64>>>>]

DirectReads ==
  LET changes == <<"changes", ListOf(Fields(DirectReadChange))>>
  IN [applyChanges |-> <<<<"toDbid", Id>>, <<"fromDbid", Id>>, <<"schemaVersion", I64>>,
                         <<"seqStart", Seq64U>>, <<"seqEnd", Seq64U>>, changes>>,
      getChanges |-> <<<<"dbid", Id>>, <<"requestorDbid", Id>>, <<"schemaVersion", I64>>,
                       <<"since", Seq64U>>>>,
      establishOutboundStream |-> <<<<"toDbid", Id>>, <<"fromDbid", Id>>,
                                    <<"schemaVersion", I64>>, <<"seqStart", Seq64U>>>>,
      getLastSeen |-> <<<<"toDbid", Id>>, <<"fromDbid", Id>>>>,
      getLastSeenResponse |-> <<<<"seq", Seq64U>>>>,
      getChangesResponse |-> <<<<"seqStart", Seq64U>>, <<"seqEnd", Seq64U>>, changes>>,
      createOrMigrate |-> <<<<"dbid", Id>>, <<"requestorDbid", Id>>, <<"schemaName", Bytes>>,
                            <<"schemaVersion", I64>>>>,
      createOrMigrateResponse |-> <<<<"status", Bytes>>, <<"seq", Seq64U>>>>,
      ackChanges |-> <<<<"seqEnd", Seq64U>>>>,
      streamingChanges |-> <<<<"seqStart", Seq64U>>, <<"seqEnd", Seq64U>>, changes>>,
      applyChangesResponse |-> <<>>,
      establishOutboundStreamResponse |-> <<>>,
      uploadSchema |-> <<<<"name", Bytes>>, <<"version", I64>>, <<"content", Bytes>>,
                         <<"activate", Bool>>>>,
      activateSchema |-> <<<<"name", Bytes>>, <<"version", I64>>>>]

\* A message is its tag and its fields.
Msg(tag, f) == [tag |-> tag, f |-> f]

Encode(tags, writes, m) ==
  <<tags[m.tag]>> \o FlattenSeq([i \in DOMAIN writes[m.tag] |->
    Write(writes[m.tag][i][2], m.f[writes[m.tag][i][1]])])

\* decode reads one message from the front and does not look at the rest.
Decode(tags, reads, b) ==
  LET tag == CHOOSE t \in DOMAIN tags : tags[t] = b[1]
      all == Read(Fields([i \in DOMAIN reads[tag] |-> reads[tag][i][2]]), b, 2).v
  IN Msg(tag, [name \in {reads[tag][i][1] : i \in DOMAIN reads[tag]} |->
                 all[CHOOSE i \in DOMAIN all : reads[tag][i][1] = name]])

-----------------------------------------------------------------------------
(* The JSON form: ids in hexadecimal, 64-bit integers as decimal strings,   *)
(* and the value of a change as the JSON value that is nearest.             *)

BytesToHex(b) == FlattenSeq([i \in DOMAIN b |-> <<b[i] \div 4, b[i] % 4>>])
HexToBytes(h) == [i \in 1..(Len(h) \div 2) |-> 4 * h[2 * i - 1] + h[2 * i]]

RECURSIVE Digits(_)
Digits(n) == IF n < 10 THEN <<n>> ELSE Append(Digits(n \div 10), n % 10)
ToText(n) == IF n < 0 THEN <<Minus>> \o Digits(0 - n) ELSE Digits(n)
OfText(s) ==
  LET magnitude == FoldLeft(LAMBDA acc, d : IF d = Minus THEN acc ELSE 10 * acc + d, 0, s)
  IN IF s[1] = Minus THEN 0 - magnitude ELSE magnitude

\* Number(x): the nearest double, of two the even one.
AsDouble(n) ==
  IF n \in (0 - MaxSafe - 1)..(MaxSafe + 1) \/ n % 2 = 0 THEN n
  ELSE IF (n + 1) % 4 = 0 THEN n + 1 ELSE n - 1

\* Mutant of EncodeValue: integers above MaxSafe are numbers like the others.
EncodeValueAsNumber(x) ==
  CASE x.type = "bigint" -> Val("number", <<AsDouble(x.v[1])>>)
    [] x.type = "blob" -> Val("array", BytesToHex(x.v))
    [] OTHER -> x

EncodeValue(x) ==
  CASE x.type = "bigint" ->
         IF x.v[1] > MaxSafe THEN Val("string", ToText(x.v[1]))
         ELSE Val("number", <<AsDouble(x.v[1])>>)
    [] x.type = "blob" -> Val("array", BytesToHex(x.v))
    [] OTHER -> x

IsNumeral(s) == s # <<>> /\ \A i \in DOMAIN s : s[i] < 10

DecodeValue(y) ==
  CASE y.type = "array" -> Val("blob", HexToBytes(y.v))
    [] y.type = "string" /\ IsNumeral(y.v) ->
         IF OfText(y.v) > MaxSafe THEN Val("bigint", <<OfText(y.v)>>) ELSE y
    [] OTHER -> y

EncodeChanges(cs) == [i \in DOMAIN cs |->
  <<cs[i][1], BytesToHex(cs[i][2]), cs[i][3], EncodeValue(cs[i][4]),
    ToText(cs[i][5]), ToText(cs[i][6]), ToText(cs[i][7]), cs[i][8]>>]

DecodeChanges(cs) == [i \in DOMAIN cs |->
  <<cs[i][1], HexToBytes(cs[i][2]), cs[i][3], DecodeValue(cs[i][4]),
    OfText(cs[i][5]), OfText(cs[i][6]), OfText(cs[i][7]), cs[i][8]>>]

HexField == {"toDbid", "fromDbid", "dbid", "requestorDbid"}
BigField == {"schemaVersion", "version"}
SeqField == {"seqStart", "seqEnd", "since", "seq"}

JsonEncode(m) == Msg(m.tag, [name \in DOMAIN m.f |->
  LET x == m.f[name]
  IN CASE name \in HexField -> BytesToHex(x)
       [] name \in BigField -> ToText(x)
       [] name \in SeqField -> <<ToText(x[1]), x[2]>>
       [] name = "changes" -> EncodeChanges(x)
       [] OTHER -> x])

JsonDecode(m) == Msg(m.tag, [name \in DOMAIN m.f |->
  LET x == m.f[name]
  IN CASE name \in HexField -> HexToBytes(x)
       [] name \in BigField -> OfText(x)
       [] name \in SeqField -> <<OfText(x[1]), x[2]>>
       [] name = "changes" -> DecodeChanges(x)
       [] OTHER -> x])

-----------------------------------------------------------------------------
(* One delivery: the messages of one data event (two may arrive in one on   *)
(* the TCP connections of ws-litefs), and what the receiver decodes.        *)

CONSTANTS
  WsMessage,       \* messages of the WebSocket protocol
  DirectMessage    \* messages of direct-connect

VARIABLES
  codec,   \* which of the three is in use
  sent,    \* the messages of the event
  wire,    \* what is on the way: bytes, or a JSON object
  got      \* what was decoded: nothing yet, or one message

vars == <<codec, sent, wire, got>>

Init ==
  /\ codec \in {"ws", "binary", "json"}
  /\ sent = <<>>
  /\ wire = <<>>
  /\ got = <<>>

\* Only the connections to a LiteFS primary may join two messages.
OverTcp == {"CreateDbOnPrimary", "ApplyChangesOnPrimary", "Ping", "Pong",
            "CreateDbOnPrimaryResponse", "Err", "ApplyChangesOnPrimaryResponse"}

WsSend(m) ==
  /\ codec = "ws" /\ got = <<>>
  /\ sent = <<>> \/ (Len(sent) = 1 /\ {sent[1].tag, m.tag} \subseteq OverTcp)
  /\ sent' = Append(sent, m)
  /\ wire' = wire \o Encode(WsTag, WsWrites, m)
  /\ UNCHANGED <<codec, got>>

BinarySend(m) ==
  /\ codec = "binary" /\ sent = <<>>
  /\ sent' = <<m>>
  /\ wire' = Encode(DirectTag, DirectWrites, m)
  /\ UNCHANGED <<codec, got>>

JsonSend(m) ==
  /\ codec = "json" /\ sent = <<>>
  /\ sent' = <<m>>
  /\ wire' = <<JsonEncode(m)>>
  /\ UNCHANGED <<codec, got>>

Receive ==
  /\ wire # <<>> /\ got = <<>>
  /\ got' = CASE codec = "ws" -> <<Decode(WsTag, WsReads, wire)>>
              [] codec = "binary" -> <<Decode(DirectTag, DirectReads, wire)>>
              [] codec = "json" -> <<JsonDecode(wire[1])>>
  /\ UNCHANGED <<codec, sent, wire>>

Next ==
  \/ \E m \in WsMessage : WsSend(m)
  \/ \E m \in DirectMessage : BinarySend(m) \/ JsonSend(m)
  \/ Receive

Spec == Init /\ [][Next]_vars

-----------------------------------------------------------------------------
(* Properties.                                                              *)

\* Whatever follows a message in its data event, decoding gives back the message
\* that was encoded: every reader takes exactly the bytes its writer left, through
\* integers of any length (varints count, so none is negative), empty lists and every
\* type of value.
FirstMessageArrives ==
  got # <<>> /\ codec # "json" => got[1] = sent[1]

\* What SQLite stores for a value: it does not tell a bigint from a number.
SqlValue(x) == IF x.type \in {"bigint", "number"} THEN Val("numeric", x.v) ELSE x

\* The values JSON cannot bring over: text of digits above MaxSafe, which comes back
\* as a bigint (jsonDecode.ts says so), and integers below -MaxSafe, which are rounded.
LostInJson(x) ==
  \/ x.type = "string" /\ IsNumeral(x.v) /\ OfText(x.v) > MaxSafe
  \/ x.type = "bigint" /\ x.v[1] < 0 - MaxSafe

\* A message in JSON arrives with every id and version it had, and each change with the
\* value SQLite had for it, but for the values JSON cannot bring over: integers above
\* MaxSafe travel as text and are integers again, text that looks like a small number
\* stays text.
JsonKeepsSqlValues ==
  got # <<>> /\ codec = "json" =>
    /\ [got[1] EXCEPT !.f = [name \in DOMAIN @ \ {"changes"} |-> @[name]]]
         = [sent[1] EXCEPT !.f = [name \in DOMAIN @ \ {"changes"} |-> @[name]]]
    /\ "changes" \in DOMAIN sent[1].f =>
         LET before == sent[1].f.changes
             after == got[1].f.changes
         IN /\ Len(after) = Len(before)
            /\ \A i \in DOMAIN before :
                 /\ \A n \in 1..8 \ {4} : after[i][n] = before[i][n]
                 /\ \/ SqlValue(after[i][4]) = SqlValue(before[i][4])
                    \/ LostInJson(before[i][4])

\* The comment of encodeValue: integers that a number cannot hold become text.  The
\* code compares with MAX_SAFE_INTEGER only, so integers below -MaxSafe are rounded.
NoIntegerIsRounded ==
  got # <<>> /\ codec = "json" /\ "changes" \in DOMAIN sent[1].f =>
    \A i \in DOMAIN sent[1].f.changes :
      sent[1].f.changes[i][4].type = "bigint" =>
        got[1].f.changes[i][4].v = sent[1].f.changes[i][4].v
=============================================================================
