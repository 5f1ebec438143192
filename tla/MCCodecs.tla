------------------------------- MODULE MCCodecs -------------------------------
(* Sample messages for Codecs: every tag, and each of its fields in turn through *)
(* the values at the borders of its encoding.                                    *)
EXTENDS Codecs

Ids == <<<<1, 9>>, <<15, 8>>>>
Ints == <<5, -1, -128, 127, 16, -17>>
Uints == <<0, 3, 4, 8, 31, 200>>
Texts == <<<<>>, <<Letter>>, <<1, 2>>, <<1, 7>>, <<Minus, 2, 0>>, <<8, 15, 0, 8, 8, 8, 8, 8, 8>>>>
Values == <<
  Val("null", <<>>), Val("bigint", <<15>>), Val("bigint", <<17>>), Val("bigint", <<-16>>),
  Val("bigint", <<-17>>), Val("bigint", <<-3>>), Val("number", <<3>>), Val("number", <<-16>>),
  Val("string", <<>>), Val("string", <<1, 7>>), Val("string", <<1, 2>>),
  Val("string", <<Minus, 1, 7>>), Val("string", <<Letter>>),
  Val("bool", <<0>>), Val("bool", <<1>>), Val("blob", <<>>), Val("blob", <<0, 8, 15>>)>>

\* The first choice for every place, with one place at a time taking the others.
Varied(choices) ==
  <<[i \in DOMAIN choices |-> choices[i][1]]>> \o
  FlattenSeq([place \in DOMAIN choices |-> [j \in 1..(Len(choices[place]) - 1) |->
    [i \in DOMAIN choices |-> choices[i][IF i = place THEN j + 1 ELSE 1]]]])

RECURSIVE Inputs(_)
Inputs(k) ==
  CASE k.kind = "bool" -> <<FALSE, TRUE>>
    [] k.kind = "id" -> Ids
    [] k.kind = "i64" -> Ints
    [] k.kind \in {"varuint", "varint"} -> Uints
    [] k.kind = "bytes" -> Texts
    [] k.kind = "value" -> Values
    [] k.kind = "optional" -> <<<<>>>> \o Ids
    [] k.kind = "fields" -> Varied([i \in DOMAIN k.of |-> Inputs(k.of[i])])
    [] k.kind = "list" ->
         LET c == Inputs(k.of[1])
         IN <<<<>>, <<c[1], c[Len(c)]>>>> \o [i \in DOMAIN c |-> <<c[i]>>]

Samples(writes) == UNION {
  LET fields == writes[tag]
      names == {fields[i][1] : i \in DOMAIN fields}
  IN {Msg(tag, [name \in names |-> row[CHOOSE i \in DOMAIN fields : fields[i][1] = name]]) :
        row \in ToSet(Varied([i \in DOMAIN fields |-> Inputs(fields[i][2])]))} :
  tag \in DOMAIN writes}

SampleWs == Samples(WsWrites)
SampleDirect == Samples(DirectWrites)
=============================================================================
