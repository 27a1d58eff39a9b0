--------------------------- MODULE MCQmiExchange ----------------------------
(***************************************************************************)
(* Descriptors and structures for QmiExchange.  A byte holds four values,  *)
(* so that 16-bit lengths wrap at 16 bytes and one-byte counts at 4.       *)
(***************************************************************************)
EXTENDS QmiExchange

Elem(type, tlv, len, size, array, ei) ==
  [type |-> type, elem_len |-> len, elem_size |-> size, array_type |-> array,
   tlv_type |-> tlv, ei |-> ei]

Flag(tlv)            == Elem("opt", tlv, 1, 1, "none", << >>)
Count(tlv, size)     == Elem("len", tlv, 1, size, "none", << >>)
Field(tlv, size)       == Elem("basic", tlv, 1, size, "none", << >>)
Ints(tlv, n, array)  == Elem("basic", tlv, n, 1, array, << >>)
Str(tlv, n)          == Elem("string", tlv, n, 1, "none", << >>)
Struct(tlv, ei)      == Elem("struct", tlv, 1, 1, "none", ei)
Structs(tlv, n, array, ei) == Elem("struct", tlv, n, 1, array, ei)

\* A response with its result (qmi_response_type_v01_ei, whose elements have type 0),
\* an optional array and an optional string.
Response == <<Struct(2, <<Field(0, 1), Field(0, 1)>>), Flag(16), Count(16, 1), Ints(16, 2, "var"),
              Flag(17), Str(17, 2)>>

\* An array of structures that hold an array of their own; structures three deep.
Nested == <<Count(1, 1), Structs(1, 2, "var", <<Field(1, 2), Count(1, 1), Ints(1, 2, "var")>>)>>
Deep   == <<Field(1, 1), Flag(16), Struct(16, <<Structs(16, 2, "static", <<Field(16, 1)>>), Field(16, 1)>>)>>

\* Strings in a structure, with short and long length fields.
Named == <<Struct(1, <<Str(1, 3), Str(1, 5), Field(1, 1)>>)>>

\* Everything optional, and nothing at all; a static array.
Optional == <<Flag(16), Field(16, 2), Flag(17), Ints(17, 3, "static"), Flag(18),
              Count(18, 2), Ints(18, 5, "var")>>
Nothing  == << >>

\* Too long for the lengths when it is long.
Long == <<Field(1, 1), Flag(16), Str(16, 17)>>


Fill(n) == [k \in 1..n |-> k % Base]

\* All structures for a descriptor, up to the bytes of integers and strings.
RECURSIVE Values(_, _, _)
Values(ei, i, n) ==
  IF i > Len(ei) THEN {<< >>}
  ELSE
    LET e == ei[i]
        j == SkipToNextElem(ei, i, 1)
        absent(k) == [l \in 1..(j - k) |-> Blank(ei[k + l - 1])]
        then(S) == { <<x>> \o rest : x \in S, rest \in Values(ei, i + 1, n) }
    IN  CASE e.type = "opt" -> then({1}) \cup { absent(i) \o rest : rest \in Values(ei, j, n) }
          [] e.type = "len" ->
               UNION { { <<k>> \o rest : rest \in Values(ei, i + 1, k) } : k \in 0..ei[i + 1].elem_len }
          [] e.type = "basic" -> then({Fill(DataLen(e, n) * e.elem_size)})
          [] e.type = "struct" -> then([1..DataLen(e, n) -> Values(e.ei, 1, 0)])
          [] e.type = "string" -> then({ Fill(k) : k \in 0..e.elem_len })

All(types) == UNION { { [ei |-> ei, v |-> v] : v \in Values(ei, 1, 0) } : ei \in types }

Usual == {Response, Nested, Deep, Named, Optional, Nothing, Long}
UsualMessages == All(Usual)

\* What is nested in them, level by level.
NestedIn(S) ==
  UNION { UNION { { [ei |-> m.ei[i].ei, v |-> m.v[i][k]] : k \in DOMAIN m.v[i] }
                  : i \in { i \in DOMAIN m.ei : m.ei[i].type = "struct" } } : m \in S }
DescribedIn(T) == UNION { { ei[i].ei : i \in { i \in DOMAIN ei : ei[i].type = "struct" } } : ei \in T }

NestedStructures ==
  [level \in NestedLevels |-> CASE level = 2 -> NestedIn(UsualMessages)
                                [] level = 3 -> NestedIn(NestedIn(UsualMessages))
                                [] level = 4 -> {}]
NestedDescriptors ==
  [level \in NestedLevels |-> CASE level = 2 -> DescribedIn(Usual)
                                [] level = 3 -> DescribedIn(DescribedIn(Usual))
                                [] level = 4 -> {}]

SomeUnknown   == {{}, {16}, {17, 18}}
SomeServers   == [version : {0, 1, 3, 4}, instance : {0, 1, 5}]
=============================================================================
