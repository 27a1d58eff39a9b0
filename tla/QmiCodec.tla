------------------------------ MODULE QmiCodec ------------------------------
(***************************************************************************)
(* qrtr/lib/qmi.c: encoding a C structure as a QMI message and back, driven *)
(* by a descriptor.                                                        *)
(*                                                                         *)
(* A descriptor is the sequence of struct qmi_elem_info before QMI_EOTI,   *)
(* each a record                                                           *)
(*   [type, elem_len, elem_size, array_type, tlv_type, ei]                 *)
(* with type "opt" (QMI_OPT_FLAG), "len" (QMI_DATA_LEN), "basic" (the      *)
(* seven integer types), "struct" or "string", and ei the descriptor of a  *)
(* nested structure.  A C structure is a sequence with a value for each    *)
(* element: 0 or 1 for a flag, a number for a length, bytes for integers   *)
(* and strings, a sequence of structures for structures; arrays hold just  *)
(* the elements in use.                                                    *)
(*                                                                         *)
(* Bytes hold Base values, 256 in the code.  A message is what follows the *)
(* header, a sequence of bytes; types of elements count as one byte.       *)
(*                                                                         *)
(* qmi.c calls itself for nested structures.  What it does at one level is *)
(* an operator with a parameter for what it does at the next, a function;  *)
(* Encoder, Decoder and MinLen are these functions, level by level.  Its   *)
(* loops are functions of the number of turns.                             *)
(***************************************************************************)
EXTENDS Integers, Sequences

CONSTANTS
  Base,           \* values of a byte (256)
  OptionalStart,  \* OPTIONAL_TLV_TYPE_START
  Levels,         \* how deep structures nest, a message being level 1
  Descriptors,    \* Descriptors[level]: of the structures nested at a level
  Structures      \* Structures[level]: [ei, v], the structures found there

NestedLevels == 2..(Levels + 1)

ASSUME CodecConstants ==
  /\ Base \in Nat \ {0, 1} /\ OptionalStart \in Nat \ {0} /\ Levels \in Nat \ {0}

TlvHead == 3     \* TLV_TYPE_SIZE + TLV_LEN_SIZE

\* Lengths are one byte or two, on the wire and in front of nested strings.
LenSize(e)    == IF e.elem_size = 1 THEN 1 ELSE 2
PrefixSize(e) == IF e.elem_len <= Base THEN 1 ELSE 2

\* The size bytes of n, lowest first, and back; the numbers they hold.
Limit(size)    == IF size = 1 THEN Base ELSE Base * Base
Bytes(n, size) == IF size = 1 THEN <<n % Base>> ELSE <<n % Base, (n \div Base) % Base>>
Number(b)      == IF Len(b) = 1 THEN b[1] ELSE b[1] + Base * b[2]

\* The array length in force at element e, n being that of the last "len".
DataLen(e, n) ==
  CASE e.array_type = "none"   -> 1
    [] e.array_type = "static" -> e.elem_len
    [] e.array_type = "var"    -> n

\* A zeroed structure.
Blank(e)     == IF e.type \in {"opt", "len"} THEN 0 ELSE << >>
Zeroed(ei)   == [i \in DOMAIN ei |-> Blank(ei[i])]

\* skip_to_next_elem: past every element of the same TLV; in a nested structure
\* past one.
SkipToNextElem(ei, i, level) ==
  IF level > 1 THEN i + 1
  ELSE CHOOSE j \in (i + 1)..(Len(ei) + 1) :
         /\ j = Len(ei) + 1 \/ ei[j].tlv_type # ei[i].tlv_type
         /\ \A k \in i..(j - 1) : ei[k].tlv_type = ei[i].tlv_type

-----------------------------------------------------------------------------
(* What the interface demands of descriptors and structures.               *)

IsSequence(s) == Len(s) \in Nat /\ DOMAIN s = 1..Len(s)

SameTlv(ei, i, j) == ei[i].tlv_type = ei[j].tlv_type

\* One array per length, which can count it; no array before a length that is
\* too long for that; structures described at the next level.  Type 0 is that of the
\* end marker, which skip_to_next_elem would pass in a message.
LegalElem(level, ei, i) ==
  LET e == ei[i]
  IN  /\ e.type \in {"opt", "len", "basic", "struct", "string"}
      /\ e.array_type \in {"none", "static", "var"}
      /\ e.elem_len \in Nat \ {0} /\ e.elem_size \in Nat \ {0}
      /\ e.tlv_type \in Nat /\ (level = 1 => e.tlv_type # 0)
      /\ e.type \notin {"basic", "struct"} => e.array_type = "none"
      /\ e.type = "string" => e.elem_size = 1
      /\ e.type = "len" => /\ i < Len(ei) /\ ei[i + 1].array_type = "var"
                           /\ ei[i + 1].elem_len < Limit(LenSize(e))
                           /\ \A j \in 1..(i - 1) : ei[j].array_type # "none" =>
                                ei[j].elem_len < Limit(LenSize(e))
      /\ e.array_type = "var" => i > 1 /\ ei[i - 1].type = "len"
      /\ e.type = "struct" => level <= Levels /\ e.ei \in Descriptors[level + 1]

\* A TLV is in one piece and holds one value; flags open the optional ones.
LegalTlv(ei, i) ==
  LET e == ei[i]
  IN  /\ e.type = "opt" => /\ e.tlv_type >= OptionalStart
                           /\ i < Len(ei) /\ SameTlv(ei, i, i + 1) /\ ei[i + 1].type # "opt"
      /\ e.type = "len" => SameTlv(ei, i, i + 1)
      /\ \A j \in 1..(i - 1) : SameTlv(ei, i, j) =>
           \A k \in j..(i - 1) : SameTlv(ei, i, k) /\ ei[k].type \in {"opt", "len"}
      /\ e.tlv_type >= OptionalStart =>
           \E j \in 1..i : SameTlv(ei, i, j) /\ ei[j].type = "opt"

LegalMessage(ei) ==
  IsSequence(ei) /\ \A i \in DOMAIN ei : LegalElem(1, ei, i) /\ LegalTlv(ei, i)

\* Structures are not empty; encoder and elem_len differ about the length of a
\* string of Base bytes.
LegalNested(level, ei) ==
  /\ IsSequence(ei) /\ Len(ei) > 0
  /\ \A i \in DOMAIN ei :
       /\ LegalElem(level, ei, i) /\ ei[i].type # "opt"
       /\ ei[i].type = "string" => ei[i].elem_len # Base /\ ei[i].elem_len < Base * Base

\* A structure has what its flags and lengths say, and zeroes elsewhere.
Present(ei, v, i) ==
  \A j \in 1..(i - 1) : ei[j].type = "opt" /\ SameTlv(ei, i, j) => v[j] = 1

ValidValue(level, ei, v, i) ==
  LET e == ei[i]
      n == DataLen(e, v[i - 1])
  IN  CASE e.type = "opt"    -> v[i] \in {0, 1}
        [] e.type = "len"    -> v[i] \in 0..ei[i + 1].elem_len
        [] e.type = "basic"  -> v[i] \in Seq(0..(Base - 1)) /\ Len(v[i]) = n * e.elem_size
        [] e.type = "string" -> v[i] \in Seq(0..(Base - 1)) /\ Len(v[i]) <= e.elem_len
        [] e.type = "struct" -> /\ v[i] = [k \in 1..n |-> v[i][k]]
                                /\ \A k \in 1..n : [ei |-> e.ei, v |-> v[i][k]] \in Structures[level + 1]

ValidStructure(level, ei, v) ==
  /\ v = [i \in DOMAIN ei |-> v[i]]
  /\ \A i \in DOMAIN ei : IF level > 1 \/ Present(ei, v, i) THEN ValidValue(level, ei, v, i)
                                                         ELSE v[i] = Blank(ei[i])

ASSUME DescriptorsLegal ==
  \A level \in NestedLevels :
    /\ \A ei \in Descriptors[level] : level <= Levels /\ LegalNested(level, ei)
    /\ \A s \in Structures[level] : s.ei \in Descriptors[level] /\ ValidStructure(level, s.ei, s.v)

\* Strings of nested structures: qmi_encode compares them with room that still
\* holds the header of their TLV.
HasString[level \in NestedLevels] ==
  IF level > Levels THEN << >>
  ELSE [ei \in Descriptors[level] |->
          \E i \in DOMAIN ei : \/ ei[i].type = "string"
                              \/ (ei[i].type = "struct" /\ HasString[level + 1][ei[i].ei])]

NestedString(ei) == \E i \in DOMAIN ei : ei[i].type = "struct" /\ HasString[2][ei[i].ei]

-----------------------------------------------------------------------------
(* The shortest message.                                                   *)

\* One turn of qmi_calc_min_msg_len: mandatory elements count, arrays and
\* strings at full length.
CountElem(nested, ei, level, st) ==
  LET e      == ei[st.i]
      tlv    == IF level = 1 THEN TlvHead ELSE 0
      Add(n) == [i |-> st.i + 1, len |-> st.len + n]
  IN  CASE e.type = "opt"    -> [i |-> SkipToNextElem(ei, st.i, level), len |-> st.len]
        [] e.type = "len"    -> Add(LenSize(e))
        [] e.type = "struct" -> Add(nested[e.ei] + tlv)
        [] e.type = "string" -> Add((IF level > 1 THEN PrefixSize(e) ELSE 0)
                                      + e.elem_len * e.elem_size + tlv)
        [] e.type = "basic"  -> Add(e.elem_len * e.elem_size + tlv)

CountLoop(nested, ei, level) ==
  LET after[k \in 0..Len(ei)] ==
        IF k = 0 THEN [i |-> 1, len |-> 0]
        ELSE LET st == after[k - 1]
             IN  IF st.i > Len(ei) THEN st ELSE CountElem(nested, ei, level, st)
  IN  after

CalcMinUnlessOptional(nested, ei, level) ==
  IF \E i \in DOMAIN ei : ei[i].type = "opt" THEN 0 ELSE CountLoop(nested, ei, level)[Len(ei)].len

CalcMinMsgLen(nested, ei, level) == CountLoop(nested, ei, level)[Len(ei)].len

MinLen[level \in NestedLevels] ==
  IF level > Levels THEN << >>
  ELSE [ei \in Descriptors[level] |-> CalcMinMsgLen(MinLen[level + 1], ei, level)]

MinMsgLen(ei) == CalcMinMsgLen(MinLen[2], ei, 1)

-----------------------------------------------------------------------------
(* Encoding.  The result is [ok, out].                                     *)

Einval == [ok |-> FALSE, out |-> << >>]

\* The checks for room: a TLV header is counted for every element, also in
\* nested structures; strings there need room for their length instead.
FitsBare(size, encoded, room) == size + encoded <= room

Fits(size, encoded, room) == size + encoded + TlvHead <= room

Emit(bytes) == [ok |-> TRUE, out |-> bytes]

\* qmi_encode_string_elem.
EncodeString(e, s, room, level) ==
  IF Len(s) > e.elem_len THEN Einval
  ELSE IF level = 1
       THEN IF Len(s) + TlvHead > room THEN Einval ELSE Emit(s)
       ELSE IF Len(s) + PrefixSize(e) > room THEN Einval
            ELSE Emit(Bytes(Len(s), PrefixSize(e)) \o s)

\* qmi_encode_struct_elem: n structures one after the other.
EncodeStructs(nested, ei, vs, n, room) ==
  LET first[k \in 0..n] ==
        IF k = 0 THEN Emit(<< >>)
        ELSE LET done == first[k - 1]
                 r    == nested[<<[ei |-> ei, v |-> vs[k]], room - Len(done.out)>>]
             IN  IF done.ok /\ r.ok THEN Emit(done.out \o r.out) ELSE Einval
  IN  first[n]

\* qmi_encode in front of element i: st.out are the closed TLVs, st.tlv the
\* current one, st.n is data_len_value.
EncodeState(i, out, tlv, n) == [ok |-> TRUE, i |-> i, out |-> out, tlv |-> tlv, n |-> n]

EncodeFailed == [ok |-> FALSE, i |-> 0, out |-> << >>, tlv |-> << >>, n |-> 0]

\* QMI_ENCDEC_ENCODE_TLV: in a message the TLV gets its header, whose length is
\* 16 bits wide.
CloseTlv(level, type, st) ==
  IF level > 1 THEN st
  ELSE EncodeState(st.i, st.out \o (<<type>> \o Bytes(Len(st.tlv), 2) \o st.tlv), << >>, st.n)

\* One turn of the loop.
EncodeElem(nested, ei, v, room, level, st) ==
  LET e       == ei[st.i]
      n       == DataLen(e, st.n)
      encoded == Len(st.out) + Len(st.tlv)
      Close(i, bytes, len) == CloseTlv(level, e.tlv_type, EncodeState(i, st.out, st.tlv \o bytes, len))
      Add(r)  == IF r.ok THEN Close(st.i + 1, r.out, n) ELSE EncodeFailed
  IN  IF e.array_type = "var" /\ (n = 0 \/ n > e.elem_len) THEN EncodeFailed
      ELSE CASE e.type = "opt" ->
             EncodeState(IF v[st.i] = 1 THEN st.i + 1 ELSE SkipToNextElem(ei, st.i, level),
                         st.out, st.tlv, n)
        [] e.type = "len" ->
             IF ~ Fits(LenSize(e), encoded, room) THEN EncodeFailed
             ELSE IF v[st.i] = 0
             THEN Close(SkipToNextElem(ei, st.i + 1, level), Bytes(0, LenSize(e)), 0)
             ELSE EncodeState(st.i + 1, st.out, st.tlv \o Bytes(v[st.i], LenSize(e)), v[st.i])
        [] e.type = "basic" ->
             Add(IF Fits(n * e.elem_size, encoded, room) THEN Emit(v[st.i]) ELSE Einval)
        [] e.type = "struct" -> Add(EncodeStructs(nested, e.ei, v[st.i], n, room - encoded))
        [] e.type = "string" -> Add(EncodeString(e, v[st.i], room - encoded, level))

EncodeLoop(nested, ei, v, room, level) ==
  LET after[k \in 0..Len(ei)] ==
        IF k = 0 THEN EncodeState(1, << >>, << >>, 0)
        ELSE LET st == after[k - 1]
             IN  IF ~ st.ok \/ st.i > Len(ei) THEN st
                 ELSE EncodeElem(nested, ei, v, room, level, st)
  IN  after

QmiEncode(nested, ei, v, room, level) ==
  LET st == EncodeLoop(nested, ei, v, room, level)[Len(ei)]
  IN  IF st.ok THEN Emit(st.out \o st.tlv) ELSE Einval

Encoder[level \in NestedLevels] ==
  IF level > Levels THEN << >>
  ELSE [x \in Structures[level] \X Int |->
          QmiEncode(Encoder[level + 1], x[1].ei, x[1].v, x[2], level)]

EncodeBody(ei, v, room) == QmiEncode(Encoder[2], ei, v, room, 1)

-----------------------------------------------------------------------------
(* Decoding.  The result is [ok, at, v]: bytes consumed and what they hold. *)

Refused == [ok |-> FALSE, at |-> 0, v |-> << >>]

Took(at, v) == [ok |-> TRUE, at |-> at, v |-> v]

\* The size bytes behind the first at of buf.
Slice(buf, at, size) == SubSeq(buf, at + 1, at + size)

\* find_ei: the first element of a type, 0 if there is none.
FindEi(ei, type) ==
  LET found == { i \in DOMAIN ei : ei[i].tlv_type = type }
  IN  IF found = {} THEN 0 ELSE CHOOSE i \in found : \A j \in found : i <= j

MandatoryUpTo(type) == type <= OptionalStart

\* Unknown elements below OPTIONAL_TLV_TYPE_START are an error.
Mandatory(type) == type < OptionalStart

\* data_len_value after qmi_decode_basic_elem stored bytes of it: what is above
\* them stays.
StoreLow(n, bytes) == n - (n % Limit(Len(bytes))) + Number(bytes)

TooLong(e, n) == e.array_type = "var" /\ n > e.elem_len

\* The elements below take what they need behind the first at bytes of buf.  A
\* read behind the end of the message is taken for a refusal.
DecodeBasic(buf, at, size) ==
  IF at + size > Len(buf) THEN Refused ELSE Took(size, Slice(buf, at, size))

\* qmi_decode_string_elem.
DecodeString(e, buf, at, tlvLen, level) ==
  LET prefix == IF level = 1 THEN 0 ELSE PrefixSize(e)
      size   == IF level = 1 THEN tlvLen ELSE Number(Slice(buf, at, prefix))
  IN  IF size > e.elem_len \/ size > tlvLen \/ at + prefix + size > Len(buf) THEN Refused
      ELSE Took(prefix + size, Slice(buf, at + prefix, size))

\* qmi_decode_struct_elem at the level of the structures: up to n of them; a
\* TLV must be used up, a nested array must be complete.
DecodeStructs(nested, ei, buf, at, n, tlvLen, level) ==
  LET first[k \in 0..n] ==
        IF k = 0 THEN Took(0, << >>)
        ELSE LET done == first[k - 1]
                 r    == nested[<<ei, buf, at + done.at, tlvLen - done.at>>]
             IN  IF ~ done.ok \/ done.at >= tlvLen THEN done
                 ELSE IF r.ok THEN Took(done.at + r.at, Append(done.v, r.v)) ELSE Refused
      all == first[n]
  IN  IF ~ all.ok \/ (level <= 2 /\ all.at # tlvLen)
                  \/ (level > 2 /\ (Len(all.v) < n \/ all.at > tlvLen))
      THEN Refused ELSE all

\* qmi_decode: st.at bytes are consumed, st.i is the element to come, st.n is
\* data_len_value, st.v the structure.
DecodeState(at, i, n, v) == [ok |-> TRUE, at |-> at, i |-> i, n |-> n, v |-> v]

DecodeFailed == [ok |-> FALSE, at |-> 0, i |-> 0, n |-> 0, v |-> << >>]

\* An element may start with a flag, and go on with a length.  (The code stores four
\* bytes of length whatever the size of the field; its neighbours are left out.)
TakeFlag(ei, st) ==
  IF ei[st.i].type # "opt" THEN st
  ELSE DecodeState(st.at, st.i + 1, st.n, [st.v EXCEPT ![st.i] = 1])

TakeLen(ei, buf, from, st) ==
  LET size == LenSize(ei[st.i])
      m    == StoreLow(st.n, Slice(buf, from + st.at, size))
  IN  IF ei[st.i].type # "len" THEN st
      ELSE DecodeState(st.at + size, st.i + 1, m, [st.v EXCEPT ![st.i] = m])

\* Its value, for which tlvLen bytes are left.
TakeValue(nested, ei, buf, from, level, st, tlvLen) ==
  LET e == ei[st.i]
      n == DataLen(e, st.n)
      at == from + st.at
      r == CASE e.type = "basic"  -> DecodeBasic(buf, at, n * e.elem_size)
             [] e.type = "struct" -> DecodeStructs(nested, e.ei, buf, at, n, tlvLen, level + 1)
             [] e.type = "string" -> DecodeString(e, buf, at, tlvLen, level)
             [] OTHER -> Refused
  IN  IF TooLong(e, n) \/ ~ r.ok THEN DecodeFailed
      ELSE DecodeState(st.at + r.at, st.i + 1, n, [st.v EXCEPT ![st.i] = r.v])

DecodeElem(nested, ei, buf, from, level, st, tlvLen) ==
  LET s == TakeLen(ei, buf, from, TakeFlag(ei, st))
  IN  TakeValue(nested, ei, buf, from, level, s, tlvLen - (s.at - st.at))

\* One turn: in a message for the next TLV, in a nested structure, which has
\* none, for the next element.
DecodeTurn(nested, ei, buf, from, len, level, st) ==
  IF level > 1 THEN DecodeElem(nested, ei, buf, from, level, st, len - st.at)
  ELSE LET at     == from + st.at
           type   == buf[at + 1]
           tlvLen == Number(Slice(buf, at + 1, 2))
           i      == FindEi(ei, type)
       IN  IF i # 0
           THEN DecodeElem(nested, ei, buf, from, level,
                           DecodeState(st.at + TlvHead, i, st.n, st.v), tlvLen)
           ELSE IF Mandatory(type) THEN DecodeFailed
           ELSE DecodeState(st.at + TlvHead + tlvLen, st.i, st.n, st.v)

\* The loop ends with the bytes or with the nested structure; each turn takes a
\* byte or an element at least.
DecodeLoop(nested, ei, buf, from, len, level) ==
  LET after[k \in 0..(len + Len(ei))] ==
        IF k = 0 THEN DecodeState(0, 1, 0, Zeroed(ei))
        ELSE LET st == after[k - 1]
             IN  IF ~ st.ok \/ st.at >= len \/ (level > 1 /\ st.i > Len(ei)) THEN st
                 ELSE DecodeTurn(nested, ei, buf, from, len, level, st)
  IN  after

QmiDecode(nested, ei, buf, from, len, level) ==
  LET st == DecodeLoop(nested, ei, buf, from, len, level)[len + Len(ei)]
  IN  IF st.ok THEN Took(st.at, st.v) ELSE Refused

Decoder[level \in NestedLevels] ==
  IF level > Levels THEN << >>
  ELSE [x \in Descriptors[level] \X Seq(Nat) \X Nat \X Nat |->
          QmiDecode(Decoder[level + 1], x[1], x[2], x[3], x[4], level)]

DecodeBody(ei, buf) == QmiDecode(Decoder[2], ei, buf, 0, Len(buf), 1)
=============================================================================
