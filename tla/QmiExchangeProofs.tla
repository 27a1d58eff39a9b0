------------------------- MODULE QmiExchangeProofs --------------------------
(***************************************************************************)
(* Proofs about the QMI encoder and decoder, for every size of a byte, all *)
(* legal descriptors, any depth of nesting and buffers of any size: what   *)
(* is encoded arrives in all its receiver knows of it, is encoded just     *)
(* where it fits, and may be missing just where all of it is optional.     *)
(*                                                                         *)
(* qmi_encode is followed turn by turn.  A state of its loop is good       *)
(* (GoodAt) when its bytes are those of complete elements and qmi_decode,  *)
(* wherever in a buffer it finds them, comes to the state that has all of  *)
(* these elements (Reaches).  The levels follow one from the next, the     *)
(* deepest first (LevelInduction).                                         *)
(***************************************************************************)
EXTENDS QmiExchange, ListLemmas

-----------------------------------------------------------------------------
(* The loops of qmi.c, turn by turn.                                       *)

\* One turn of the loop of qmi_calc_min_msg_len.
CountNext(nested, ei, level, st) ==
  IF st.i > Len(ei) THEN st ELSE CountElem(nested, ei, level, st)

\* The loop of qmi_calc_min_msg_len, turn by turn.
IsCounting(nested, ei, level, f, n) ==
  f = [k \in 0..n |-> IF k = 0 THEN [i |-> 1, len |-> 0]
                      ELSE CountNext(nested, ei, level, f[k - 1])]

\* The loop can take any number of turns.
LEMMA CountingExists ==
  ASSUME NEW nested, NEW ei, NEW level \in Int, NEW N \in Nat
  PROVE  \E f : IsCounting(nested, ei, level, f, N)
<1> DEFINE S == { m \in 0..N : \E f : IsCounting(nested, ei, level, f, m) }
<1>1. 0 \in S
  <2>1. IsCounting(nested, ei, level, [k \in 0..0 |-> [i |-> 1, len |-> 0]], 0)
    BY DEF IsCounting
  <2> QED BY <2>1
<1>2. ASSUME NEW m \in 0..(N - 1), m \in S PROVE m + 1 \in S
  <2>1. PICK f : IsCounting(nested, ei, level, f, m)
    BY <1>2
  <2>2. /\ m \in Nat /\ m + 1 \in 0..N
        /\ \A k \in 0..m : f[k] = IF k = 0 THEN [i |-> 1, len |-> 0]
                                  ELSE CountNext(nested, ei, level, f[k - 1])
    BY <2>1 DEF IsCounting
  <2> DEFINE d == [k \in 0..(m + 1) |-> IF k <= m THEN f[k] ELSE CountNext(nested, ei, level, f[m])]
  <2>3. ASSUME NEW k \in 0..(m + 1)
        PROVE  d[k] = IF k = 0 THEN [i |-> 1, len |-> 0] ELSE CountNext(nested, ei, level, d[k - 1])
    <3>1. CASE k = 0
      BY <2>2, <3>1
    <3>2. CASE k \in 1..m
      <4>1. k <= m /\ k - 1 \in 0..(m + 1) /\ k - 1 <= m /\ k \in 0..m /\ k # 0
        BY <2>2, <3>2
      <4> QED BY <2>2, <4>1
    <3>3. CASE k = m + 1
      <4>1. k - 1 = m /\ ~ (k <= m) /\ m \in 0..(m + 1) /\ m <= m /\ k # 0
        BY <2>2, <3>3
      <4> QED BY <3>3, <4>1
    <3> QED BY <2>2, <3>1, <3>2, <3>3
  <2>4. d = [k \in 0..(m + 1) |-> d[k]]
    OBVIOUS
  <2> HIDE DEF d
  <2>5. IsCounting(nested, ei, level, d, m + 1)
    BY <2>3, <2>4 DEF IsCounting
  <2> QED BY <2>2, <2>5
<1> HIDE DEF S
<1>3. \A m \in 0..N : m \in S
  BY <1>1, <1>2, IntervalInduction
<1> QED BY <1>3 DEF S

\* What it does in each.
LEMMA CountingTurns ==
  ASSUME NEW f, NEW nested, NEW ei, NEW level \in Int, Len(ei) \in Nat,
         IsCounting(nested, ei, level, f, Len(ei))
  PROVE  /\ f[0] = [i |-> 1, len |-> 0]
         /\ \A k \in 1..Len(ei) : f[k] = CountNext(nested, ei, level, f[k - 1])
BY DEF IsCounting

\* It is what CountLoop does.
LEMMA CountingRun ==
  ASSUME NEW nested, NEW ei, NEW level \in Int, Len(ei) \in Nat
  PROVE  \E f : IsCounting(nested, ei, level, f, Len(ei)) /\ CountLoop(nested, ei, level) = f
<1> DEFINE f == CHOOSE f : IsCounting(nested, ei, level, f, Len(ei))
<1>1. CountLoop(nested, ei, level) = f
  BY DEF CountLoop, IsCounting, CountNext
<1>2. IsCounting(nested, ei, level, f, Len(ei))
  BY CountingExists
<1> HIDE DEF f
<1> QED BY <1>1, <1>2

\* One turn of the loop of qmi_encode.
EncodeNext(nested, ei, v, room, level, st) ==
  IF ~ st.ok \/ st.i > Len(ei) THEN st ELSE EncodeElem(nested, ei, v, room, level, st)

\* The loop of qmi_encode, turn by turn.
IsEncoding(nested, ei, v, room, level, f, n) ==
  f = [k \in 0..n |-> IF k = 0 THEN EncodeState(1, << >>, << >>, 0)
                      ELSE EncodeNext(nested, ei, v, room, level, f[k - 1])]

\* The loop can take any number of turns.
LEMMA EncodingExists ==
  ASSUME NEW nested, NEW ei, NEW v, NEW room \in Int, NEW level \in Int, NEW N \in Nat
  PROVE  \E f : IsEncoding(nested, ei, v, room, level, f, N)
<1> DEFINE S == { m \in 0..N : \E f : IsEncoding(nested, ei, v, room, level, f, m) }
<1>1. 0 \in S
  <2>1. IsEncoding(nested, ei, v, room, level, [k \in 0..0 |-> EncodeState(1, << >>, << >>, 0)], 0)
    BY DEF IsEncoding
  <2> QED BY <2>1
<1>2. ASSUME NEW m \in 0..(N - 1), m \in S PROVE m + 1 \in S
  <2>1. PICK f : IsEncoding(nested, ei, v, room, level, f, m)
    BY <1>2
  <2>2. /\ m \in Nat /\ m + 1 \in 0..N
        /\ \A k \in 0..m : f[k] = IF k = 0 THEN EncodeState(1, << >>, << >>, 0)
                                  ELSE EncodeNext(nested, ei, v, room, level, f[k - 1])
    BY <2>1 DEF IsEncoding
  <2> DEFINE d == [k \in 0..(m + 1) |-> IF k <= m THEN f[k]
                                        ELSE EncodeNext(nested, ei, v, room, level, f[m])]
  <2>3. ASSUME NEW k \in 0..(m + 1)
        PROVE  d[k] = IF k = 0 THEN EncodeState(1, << >>, << >>, 0)
                      ELSE EncodeNext(nested, ei, v, room, level, d[k - 1])
    <3>1. CASE k = 0
      BY <2>2, <3>1
    <3>2. CASE k \in 1..m
      <4>1. k <= m /\ k - 1 \in 0..(m + 1) /\ k - 1 <= m /\ k \in 0..m /\ k # 0
        BY <2>2, <3>2
      <4> QED BY <2>2, <4>1
    <3>3. CASE k = m + 1
      <4>1. k - 1 = m /\ ~ (k <= m) /\ m \in 0..(m + 1) /\ m <= m /\ k # 0
        BY <2>2, <3>3
      <4> QED BY <3>3, <4>1
    <3> QED BY <2>2, <3>1, <3>2, <3>3
  <2>4. d = [k \in 0..(m + 1) |-> d[k]]
    OBVIOUS
  <2> HIDE DEF d
  <2>5. IsEncoding(nested, ei, v, room, level, d, m + 1)
    BY <2>3, <2>4 DEF IsEncoding
  <2> QED BY <2>2, <2>5
<1> HIDE DEF S
<1>3. \A m \in 0..N : m \in S
  BY <1>1, <1>2, IntervalInduction
<1> QED BY <1>3 DEF S

\* What it does in each.
LEMMA EncodingTurns ==
  ASSUME NEW f, NEW nested, NEW ei, NEW v, NEW room \in Int, NEW level \in Int, Len(ei) \in Nat,
         IsEncoding(nested, ei, v, room, level, f, Len(ei))
  PROVE  /\ f[0] = EncodeState(1, << >>, << >>, 0)
         /\ \A k \in 1..Len(ei) : f[k] = EncodeNext(nested, ei, v, room, level, f[k - 1])
BY DEF IsEncoding

\* It is what EncodeLoop does.
LEMMA EncodingRun ==
  ASSUME NEW nested, NEW ei, NEW v, NEW room \in Int, NEW level \in Int, Len(ei) \in Nat
  PROVE  \E f : /\ IsEncoding(nested, ei, v, room, level, f, Len(ei))
                /\ EncodeLoop(nested, ei, v, room, level) = f
<1> DEFINE f == CHOOSE f : IsEncoding(nested, ei, v, room, level, f, Len(ei))
<1>1. EncodeLoop(nested, ei, v, room, level) = f
  BY DEF EncodeLoop, IsEncoding, EncodeNext
<1>2. IsEncoding(nested, ei, v, room, level, f, Len(ei))
  BY EncodingExists
<1> HIDE DEF f
<1> QED BY <1>1, <1>2

\* One turn of the loop of qmi_encode_struct_elem.
PutNext(nested, ei, vs, room, k, done) ==
  LET r == nested[<<[ei |-> ei, v |-> vs[k]], room - Len(done.out)>>]
  IN  IF done.ok /\ r.ok THEN Emit(done.out \o r.out) ELSE Einval

\* The loop of qmi_encode_struct_elem, turn by turn.
IsPutting(nested, ei, vs, room, f, n) ==
  f = [k \in 0..n |-> IF k = 0 THEN Emit(<< >>) ELSE PutNext(nested, ei, vs, room, k, f[k - 1])]

\* The loop can take any number of turns.
LEMMA PuttingExists ==
  ASSUME NEW nested, NEW ei, NEW vs, NEW room \in Int, NEW N \in Nat
  PROVE  \E f : IsPutting(nested, ei, vs, room, f, N)
<1> DEFINE S == { m \in 0..N : \E f : IsPutting(nested, ei, vs, room, f, m) }
<1>1. 0 \in S
  <2>1. IsPutting(nested, ei, vs, room, [k \in 0..0 |-> Emit(<< >>)], 0)
    BY DEF IsPutting
  <2> QED BY <2>1
<1>2. ASSUME NEW m \in 0..(N - 1), m \in S PROVE m + 1 \in S
  <2>1. PICK f : IsPutting(nested, ei, vs, room, f, m)
    BY <1>2
  <2>2. /\ m \in Nat /\ m + 1 \in 0..N
        /\ \A k \in 0..m : f[k] = IF k = 0 THEN Emit(<< >>)
                                  ELSE PutNext(nested, ei, vs, room, k, f[k - 1])
    BY <2>1 DEF IsPutting
  <2> DEFINE d == [k \in 0..(m + 1) |-> IF k <= m THEN f[k]
                                        ELSE PutNext(nested, ei, vs, room, (m + 1), f[m])]
  <2>3. ASSUME NEW k \in 0..(m + 1)
        PROVE  d[k] = IF k = 0 THEN Emit(<< >>) ELSE PutNext(nested, ei, vs, room, k, d[k - 1])
    <3>1. CASE k = 0
      BY <2>2, <3>1
    <3>2. CASE k \in 1..m
      <4>1. k <= m /\ k - 1 \in 0..(m + 1) /\ k - 1 <= m /\ k \in 0..m /\ k # 0
        BY <2>2, <3>2
      <4> QED BY <2>2, <4>1
    <3>3. CASE k = m + 1
      <4>1. k - 1 = m /\ ~ (k <= m) /\ m \in 0..(m + 1) /\ m <= m /\ k # 0
        BY <2>2, <3>3
      <4> QED BY <3>3, <4>1
    <3> QED BY <2>2, <3>1, <3>2, <3>3
  <2>4. d = [k \in 0..(m + 1) |-> d[k]]
    OBVIOUS
  <2> HIDE DEF d
  <2>5. IsPutting(nested, ei, vs, room, d, m + 1)
    BY <2>3, <2>4 DEF IsPutting
  <2> QED BY <2>2, <2>5
<1> HIDE DEF S
<1>3. \A m \in 0..N : m \in S
  BY <1>1, <1>2, IntervalInduction
<1> QED BY <1>3 DEF S

\* What it does in each.
LEMMA PuttingTurns ==
  ASSUME NEW f, NEW nested, NEW ei, NEW vs, NEW room \in Int, NEW n \in Int, n \in Nat,
         IsPutting(nested, ei, vs, room, f, n)
  PROVE  f[0] = Emit(<< >>) /\ \A k \in 1..n : f[k] = PutNext(nested, ei, vs, room, k, f[k - 1])
BY DEF IsPutting

\* It is what EncodeStructs does.
LEMMA PuttingRun ==
  ASSUME NEW nested, NEW ei, NEW vs, NEW room \in Int, NEW n \in Int, n \in Nat
  PROVE  \E f : /\ IsPutting(nested, ei, vs, room, f, n)
                /\ EncodeStructs(nested, ei, vs, n, room) = f[n]
<1> DEFINE f == CHOOSE f : IsPutting(nested, ei, vs, room, f, n)
<1>1. EncodeStructs(nested, ei, vs, n, room) = f[n]
  BY DEF EncodeStructs, IsPutting, PutNext
<1>2. IsPutting(nested, ei, vs, room, f, n)
  BY PuttingExists
<1> HIDE DEF f
<1> QED BY <1>1, <1>2

\* One turn of the loop of qmi_decode_struct_elem.
GetNext(nested, ei, buf, at, tlvLen, done) ==
  LET r == nested[<<ei, buf, at + done.at, tlvLen - done.at>>]
  IN  IF ~ done.ok \/ done.at >= tlvLen THEN done
      ELSE IF r.ok THEN Took(done.at + r.at, Append(done.v, r.v)) ELSE Refused

\* What becomes of the structures found.
AllGot(all, n, tlvLen, level) ==
  IF ~ all.ok \/ (level <= 2 /\ all.at # tlvLen)
              \/ (level > 2 /\ (Len(all.v) < n \/ all.at > tlvLen))
  THEN Refused ELSE all

\* The loop of qmi_decode_struct_elem, turn by turn.
IsGetting(nested, ei, buf, at, tlvLen, f, n) ==
  f = [k \in 0..n |-> IF k = 0 THEN Took(0, << >>)
                      ELSE GetNext(nested, ei, buf, at, tlvLen, f[k - 1])]

\* The loop can take any number of turns.
LEMMA GettingExists ==
  ASSUME NEW nested, NEW ei, NEW buf, NEW at \in Int, NEW tlvLen \in Int, NEW N \in Nat
  PROVE  \E f : IsGetting(nested, ei, buf, at, tlvLen, f, N)
<1> DEFINE S == { m \in 0..N : \E f : IsGetting(nested, ei, buf, at, tlvLen, f, m) }
<1>1. 0 \in S
  <2>1. IsGetting(nested, ei, buf, at, tlvLen, [k \in 0..0 |-> Took(0, << >>)], 0)
    BY DEF IsGetting
  <2> QED BY <2>1
<1>2. ASSUME NEW m \in 0..(N - 1), m \in S PROVE m + 1 \in S
  <2>1. PICK f : IsGetting(nested, ei, buf, at, tlvLen, f, m)
    BY <1>2
  <2>2. /\ m \in Nat /\ m + 1 \in 0..N
        /\ \A k \in 0..m : f[k] = IF k = 0 THEN Took(0, << >>)
                                  ELSE GetNext(nested, ei, buf, at, tlvLen, f[k - 1])
    BY <2>1 DEF IsGetting
  <2> DEFINE d == [k \in 0..(m + 1) |-> IF k <= m THEN f[k]
                                        ELSE GetNext(nested, ei, buf, at, tlvLen, f[m])]
  <2>3. ASSUME NEW k \in 0..(m + 1)
        PROVE  d[k] = IF k = 0 THEN Took(0, << >>)
                      ELSE GetNext(nested, ei, buf, at, tlvLen, d[k - 1])
    <3>1. CASE k = 0
      BY <2>2, <3>1
    <3>2. CASE k \in 1..m
      <4>1. k <= m /\ k - 1 \in 0..(m + 1) /\ k - 1 <= m /\ k \in 0..m /\ k # 0
        BY <2>2, <3>2
      <4> QED BY <2>2, <4>1
    <3>3. CASE k = m + 1
      <4>1. k - 1 = m /\ ~ (k <= m) /\ m \in 0..(m + 1) /\ m <= m /\ k # 0
        BY <2>2, <3>3
      <4> QED BY <3>3, <4>1
    <3> QED BY <2>2, <3>1, <3>2, <3>3
  <2>4. d = [k \in 0..(m + 1) |-> d[k]]
    OBVIOUS
  <2> HIDE DEF d
  <2>5. IsGetting(nested, ei, buf, at, tlvLen, d, m + 1)
    BY <2>3, <2>4 DEF IsGetting
  <2> QED BY <2>2, <2>5
<1> HIDE DEF S
<1>3. \A m \in 0..N : m \in S
  BY <1>1, <1>2, IntervalInduction
<1> QED BY <1>3 DEF S

\* What it does in each.
LEMMA GettingTurns ==
  ASSUME NEW f, NEW nested, NEW ei, NEW buf, NEW at \in Int, NEW tlvLen \in Int, NEW n \in Int,
         n \in Nat, IsGetting(nested, ei, buf, at, tlvLen, f, n)
  PROVE  /\ f[0] = Took(0, << >>)
         /\ \A k \in 1..n : f[k] = GetNext(nested, ei, buf, at, tlvLen, f[k - 1])
BY DEF IsGetting

\* It is what DecodeStructs does.
LEMMA GettingRun ==
  ASSUME NEW nested, NEW ei, NEW buf, NEW at \in Int, NEW tlvLen \in Int, NEW n \in Int,
         NEW level \in Int, n \in Nat
  PROVE  \E f : /\ IsGetting(nested, ei, buf, at, tlvLen, f, n)
                /\ DecodeStructs(nested, ei, buf, at, n, tlvLen, level) = AllGot(f[n], n, tlvLen, level)
<1> DEFINE f == CHOOSE f : IsGetting(nested, ei, buf, at, tlvLen, f, n)
<1>1. DecodeStructs(nested, ei, buf, at, n, tlvLen, level) = AllGot(f[n], n, tlvLen, level)
  BY DEF DecodeStructs, IsGetting, GetNext, AllGot
<1>2. IsGetting(nested, ei, buf, at, tlvLen, f, n)
  BY GettingExists
<1> HIDE DEF f
<1> QED BY <1>1, <1>2

\* One turn of the loop of qmi_decode.
DecodeNext(nested, ei, buf, from, len, level, st) ==
  IF ~ st.ok \/ st.at >= len \/ (level > 1 /\ st.i > Len(ei)) THEN st
  ELSE DecodeTurn(nested, ei, buf, from, len, level, st)

\* The loop of qmi_decode, turn by turn.
IsDecoding(nested, ei, buf, from, len, level, f, n) ==
  f = [k \in 0..n |-> IF k = 0 THEN DecodeState(0, 1, 0, Zeroed(ei))
                      ELSE DecodeNext(nested, ei, buf, from, len, level, f[k - 1])]

\* The loop can take any number of turns.
LEMMA DecodingExists ==
  ASSUME NEW nested, NEW ei, NEW buf, NEW from \in Int, NEW len \in Int, NEW level \in Int,
         NEW N \in Nat
  PROVE  \E f : IsDecoding(nested, ei, buf, from, len, level, f, N)
<1> DEFINE S == { m \in 0..N : \E f : IsDecoding(nested, ei, buf, from, len, level, f, m) }
<1>1. 0 \in S
  <2>1. IsDecoding(nested, ei, buf, from, len, level,
                   [k \in 0..0 |-> DecodeState(0, 1, 0, Zeroed(ei))], 0)
    BY DEF IsDecoding
  <2> QED BY <2>1
<1>2. ASSUME NEW m \in 0..(N - 1), m \in S PROVE m + 1 \in S
  <2>1. PICK f : IsDecoding(nested, ei, buf, from, len, level, f, m)
    BY <1>2
  <2>2. /\ m \in Nat /\ m + 1 \in 0..N
        /\ \A k \in 0..m : f[k] = IF k = 0 THEN DecodeState(0, 1, 0, Zeroed(ei))
                                  ELSE DecodeNext(nested, ei, buf, from, len, level, f[k - 1])
    BY <2>1 DEF IsDecoding
  <2> DEFINE d == [k \in 0..(m + 1) |-> IF k <= m THEN f[k]
                                        ELSE DecodeNext(nested, ei, buf, from, len, level, f[m])]
  <2>3. ASSUME NEW k \in 0..(m + 1)
        PROVE  d[k] = IF k = 0 THEN DecodeState(0, 1, 0, Zeroed(ei))
                      ELSE DecodeNext(nested, ei, buf, from, len, level, d[k - 1])
    <3>1. CASE k = 0
      BY <2>2, <3>1
    <3>2. CASE k \in 1..m
      <4>1. k <= m /\ k - 1 \in 0..(m + 1) /\ k - 1 <= m /\ k \in 0..m /\ k # 0
        BY <2>2, <3>2
      <4> QED BY <2>2, <4>1
    <3>3. CASE k = m + 1
      <4>1. k - 1 = m /\ ~ (k <= m) /\ m \in 0..(m + 1) /\ m <= m /\ k # 0
        BY <2>2, <3>3
      <4> QED BY <3>3, <4>1
    <3> QED BY <2>2, <3>1, <3>2, <3>3
  <2>4. d = [k \in 0..(m + 1) |-> d[k]]
    OBVIOUS
  <2> HIDE DEF d
  <2>5. IsDecoding(nested, ei, buf, from, len, level, d, m + 1)
    BY <2>3, <2>4 DEF IsDecoding
  <2> QED BY <2>2, <2>5
<1> HIDE DEF S
<1>3. \A m \in 0..N : m \in S
  BY <1>1, <1>2, IntervalInduction
<1> QED BY <1>3 DEF S

\* What it does in each.
LEMMA DecodingTurns ==
  ASSUME NEW f, NEW nested, NEW ei, NEW buf, NEW from \in Int, NEW len \in Int, NEW level \in Int,
         (len + Len(ei)) \in Nat, IsDecoding(nested, ei, buf, from, len, level, f, (len + Len(ei)))
  PROVE  /\ f[0] = DecodeState(0, 1, 0, Zeroed(ei))
         /\ \A k \in 1..(len + Len(ei)) : f[k] = DecodeNext(nested, ei, buf, from, len, level, f[k - 1])
BY DEF IsDecoding

\* It is what DecodeLoop does.
LEMMA DecodingRun ==
  ASSUME NEW nested, NEW ei, NEW buf, NEW from \in Int, NEW len \in Int, NEW level \in Int,
         (len + Len(ei)) \in Nat
  PROVE  \E f : /\ IsDecoding(nested, ei, buf, from, len, level, f, (len + Len(ei)))
                /\ DecodeLoop(nested, ei, buf, from, len, level) = f
<1> DEFINE f == CHOOSE f : IsDecoding(nested, ei, buf, from, len, level, f, (len + Len(ei)))
<1>1. DecodeLoop(nested, ei, buf, from, len, level) = f
  BY DEF DecodeLoop, IsDecoding, DecodeNext
<1>2. IsDecoding(nested, ei, buf, from, len, level, f, (len + Len(ei)))
  BY DecodingExists
<1> HIDE DEF f
<1> QED BY <1>1, <1>2

-----------------------------------------------------------------------------
(* Level by level.                                                         *)

\* What the functions of qmi.c are at one level, given what they are at the next.
CountAt(nested, level) == [ei \in Descriptors[level] |-> CalcMinMsgLen(nested, ei, level)]

EncodeAt(nested, level) ==
  [x \in Structures[level] \X Int |-> QmiEncode(nested, x[1].ei, x[1].v, x[2], level)]

DecodeAt(nested, level) ==
  [x \in Descriptors[level] \X Seq(Nat) \X Nat \X Nat |->
     QmiDecode(nested, x[1], x[2], x[3], x[4], level)]

HasStringAt(nested, level) ==
  [ei \in Descriptors[level] |->
     \E i \in DOMAIN ei : \/ ei[i].type = "string"
                         \/ (ei[i].type = "struct" /\ nested[ei[i].ei])]

\* qmi_calc_min_msg_len calls itself for the next level.
LEMMA MinLenLevels ==
  \A level \in NestedLevels : level <= Levels =>
    MinLen[level] = CountAt(MinLen[level + 1], level)
<1> DEFINE Is(f, m) == f = [level \in (Levels + 1 - m)..(Levels + 1) |->
                              IF level > Levels THEN << >> ELSE CountAt(f[level + 1], level)]
           S == { m \in 0..(Levels - 1) : \E f : Is(f, m) }
<1>0. Levels \in Nat /\ Levels - 1 \in Nat /\ (Levels + 1) - (Levels - 1) = 2
  BY CodecConstants
<1>1. 0 \in S
  <2> DEFINE d == [level \in (Levels + 1 - 0)..(Levels + 1) |-> << >>]
  <2>1. \A level \in (Levels + 1 - 0)..(Levels + 1) : level > Levels
    BY <1>0
  <2>2. Is(d, 0)
    BY <2>1
  <2> HIDE DEF d, Is
  <2> QED BY <1>0, <2>2
<1>2. ASSUME NEW m \in 0..(Levels - 1 - 1), m \in S PROVE m + 1 \in S
  <2>1. PICK f : Is(f, m)
    BY <1>2
  <2> DEFINE a == Levels + 1 - m
             b == Levels + 1 - (m + 1)
  <2>2. m \in Nat /\ a \in Int /\ b \in Int /\ b + 1 = a /\ a <= Levels + 1 /\ b <= Levels
        /\ m + 1 \in 0..(Levels - 1)
    BY <1>0
  <2>3. \A level \in a..(Levels + 1) :
          f[level] = IF level > Levels THEN << >> ELSE CountAt(f[level + 1], level)
    BY <2>1
  <2> DEFINE d == [level \in b..(Levels + 1) |-> IF level >= a THEN f[level] ELSE CountAt(f[a], b)]
  <2> HIDE DEF a, b
  <2>4. ASSUME NEW level \in b..(Levels + 1)
        PROVE  d[level] = IF level > Levels THEN << >> ELSE CountAt(d[level + 1], level)
    <3>1. CASE level = b
      <4>1. ~ (level >= a) /\ ~ (level > Levels) /\ a >= a /\ a \in b..(Levels + 1)
        BY <1>0, <2>2, <3>1
      <4> QED BY <2>2, <3>1, <4>1
    <3>2. CASE level # b /\ level <= Levels
      <4>1. /\ level >= a /\ level + 1 >= a /\ level + 1 \in b..(Levels + 1)
            /\ level \in a..(Levels + 1)
            /\ ~ (level > Levels)
        BY <1>0, <2>2, <3>2
      <4> QED BY <2>3, <4>1
    <3>3. CASE level # b /\ level > Levels
      <4>1. level >= a /\ level \in a..(Levels + 1)
        BY <1>0, <2>2, <3>3
      <4> QED BY <2>3, <3>3, <4>1
    <3> QED BY <1>0, <2>2, <3>1, <3>2, <3>3
  <2>5. d = [level \in b..(Levels + 1) |-> d[level]]
    OBVIOUS
  <2> HIDE DEF d
  <2>6. Is(d, m + 1)
    BY <2>4, <2>5 DEF b
  <2> HIDE DEF Is
  <2> QED BY <2>2, <2>6
<1> HIDE DEF S
<1>3. \A m \in 0..(Levels - 1) : m \in S
  BY <1>0, <1>1, <1>2, IntervalInduction
<1> DEFINE Body(f) == [level \in NestedLevels |->
                         IF level > Levels THEN << >> ELSE CountAt(f[level + 1], level)]
           g == CHOOSE f : f = Body(f)
<1>4. \E f : f = Body(f)
  <2>1. PICK f : Is(f, Levels - 1)
    BY <1>0, <1>3 DEF S
  <2>2. (Levels + 1 - (Levels - 1))..(Levels + 1) = NestedLevels
    BY <1>0 DEF NestedLevels
  <2>3. f = Body(f)
    BY <2>1, <2>2
  <2> QED BY <2>3
<1>5. MinLen = g
  BY DEF MinLen, CountAt
<1>6. g = Body(g)
  BY <1>4
<1> HIDE DEF g
<1>7. \A level \in 2..(Levels + 1) :
        g[level] = IF level > Levels THEN << >> ELSE CountAt(g[level + 1], level)
  BY <1>6 DEF NestedLevels
<1> QED BY <1>0, <1>5, <1>7 DEF NestedLevels

\* So does qmi_encode.
LEMMA EncoderLevels ==
  \A level \in NestedLevels : level <= Levels =>
    Encoder[level] = EncodeAt(Encoder[level + 1], level)
<1> DEFINE Is(f, m) == f = [level \in (Levels + 1 - m)..(Levels + 1) |->
                              IF level > Levels THEN << >> ELSE EncodeAt(f[level + 1], level)]
           S == { m \in 0..(Levels - 1) : \E f : Is(f, m) }
<1>0. Levels \in Nat /\ Levels - 1 \in Nat /\ (Levels + 1) - (Levels - 1) = 2
  BY CodecConstants
<1>1. 0 \in S
  <2> DEFINE d == [level \in (Levels + 1 - 0)..(Levels + 1) |-> << >>]
  <2>1. \A level \in (Levels + 1 - 0)..(Levels + 1) : level > Levels
    BY <1>0
  <2>2. Is(d, 0)
    BY <2>1
  <2> HIDE DEF d, Is
  <2> QED BY <1>0, <2>2
<1>2. ASSUME NEW m \in 0..(Levels - 1 - 1), m \in S PROVE m + 1 \in S
  <2>1. PICK f : Is(f, m)
    BY <1>2
  <2> DEFINE a == Levels + 1 - m
             b == Levels + 1 - (m + 1)
  <2>2. m \in Nat /\ a \in Int /\ b \in Int /\ b + 1 = a /\ a <= Levels + 1 /\ b <= Levels
        /\ m + 1 \in 0..(Levels - 1)
    BY <1>0
  <2>3. \A level \in a..(Levels + 1) :
          f[level] = IF level > Levels THEN << >> ELSE EncodeAt(f[level + 1], level)
    BY <2>1
  <2> DEFINE d == [level \in b..(Levels + 1) |-> IF level >= a THEN f[level] ELSE EncodeAt(f[a], b)]
  <2> HIDE DEF a, b
  <2>4. ASSUME NEW level \in b..(Levels + 1)
        PROVE  d[level] = IF level > Levels THEN << >> ELSE EncodeAt(d[level + 1], level)
    <3>1. CASE level = b
      <4>1. ~ (level >= a) /\ ~ (level > Levels) /\ a >= a /\ a \in b..(Levels + 1)
        BY <1>0, <2>2, <3>1
      <4> QED BY <2>2, <3>1, <4>1
    <3>2. CASE level # b /\ level <= Levels
      <4>1. /\ level >= a /\ level + 1 >= a /\ level + 1 \in b..(Levels + 1)
            /\ level \in a..(Levels + 1)
            /\ ~ (level > Levels)
        BY <1>0, <2>2, <3>2
      <4> QED BY <2>3, <4>1
    <3>3. CASE level # b /\ level > Levels
      <4>1. level >= a /\ level \in a..(Levels + 1)
        BY <1>0, <2>2, <3>3
      <4> QED BY <2>3, <3>3, <4>1
    <3> QED BY <1>0, <2>2, <3>1, <3>2, <3>3
  <2>5. d = [level \in b..(Levels + 1) |-> d[level]]
    OBVIOUS
  <2> HIDE DEF d
  <2>6. Is(d, m + 1)
    BY <2>4, <2>5 DEF b
  <2> HIDE DEF Is
  <2> QED BY <2>2, <2>6
<1> HIDE DEF S
<1>3. \A m \in 0..(Levels - 1) : m \in S
  BY <1>0, <1>1, <1>2, IntervalInduction
<1> DEFINE Body(f) == [level \in NestedLevels |->
                         IF level > Levels THEN << >> ELSE EncodeAt(f[level + 1], level)]
           g == CHOOSE f : f = Body(f)
<1>4. \E f : f = Body(f)
  <2>1. PICK f : Is(f, Levels - 1)
    BY <1>0, <1>3 DEF S
  <2>2. (Levels + 1 - (Levels - 1))..(Levels + 1) = NestedLevels
    BY <1>0 DEF NestedLevels
  <2>3. f = Body(f)
    BY <2>1, <2>2
  <2> QED BY <2>3
<1>5. Encoder = g
  BY DEF Encoder, EncodeAt
<1>6. g = Body(g)
  BY <1>4
<1> HIDE DEF g
<1>7. \A level \in 2..(Levels + 1) :
        g[level] = IF level > Levels THEN << >> ELSE EncodeAt(g[level + 1], level)
  BY <1>6 DEF NestedLevels
<1> QED BY <1>0, <1>5, <1>7 DEF NestedLevels

\* So does qmi_decode.
LEMMA DecoderLevels ==
  \A level \in NestedLevels : level <= Levels =>
    Decoder[level] = DecodeAt(Decoder[level + 1], level)
<1> DEFINE Is(f, m) == f = [level \in (Levels + 1 - m)..(Levels + 1) |->
                              IF level > Levels THEN << >> ELSE DecodeAt(f[level + 1], level)]
           S == { m \in 0..(Levels - 1) : \E f : Is(f, m) }
<1>0. Levels \in Nat /\ Levels - 1 \in Nat /\ (Levels + 1) - (Levels - 1) = 2
  BY CodecConstants
<1>1. 0 \in S
  <2> DEFINE d == [level \in (Levels + 1 - 0)..(Levels + 1) |-> << >>]
  <2>1. \A level \in (Levels + 1 - 0)..(Levels + 1) : level > Levels
    BY <1>0
  <2>2. Is(d, 0)
    BY <2>1
  <2> HIDE DEF d, Is
  <2> QED BY <1>0, <2>2
<1>2. ASSUME NEW m \in 0..(Levels - 1 - 1), m \in S PROVE m + 1 \in S
  <2>1. PICK f : Is(f, m)
    BY <1>2
  <2> DEFINE a == Levels + 1 - m
             b == Levels + 1 - (m + 1)
  <2>2. m \in Nat /\ a \in Int /\ b \in Int /\ b + 1 = a /\ a <= Levels + 1 /\ b <= Levels
        /\ m + 1 \in 0..(Levels - 1)
    BY <1>0
  <2>3. \A level \in a..(Levels + 1) :
          f[level] = IF level > Levels THEN << >> ELSE DecodeAt(f[level + 1], level)
    BY <2>1
  <2> DEFINE d == [level \in b..(Levels + 1) |-> IF level >= a THEN f[level] ELSE DecodeAt(f[a], b)]
  <2> HIDE DEF a, b
  <2>4. ASSUME NEW level \in b..(Levels + 1)
        PROVE  d[level] = IF level > Levels THEN << >> ELSE DecodeAt(d[level + 1], level)
    <3>1. CASE level = b
      <4>1. ~ (level >= a) /\ ~ (level > Levels) /\ a >= a /\ a \in b..(Levels + 1)
        BY <1>0, <2>2, <3>1
      <4> QED BY <2>2, <3>1, <4>1
    <3>2. CASE level # b /\ level <= Levels
      <4>1. /\ level >= a /\ level + 1 >= a /\ level + 1 \in b..(Levels + 1)
            /\ level \in a..(Levels + 1)
            /\ ~ (level > Levels)
        BY <1>0, <2>2, <3>2
      <4> QED BY <2>3, <4>1
    <3>3. CASE level # b /\ level > Levels
      <4>1. level >= a /\ level \in a..(Levels + 1)
        BY <1>0, <2>2, <3>3
      <4> QED BY <2>3, <3>3, <4>1
    <3> QED BY <1>0, <2>2, <3>1, <3>2, <3>3
  <2>5. d = [level \in b..(Levels + 1) |-> d[level]]
    OBVIOUS
  <2> HIDE DEF d
  <2>6. Is(d, m + 1)
    BY <2>4, <2>5 DEF b
  <2> HIDE DEF Is
  <2> QED BY <2>2, <2>6
<1> HIDE DEF S
<1>3. \A m \in 0..(Levels - 1) : m \in S
  BY <1>0, <1>1, <1>2, IntervalInduction
<1> DEFINE Body(f) == [level \in NestedLevels |->
                         IF level > Levels THEN << >> ELSE DecodeAt(f[level + 1], level)]
           g == CHOOSE f : f = Body(f)
<1>4. \E f : f = Body(f)
  <2>1. PICK f : Is(f, Levels - 1)
    BY <1>0, <1>3 DEF S
  <2>2. (Levels + 1 - (Levels - 1))..(Levels + 1) = NestedLevels
    BY <1>0 DEF NestedLevels
  <2>3. f = Body(f)
    BY <2>1, <2>2
  <2> QED BY <2>3
<1>5. Decoder = g
  BY DEF Decoder, DecodeAt
<1>6. g = Body(g)
  BY <1>4
<1> HIDE DEF g
<1>7. \A level \in 2..(Levels + 1) :
        g[level] = IF level > Levels THEN << >> ELSE DecodeAt(g[level + 1], level)
  BY <1>6 DEF NestedLevels
<1> QED BY <1>0, <1>5, <1>7 DEF NestedLevels

\* Strings are looked for level by level.
LEMMA HasStringLevels ==
  \A level \in NestedLevels : level <= Levels =>
    HasString[level] = HasStringAt(HasString[level + 1], level)
<1> DEFINE Is(f, m) == f = [level \in (Levels + 1 - m)..(Levels + 1) |->
                              IF level > Levels THEN << >> ELSE HasStringAt(f[level + 1], level)]
           S == { m \in 0..(Levels - 1) : \E f : Is(f, m) }
<1>0. Levels \in Nat /\ Levels - 1 \in Nat /\ (Levels + 1) - (Levels - 1) = 2
  BY CodecConstants
<1>1. 0 \in S
  <2> DEFINE d == [level \in (Levels + 1 - 0)..(Levels + 1) |-> << >>]
  <2>1. \A level \in (Levels + 1 - 0)..(Levels + 1) : level > Levels
    BY <1>0
  <2>2. Is(d, 0)
    BY <2>1
  <2> HIDE DEF d, Is
  <2> QED BY <1>0, <2>2
<1>2. ASSUME NEW m \in 0..(Levels - 1 - 1), m \in S PROVE m + 1 \in S
  <2>1. PICK f : Is(f, m)
    BY <1>2
  <2> DEFINE a == Levels + 1 - m
             b == Levels + 1 - (m + 1)
  <2>2. m \in Nat /\ a \in Int /\ b \in Int /\ b + 1 = a /\ a <= Levels + 1 /\ b <= Levels
        /\ m + 1 \in 0..(Levels - 1)
    BY <1>0
  <2>3. \A level \in a..(Levels + 1) :
          f[level] = IF level > Levels THEN << >> ELSE HasStringAt(f[level + 1], level)
    BY <2>1
  <2> DEFINE d == [level \in b..(Levels + 1) |-> IF level >= a THEN f[level]
                                                 ELSE HasStringAt(f[a], b)]
  <2> HIDE DEF a, b
  <2>4. ASSUME NEW level \in b..(Levels + 1)
        PROVE  d[level] = IF level > Levels THEN << >> ELSE HasStringAt(d[level + 1], level)
    <3>1. CASE level = b
      <4>1. ~ (level >= a) /\ ~ (level > Levels) /\ a >= a /\ a \in b..(Levels + 1)
        BY <1>0, <2>2, <3>1
      <4> QED BY <2>2, <3>1, <4>1
    <3>2. CASE level # b /\ level <= Levels
      <4>1. /\ level >= a /\ level + 1 >= a /\ level + 1 \in b..(Levels + 1)
            /\ level \in a..(Levels + 1)
            /\ ~ (level > Levels)
        BY <1>0, <2>2, <3>2
      <4> QED BY <2>3, <4>1
    <3>3. CASE level # b /\ level > Levels
      <4>1. level >= a /\ level \in a..(Levels + 1)
        BY <1>0, <2>2, <3>3
      <4> QED BY <2>3, <3>3, <4>1
    <3> QED BY <1>0, <2>2, <3>1, <3>2, <3>3
  <2>5. d = [level \in b..(Levels + 1) |-> d[level]]
    OBVIOUS
  <2> HIDE DEF d
  <2>6. Is(d, m + 1)
    BY <2>4, <2>5 DEF b
  <2> HIDE DEF Is
  <2> QED BY <2>2, <2>6
<1> HIDE DEF S
<1>3. \A m \in 0..(Levels - 1) : m \in S
  BY <1>0, <1>1, <1>2, IntervalInduction
<1> DEFINE Body(f) == [level \in NestedLevels |->
                         IF level > Levels THEN << >> ELSE HasStringAt(f[level + 1], level)]
           g == CHOOSE f : f = Body(f)
<1>4. \E f : f = Body(f)
  <2>1. PICK f : Is(f, Levels - 1)
    BY <1>0, <1>3 DEF S
  <2>2. (Levels + 1 - (Levels - 1))..(Levels + 1) = NestedLevels
    BY <1>0 DEF NestedLevels
  <2>3. f = Body(f)
    BY <2>1, <2>2
  <2> QED BY <2>3
<1>5. HasString = g
  BY DEF HasString, HasStringAt
<1>6. g = Body(g)
  BY <1>4
<1> HIDE DEF g
<1>7. \A level \in 2..(Levels + 1) :
        g[level] = IF level > Levels THEN << >> ELSE HasStringAt(g[level + 1], level)
  BY <1>6 DEF NestedLevels
<1> QED BY <1>0, <1>5, <1>7 DEF NestedLevels

-----------------------------------------------------------------------------
(* Bytes, numbers and lengths.                                             *)

Byte == 0..(Base - 1)

\* Lengths of one byte and of two survive the wire.
LEMMA Digits ==
  ASSUME NEW n \in Nat
  PROVE  /\ n % Base \in Byte /\ n \div Base \in Nat
         /\ n = Base * (n \div Base) + (n % Base)
         /\ n < Base => n % Base = n /\ n \div Base = 0
         /\ n < Base * Base => n \div Base \in Byte
<1>0. Base \in Nat /\ Base > 1
  BY CodecConstants
<1>1. n % Base \in Byte /\ n \div Base \in Nat
  BY <1>0 DEF Byte
<1>2. n = Base * (n \div Base) + (n % Base)
  BY <1>0
<1>3. ASSUME n < Base PROVE n % Base = n /\ n \div Base = 0
  <2> DEFINE q == n \div Base
  <2>1. q \in Nat /\ n >= Base * q
    BY <1>0, <1>1, <1>2 DEF Byte
  <2> HIDE DEF q
  <2>2. ASSUME q # 0 PROVE FALSE
    <3>1. PICK d \in Nat : q = 1 + d
      <4>1. q - 1 \in Nat /\ q = 1 + (q - 1)
        BY <2>1, <2>2
      <4> QED BY <4>1
    <3>2. Base * q = Base + Base * d /\ Base * d \in Nat
      BY <1>0, <3>1
    <3> QED BY <1>0, <1>3, <2>1, <3>2
  <2>3. Base * q = 0 /\ q = 0
    BY <1>0, <2>2
  <2> QED BY <1>0, <1>1, <1>2, <2>3 DEF q, Byte
<1>4. ASSUME n < Base * Base PROVE n \div Base < Base
  <2> DEFINE q == n \div Base
  <2>1. q \in Nat /\ n >= Base * q
    BY <1>0, <1>1, <1>2 DEF Byte
  <2> HIDE DEF q
  <2>2. ASSUME q >= Base PROVE FALSE
    <3>1. PICK d \in Nat : q = Base + d
      BY <1>0, <2>1, <2>2
    <3>2. Base * q = Base * Base + Base * d /\ Base * d \in Nat /\ Base * Base \in Nat
      BY <1>0, <3>1
    <3> QED BY <1>4, <2>1, <3>2
  <2> QED BY <1>0, <2>1, <2>2 DEF q
<1> QED BY <1>0, <1>1, <1>2, <1>3, <1>4 DEF Byte

\* The bytes of a number, and the number they are of.
LEMMA BytesNumber ==
  ASSUME NEW n \in Nat, NEW size \in {1, 2}
  PROVE  /\ Bytes(n, size) \in Seq(Byte) /\ Len(Bytes(n, size)) = size
         /\ n < Limit(size) => Number(Bytes(n, size)) = n
<1>0. n % Base \in Byte /\ Base \in Nat
  BY Digits, CodecConstants
<1>1. CASE size = 1
  <2>1. Bytes(n, size) = <<n % Base>>
    BY <1>1 DEF Bytes
  <2>2. n < Limit(size) => n % Base = n
    BY <1>1, Digits DEF Limit
  <2> DEFINE a == n % Base
  <2>3. Len(<<a>>) = 1 /\ <<a>> \in Seq(Byte) /\ <<a>>[1] = a
    BY <1>0
  <2> QED BY <1>1, <2>1, <2>2, <2>3 DEF Number
<1>2. CASE size = 2
  <2> DEFINE a == n % Base  b == (n \div Base) % Base
  <2>1. Bytes(n, size) = <<a, b>>
    BY <1>2 DEF Bytes
  <2>2. b \in Byte
    BY Digits
  <2>3. ASSUME n < Limit(size) PROVE n = Base * b + a
    <3>1. n \div Base \in Byte /\ n \div Base \in Nat /\ n = Base * (n \div Base) + (n % Base)
      BY <1>2, <2>3, Digits DEF Limit
    <3>2. n \div Base < Base
      BY <3>1, <1>0 DEF Byte
    <3>3. (n \div Base) % Base = n \div Base
      BY <3>1, <3>2, Digits
    <3> QED BY <3>1, <3>3
  <2>4. a \in Nat /\ Base * b \in Nat
    BY <1>0, <2>2, CodecConstants DEF Byte
  <2> HIDE DEF a, b
  <2>5. n < Limit(size) => n = a + Base * b
    BY <2>3, <2>4
  <2>6. a \in Byte
    BY <1>0 DEF a
  <2>7. Len(<<a, b>>) = 2 /\ <<a, b>> \in Seq(Byte) /\ <<a, b>>[1] = a /\ <<a, b>>[2] = b
    BY <2>2, <2>6
  <2>8. Number(<<a, b>>) = a + Base * b
    BY <2>7 DEF Number
  <2> QED BY <1>2, <2>1, <2>5, <2>7, <2>8
<1> QED BY <1>1, <1>2

\* Lengths take one byte or two.
LEMMA Sizes ==
  ASSUME NEW e
  PROVE  LenSize(e) \in {1, 2} /\ PrefixSize(e) \in {1, 2}
BY DEF LenSize, PrefixSize

\* The numbers one byte and two can hold.
LEMMA Limits ==
  /\ Limit(1) = Base /\ Limit(2) = Base * Base
  /\ \A size \in {1, 2} : Limit(size) \in Nat /\ Limit(size) > 1
<1>1. Base * Base \in Nat /\ Base * Base >= Base /\ Base \in Nat /\ Base > 1
  BY CodecConstants
<1> QED BY <1>1 DEF Limit

\* A length is stored over a shorter one.
LEMMA StoreShort ==
  ASSUME NEW m \in Nat, NEW n \in Nat, NEW size \in {1, 2}, m < Limit(size), n < Limit(size)
  PROVE  StoreLow(n, Bytes(m, size)) = m
<1>1. Len(Bytes(m, size)) = size /\ Number(Bytes(m, size)) = m
  BY BytesNumber
<1>2. n % Limit(size) = n
  BY Limits
<1>3. n - n + m = m
  OBVIOUS
<1> QED BY <1>1, <1>2, <1>3 DEF StoreLow

\* skip_to_next_elem ends at the next type.
LEMMA SkipFacts ==
  ASSUME NEW ei, IsSequence(ei), NEW i \in DOMAIN ei
  PROVE  LET j == SkipToNextElem(ei, i, 1)
         IN  /\ j \in (i + 1)..(Len(ei) + 1)
             /\ j = Len(ei) + 1 \/ ei[j].tlv_type # ei[i].tlv_type
             /\ \A k \in i..(j - 1) : ei[k].tlv_type = ei[i].tlv_type
<1> DEFINE T == { j \in (i + 1)..(Len(ei) + 1) : j = Len(ei) + 1 \/ ei[j].tlv_type # ei[i].tlv_type }
<1>0. Len(ei) \in Nat /\ i \in 1..Len(ei) /\ Len(ei) + 1 \in (i + 1)..(Len(ei) + 1)
  BY DEF IsSequence
<1>1. PICK m \in T : \A n \in T : m <= n
  <2>1. T \subseteq Nat
    BY <1>0
  <2>2. Len(ei) + 1 \in T
    BY <1>0
  <2> QED BY <2>1, <2>2, LeastNatural
<1>2. ASSUME NEW k \in i..(m - 1) PROVE ei[k].tlv_type = ei[i].tlv_type
  <2>1. CASE k = i
    BY <2>1
  <2>2. CASE k # i
    <3>1. k \in (i + 1)..(Len(ei) + 1) /\ ~ (m <= k) /\ k # Len(ei) + 1
      BY <1>0, <2>2
    <3>2. k \notin T
      BY <1>1, <3>1
    <3> QED BY <3>1, <3>2
  <2> QED BY <2>1, <2>2
<1>3. m \in (i + 1)..(Len(ei) + 1) /\ (m = Len(ei) + 1 \/ ei[m].tlv_type # ei[i].tlv_type)
  OBVIOUS
<1> QED BY <1>2, <1>3 DEF SkipToNextElem

\* Constants, named.
LEMMA LegalNestedDescriptor ==
  ASSUME NEW level \in NestedLevels, NEW ei \in Descriptors[level]
  PROVE  /\ level \in Nat /\ level > 1 /\ level <= Levels /\ LegalNested(level, ei)
         /\ level + 1 \in NestedLevels
BY DescriptorsLegal, CodecConstants DEF NestedLevels

-----------------------------------------------------------------------------
(* The shortest message.                                                   *)

\* What holds of a level whenever it holds of the next holds of all.
LEMMA LevelInduction ==
  ASSUME NEW S, \A level \in NestedLevels : (level <= Levels => level + 1 \in S) => level \in S
  PROVE  \A level \in NestedLevels : level \in S
<1> DEFINE T == { m \in 0..(Levels - 1) : (Levels + 1) - m \in S }
<1>0. Levels \in Nat /\ Levels - 1 \in Nat
  BY CodecConstants
<1>1. 0 \in T
  <2>1. Levels + 1 \in NestedLevels /\ ~ (Levels + 1 <= Levels) /\ (Levels + 1) - 0 = Levels + 1
    BY <1>0 DEF NestedLevels
  <2> QED BY <1>0, <2>1
<1>2. ASSUME NEW m \in 0..(Levels - 1 - 1), m \in T PROVE m + 1 \in T
  <2> DEFINE l == (Levels + 1) - (m + 1)
  <2>1. l \in NestedLevels /\ l + 1 = (Levels + 1) - m /\ m + 1 \in 0..(Levels - 1)
    BY <1>0 DEF NestedLevels
  <2>2. l + 1 \in S
    BY <1>2, <2>1
  <2> HIDE DEF l
  <2>3. l \in S
    BY <2>1, <2>2
  <2> QED BY <2>1, <2>3 DEF l
<1> HIDE DEF T
<1>3. \A m \in 0..(Levels - 1) : m \in T
  BY <1>0, <1>1, <1>2, IntervalInduction
<1>4. ASSUME NEW level \in NestedLevels PROVE level \in S
  <2>1. Levels + 1 - level \in 0..(Levels - 1) /\ (Levels + 1) - (Levels + 1 - level) = level
    BY <1>0 DEF NestedLevels
  <2> QED BY <1>3, <2>1 DEF T
<1> QED BY <1>4

\* Descriptors of any level.
LegalAt(level, ei) == IsSequence(ei) /\ \A i \in DOMAIN ei : LegalElem(level, ei, i)

\* Lengths of the structures in ei.
NestedLengths(nested, ei) == \A i \in DOMAIN ei : ei[i].type = "struct" => nested[ei[i].ei] \in Nat

CountTyped(ei, k, st) == st.i \in 1..(Len(ei) + 1) /\ k < st.i /\ st.len \in Nat

CountStep(ei, level, st, u) ==
  /\ u.i \in 1..(Len(ei) + 1) /\ st.i < u.i /\ u.len \in Nat /\ u.len >= st.len
  /\ ei[st.i].type = "opt" => u.i = SkipToNextElem(ei, st.i, level) /\ u.len = st.len
  /\ ei[st.i].type # "opt" => u.i = st.i + 1 /\ (level = 1 => u.len > st.len)

\* A turn of qmi_calc_min_msg_len goes on by an element and counts something,
\* or counts nothing for a flag.
LEMMA CountElemTyped ==
  ASSUME NEW level \in Int, level \in Nat, level > 0, NEW ei, LegalAt(level, ei), NEW nested,
         NestedLengths(nested, ei), NEW st, st.i \in DOMAIN ei, st.len \in Nat
  PROVE  CountStep(ei, level, st, CountElem(nested, ei, level, st))
<1> DEFINE e == ei[st.i]
           u == CountElem(nested, ei, level, st)
           tlv == IF level = 1 THEN TlvHead ELSE 0
           i == st.i
<1>0. /\ Len(ei) \in Nat /\ i \in 1..Len(ei) /\ LegalElem(level, ei, i)
      /\ e.type \in {"opt", "len", "basic", "struct", "string"}
      /\ e.elem_len \in Nat /\ e.elem_size \in Nat
      /\ tlv \in Nat /\ (level = 1 => tlv > 0)
  BY DEF LegalAt, IsSequence, LegalElem, TlvHead
<1>1. e.elem_len * e.elem_size \in Nat
  BY <1>0
<1>2. CASE e.type = "opt"
  <2>1. u = [i |-> SkipToNextElem(ei, i, level), len |-> st.len]
    BY <1>2 DEF CountElem
  <2>2. SkipToNextElem(ei, i, level) \in (i + 1)..(Len(ei) + 1)
    <3>1. CASE level = 1
      BY <3>1, SkipFacts DEF LegalAt
    <3>2. CASE level # 1
      BY <1>0, <3>2 DEF SkipToNextElem
    <3> QED BY <3>1, <3>2
  <2>3. u.i = SkipToNextElem(ei, i, level) /\ u.len = st.len
    BY <2>1
  <2>4. st.i < u.i /\ u.i \in 1..(Len(ei) + 1)
    BY <1>0, <2>2, <2>3
  <2> QED BY <1>0, <1>2, <2>3, <2>4 DEF CountStep
<1>3. ASSUME NEW n \in Nat, u = [i |-> i + 1, len |-> st.len + n], level = 1 => n > 0, e.type # "opt"
      PROVE  CountStep(ei, level, st, u)
  <2>1. st.len + n \in Nat /\ st.len + n >= st.len /\ (n > 0 => st.len + n > st.len)
    OBVIOUS
  <2>2. u.i = i + 1 /\ u.len = st.len + n
    BY <1>3
  <2>3. st.i < u.i /\ u.i \in 1..(Len(ei) + 1)
    BY <1>0, <2>2
  <2> HIDE DEF u
  <2> QED BY <1>3, <2>1, <2>2, <2>3 DEF CountStep
<1>4. CASE e.type = "len"
  <2>1. u = [i |-> i + 1, len |-> st.len + LenSize(e)]
    BY <1>4 DEF CountElem
  <2>2. LenSize(e) \in Nat /\ LenSize(e) > 0
    BY Sizes
  <2> QED BY <1>3, <1>4, <2>1, <2>2
<1>5. CASE e.type = "struct"
  <2>1. u = [i |-> i + 1, len |-> st.len + (nested[e.ei] + tlv)]
    BY <1>5 DEF CountElem
  <2>2. nested[e.ei] + tlv \in Nat /\ (level = 1 => nested[e.ei] + tlv > 0)
    BY <1>0, <1>5 DEF NestedLengths
  <2> QED BY <1>3, <1>5, <2>1, <2>2
<1>6. CASE e.type = "string"
  <2> DEFINE n == (IF level > 1 THEN PrefixSize(e) ELSE 0) + e.elem_len * e.elem_size + tlv
  <2>1. u = [i |-> i + 1, len |-> st.len + n]
    BY <1>6 DEF CountElem
  <2>2. n \in Nat /\ (level = 1 => n > 0)
    <3>1. PrefixSize(e) \in Nat
      BY Sizes
    <3> HIDE DEF e, tlv
    <3> QED BY <1>0, <1>1, <3>1
  <2> HIDE DEF n
  <2> QED BY <1>3, <1>6, <2>1, <2>2
<1>7. CASE e.type = "basic"
  <2> DEFINE n == e.elem_len * e.elem_size + tlv
  <2>1. u = [i |-> i + 1, len |-> st.len + n]
    BY <1>7 DEF CountElem
  <2>2. n \in Nat /\ (level = 1 => n > 0)
    BY <1>0, <1>1
  <2> HIDE DEF n
  <2> QED BY <1>3, <1>7, <2>1, <2>2
<1> QED BY <1>0, <1>2, <1>4, <1>5, <1>6, <1>7

\* The loop comes to the end of the descriptor.
LEMMA CountLoopTyped ==
  ASSUME NEW level \in Int, level \in Nat, level > 0, NEW ei, LegalAt(level, ei), NEW nested,
         NestedLengths(nested, ei), NEW f, IsCounting(nested, ei, level, f, Len(ei))
  PROVE  \A k \in 0..Len(ei) : CountTyped(ei, k, f[k])
<1> DEFINE S == { k \in 0..Len(ei) : CountTyped(ei, k, f[k]) }
<1>0. Len(ei) \in Nat /\ DOMAIN ei = 1..Len(ei)
  BY DEF LegalAt, IsSequence
<1>1. /\ f[0] = [i |-> 1, len |-> 0]
      /\ \A k \in 1..Len(ei) : f[k] = CountNext(nested, ei, level, f[k - 1])
  BY <1>0, CountingTurns
<1>2. 0 \in S
  BY <1>0, <1>1 DEF CountTyped
<1>3. ASSUME NEW k \in 0..(Len(ei) - 1), k \in S PROVE k + 1 \in S
  <2>1. CountTyped(ei, k, f[k]) /\ k + 1 \in 1..Len(ei) /\ k + 1 \in 0..Len(ei) /\ (k + 1) - 1 = k
    BY <1>0, <1>3
  <2>2. f[k + 1] = CountNext(nested, ei, level, f[k])
    BY <1>1, <2>1
  <2>3. CASE f[k].i > Len(ei)
    <3>1. f[k + 1] = f[k]
      BY <2>2, <2>3 DEF CountNext
    <3>2. f[k].i = Len(ei) + 1
      BY <1>0, <2>1, <2>3 DEF CountTyped
    <3>3. k + 1 < f[k].i
      BY <1>0, <2>1, <3>2
    <3> QED BY <2>1, <3>1, <3>3 DEF CountTyped
  <2>4. CASE ~ (f[k].i > Len(ei))
    <3>1. f[k + 1] = CountElem(nested, ei, level, f[k])
      BY <2>2, <2>4 DEF CountNext
    <3>2. f[k].i \in DOMAIN ei /\ f[k].len \in Nat /\ k < f[k].i
      BY <1>0, <2>1, <2>4 DEF CountTyped
    <3>3. CountStep(ei, level, f[k], f[k + 1])
      BY <3>1, <3>2, CountElemTyped
    <3>4. k + 1 < f[k + 1].i
      BY <1>0, <2>1, <3>2, <3>3 DEF CountStep
    <3> QED BY <2>1, <3>3, <3>4 DEF CountTyped, CountStep
  <2> QED BY <2>3, <2>4
<1> HIDE DEF S
<1>4. \A k \in 0..Len(ei) : k \in S
  BY <1>0, <1>2, <1>3, IntervalInduction
<1> QED BY <1>4 DEF S

\* Lengths of nested structures are numbers.
LEMMA MinLenNat ==
  \A level \in NestedLevels : \A ei \in Descriptors[level] : MinLen[level][ei] \in Nat
<1> DEFINE S == { level \in NestedLevels : \A ei \in Descriptors[level] : MinLen[level][ei] \in Nat }
<1>1. ASSUME NEW level \in NestedLevels, level <= Levels => level + 1 \in S PROVE level \in S
  <2>1. ASSUME NEW ei \in Descriptors[level] PROVE MinLen[level][ei] \in Nat
    <3>1. /\ level \in Nat \ {0} /\ level <= Levels /\ LegalNested(level, ei)
      BY LegalNestedDescriptor
    <3>2. LegalAt(level, ei) /\ Len(ei) \in Nat
      BY <3>1 DEF LegalNested, LegalAt, IsSequence
    <3>3. MinLen[level][ei] = CalcMinMsgLen(MinLen[level + 1], ei, level)
      BY <3>1, MinLenLevels DEF CountAt
    <3>4. level \in Int /\ level \in Nat /\ level > 0
      BY <3>1
    <3>5. PICK f : /\ IsCounting(MinLen[level + 1], ei, level, f, Len(ei))
                   /\ CountLoop(MinLen[level + 1], ei, level) = f
      BY <3>2, <3>4, CountingRun
    <3>6. NestedLengths(MinLen[level + 1], ei)
      BY <1>1, <3>1, <3>2 DEF LegalAt, LegalElem, NestedLengths
    <3>7. CountTyped(ei, Len(ei), f[Len(ei)])
      BY <3>2, <3>5, <3>6, <3>4, CountLoopTyped
    <3> QED BY <3>3, <3>5, <3>7 DEF CountTyped, CalcMinMsgLen
  <2> QED BY <2>1
<1> HIDE DEF S
<1>2. \A level \in NestedLevels : level \in S
  BY <1>1, LevelInduction
<1> QED BY <1>2 DEF S

\* At element i, the mandatory elements before it are counted; as long as there
\* are none, the elements are those of one TLV after the other.
CountedUpTo(ei, st) ==
  /\ (st.len = 0) <=> (\A j \in 1..(st.i - 1) : ei[j].tlv_type >= OptionalStart)
  /\ st.len = 0 /\ st.i <= Len(ei) => \A j \in 1..(st.i - 1) : ~ SameTlv(ei, st.i, j)

\* A turn of qmi_calc_min_msg_len keeps the count above zero just when something mandatory was met.
LEMMA CountElemCounts ==
  ASSUME NEW ei, NEW nested, NEW st, LegalMessage(ei), NestedLengths(nested, ei),
         st.i \in DOMAIN ei, st.len \in Nat, CountedUpTo(ei, st)
  PROVE  CountedUpTo(ei, CountElem(nested, ei, 1, st))
<1> DEFINE u == CountElem(nested, ei, 1, st)
           i == st.i
<1>0. /\ LegalAt(1, ei) /\ Len(ei) \in Nat /\ DOMAIN ei = 1..Len(ei) /\ i \in 1..Len(ei)
      /\ \A j \in 1..Len(ei) : LegalTlv(ei, j) /\ ei[j].tlv_type \in Nat
      /\ OptionalStart \in Nat
  BY CodecConstants DEF LegalMessage, LegalAt, IsSequence, LegalElem
<1>1. /\ u.i \in 1..(Len(ei) + 1) /\ st.i < u.i /\ u.len \in Nat /\ u.len >= st.len
      /\ ei[st.i].type = "opt" => u.i = SkipToNextElem(ei, st.i, 1) /\ u.len = st.len
      /\ ei[st.i].type # "opt" => u.i = st.i + 1 /\ u.len > st.len
  <2>1. PICK level \in Int : level = 1 /\ level \in Nat /\ level > 0
    OBVIOUS
  <2>2. CountStep(ei, level, st, CountElem(nested, ei, level, st))
    <3>1. LegalAt(level, ei) /\ st.i \in DOMAIN ei
      BY <1>0, <2>1
    <3> QED BY <2>1, <3>1, CountElemTyped
  <2> QED BY <2>1, <2>2 DEF CountStep
<1> HIDE DEF u
<1>2. CASE st.len > 0
  <2>1. PICK j \in 1..(i - 1) : ~ (ei[j].tlv_type >= OptionalStart)
    BY <1>2 DEF CountedUpTo
  <2>2. u.len # 0 /\ j \in 1..(u.i - 1)
    BY <1>0, <1>1, <1>2
  <2> QED BY <2>1, <2>2 DEF CountedUpTo, u
<1>3. CASE st.len = 0 /\ ei[i].type = "opt"
  <2> DEFINE s == SkipToNextElem(ei, i, 1)
  <2>1. /\ s \in (i + 1)..(Len(ei) + 1)
        /\ s = Len(ei) + 1 \/ ei[s].tlv_type # ei[i].tlv_type
        /\ \A k \in i..(s - 1) : ei[k].tlv_type = ei[i].tlv_type
    BY <1>0, SkipFacts DEF LegalAt
  <2> HIDE DEF s
  <2>2. u.i = s /\ u.len = 0
    BY <1>1, <1>3 DEF s
  <2>3. ei[i].tlv_type >= OptionalStart
    BY <1>0, <1>3 DEF LegalTlv
  <2>4. ASSUME NEW j \in 1..(s - 1) PROVE ei[j].tlv_type >= OptionalStart
    <3>1. CASE j < i
      BY <1>0, <1>3, <3>1 DEF CountedUpTo
    <3>2. CASE j >= i
      BY <1>0, <2>1, <2>3, <3>2
    <3> QED BY <1>0, <2>1, <3>1, <3>2
  <2>5. ASSUME s <= Len(ei), NEW j \in 1..(s - 1), SameTlv(ei, s, j) PROVE FALSE
    <3>1. s \in 1..Len(ei) /\ s - 1 \in j..(s - 1) /\ s - 1 \in i..(s - 1) /\ s # Len(ei) + 1
      BY <1>0, <2>1, <2>5
    <3>2. SameTlv(ei, s, s - 1)
      BY <1>0, <2>5, <3>1 DEF LegalTlv
    <3> QED BY <2>1, <3>1, <3>2 DEF SameTlv
  <2> QED BY <2>2, <2>4, <2>5 DEF CountedUpTo, u
<1>4. CASE st.len = 0 /\ ei[i].type # "opt"
  <2>1. ~ (ei[i].tlv_type >= OptionalStart)
    <3>1. SUFFICES ASSUME ei[i].tlv_type >= OptionalStart PROVE FALSE
      OBVIOUS
    <3>2. PICK j \in 1..i : SameTlv(ei, i, j) /\ ei[j].type = "opt"
      BY <1>0, <3>1 DEF LegalTlv
    <3>3. j # i /\ j \in 1..(i - 1)
      BY <1>0, <1>4, <3>2
    <3> QED BY <1>0, <1>4, <3>2, <3>3 DEF CountedUpTo
  <2>2. u.i = i + 1 /\ u.len # 0 /\ i \in 1..(u.i - 1)
    BY <1>0, <1>1, <1>4
  <2> QED BY <2>1, <2>2 DEF CountedUpTo, u
<1> QED BY <1>2, <1>3, <1>4

\* "Optional elements do not count in minimum length" (qmi.c:155), and all
\* others do.
THEOREM MinMsgLenOptional ==
  ASSUME NEW ei, LegalMessage(ei)
  PROVE  MinMsgLen(ei) = 0 <=> \A i \in DOMAIN ei : ei[i].tlv_type >= OptionalStart
<1> DEFINE nested == MinLen[2]
<1>0. /\ LegalAt(1, ei) /\ Len(ei) \in Nat /\ DOMAIN ei = 1..Len(ei)
  BY DEF LegalMessage, LegalAt, IsSequence
<1>1. PICK f : IsCounting(nested, ei, 1, f, Len(ei)) /\ CountLoop(nested, ei, 1) = f
  BY <1>0, CountingRun
<1>2. /\ f[0] = [i |-> 1, len |-> 0]
      /\ \A k \in 1..Len(ei) : f[k] = CountNext(nested, ei, 1, f[k - 1])
  BY <1>0, <1>1, CountingTurns
<1>3. NestedLengths(nested, ei)
  <2>1. 2 \in NestedLevels
    BY CodecConstants DEF NestedLevels
  <2>2. \A i \in DOMAIN ei : ei[i].type = "struct" => ei[i].ei \in Descriptors[2]
    BY <1>0 DEF LegalAt, LegalElem
  <2> QED BY <2>1, <2>2, MinLenNat DEF NestedLengths
<1> HIDE DEF nested
<1>4. \A k \in 0..Len(ei) : CountTyped(ei, k, f[k])
  <2>1. 1 \in Nat \ {0}
    OBVIOUS
  <2> QED BY <1>0, <1>1, <1>3, <2>1, CountLoopTyped
<1> DEFINE S == { k \in 0..Len(ei) : CountedUpTo(ei, f[k]) }
<1>5. 0 \in S
  BY <1>0, <1>2 DEF CountedUpTo
<1>6. ASSUME NEW k \in 0..(Len(ei) - 1), k \in S PROVE k + 1 \in S
  <2>1. CountTyped(ei, k, f[k]) /\ k + 1 \in 1..Len(ei) /\ k + 1 \in 0..Len(ei) /\ (k + 1) - 1 = k
        /\ CountedUpTo(ei, f[k])
    BY <1>0, <1>4, <1>6
  <2>2. f[k + 1] = CountNext(nested, ei, 1, f[k])
    BY <1>2, <2>1
  <2>3. CASE f[k].i > Len(ei)
    BY <2>1, <2>2, <2>3 DEF CountNext
  <2>4. CASE ~ (f[k].i > Len(ei))
    <3>1. f[k].i \in DOMAIN ei /\ f[k].len \in Nat
      BY <1>0, <2>1, <2>4 DEF CountTyped
    <3>2. f[k + 1] = CountElem(nested, ei, 1, f[k])
      BY <2>2, <2>4 DEF CountNext
    <3>3. CountedUpTo(ei, f[k + 1])
      BY <1>3, <2>1, <3>1, <3>2, CountElemCounts
    <3> QED BY <2>1, <3>3
  <2> QED BY <2>3, <2>4
<1> HIDE DEF S
<1>7. \A k \in 0..Len(ei) : k \in S
  BY <1>0, <1>5, <1>6, IntervalInduction
<1>8. CountedUpTo(ei, f[Len(ei)]) /\ f[Len(ei)].i = Len(ei) + 1
  BY <1>0, <1>4, <1>7 DEF S, CountTyped
<1>9. MinMsgLen(ei) = f[Len(ei)].len
  BY <1>1 DEF MinMsgLen, CalcMinMsgLen, nested
<1> QED BY <1>0, <1>8, <1>9 DEF CountedUpTo

-----------------------------------------------------------------------------
(* Values of elements, in a buffer and in a structure.                     *)

\* buf holds the bytes s behind its first `from`.
Match(buf, from, s) ==
  /\ from \in Nat /\ s \in Seq(Nat) /\ from + Len(s) <= Len(buf)
  /\ \A p \in 1..Len(s) : buf[from + p] = s[p]

\* What matches is what is sliced out.
LEMMA MatchSlice ==
  ASSUME NEW buf, NEW s, NEW from \in Int, buf \in Seq(Nat), Match(buf, from, s)
  PROVE  Slice(buf, from, Len(s)) = s
<1>1. /\ from \in Nat /\ s \in Seq(Nat) /\ from + Len(s) <= Len(buf) /\ Len(s) \in Nat
      /\ Len(buf) \in Nat
  BY DEF Match
<1>2. Slice(buf, from, Len(s)) = SubSeq(buf, from + 1, from + Len(s))
  BY DEF Slice
<1> DEFINE t == SubSeq(buf, from + 1, from + Len(s))
<1>3. t \in Seq(Nat) /\ Len(t) = Len(s) /\ \A p \in 1..Len(s) : t[p] = buf[from + p]
  BY <1>1
<1>4. \A p \in 1..Len(s) : t[p] = s[p]
  BY <1>3 DEF Match
<1> HIDE DEF t
<1>5. t = s
  BY <1>1, <1>3, <1>4, SeqEqual
<1> QED BY <1>2, <1>5 DEF t

\* A match is a match of both parts.
LEMMA MatchParts ==
  ASSUME NEW buf, NEW s, NEW t, NEW from \in Int, s \in Seq(Nat), t \in Seq(Nat),
         Match(buf, from, s \o t)
  PROVE  Match(buf, from, s) /\ Match(buf, from + Len(s), t)
<1> DEFINE u == s \o t
<1>1. /\ u \in Seq(Nat) /\ Len(u) = Len(s) + Len(t) /\ Len(s) \in Nat /\ Len(t) \in Nat
      /\ \A p \in 1..Len(s) : u[p] = s[p]
      /\ \A p \in 1..Len(t) : u[Len(s) + p] = t[p]
  OBVIOUS
<1>2. from \in Nat /\ from + Len(u) <= Len(buf) /\ \A p \in 1..Len(u) : buf[from + p] = u[p]
  BY DEF Match
<1> HIDE DEF u
<1>3. ASSUME NEW p \in 1..Len(s) PROVE buf[from + p] = s[p]
  BY <1>1, <1>2
<1>4. ASSUME NEW p \in 1..Len(t) PROVE buf[(from + Len(s)) + p] = t[p]
  <2>1. Len(s) + p \in 1..Len(u) /\ from + (Len(s) + p) = (from + Len(s)) + p
    BY <1>1, <1>2
  <2> QED BY <1>1, <1>2, <2>1
<1>5. Len(u) = Len(s) + Len(t) /\ from + (Len(s) + Len(t)) <= Len(buf)
  BY <1>1, <1>2
<1>6. from + Len(s) \in Nat /\ (from + Len(s)) + Len(t) <= Len(buf) /\ from + Len(s) <= Len(buf)
  <2>1. Len(buf) >= from + (Len(s) + Len(t)) 
    BY <1>5
  <2> QED BY <1>1, <1>2, <2>1
<1> QED BY <1>2, <1>3, <1>4, <1>6 DEF Match

\* Bytes written are numbers.
LEMMA BytesMatch ==
  ASSUME NEW size, NEW n \in Int, n \in Nat, size \in {1, 2}
  PROVE  Bytes(n, size) \in Seq(Nat) /\ Len(Bytes(n, size)) = size
<1>1. Byte \subseteq Nat
  BY CodecConstants DEF Byte
<1> QED BY <1>1, BytesNumber, SeqMonotonic

\* qmi_encode by type of element: a value in the room that is left.
EncodeValue(nested, level, e, x, n, left) ==
  CASE e.type = "basic"  -> IF n * e.elem_size + TlvHead <= left THEN Emit(x) ELSE Einval
    [] e.type = "struct" -> EncodeStructs(nested, e.ei, x, n, left)
    [] e.type = "string" -> EncodeString(e, x, left, level)

\* qmi_decode by type of element: a value behind the first at bytes of buf.
DecodeValue(nested, level, e, n, buf, at, tlvLen) ==
  CASE e.type = "basic"  -> DecodeBasic(buf, at, n * e.elem_size)
    [] e.type = "struct" -> DecodeStructs(nested, e.ei, buf, at, n, tlvLen, level + 1)
    [] e.type = "string" -> DecodeString(e, buf, at, tlvLen, level)

\* A value as its element and the array length in force demand it.
ValidAs(level, e, n, x) ==
  CASE e.type = "basic"  -> x \in Seq(Byte) /\ Len(x) = n * e.elem_size
    [] e.type = "string" -> x \in Seq(Byte) /\ Len(x) <= e.elem_len
    [] e.type = "struct" -> /\ x = [k \in 1..n |-> x[k]]
                            /\ \A k \in 1..n : [ei |-> e.ei, v |-> x[k]] \in Structures[level + 1]

\* The elements that hold values.
ValueElem(level, e) ==
  /\ e.type \in {"basic", "string", "struct"}
  /\ e.elem_size \in Nat \ {0} /\ e.elem_len \in Nat \ {0}
  /\ e.type = "string" /\ level > 1 => e.elem_len # Base /\ e.elem_len < Base * Base
  /\ e.type = "struct" => level + 1 \in NestedLevels

\* Integers arrive.
LEMMA BasicArrives ==
  ASSUME NEW buf, NEW x, NEW at \in Int, buf \in Seq(Nat), Match(buf, at, x)
  PROVE  DecodeBasic(buf, at, Len(x)) = Took(Len(x), x)
<1>1. ~ (at + Len(x) > Len(buf))
  BY DEF Match
<1> QED BY <1>1, MatchSlice DEF DecodeBasic

\* Strings of a message arrive.
LEMMA StringArrives ==
  ASSUME NEW buf, NEW x, NEW e, NEW at \in Int, buf \in Seq(Nat), Match(buf, at, x),
         e.elem_len \in Nat, Len(x) <= e.elem_len
  PROVE  DecodeString(e, buf, at, Len(x), 1) = Took(Len(x), x)
<1>1. at \in Nat /\ Len(x) \in Nat /\ at + Len(x) <= Len(buf) /\ Len(buf) \in Nat
  BY DEF Match
<1>2. Slice(buf, at, Len(x)) = x
  BY MatchSlice
<1>3. ~ (Len(x) > e.elem_len \/ Len(x) > Len(x) \/ at + 0 + Len(x) > Len(buf))
      /\ 0 + Len(x) = Len(x) /\ at + 0 = at
  BY <1>1
<1> QED BY <1>2, <1>3 DEF DecodeString

\* Strings of a structure arrive, with their lengths.
LEMMA PrefixedStringArrives ==
  ASSUME NEW buf, NEW x, NEW e, NEW level \in Int, NEW at \in Int, NEW tlvLen \in Int, level > 1,
         e.elem_len \in Nat \ {0}, e.elem_len # Base, e.elem_len < Base * Base, x \in Seq(Nat),
         Len(x) <= e.elem_len, buf \in Seq(Nat), Match(buf, at, Bytes(Len(x), PrefixSize(e)) \o x),
         Len(x) <= tlvLen
  PROVE  DecodeString(e, buf, at, tlvLen, level) = Took(PrefixSize(e) + Len(x), x)
<1> DEFINE prefix == PrefixSize(e)
           b == Bytes(Len(x), prefix)
<1>0. Len(x) \in Nat /\ prefix \in {1, 2} /\ Base \in Nat /\ Base * Base \in Nat
  BY CodecConstants, Sizes
<1>1. b \in Seq(Nat) /\ Len(b) = prefix
  BY <1>0, BytesMatch
<1>2. Len(x) < Limit(prefix)
  <2>1. CASE e.elem_len < Base
    <3>1. prefix = 1
      BY <1>0, <2>1 DEF PrefixSize
    <3> QED BY <1>0, <2>1, <3>1 DEF Limit
  <2>2. CASE e.elem_len > Base
    <3>1. prefix = 2
      BY <1>0, <2>2 DEF PrefixSize
    <3> QED BY <1>0, <3>1 DEF Limit
  <2> QED BY <1>0, <2>1, <2>2
<1>3. Number(b) = Len(x)
  BY <1>0, <1>2, BytesNumber
<1> HIDE DEF b
<1>4. Match(buf, at, b) /\ Match(buf, at + prefix, x)
  BY <1>1, MatchParts DEF b
<1>5. Slice(buf, at, prefix) = b /\ Slice(buf, at + prefix, Len(x)) = x
  BY <1>1, <1>4, MatchSlice
<1>6. ~ (Len(x) > e.elem_len) /\ ~ (Len(x) > tlvLen) /\ ~ (at + prefix + Len(x) > Len(buf))
  <2>1. (at + prefix) + Len(x) <= Len(buf) /\ Len(buf) \in Nat /\ at \in Nat
    BY <1>4 DEF Match
  <2> QED BY <1>0, <2>1
<1>7. Number(Slice(buf, at, prefix)) = Len(x) /\ level # 1
  BY <1>3, <1>5
<1> HIDE DEF prefix
<1> QED BY <1>5, <1>6, <1>7 DEF DecodeString, prefix

-----------------------------------------------------------------------------
(* Results, and the turns of the loops over structures.                    *)

\* Results and states.
Ok(r) == r.ok

\* What the results hold.
LEMMA Results ==
  /\ \A b : Ok(Emit(b)) /\ Emit(b).out = b
  /\ ~ Ok(Einval)
  /\ \A a, x : Ok(Took(a, x)) /\ Took(a, x).at = a /\ Took(a, x).v = x
  /\ ~ Ok(Refused)
  /\ ~ Ok(EncodeFailed) /\ ~ Ok(DecodeFailed)
<1>1. \A b : Ok(Emit(b)) /\ Emit(b).out = b
  BY DEF Ok, Emit
<1>2. ~ Ok(Einval)
  BY DEF Ok, Einval
<1>3. \A a, x : Ok(Took(a, x)) /\ Took(a, x).at = a /\ Took(a, x).v = x
  BY DEF Ok, Took
<1>4. ~ Ok(Refused)
  BY DEF Ok, Refused
<1>5. ~ Ok(EncodeFailed) /\ ~ Ok(DecodeFailed)
  BY DEF Ok, EncodeFailed, DecodeFailed
<1> QED BY <1>1, <1>2, <1>3, <1>4, <1>5

\* What the states of qmi_encode hold.
LEMMA EncodeStates ==
  \A i, out, tlv, n :
    LET st == EncodeState(i, out, tlv, n)
    IN  Ok(st) /\ st.i = i /\ st.out = out /\ st.tlv = tlv /\ st.n = n
BY DEF Ok, EncodeState

\* What the states of qmi_decode hold.
LEMMA DecodeStates ==
  \A at, i, n, v :
    LET st == DecodeState(at, i, n, v)
    IN  Ok(st) /\ st.at = at /\ st.i = i /\ st.n = n /\ st.v = v
BY DEF Ok, DecodeState

\* A turn of qmi_encode_struct_elem, when it succeeds: next is done with s behind it.
PutOk(nested, s, room, done, next) ==
  LET r == nested[<<s, room - Len(done.out)>>]
  IN  Ok(done) /\ Ok(r) /\ next = Emit(done.out \o r.out)

\* It succeeds only when all that came before it did.
LEMMA PutNextOk ==
  ASSUME NEW nested, NEW ei, NEW vs, NEW done, NEW room \in Int, NEW k \in Int,
         Ok(PutNext(nested, ei, vs, room, k, done))
  PROVE  PutOk(nested, [ei |-> ei, v |-> vs[k]], room, done, PutNext(nested, ei, vs, room, k, done))
<1> DEFINE r == nested[<<[ei |-> ei, v |-> vs[k]], room - Len(done.out)>>]
<1> HIDE DEF r
<1>1. PutNext(nested, ei, vs, room, k, done) =
        IF Ok(done) /\ Ok(r) THEN Emit(done.out \o r.out) ELSE Einval
  BY DEF PutNext, Ok, r
<1>2. Ok(done) /\ Ok(r)
  BY <1>1, Results
<1>3. PutNext(nested, ei, vs, room, k, done) = Emit(done.out \o r.out)
  BY <1>1, <1>2
<1> QED BY <1>2, <1>3 DEF PutOk, r

\* A turn of qmi_decode_struct_elem that takes a structure.
LEMMA GetNextOk ==
  ASSUME NEW nested, NEW ei, NEW buf, NEW done, NEW n, NEW x, NEW at \in Int, NEW tlvLen \in Int,
         buf \in Seq(Nat), at \in Nat, tlvLen \in Nat, Ok(done), ~ (done.at >= tlvLen),
         nested[<<ei, buf, at + done.at, tlvLen - done.at>>] = Took(n, x)
  PROVE  GetNext(nested, ei, buf, at, tlvLen, done) = Took(done.at + n, Append(done.v, x))
<1> DEFINE r == nested[<<ei, buf, at + done.at, tlvLen - done.at>>]
<1>1. Ok(r) /\ r.at = n /\ r.v = x
  BY Results
<1> HIDE DEF r
<1>2. GetNext(nested, ei, buf, at, tlvLen, done) =
        IF ~ Ok(done) \/ done.at >= tlvLen THEN done
        ELSE IF Ok(r) THEN Took(done.at + r.at, Append(done.v, r.v)) ELSE Refused
  BY DEF GetNext, Ok, r
<1> QED BY <1>1, <1>2

\* All that were expected were found.
LEMMA AllGotOk ==
  ASSUME NEW all, NEW level \in Int, NEW n \in Int, NEW tlvLen \in Int, level \in Nat, n \in Nat,
         tlvLen \in Nat, Ok(all), ~ (level <= 2 /\ all.at # tlvLen), ~ (Len(all.v) < n),
         ~ (all.at > tlvLen)
  PROVE  AllGot(all, n, tlvLen, level) = all
BY DEF Ok, AllGot

\* What holds at the end and before wherever it holds, holds everywhere.
LEMMA IntervalDescent ==
  ASSUME NEW N, NEW S, N \in Nat, N \in S, \A n \in 0..(N - 1) : n + 1 \in S => n \in S
  PROVE  \A n \in 0..N : n \in S
<1> DEFINE T == { d \in 0..N : N - d \in S }
<1>1. 0 \in T
  BY N - 0 = N
<1>2. ASSUME NEW d \in 0..(N - 1), d \in T PROVE d + 1 \in T
  <2>1. N - (d + 1) \in 0..(N - 1) /\ (N - (d + 1)) + 1 = N - d /\ d + 1 \in 0..N
    OBVIOUS
  <2> QED BY <1>2, <2>1
<1> HIDE DEF T
<1>3. \A d \in 0..N : d \in T
  BY <1>1, <1>2, IntervalInduction
<1>4. ASSUME NEW n \in 0..N PROVE n \in S
  <2>1. N - n \in 0..N /\ N - (N - n) = n
    OBVIOUS
  <2> QED BY <1>3, <2>1 DEF T
<1> QED BY <1>4

\* A sequence grown by one.
LEMMA AppendNext ==
  ASSUME NEW vs, NEW k \in Int, k \in Nat
  PROVE  Append([j \in 1..k |-> vs[j]], vs[k + 1]) = [j \in 1..(k + 1) |-> vs[j]]
<1> DEFINE S == { vs[j] : j \in 1..(k + 1) }
           q == [j \in 1..k |-> vs[j]]
           t == [j \in 1..(k + 1) |-> vs[j]]
<1>1. q \in Seq(S) /\ Len(q) = k /\ \A j \in 1..k : q[j] = vs[j]
  OBVIOUS
<1>2. t \in Seq(S) /\ Len(t) = k + 1 /\ \A j \in 1..(k + 1) : t[j] = vs[j]
  OBVIOUS
<1>3. vs[k + 1] \in S
  OBVIOUS
<1> HIDE DEF S, q, t
<1>4. /\ Append(q, vs[k + 1]) \in Seq(S) /\ Len(Append(q, vs[k + 1])) = k + 1
      /\ \A j \in 1..(k + 1) : Append(q, vs[k + 1])[j] = IF j = k + 1 THEN vs[k + 1] ELSE q[j]
  BY <1>1, <1>3
<1>5. \A j \in 1..(k + 1) : Append(q, vs[k + 1])[j] = t[j]
  BY <1>1, <1>2, <1>4
<1>6. Append(q, vs[k + 1]) = t
  BY <1>2, <1>4, <1>5, SeqEqual
<1> QED BY <1>6 DEF q, t

\* The bytes o carry the structure s.
CarriedBy(o, s, dec) ==
  /\ o.out \in Seq(Nat) /\ Len(o.out) > 0
  /\ \A buf \in Seq(Nat), from \in Nat, len \in Nat :
       Match(buf, from, o.out) /\ Len(o.out) <= len =>
         dec[<<s.ei, buf, from, len>>] = Took(Len(o.out), s.v)

\* Structures of a level that are encoded arrive, whatever follows them.
Carries(enc, dec, level) ==
  \A s \in Structures[level], r \in Int : Ok(enc[<<s, r>>]) => CarriedBy(enc[<<s, r>>], s, dec)

\* vs holds n structures of a level.
Holds(level, ei, vs, n) ==
  vs = [k \in 1..n |-> vs[k]] /\ \A k \in 1..n : [ei |-> ei, v |-> vs[k]] \in Structures[level]

\* Between two states of a run the bytes r of the structure s are added.
PutStep(enc, dec, room, s, done, next) ==
  LET r == enc[<<s, room - Len(done.out)>>]
  IN  /\ Ok(done) /\ done.out \in Seq(Nat) /\ CarriedBy(r, s, dec)
      /\ next.out = done.out \o r.out /\ next.out \in Seq(Nat)
      /\ Len(next.out) = Len(done.out) + Len(r.out) /\ Len(next.out) > Len(done.out)

\* A turn of qmi_encode_struct_elem adds the bytes of one structure.
LEMMA PutNextStep ==
  ASSUME NEW enc, NEW dec, NEW ei, NEW vs, NEW done, NEW level \in Int, NEW room \in Int,
         NEW k \in Int, level \in Nat, k \in Nat, Carries(enc, dec, level),
         [ei |-> ei, v |-> vs[k]] \in Structures[level], done.out \in Seq(Nat),
         Ok(PutNext(enc, ei, vs, room, k, done))
  PROVE  PutStep(enc, dec, room, [ei |-> ei, v |-> vs[k]], done, PutNext(enc, ei, vs, room, k, done))
<1> DEFINE s == [ei |-> ei, v |-> vs[k]]
           r == enc[<<s, room - Len(done.out)>>]
           next == PutNext(enc, ei, vs, room, k, done)
<1>0. PutOk(enc, s, room, done, next)
  BY PutNextOk
<1>1. Ok(done) /\ Ok(r) /\ next = Emit(done.out \o r.out)
  <2> HIDE DEF s, next
  <2> QED BY <1>0 DEF PutOk
<1>2. CarriedBy(r, s, dec)
  <2>1. room - Len(done.out) \in Int /\ s \in Structures[level]
    OBVIOUS
  <2> HIDE DEF s
  <2> QED BY <1>1, <2>1 DEF Carries
<1> HIDE DEF r, s, next
<1>3. r.out \in Seq(Nat) /\ Len(r.out) > 0
  BY <1>2 DEF CarriedBy
<1>4. next.out = done.out \o r.out
  BY <1>1, Results
<1>5. next.out \in Seq(Nat) /\ Len(next.out) = Len(done.out) + Len(r.out)
  BY <1>3, <1>4
<1>6. Len(next.out) > Len(done.out)
  <2>1. PICK a \in Nat : a = Len(done.out)
    OBVIOUS
  <2>2. PICK b \in Nat : b = Len(r.out)
    BY <1>3
  <2>3. Len(next.out) = a + b /\ b > 0
    BY <1>3, <1>5, <2>1, <2>2
  <2>4. a + b > a
    BY <2>3
  <2> QED BY <2>1, <2>3, <2>4
<1> QED BY <1>1, <1>2, <1>4, <1>5, <1>6 DEF PutStep, next, r, s

\* So do all its turns, when the last one succeeds.
LEMMA PutRunSteps ==
  ASSUME NEW enc, NEW dec, NEW ei, NEW vs, NEW f, NEW level \in Int, NEW n \in Int,
         NEW room \in Int, level \in Nat, Carries(enc, dec, level), n \in Nat,
         Holds(level, ei, vs, n), IsPutting(enc, ei, vs, room, f, n), Ok(f[n])
  PROVE  /\ f[n].out \in Seq(Nat)
         /\ \A k \in 0..(n - 1) : PutStep(enc, dec, room, [ei |-> ei, v |-> vs[k + 1]], f[k], f[k + 1])
<1> DEFINE Bytely(st) == st.out \in Seq(Nat)
           S == { k \in 0..n : Ok(f[k]) => Bytely(f[k]) }
           O == { k \in 0..n : Ok(f[k]) }
<1>1. f[0] = Emit(<< >>) /\ \A k \in 1..n : f[k] = PutNext(enc, ei, vs, room, k, f[k - 1])
  BY PuttingTurns
<1>2. ASSUME NEW k \in 0..(n - 1)
      PROVE  /\ k + 1 \in 1..n /\ k + 1 \in 0..n /\ k \in 0..n
             /\ f[k + 1] = PutNext(enc, ei, vs, room, k + 1, f[k])
  <2>1. k + 1 \in 1..n /\ k + 1 \in 0..n /\ k \in 0..n /\ (k + 1) - 1 = k
    OBVIOUS
  <2>2. f[k + 1] = PutNext(enc, ei, vs, room, k + 1, f[k])
    BY <1>1, <2>1
  <2> QED BY <2>1, <2>2
<1>3. ASSUME NEW k \in 0..(n - 1), Ok(f[k + 1]) PROVE Ok(f[k])
  <2>1. Ok(PutNext(enc, ei, vs, room, k + 1, f[k]))
    BY <1>2, <1>3
  <2>2. PutOk(enc, [ei |-> ei, v |-> vs[k + 1]], room, f[k], PutNext(enc, ei, vs, room, k + 1, f[k]))
    BY <2>1, PutNextOk
  <2> QED BY <2>2 DEF PutOk
<1>4. ASSUME NEW k \in 0..(n - 1), Ok(f[k + 1]), Bytely(f[k])
      PROVE  /\ PutStep(enc, dec, room, [ei |-> ei, v |-> vs[k + 1]], f[k], f[k + 1])
             /\ Bytely(f[k + 1])
  <2> DEFINE next == PutNext(enc, ei, vs, room, k + 1, f[k])
  <2>1. Ok(next) /\ f[k + 1] = next
    BY <1>2, <1>4
  <2>2. [ei |-> ei, v |-> vs[k + 1]] \in Structures[level]
    BY <1>2 DEF Holds
  <2>3. PutStep(enc, dec, room, [ei |-> ei, v |-> vs[k + 1]], f[k], next)
    BY <1>4, <2>1, <2>2, PutNextStep
  <2>4. Bytely(next)
    BY <2>3 DEF PutStep
  <2> HIDE DEF next, Bytely
  <2> QED BY <2>1, <2>3, <2>4
<1>5. 0 \in S
  <2>1. f[0].out = << >> /\ << >> \in Seq(Nat)
    BY <1>1, Results
  <2>2. f[0].out \in Seq(Nat)
    BY <2>1
  <2> QED BY <2>2
<1> HIDE DEF Bytely
<1>6. \A k \in 0..(n - 1) : k \in S => k + 1 \in S
  BY <1>2, <1>3, <1>4
<1>7. n \in O /\ \A k \in 0..(n - 1) : k + 1 \in O => k \in O
  <2>1. n \in O
    OBVIOUS
  <2>2. ASSUME NEW k \in 0..(n - 1), k + 1 \in O PROVE k \in O
    <3>1. Ok(f[k + 1])
      BY <2>2
    <3>2. Ok(f[k]) /\ k \in 0..n
      BY <1>2, <1>3, <3>1
    <3> QED BY <3>2
  <2> QED BY <2>1, <2>2
<1> HIDE DEF S, O
<1>8. \A k \in 0..n : k \in S /\ k \in O
  BY <1>5, <1>6, <1>7, IntervalInduction, IntervalDescent
<1>9. \A k \in 0..n : Ok(f[k]) /\ Bytely(f[k])
  BY <1>8 DEF S, O
<1>10. \A k \in 0..(n - 1) : PutStep(enc, dec, room, [ei |-> ei, v |-> vs[k + 1]], f[k], f[k + 1])
  BY <1>2, <1>4, <1>9
<1>11. n \in 0..n
  OBVIOUS
<1> QED BY <1>9, <1>10, <1>11 DEF Bytely

\* The bytes of one structure among those that match.
LEMMA MatchStep ==
  ASSUME NEW enc, NEW dec, NEW s, NEW done, NEW next, NEW buf, NEW room \in Int, NEW at \in Int,
         NEW tlvLen \in Int, PutStep(enc, dec, room, s, done, next), buf \in Seq(Nat), at \in Nat,
         tlvLen \in Nat, Match(buf, at, next.out), Len(next.out) <= tlvLen
  PROVE  /\ Match(buf, at, done.out) /\ Len(done.out) <= tlvLen
         /\ at + Len(done.out) \in Nat /\ tlvLen - Len(done.out) \in Nat
         /\ ~ (Len(done.out) >= tlvLen)
         /\ dec[<<s.ei, buf, at + Len(done.out), tlvLen - Len(done.out)>>]
              = Took(Len(next.out) - Len(done.out), s.v)
<1> DEFINE r == enc[<<s, room - Len(done.out)>>]
<1>1. /\ done.out \in Seq(Nat) /\ next.out = done.out \o r.out
      /\ Len(next.out) = Len(done.out) + Len(r.out) /\ Len(next.out) > Len(done.out)
      /\ CarriedBy(r, s, dec)
  BY DEF PutStep
<1> HIDE DEF r
<1>2. r.out \in Seq(Nat)
  BY <1>1 DEF CarriedBy
<1>3. Match(buf, at, done.out) /\ Match(buf, at + Len(done.out), r.out)
  BY <1>1, <1>2, MatchParts
<1> DEFINE a == Len(done.out)  b == Len(r.out)
<1>4. a \in Nat /\ b \in Nat
  BY <1>1, <1>2
<1>5. Len(next.out) = a + b /\ a + b > a
  BY <1>1
<1> HIDE DEF a, b
<1>6. a + b <= tlvLen /\ a + b > a /\ Len(next.out) - a = b
  <2>1. (a + b) - a = b
    BY <1>4
  <2>2. a + b <= tlvLen
    BY <1>5
  <2> QED BY <1>5, <2>1, <2>2
<1>7. a <= tlvLen /\ at + a \in Nat /\ tlvLen - a \in Nat /\ ~ (a >= tlvLen) /\ b <= tlvLen - a
  BY <1>4, <1>6
<1>8. dec[<<s.ei, buf, at + a, tlvLen - a>>] = Took(b, s.v)
  <2>1. Match(buf, at + a, r.out) /\ Len(r.out) <= tlvLen - a /\ Len(r.out) = b
    BY <1>3, <1>7 DEF a, b
  <2> QED BY <1>1, <1>7, <2>1 DEF CarriedBy
<1> QED BY <1>3, <1>6, <1>7, <1>8 DEF a, b

\* Structures one after the other arrive.
LEMMA StructsArrive ==
  ASSUME NEW enc, NEW dec, NEW ei, NEW vs, NEW level \in Int, NEW n \in Int, NEW room \in Int,
         level \in Nat, Carries(enc, dec, level), n \in Nat, Holds(level, ei, vs, n),
         Ok(EncodeStructs(enc, ei, vs, n, room))
  PROVE  LET b == EncodeStructs(enc, ei, vs, n, room).out
         IN  /\ b \in Seq(Nat) /\ (n > 0 => Len(b) > 0)
             /\ \A buf \in Seq(Nat), at \in Nat, tlvLen \in Nat :
                  /\ Match(buf, at, b) /\ Len(b) <= tlvLen
                  /\ level <= 2 => tlvLen = Len(b)
                  => DecodeStructs(dec, ei, buf, at, n, tlvLen, level) = Took(Len(b), vs)
<1>1. PICK f : IsPutting(enc, ei, vs, room, f, n) /\ EncodeStructs(enc, ei, vs, n, room) = f[n]
  BY PuttingRun
<1> DEFINE b == f[n].out
           s(k) == [ei |-> ei, v |-> vs[k + 1]]
<1>2. IsPutting(enc, ei, vs, room, f, n) /\ Ok(f[n])
  BY <1>1
<1>3. b \in Seq(Nat) /\ \A k \in 0..(n - 1) : PutStep(enc, dec, room, s(k), f[k], f[k + 1])
  BY <1>2, PutRunSteps
<1>4. f[0].out = << >>
  BY <1>2, Results, PuttingTurns
<1>5. n > 0 => Len(b) > 0
  <2> SUFFICES ASSUME n > 0 PROVE Len(b) > 0
    OBVIOUS
  <2>1. n - 1 \in 0..(n - 1) /\ (n - 1) + 1 = n
    OBVIOUS
  <2>2. PutStep(enc, dec, room, s(n - 1), f[n - 1], f[n])
    BY <1>3, <2>1
  <2> HIDE DEF s
  <2>3. PICK p : p = f[n - 1]
    OBVIOUS
  <2>4. Len(b) > Len(p.out) /\ p.out \in Seq(Nat)
    BY <2>2, <2>3 DEF PutStep
  <2>5. Len(p.out) \in Nat /\ Len(b) \in Nat
    BY <1>3, <2>4
  <2> QED BY <2>4, <2>5
<1>6. ASSUME NEW buf \in Seq(Nat), NEW at \in Nat, NEW tlvLen \in Nat,
             Match(buf, at, b), Len(b) <= tlvLen, level <= 2 => tlvLen = Len(b)
      PROVE  DecodeStructs(dec, ei, buf, at, n, tlvLen, level) = Took(Len(b), vs)
  <2> DEFINE In(st) == Match(buf, at, st.out) /\ Len(st.out) <= tlvLen
             M == { k \in 0..n : In(f[k]) }
             part(k) == [j \in 1..k |-> vs[j]]
  <2>1. n \in M
    BY <1>6
  <2>2. ASSUME NEW k \in 0..(n - 1), In(f[k + 1])
        PROVE  /\ In(f[k])
               /\ at + Len(f[k].out) \in Nat /\ tlvLen - Len(f[k].out) \in Nat
               /\ ~ (Len(f[k].out) >= tlvLen)
               /\ dec[<<ei, buf, at + Len(f[k].out), tlvLen - Len(f[k].out)>>]
                    = Took(Len(f[k + 1].out) - Len(f[k].out), vs[k + 1])
    <3>1. PutStep(enc, dec, room, s(k), f[k], f[k + 1])
      BY <1>3
    <3>2. s(k).ei = ei /\ s(k).v = vs[k + 1]
      OBVIOUS
    <3> HIDE DEF s
    <3>3. PICK p, q, x : p = f[k] /\ q = f[k + 1] /\ x = s(k)
      OBVIOUS
    <3>4. PutStep(enc, dec, room, x, p, q) /\ Match(buf, at, q.out) /\ Len(q.out) <= tlvLen
      BY <2>2, <3>1, <3>3
    <3>5. /\ Match(buf, at, p.out) /\ Len(p.out) <= tlvLen
          /\ at + Len(p.out) \in Nat /\ tlvLen - Len(p.out) \in Nat /\ ~ (Len(p.out) >= tlvLen)
          /\ dec[<<x.ei, buf, at + Len(p.out), tlvLen - Len(p.out)>>]
               = Took(Len(q.out) - Len(p.out), x.v)
      <4>1. buf \in Seq(Nat) /\ at \in Nat /\ tlvLen \in Nat /\ at \in Int /\ tlvLen \in Int
        OBVIOUS
      <4> HIDE DEF In, M, part, b
      <4> QED BY <3>4, <4>1, MatchStep
    <3> QED BY <3>2, <3>3, <3>5
  <2>3. \A k \in 0..(n - 1) : k + 1 \in M => k \in M
    <3> HIDE DEF In
    <3>1. \A k \in 0..(n - 1) : k \in 0..n
      OBVIOUS
    <3> QED BY <2>2, <3>1
  <2> HIDE DEF M
  <2>4. \A k \in 0..n : k \in M
    BY <2>1, <2>3, IntervalDescent
  <2>5. PICK g : /\ IsGetting(dec, ei, buf, at, tlvLen, g, n)
                 /\ DecodeStructs(dec, ei, buf, at, n, tlvLen, level) = AllGot(g[n], n, tlvLen, level)
    BY GettingRun
  <2>6. g[0] = Took(0, << >>) /\ \A k \in 1..n : g[k] = GetNext(dec, ei, buf, at, tlvLen, g[k - 1])
    BY <2>5, GettingTurns
  <2> DEFINE S == { k \in 0..n : g[k] = Took(Len(f[k].out), part(k)) }
  <2>7. 0 \in S
    <3>1. part(0) = << >> /\ Len(<< >>) = 0
      OBVIOUS
    <3> HIDE DEF part
    <3> QED BY <1>4, <2>6, <3>1
  <2>8. ASSUME NEW k \in 0..(n - 1), k \in S PROVE k + 1 \in S
    <3> DEFINE a == Len(f[k].out)
               c == Len(f[k + 1].out)
    <3>1. k + 1 \in 1..n /\ k \in 0..n /\ k + 1 \in 0..n /\ (k + 1) - 1 = k /\ k \in Nat
      OBVIOUS
    <3>2. In(f[k]) /\ In(f[k + 1])
      BY <2>4, <3>1 DEF M
    <3>3. ~ (a >= tlvLen) /\ dec[<<ei, buf, at + a, tlvLen - a>>] = Took(c - a, vs[k + 1])
      <4> HIDE DEF In
      <4> QED BY <2>2, <3>2
    <3>4. a \in Nat /\ c \in Nat
      <4>1. Match(buf, at, f[k].out) /\ Match(buf, at, f[k + 1].out)
        BY <3>2
      <4>2. f[k].out \in Seq(Nat) /\ f[k + 1].out \in Seq(Nat)
        BY <4>1 DEF Match
      <4> QED BY <4>2
    <3>5. g[k] = Took(a, part(k)) /\ g[k + 1] = GetNext(dec, ei, buf, at, tlvLen, g[k])
      BY <2>6, <2>8, <3>1
    <3> HIDE DEF a, c, In, part
    <3>6. Ok(g[k]) /\ g[k].at = a /\ g[k].v = part(k)
      BY <3>5, Results
    <3>7. GetNext(dec, ei, buf, at, tlvLen, g[k]) = Took(a + (c - a), Append(part(k), vs[k + 1]))
      BY <3>3, <3>6, GetNextOk
    <3>8. Append(part(k), vs[k + 1]) = part(k + 1) /\ a + (c - a) = c
      BY <3>1, <3>4, AppendNext DEF part
    <3>9. g[k + 1] = Took(c, part(k + 1))
      BY <3>5, <3>7, <3>8
    <3> QED BY <3>1, <3>9 DEF c
  <2> HIDE DEF S
  <2>9. n \in S
    <3>1. \A k \in 0..n : k \in S
      BY <2>7, <2>8, IntervalInduction
    <3> QED BY <3>1
  <2>10. part(n) = vs /\ Len(vs) = n
    BY DEF Holds
  <2> HIDE DEF part
  <2>11. g[n] = Took(Len(b), vs)
    BY <2>9, <2>10 DEF S
  <2>12. Ok(g[n]) /\ g[n].at = Len(b) /\ g[n].v = vs
    BY <2>11, Results
  <2>13. Len(b) \in Nat
    BY <1>3
  <2> DEFINE z == g[n]
  <2> HIDE DEF z, b
  <2>14. ~ (level <= 2 /\ z.at # tlvLen) /\ ~ (Len(z.v) < n) /\ ~ (z.at > tlvLen) /\ Ok(z)
    BY <1>6, <2>10, <2>12, <2>13 DEF z
  <2> QED BY <2>5, <2>11, <2>14, AllGotOk DEF z
<1> QED BY <1>1, <1>3, <1>5, <1>6

\* The bytes b carry the value x of the element e.
Arrives(dec, level, e, n, x, b) ==
  /\ b \in Seq(Nat) /\ (n > 0 /\ (level > 1 \/ e.type # "string") => Len(b) > 0)
  /\ \A buf \in Seq(Nat), at \in Nat, tlvLen \in Nat :
       Match(buf, at, b) /\ Len(b) <= tlvLen /\ (level = 1 => tlvLen = Len(b)) =>
         DecodeValue(dec, level, e, n, buf, at, tlvLen) = Took(Len(b), x)

\* Bytes are numbers.
LEMMA ByteSeqs ==
  ASSUME NEW x, x \in Seq(Byte)
  PROVE  x \in Seq(Nat) /\ Len(x) \in Nat
<1>1. Byte \subseteq Nat
  BY CodecConstants DEF Byte
<1>2. x \in Seq(Nat)
  BY <1>1, SeqMonotonic
<1> QED BY <1>2

\* Integers that are encoded arrive.
LEMMA BasicValue ==
  ASSUME NEW enc, NEW dec, NEW e, NEW x, NEW level \in Int, NEW n \in Int, NEW left \in Int,
         n \in Nat, e.type = "basic", ValueElem(level, e), ValidAs(level, e, n, x),
         Ok(EncodeValue(enc, level, e, x, n, left))
  PROVE  Arrives(dec, level, e, n, x, EncodeValue(enc, level, e, x, n, left).out)
<1>1. x \in Seq(Byte) /\ Len(x) = n * e.elem_size /\ e.elem_size \in Nat \ {0}
  BY DEF ValidAs, ValueElem
<1>2. x \in Seq(Nat)
  BY <1>1, ByteSeqs
<1>3. EncodeValue(enc, level, e, x, n, left) = Emit(x)
  <2>1. EncodeValue(enc, level, e, x, n, left)
          = IF n * e.elem_size + TlvHead <= left THEN Emit(x) ELSE Einval
    BY DEF EncodeValue
  <2> QED BY <2>1, Results
<1>4. EncodeValue(enc, level, e, x, n, left).out = x
  BY <1>3, Results
<1>5. n > 0 => Len(x) > 0
  <2>1. PICK m \in Nat : m = e.elem_size /\ m > 0
    BY <1>1
  <2>2. ASSUME n > 0 PROVE n * m > 0
    BY <2>1, <2>2
  <2> QED BY <1>1, <2>1, <2>2
<1>6. ASSUME NEW buf, NEW at \in Int, NEW tlvLen \in Int, buf \in Seq(Nat), Match(buf, at, x)
      PROVE  DecodeValue(dec, level, e, n, buf, at, tlvLen) = Took(Len(x), x)
  <2>1. DecodeValue(dec, level, e, n, buf, at, tlvLen) = DecodeBasic(buf, at, Len(x))
    BY <1>1 DEF DecodeValue
  <2> QED BY <1>6, <2>1, BasicArrives
<1> QED BY <1>2, <1>4, <1>5, <1>6 DEF Arrives

\* Strings that are encoded arrive.
LEMMA StringValue ==
  ASSUME NEW enc, NEW dec, NEW e, NEW x, NEW level \in Int, NEW n \in Int, NEW left \in Int,
         n \in Nat, level \in Nat \ {0}, e.type = "string", ValueElem(level, e),
         ValidAs(level, e, n, x), Ok(EncodeValue(enc, level, e, x, n, left))
  PROVE  Arrives(dec, level, e, n, x, EncodeValue(enc, level, e, x, n, left).out)
<1>1. /\ x \in Seq(Byte) /\ Len(x) <= e.elem_len /\ e.elem_len \in Nat \ {0}
      /\ level > 1 => e.elem_len # Base /\ e.elem_len < Base * Base
  BY DEF ValidAs, ValueElem
<1>2. x \in Seq(Nat) /\ Len(x) \in Nat
  BY <1>1, ByteSeqs
<1>3. EncodeValue(enc, level, e, x, n, left) = EncodeString(e, x, left, level)
  BY DEF EncodeValue
<1>4. \A buf, at, tlvLen :
        DecodeValue(dec, level, e, n, buf, at, tlvLen) = DecodeString(e, buf, at, tlvLen, level)
  BY DEF DecodeValue
<1>5. CASE level = 1
  <2>1. EncodeString(e, x, left, level) = Emit(x)
    <3>1. EncodeString(e, x, left, level) =
            IF Len(x) > e.elem_len THEN Einval
            ELSE IF Len(x) + TlvHead > left THEN Einval ELSE Emit(x)
      BY <1>5 DEF EncodeString
    <3> QED BY <1>3, <3>1, Results
  <2>2. EncodeValue(enc, level, e, x, n, left).out = x
    BY <1>3, <2>1, Results
  <2>3. ASSUME NEW buf, NEW at \in Int, NEW tlvLen \in Int, buf \in Seq(Nat), Match(buf, at, x),
               tlvLen = Len(x)
        PROVE  DecodeValue(dec, level, e, n, buf, at, tlvLen) = Took(Len(x), x)
    <3>1. DecodeString(e, buf, at, Len(x), 1) = Took(Len(x), x)
      BY <1>1, <2>3, StringArrives
    <3> QED BY <1>4, <1>5, <2>3, <3>1
  <2> QED BY <1>2, <1>5, <2>2, <2>3 DEF Arrives
<1>6. CASE level > 1
  <2> DEFINE p == Bytes(Len(x), PrefixSize(e))
  <2>1. PrefixSize(e) \in {1, 2}
    BY Sizes
  <2>2. p \in Seq(Nat) /\ Len(p) = PrefixSize(e)
    BY <1>2, <2>1, BytesMatch
  <2> HIDE DEF p
  <2>3. EncodeString(e, x, left, level) = Emit(p \o x)
    <3>1. EncodeString(e, x, left, level) =
            IF Len(x) > e.elem_len THEN Einval
            ELSE IF Len(x) + PrefixSize(e) > left THEN Einval ELSE Emit(p \o x)
      BY <1>6 DEF EncodeString, p
    <3> QED BY <1>3, <3>1, Results
  <2>4. EncodeValue(enc, level, e, x, n, left).out = p \o x
    BY <1>3, <2>3, Results
  <2>5. p \o x \in Seq(Nat) /\ Len(p \o x) = PrefixSize(e) + Len(x) /\ Len(p \o x) > 0
        /\ Len(x) <= Len(p \o x)
    BY <1>2, <2>1, <2>2
  <2>6. ASSUME NEW buf, NEW at \in Int, NEW tlvLen \in Int, buf \in Seq(Nat), Match(buf, at, p \o x),
               Len(p \o x) <= tlvLen
        PROVE  DecodeValue(dec, level, e, n, buf, at, tlvLen) = Took(Len(p \o x), x)
    <3>1. Len(x) <= tlvLen
      BY <1>2, <2>5, <2>6, <2>1
    <3>2. Match(buf, at, Bytes(Len(x), PrefixSize(e)) \o x)
      BY <2>6 DEF p
    <3>3. DecodeString(e, buf, at, tlvLen, level) = Took(PrefixSize(e) + Len(x), x)
      BY <1>1, <1>2, <1>6, <2>6, <3>1, <3>2, PrefixedStringArrives
    <3> QED BY <1>4, <2>5, <3>3
  <2> QED BY <2>4, <2>5, <2>6, <1>6 DEF Arrives
<1> QED BY <1>5, <1>6

\* Structures that are encoded arrive.
LEMMA StructValue ==
  ASSUME NEW enc, NEW dec, NEW e, NEW x, NEW level \in Int, NEW n \in Int, NEW left \in Int,
         n \in Nat, level \in Nat \ {0}, Carries(enc, dec, level + 1), e.type = "struct",
         ValueElem(level, e), ValidAs(level, e, n, x), Ok(EncodeValue(enc, level, e, x, n, left))
  PROVE  Arrives(dec, level, e, n, x, EncodeValue(enc, level, e, x, n, left).out)
<1>1. Holds(level + 1, e.ei, x, n)
  BY DEF ValidAs, Holds
<1>2. EncodeValue(enc, level, e, x, n, left) = EncodeStructs(enc, e.ei, x, n, left)
  BY DEF EncodeValue
<1>3. \A buf, at, tlvLen :
        DecodeValue(dec, level, e, n, buf, at, tlvLen)
          = DecodeStructs(dec, e.ei, buf, at, n, tlvLen, level + 1)
  BY DEF DecodeValue
<1> DEFINE b == EncodeStructs(enc, e.ei, x, n, left).out
<1>4. /\ b \in Seq(Nat) /\ (n > 0 => Len(b) > 0)
      /\ \A buf \in Seq(Nat), at \in Nat, tlvLen \in Nat :
           /\ Match(buf, at, b) /\ Len(b) <= tlvLen
           /\ level + 1 <= 2 => tlvLen = Len(b)
           => DecodeStructs(dec, e.ei, buf, at, n, tlvLen, level + 1) = Took(Len(b), x)
  <2>1. PICK l \in Int : l = level + 1
    OBVIOUS
  <2>2. /\ l \in Nat /\ Carries(enc, dec, l) /\ Holds(l, e.ei, x, n)
        /\ Ok(EncodeStructs(enc, e.ei, x, n, left))
    BY <1>1, <1>2, <2>1
  <2> HIDE DEF b
  <2>3. /\ b \in Seq(Nat) /\ (n > 0 => Len(b) > 0)
        /\ \A buf \in Seq(Nat), at \in Nat, tlvLen \in Nat :
             /\ Match(buf, at, b) /\ Len(b) <= tlvLen
             /\ l <= 2 => tlvLen = Len(b)
             => DecodeStructs(dec, e.ei, buf, at, n, tlvLen, l) = Took(Len(b), x)
    BY <2>2, StructsArrive DEF b
  <2> QED BY <2>1, <2>3
<1>5. level + 1 <= 2 <=> level = 1
  OBVIOUS
<1> HIDE DEF b
<1>6. Arrives(dec, level, e, n, x, b)
  BY <1>3, <1>4, <1>5 DEF Arrives
<1> QED BY <1>2, <1>6 DEF b

\* Values that are encoded arrive.
LEMMA ValueArrives ==
  ASSUME NEW enc, NEW dec, NEW e, NEW x, NEW level \in Int, NEW n \in Int, NEW left \in Int,
         n \in Nat, level \in Nat \ {0}, Carries(enc, dec, level + 1), ValueElem(level, e),
         ValidAs(level, e, n, x), Ok(EncodeValue(enc, level, e, x, n, left))
  PROVE  Arrives(dec, level, e, n, x, EncodeValue(enc, level, e, x, n, left).out)
<1>1. e.type \in {"basic", "string", "struct"}
  BY DEF ValueElem
<1>2. CASE e.type = "basic"
  BY <1>2, BasicValue
<1>3. CASE e.type = "string"
  BY <1>3, StringValue
<1>4. CASE e.type = "struct"
  BY <1>4, StructValue
<1> QED BY <1>1, <1>2, <1>3, <1>4

\* Empty arrays arrive without a byte.
LEMMA EmptyArrives ==
  ASSUME NEW enc, NEW dec, NEW e, NEW x, NEW level \in Int, level \in Nat \ {0},
         Carries(enc, dec, level + 1), ValueElem(level, e), e.type # "string",
         ValidAs(level, e, 0, x)
  PROVE  Arrives(dec, level, e, 0, x, << >>)
<1>1. EncodeValue(enc, level, e, x, 0, TlvHead) = Emit(<< >>)
  <2>1. CASE e.type = "basic"
    <3>1. x = << >>
      <4>1. x \in Seq(Byte) /\ Len(x) = 0 * e.elem_size /\ e.elem_size \in Nat
        BY <2>1 DEF ValidAs, ValueElem
      <4>2. Len(x) = 0
        BY <4>1
      <4> QED BY <4>1, <4>2
    <3>2. 0 * e.elem_size + TlvHead <= TlvHead
      BY <2>1 DEF ValueElem, TlvHead
    <3> QED BY <2>1, <3>1, <3>2 DEF EncodeValue
  <2>2. CASE e.type = "struct"
    <3>1. PICK f : /\ IsPutting(enc, e.ei, x, TlvHead, f, 0)
                   /\ EncodeStructs(enc, e.ei, x, 0, TlvHead) = f[0]
      BY PuttingRun DEF TlvHead
    <3>2. f[0] = Emit(<< >>)
      BY <3>1, PuttingTurns DEF TlvHead
    <3> QED BY <2>2, <3>1, <3>2 DEF EncodeValue
  <2> QED BY <2>1, <2>2 DEF ValueElem
<1>2. TlvHead \in Int /\ 0 \in Int /\ 0 \in Nat
  BY DEF TlvHead
<1>3. /\ Ok(EncodeValue(enc, level, e, x, 0, TlvHead))
      /\ EncodeValue(enc, level, e, x, 0, TlvHead).out = << >>
  BY <1>1, Results
<1>4. Arrives(dec, level, e, 0, x, EncodeValue(enc, level, e, x, 0, TlvHead).out)
  BY <1>2, <1>3, ValueArrives
<1> QED BY <1>3, <1>4

-----------------------------------------------------------------------------
(* Descriptors and structures as the interface has them.                   *)

\* Descriptors of messages and of structures.
Legal(level, ei) ==
  /\ IsSequence(ei) /\ level \in 1..Levels
  /\ \A i \in DOMAIN ei :
       /\ LegalElem(level, ei, i)
       /\ level = 1 => LegalTlv(ei, i)
       /\ level > 1 => /\ ei[i].type # "opt"
                       /\ ei[i].type = "string" => ei[i].elem_len # Base /\ ei[i].elem_len < Base * Base

\* Descriptors of messages and of structures are legal ones.
LEMMA LegalDescriptors ==
  /\ \A ei : LegalMessage(ei) => Legal(1, ei)
  /\ \A level \in NestedLevels : \A ei \in Descriptors[level] : Legal(level, ei) /\ Len(ei) > 0
<1>1. ASSUME NEW ei, LegalMessage(ei) PROVE Legal(1, ei)
  BY <1>1, CodecConstants DEF LegalMessage, Legal
<1>2. ASSUME NEW level \in NestedLevels, NEW ei \in Descriptors[level]
      PROVE  Legal(level, ei) /\ Len(ei) > 0
  <2>1. level \in Nat /\ level > 1 /\ level <= Levels /\ LegalNested(level, ei)
    BY LegalNestedDescriptor
  <2>2. level \in 1..Levels
    BY <2>1, CodecConstants
  <2>3. level # 1
    BY <2>1
  <2> QED BY <2>1, <2>2, <2>3 DEF LegalNested, Legal
<1> QED BY <1>1, <1>2

\* The elements that hold values.
IsValue(e) == e.type \in {"basic", "string", "struct"}

ElemFacts(level, ei, i) ==
  /\ i \in 1..Len(ei) /\ Len(ei) \in Nat
  /\ IsValue(ei[i]) \/ ei[i].type = "opt" \/ ei[i].type = "len"
  /\ ei[i].array_type \in {"none", "static", "var"} /\ ei[i].elem_len \in Nat \ {0}
  /\ ei[i].tlv_type \in Nat
  /\ ~ IsValue(ei[i]) => ei[i].array_type = "none"
  /\ ei[i].type = "opt" => level = 1
  /\ ei[i].array_type = "var" => /\ i - 1 \in DOMAIN ei /\ ei[i - 1].type = "len" /\ IsValue(ei[i])
                                 /\ ei[i].type # "string"
  /\ ei[i].type = "len" => /\ i + 1 \in DOMAIN ei /\ ei[i + 1].array_type = "var"
                           /\ ei[i + 1].elem_len < Limit(LenSize(ei[i]))
                           /\ \A j \in 1..(i - 1) : ei[j].array_type # "none" =>
                                 ei[j].elem_len < Limit(LenSize(ei[i]))
  /\ IsValue(ei[i]) => ValueElem(level, ei[i])

\* What is known of an element of a legal descriptor.
LEMMA LegalElems ==
  ASSUME NEW ei, NEW level \in Int, NEW i \in Int, Legal(level, ei), i \in DOMAIN ei
  PROVE  ElemFacts(level, ei, i)
<1>1. /\ i \in 1..Len(ei) /\ Len(ei) \in Nat /\ LegalElem(level, ei, i) /\ level \in 1..Levels
      /\ level > 1 => /\ ei[i].type # "opt"
                      /\ ei[i].type = "string" => ei[i].elem_len # Base /\ ei[i].elem_len < Base * Base
      /\ DOMAIN ei = 1..Len(ei)
  BY DEF Legal, IsSequence
<1> DEFINE e == ei[i]
<1>2. /\ e.type \in {"opt", "len", "basic", "struct", "string"}
      /\ e.array_type \in {"none", "static", "var"}
      /\ e.elem_len \in Nat \ {0} /\ e.elem_size \in Nat \ {0} /\ e.tlv_type \in Nat
      /\ e.type \notin {"basic", "struct"} => e.array_type = "none"
      /\ e.type = "len" => /\ i < Len(ei) /\ ei[i + 1].array_type = "var"
                           /\ ei[i + 1].elem_len < Limit(LenSize(e))
                           /\ \A j \in 1..(i - 1) : ei[j].array_type # "none" =>
                                ei[j].elem_len < Limit(LenSize(e))
      /\ e.array_type = "var" => i > 1 /\ ei[i - 1].type = "len"
      /\ e.type = "struct" => level <= Levels
  BY <1>1 DEF LegalElem
<1>3. level + 1 \in NestedLevels
  BY <1>1, CodecConstants DEF NestedLevels
<1>4. i > 1 => i - 1 \in 1..Len(ei)
  BY <1>1
<1>5. i < Len(ei) => i + 1 \in 1..Len(ei)
  BY <1>1
<1>6. e.type = "opt" => level = 1
  BY <1>1
<1>7. IsValue(e) => ValueElem(level, e)
  BY <1>1, <1>2, <1>3 DEF IsValue, ValueElem
<1> HIDE DEF e
<1>8. IsValue(e) \/ e.type = "opt" \/ e.type = "len"
  BY <1>2 DEF IsValue
<1>9. ~ IsValue(e) => e.array_type = "none"
  BY <1>2 DEF IsValue
<1>10. e.array_type = "var" =>
         i - 1 \in DOMAIN ei /\ ei[i - 1].type = "len" /\ IsValue(e) /\ e.type # "string"
  <2>1. e.array_type = "var" => IsValue(e) /\ e.type # "string"
    BY <1>2 DEF IsValue
  <2> QED BY <1>1, <1>2, <1>4, <2>1
<1>11. e.type = "len" => /\ i + 1 \in DOMAIN ei /\ ei[i + 1].array_type = "var"
                         /\ ei[i + 1].elem_len < Limit(LenSize(e))
                         /\ \A j \in 1..(i - 1) : ei[j].array_type # "none" =>
                              ei[j].elem_len < Limit(LenSize(e))
  BY <1>1, <1>2, <1>5
<1> QED BY <1>1, <1>2, <1>6, <1>7, <1>8, <1>9, <1>10, <1>11 DEF ElemFacts, e

\* A TLV starts in front of element i.
NewTlv(ei, i) == \A j \in 1..(i - 1) : ~ SameTlv(ei, i, j)

\* What follows a value, or is skipped to, starts a TLV.
LEMMA AfterValue ==
  ASSUME NEW ei, NEW c \in Int, Legal(1, ei), c \in DOMAIN ei, IsValue(ei[c]), c + 1 \in DOMAIN ei
  PROVE  NewTlv(ei, c + 1)
<1>1. LegalTlv(ei, c + 1) /\ c \in 1..Len(ei)
  BY DEF Legal, IsSequence
<1>2. ASSUME NEW j \in 1..((c + 1) - 1), SameTlv(ei, c + 1, j) PROVE FALSE
  <2>1. \A k \in j..((c + 1) - 1) : ei[k].type \in {"opt", "len"}
    BY <1>1, <1>2 DEF LegalTlv
  <2>2. c \in j..((c + 1) - 1)
    BY <1>2
  <2> QED BY <2>1, <2>2 DEF IsValue
<1> QED BY <1>2 DEF NewTlv

\* skip_to_next_elem stops at the first element of the next TLV.
LEMMA AfterSkip ==
  ASSUME NEW ei, NEW i \in Int, Legal(1, ei), i \in DOMAIN ei
  PROVE  LET j == SkipToNextElem(ei, i, 1)
         IN  j \in (i + 1)..(Len(ei) + 1) /\ (j \in DOMAIN ei => NewTlv(ei, j))
             /\ \A k \in i..(j - 1) : ei[k].tlv_type = ei[i].tlv_type
<1>1. IsSequence(ei)
  BY DEF Legal
<1> DEFINE s == SkipToNextElem(ei, i, 1)
<1> HIDE DEF s
<1>2. /\ s \in (i + 1)..(Len(ei) + 1)
      /\ s = Len(ei) + 1 \/ ei[s].tlv_type # ei[i].tlv_type
      /\ \A k \in i..(s - 1) : ei[k].tlv_type = ei[i].tlv_type
  BY <1>1, SkipFacts DEF s
<1>3. ASSUME s \in DOMAIN ei, NEW m \in 1..(s - 1), SameTlv(ei, s, m) PROVE FALSE
  <2>0. Len(ei) \in Nat /\ DOMAIN ei = 1..Len(ei) /\ s \in Int
    BY <1>1, <1>2 DEF IsSequence
  <2>1. LegalTlv(ei, s)
    BY <1>3 DEF Legal
  <2>2. \A k \in m..(s - 1) : SameTlv(ei, s, k)
    BY <1>3, <2>1 DEF LegalTlv
  <2>3. s - 1 \in m..(s - 1) /\ s - 1 \in i..(s - 1) /\ s # Len(ei) + 1
    BY <1>2, <1>3, <2>0
  <2> QED BY <1>2, <2>2, <2>3 DEF SameTlv
<1> QED BY <1>2, <1>3 DEF NewTlv, s

\* Where a TLV starts no flag decides.
LEMMA NewPresent ==
  ASSUME NEW ei, NEW v, NEW i \in Int, NewTlv(ei, i)
  PROVE  Present(ei, v, i)
BY DEF NewTlv, Present

\* Behind a length or the flag of what is there, what follows is there.
LEMMA NextPresent ==
  ASSUME NEW ei, NEW v, NEW i \in Int, Legal(1, ei), i \in DOMAIN ei, Present(ei, v, i),
         ei[i].type = "len" \/ (ei[i].type = "opt" /\ v[i] = 1)
  PROVE  Present(ei, v, i + 1)
<1>1. LegalTlv(ei, i) /\ i \in 1..Len(ei)
  BY DEF Legal, IsSequence
<1>2. SameTlv(ei, i, i + 1)
  BY <1>1 DEF LegalTlv
<1>3. ASSUME NEW j \in 1..((i + 1) - 1), ei[j].type = "opt", SameTlv(ei, i + 1, j) PROVE v[j] = 1
  <2>1. CASE j = i
    BY <1>3, <2>1
  <2>2. CASE j # i
    <3>1. j \in 1..(i - 1) /\ SameTlv(ei, i, j)
      BY <1>2, <1>3, <2>2 DEF SameTlv
    <3> QED BY <1>3, <3>1 DEF Present
  <2> QED BY <2>1, <2>2
<1> QED BY <1>3 DEF Present

\* The TLV of a length ends with its array.
LEMMA SkipLength ==
  ASSUME NEW ei, NEW level \in Int, NEW i \in Int, Legal(level, ei), i \in DOMAIN ei,
         ei[i].type = "len"
  PROVE  SkipToNextElem(ei, i + 1, level) = i + 2
<1>1. ElemFacts(level, ei, i) /\ level \in 1..Levels /\ DOMAIN ei = 1..Len(ei)
  BY LegalElems DEF Legal, IsSequence
<1>2. i + 1 \in DOMAIN ei /\ ei[i + 1].array_type = "var" /\ Len(ei) \in Nat /\ i \in 1..Len(ei)
  BY <1>1 DEF ElemFacts
<1>3. CASE level > 1
  BY <1>3 DEF SkipToNextElem
<1>4. CASE level = 1
  <2> DEFINE s == SkipToNextElem(ei, i + 1, 1)
  <2> HIDE DEF s
  <2>1. i + 1 \in Int /\ Legal(1, ei)
    BY <1>4
  <2>2. /\ s \in ((i + 1) + 1)..(Len(ei) + 1)
        /\ \A k \in (i + 1)..(s - 1) : ei[k].tlv_type = ei[i + 1].tlv_type
    BY <1>2, <2>1, AfterSkip DEF s
  <2>3. ElemFacts(1, ei, i + 1)
    BY <1>2, <2>1, LegalElems
  <2>4. IsValue(ei[i + 1])
    BY <1>2, <2>3 DEF ElemFacts
  <2>5. CASE (i + 1) + 1 \in DOMAIN ei
    <3>1. NewTlv(ei, (i + 1) + 1)
      BY <1>2, <2>1, <2>4, <2>5, AfterValue
    <3>2. i + 1 \in 1..(((i + 1) + 1) - 1)
      BY <1>2
    <3>3. ~ SameTlv(ei, (i + 1) + 1, i + 1)
      BY <3>1, <3>2 DEF NewTlv
    <3>4. ~ ((i + 1) + 1 \in (i + 1)..(s - 1))
      BY <2>2, <3>3 DEF SameTlv
    <3>5. s = (i + 1) + 1
      BY <2>2, <3>4
    <3> QED BY <1>4, <3>5 DEF s
  <2>6. CASE ~ ((i + 1) + 1 \in DOMAIN ei)
    <3>1. (i + 1) + 1 > Len(ei)
      BY <1>1, <1>2, <2>6
    <3>2. s = (i + 1) + 1
      BY <1>2, <2>2, <3>1
    <3> QED BY <1>4, <3>2 DEF s
  <2> QED BY <2>5, <2>6
<1> QED BY <1>1, <1>3, <1>4

\* Bytes behind bytes.
Cat(s, t) == s \o t

\* Sequences of bytes one behind the other.
LEMMA Cats ==
  ASSUME NEW s, NEW t, s \in Seq(Nat), t \in Seq(Nat)
  PROVE  Cat(s, t) \in Seq(Nat) /\ Len(Cat(s, t)) = Len(s) + Len(t)
BY DEF Cat

\* Nothing behind or before them.
LEMMA CatEmpty ==
  ASSUME NEW s, s \in Seq(Nat)
  PROVE  Cat(s, << >>) = s /\ Cat(<< >>, s) = s
BY DEF Cat

\* Three of them.
LEMMA CatGroup ==
  ASSUME NEW s, NEW t, NEW u, s \in Seq(Nat), t \in Seq(Nat), u \in Seq(Nat)
  PROVE  Cat(Cat(s, t), u) = Cat(s, Cat(t, u))
BY ConcatAssociative DEF Cat

\* A buffer that holds both holds each.
LEMMA MatchCat ==
  ASSUME NEW buf, NEW s, NEW t, NEW from \in Int, s \in Seq(Nat), t \in Seq(Nat),
         Match(buf, from, Cat(s, t))
  PROVE  Match(buf, from, s) /\ Match(buf, from + Len(s), t)
<1>1. Match(buf, from, s \o t)
  BY DEF Cat
<1> QED BY <1>1, MatchParts

\* An element counts unless a flag in front of it says otherwise.
InForce(level, ei, v, i) == level > 1 \/ Present(ei, v, i)

\* The array length in force.
LenOf(ei, v, i) == DataLen(ei[i], v[i - 1])

ValueFacts(level, ei, v, i) ==
  /\ ei[i].type = "opt" => v[i] \in {0, 1}
  /\ ei[i].type = "len" => /\ v[i] \in Nat /\ v[i] <= ei[i + 1].elem_len
                           /\ v[i] < Limit(LenSize(ei[i]))
  /\ IsValue(ei[i]) => /\ LenOf(ei, v, i) \in Nat /\ ~ TooLong(ei[i], LenOf(ei, v, i))
                       /\ ValidAs(level, ei[i], LenOf(ei, v, i), v[i])

\* With an array its length is in force.
LEMMA ForceOfLength ==
  ASSUME NEW ei, NEW v, NEW level \in Int, NEW i \in Int, Legal(level, ei), i \in DOMAIN ei,
         ei[i].array_type = "var", InForce(level, ei, v, i)
  PROVE  InForce(level, ei, v, i - 1)
<1>1. ElemFacts(level, ei, i) /\ level \in 1..Levels
  BY LegalElems DEF Legal
<1>2. i - 1 \in DOMAIN ei /\ ei[i - 1].type = "len" /\ i \in 1..Len(ei)
  BY <1>1 DEF ElemFacts
<1>3. CASE level = 1
  <2>1. LegalTlv(ei, i - 1)
    BY <1>2, <1>3 DEF Legal
  <2>2. SameTlv(ei, i - 1, (i - 1) + 1) /\ (i - 1) + 1 = i
    BY <1>2, <2>1 DEF LegalTlv
  <2>3. Present(ei, v, i)
    BY <1>3 DEF InForce
  <2>4. ASSUME NEW j \in 1..((i - 1) - 1), ei[j].type = "opt", SameTlv(ei, i - 1, j) PROVE v[j] = 1
    <3>1. ei[i - 1].tlv_type = ei[i].tlv_type
      BY <2>2 DEF SameTlv
    <3>2. j \in 1..(i - 1) /\ SameTlv(ei, i, j)
      BY <2>4, <3>1 DEF SameTlv
    <3> QED BY <2>3, <2>4, <3>2 DEF Present
  <2>5. Present(ei, v, i - 1)
    BY <2>4 DEF Present
  <2> QED BY <2>5 DEF InForce
<1> QED BY <1>1, <1>3 DEF InForce

\* What is known of the value of an element in force.
LEMMA ValidElems ==
  ASSUME NEW ei, NEW v, NEW level \in Int, NEW i \in Int, Legal(level, ei),
         ValidStructure(level, ei, v), i \in DOMAIN ei, InForce(level, ei, v, i)
  PROVE  ValueFacts(level, ei, v, i)
<1>1. ElemFacts(level, ei, i)
  BY LegalElems
<1>2. ASSUME NEW j \in Int, j \in DOMAIN ei, InForce(level, ei, v, j)
      PROVE  ValidValue(level, ei, v, j)
  BY <1>2 DEF ValidStructure, InForce
<1>3. ASSUME NEW j \in Int, j \in DOMAIN ei, InForce(level, ei, v, j), ei[j].type = "len"
      PROVE  /\ v[j] \in Nat /\ v[j] <= ei[j + 1].elem_len /\ v[j] < Limit(LenSize(ei[j]))
  <2>1. v[j] \in 0..ei[j + 1].elem_len
    BY <1>2, <1>3 DEF ValidValue
  <2>2. ElemFacts(level, ei, j)
    BY <1>3, LegalElems
  <2>3. ei[j + 1].elem_len < Limit(LenSize(ei[j])) /\ ElemFacts(level, ei, j + 1)
    BY <1>3, <2>2, LegalElems DEF ElemFacts
  <2>4. ei[j + 1].elem_len \in Nat /\ Limit(LenSize(ei[j])) \in Nat
    BY <2>3, Limits, Sizes DEF ElemFacts
  <2> QED BY <2>1, <2>3, <2>4
<1>4. ei[i].type = "opt" => v[i] \in {0, 1}
  BY <1>2 DEF ValidValue
<1>5. ASSUME IsValue(ei[i])
      PROVE  /\ LenOf(ei, v, i) \in Nat /\ ~ TooLong(ei[i], LenOf(ei, v, i))
             /\ ValidAs(level, ei[i], LenOf(ei, v, i), v[i])
  <2>1. ValidAs(level, ei[i], LenOf(ei, v, i), v[i])
    <3>1. ValidValue(level, ei, v, i)
      BY <1>2
    <3>2. CASE ei[i].type = "basic"
      BY <3>1, <3>2 DEF ValidValue, ValidAs, LenOf, Byte
    <3>3. CASE ei[i].type = "string"
      BY <3>1, <3>3 DEF ValidValue, ValidAs, LenOf, Byte
    <3>4. CASE ei[i].type = "struct"
      BY <3>1, <3>4 DEF ValidValue, ValidAs, LenOf
    <3> QED BY <1>5, <3>2, <3>3, <3>4 DEF IsValue
  <2>2. CASE ei[i].array_type = "var"
    <3>1. i - 1 \in DOMAIN ei /\ ei[i - 1].type = "len" /\ InForce(level, ei, v, i - 1)
      BY <1>1, <2>2, ForceOfLength DEF ElemFacts
    <3>2. v[i - 1] \in Nat /\ v[i - 1] <= ei[(i - 1) + 1].elem_len /\ (i - 1) + 1 = i
      BY <1>3, <3>1
    <3>3. LenOf(ei, v, i) = v[i - 1]
      BY <2>2 DEF LenOf, DataLen
    <3>4. ei[i].elem_len \in Nat
      BY <1>1 DEF ElemFacts
    <3>5. ~ (v[i - 1] > ei[i].elem_len)
      BY <3>2, <3>4
    <3> QED BY <2>1, <3>2, <3>3, <3>5 DEF TooLong
  <2>3. CASE ei[i].array_type = "none"
    BY <2>1, <2>3 DEF LenOf, DataLen, TooLong
  <2>4. CASE ei[i].array_type = "static"
    BY <1>1, <2>1, <2>4 DEF LenOf, DataLen, TooLong, ElemFacts
  <2> QED BY <1>1, <2>2, <2>3, <2>4 DEF ElemFacts
<1> QED BY <1>3, <1>4, <1>5 DEF ValueFacts

\* Where an array follows its length.
Pending(ei, i) == i \in DOMAIN ei /\ ei[i].array_type = "var"

\* The length of an array in front of it.
Lead(ei, v, i) == IF Pending(ei, i) THEN Bytes(v[i - 1], LenSize(ei[i - 1])) ELSE << >>

\* The bytes w as a TLV of a message, or in a structure.
Frame(level, type, w) == IF level > 1 THEN w ELSE <<type>> \o Bytes(Len(w), 2) \o w

\* qmi_encode in front of an element, the bytes q being complete.
EncGood(level, ei, v, st, q) ==
  /\ Ok(st) /\ st.i \in 1..(Len(ei) + 1) /\ q \in Seq(Nat)
  /\ level = 1 => st.out = q /\ st.tlv = Lead(ei, v, st.i)
  /\ level > 1 => st.out = << >> /\ st.tlv = Cat(q, Lead(ei, v, st.i))
  /\ Pending(ei, st.i) => st.n = v[st.i - 1] /\ v[st.i - 1] # 0
  /\ st.i \in DOMAIN ei => InForce(level, ei, v, st.i)

\* A turn that completes nothing: a flag, or a length.
Waits(ei, v, level, i, j) ==
  \/ ei[i].type = "opt" /\ v[i] = 1 /\ j = i + 1
  \/ ei[i].type = "opt" /\ v[i] = 0 /\ j = SkipToNextElem(ei, i, level)
  \/ ei[i].type = "len" /\ v[i] # 0 /\ j = i + 1

\* The bytes b are those of the value c.
Carried(level, ei, v, dec, c, b) ==
  /\ c \in DOMAIN ei /\ IsValue(ei[c]) /\ InForce(level, ei, v, c)
  /\ Arrives(dec, level, ei[c], LenOf(ei, v, c), v[c], b)

\* A turn at element i that completes the value c with bytes b.
Completes(level, ei, v, dec, i, q, j, p, c, b) ==
  /\ c = i \/ (c = i + 1 /\ ei[i].type = "len" /\ v[i] = 0)
  /\ Carried(level, ei, v, dec, c, b)
  /\ j = c + 1 /\ p = Cat(q, Frame(level, ei[i].tlv_type, Cat(Lead(ei, v, c), b)))

EncStep(level, ei, v, dec, i, q, j, p) ==
  \/ p = q /\ Waits(ei, v, level, i, j)
  \/ \E c \in Int, b \in Seq(Nat) : Completes(level, ei, v, dec, i, q, j, p, c, b)

\* Bytes in a TLV.
LEMMA Framed ==
  ASSUME NEW w, NEW type, NEW level \in Int, w \in Seq(Nat), type \in Nat
  PROVE  /\ Frame(level, type, w) \in Seq(Nat)
         /\ level > 1 => Frame(level, type, w) = w
         /\ ~ (level > 1) => Len(Frame(level, type, w)) = TlvHead + Len(w)
<1>1. Len(w) \in Nat
  OBVIOUS
<1>2. Bytes(Len(w), 2) \in Seq(Nat) /\ Len(Bytes(Len(w), 2)) = 2
  <2>1. PICK n \in Int : n = Len(w) /\ n \in Nat
    BY <1>1
  <2>2. 2 \in {1, 2}
    OBVIOUS
  <2>3. Bytes(n, 2) \in Seq(Nat) /\ Len(Bytes(n, 2)) = 2
    BY <2>1, <2>2, BytesMatch
  <2> QED BY <2>1, <2>3
<1> DEFINE b == Bytes(Len(w), 2)
<1> HIDE DEF b
<1>3. <<type>> \o b \o w \in Seq(Nat) /\ Len(<<type>> \o b \o w) = 3 + Len(w)
  <2>1. b \in Seq(Nat) /\ Len(b) = 2
    BY <1>2 DEF b
  <2>2. <<type>> \in Seq(Nat) /\ Len(<<type>>) = 1
    OBVIOUS
  <2>3. PICK t \in Seq(Nat) : t = <<type>> /\ Len(t) = 1
    BY <2>2
  <2>4. t \o b \in Seq(Nat) /\ Len(t \o b) = 3
    <3>1. PICK y \in Seq(Nat) : y = b
      BY <2>1
    <3>2. t \o y \in Seq(Nat) /\ Len(t \o y) = Len(t) + Len(y)
      OBVIOUS
    <3>3. Len(y) = 2
      BY <2>1, <3>1
    <3> QED BY <2>3, <3>1, <3>2, <3>3
  <2>5. PICK h \in Seq(Nat) : h = t \o b /\ Len(h) = 3
    BY <2>4
  <2>6. h \o w \in Seq(Nat) /\ Len(h \o w) = 3 + Len(w)
    BY <2>5
  <2> QED BY <2>3, <2>5, <2>6
<1> QED BY <1>3 DEF Frame, TlvHead, b

\* Lengths in front of arrays.
LEMMA LeadBytes ==
  ASSUME NEW ei, NEW v, NEW level \in Int, NEW i \in Int, Legal(level, ei),
         ValidStructure(level, ei, v), i \in DOMAIN ei => InForce(level, ei, v, i)
  PROVE  Lead(ei, v, i) \in Seq(Nat)
<1>1. CASE Pending(ei, i)
  <2>1. /\ ElemFacts(level, ei, i) /\ InForce(level, ei, v, i) /\ ei[i].array_type = "var"
        /\ i \in DOMAIN ei
    BY <1>1, LegalElems DEF Pending
  <2>2. /\ i - 1 \in DOMAIN ei /\ ei[i - 1].type = "len" /\ InForce(level, ei, v, i - 1)
        /\ i - 1 \in Int
    BY <2>1, ForceOfLength DEF ElemFacts
  <2>3. ValueFacts(level, ei, v, i - 1)
    BY <2>2, ValidElems
  <2>4. v[i - 1] \in Nat /\ v[i - 1] \in Int /\ LenSize(ei[i - 1]) \in {1, 2}
    BY <2>2, <2>3, Sizes DEF ValueFacts
  <2>5. Bytes(v[i - 1], LenSize(ei[i - 1])) \in Seq(Nat)
    BY <2>4, BytesMatch
  <2> QED BY <1>1, <2>5 DEF Lead
<1>2. CASE ~ Pending(ei, i)
  BY <1>2 DEF Lead
<1> QED BY <1>1, <1>2

-----------------------------------------------------------------------------
(* What qmi_encode has put out when it comes to an element.                *)

\* Bytes written so far.
Written(st) == Len(st.out) + Len(st.tlv)

\* Arrays that qmi_encode turns down.
BadArray(e, n) == e.array_type = "var" /\ (n = 0 \/ n > e.elem_len)

\* A turn of qmi_encode at a flag, at a length, and at a value that took bytes.
PastFlag(ei, v, level, st) ==
  EncodeState(IF v[st.i] = 1 THEN st.i + 1 ELSE SkipToNextElem(ei, st.i, level),
              st.out, st.tlv, DataLen(ei[st.i], st.n))

PastLength(ei, v, level, st) ==
  LET size == LenSize(ei[st.i])
  IN  IF v[st.i] = 0
      THEN CloseTlv(level, ei[st.i].tlv_type,
                    EncodeState(SkipToNextElem(ei, st.i + 1, level), st.out, Cat(st.tlv, Bytes(0, size)), 0))
      ELSE EncodeState(st.i + 1, st.out, Cat(st.tlv, Bytes(v[st.i], size)), v[st.i])

PastValue(ei, level, st, bytes) ==
  CloseTlv(level, ei[st.i].tlv_type,
           EncodeState(st.i + 1, st.out, Cat(st.tlv, bytes), DataLen(ei[st.i], st.n)))

\* A turn at a flag.
LEMMA FlagTurn ==
  ASSUME NEW nested, NEW ei, NEW v, NEW st, NEW room \in Int, NEW level \in Int,
         ei[st.i].type = "opt", ei[st.i].array_type = "none"
  PROVE  EncodeElem(nested, ei, v, room, level, st) = PastFlag(ei, v, level, st)
BY DEF EncodeElem, PastFlag

\* A turn at a length.
LEMMA LengthTurn ==
  ASSUME NEW nested, NEW ei, NEW v, NEW st, NEW room \in Int, NEW level \in Int,
         ei[st.i].type = "len", ei[st.i].array_type = "none"
  PROVE  EncodeElem(nested, ei, v, room, level, st) =
           IF Fits(LenSize(ei[st.i]), Written(st), room) THEN PastLength(ei, v, level, st)
           ELSE EncodeFailed
BY DEF EncodeElem, PastLength, Written, Cat

\* A turn at a value.
LEMMA ValueTurn ==
  ASSUME NEW nested, NEW ei, NEW v, NEW st, NEW room \in Int, NEW level \in Int, IsValue(ei[st.i]),
         ei[st.i].elem_size \in Nat, DataLen(ei[st.i], st.n) \in Nat, Written(st) \in Nat,
         ~ BadArray(ei[st.i], DataLen(ei[st.i], st.n))
  PROVE  LET r == EncodeValue(nested, level, ei[st.i], v[st.i], DataLen(ei[st.i], st.n), room - Written(st))
         IN  EncodeElem(nested, ei, v, room, level, st) =
               IF Ok(r) THEN PastValue(ei, level, st, r.out) ELSE EncodeFailed
<1> DEFINE e == ei[st.i]
           n == DataLen(e, st.n)
           w == Written(st)
           r == EncodeValue(nested, level, e, v[st.i], n, room - w)
           next == EncodeElem(nested, ei, v, room, level, st)
           Add(x) == IF x.ok THEN PastValue(ei, level, st, x.out) ELSE EncodeFailed
<1>1. \A x : Add(x) = IF Ok(x) THEN PastValue(ei, level, st, x.out) ELSE EncodeFailed
  BY DEF Ok
<1>2. CASE e.type = "basic"
  <2>1. next = Add(IF Fits(n * e.elem_size, w, room) THEN Emit(v[st.i]) ELSE Einval)
    BY <1>2 DEF EncodeElem, PastValue, Written, BadArray, Cat
  <2>2. PICK m \in Nat : m = n * e.elem_size
    OBVIOUS
  <2>3. PICK l \in Int : l = w
    OBVIOUS
  <2>4. Fits(m, l, room) <=> m + TlvHead <= room - l
    BY DEF Fits, TlvHead
  <2>5. r = IF m + TlvHead <= room - l THEN Emit(v[st.i]) ELSE Einval
    BY <1>2, <2>2, <2>3 DEF EncodeValue
  <2> HIDE DEF e, n, w, r, next, Add
  <2>6. next = Add(r)
    BY <2>1, <2>2, <2>3, <2>4, <2>5
  <2> QED BY <1>1, <2>6 DEF next, r, e, n, w
<1>3. CASE e.type = "struct"
  <2>1. next = Add(EncodeStructs(nested, e.ei, v[st.i], n, room - w))
    BY <1>3 DEF EncodeElem, PastValue, Written, BadArray, Cat
  <2>2. r = EncodeStructs(nested, e.ei, v[st.i], n, room - w)
    BY <1>3 DEF EncodeValue
  <2> HIDE DEF e, n, w, r, next, Add
  <2> QED BY <1>1, <2>1, <2>2 DEF next, r, e, n, w
<1>4. CASE e.type = "string"
  <2>1. next = Add(EncodeString(e, v[st.i], room - w, level))
    BY <1>4 DEF EncodeElem, PastValue, Written, BadArray, Cat
  <2>2. r = EncodeString(e, v[st.i], room - w, level)
    BY <1>4 DEF EncodeValue
  <2> HIDE DEF e, n, w, r, next, Add
  <2> QED BY <1>1, <2>1, <2>2 DEF next, r, e, n, w
<1> QED BY <1>2, <1>3, <1>4 DEF IsValue

\* A turn at an array whose length is out of range.
LEMMA BadArrayTurn ==
  ASSUME NEW nested, NEW ei, NEW v, NEW st, NEW room \in Int, NEW level \in Int,
         BadArray(ei[st.i], DataLen(ei[st.i], st.n))
  PROVE  EncodeElem(nested, ei, v, room, level, st) = EncodeFailed
BY DEF EncodeElem, BadArray

\* Closing a TLV.
LEMMA Closed ==
  ASSUME NEW type, NEW st, NEW i, NEW out, NEW tlv, NEW n, NEW level \in Int,
         st = CloseTlv(level, type, EncodeState(i, out, tlv, n))
  PROVE  /\ Ok(st) /\ st.i = i
         /\ level > 1 => st.out = out /\ st.tlv = tlv /\ st.n = n
         /\ ~ (level > 1) => st.out = Cat(out, Frame(level, type, tlv)) /\ st.tlv = << >> /\ st.n = n
<1>1. PICK b : b = EncodeState(i, out, tlv, n)
  OBVIOUS
<1>2. Ok(b) /\ b.i = i /\ b.out = out /\ b.tlv = tlv /\ b.n = n
  BY <1>1, EncodeStates
<1>3. CASE level > 1
  BY <1>1, <1>2, <1>3 DEF CloseTlv
<1>4. CASE ~ (level > 1)
  <2>1. st = EncodeState(i, out \o (<<type>> \o Bytes(Len(tlv), 2) \o tlv), << >>, n)
    BY <1>1, <1>2, <1>4 DEF CloseTlv
  <2>2. <<type>> \o Bytes(Len(tlv), 2) \o tlv = Frame(level, type, tlv)
    BY <1>4 DEF Frame
  <2>3. st = EncodeState(i, Cat(out, Frame(level, type, tlv)), << >>, n)
    BY <2>1, <2>2 DEF Cat
  <2>4. PICK o, w : o = Cat(out, Frame(level, type, tlv)) /\ w = << >>
    OBVIOUS
  <2>5. st = EncodeState(i, o, w, n)
    BY <2>3, <2>4
  <2>6. Ok(st) /\ st.i = i /\ st.out = o /\ st.tlv = w /\ st.n = n
    BY <2>5, EncodeStates
  <2> QED BY <1>4, <2>4, <2>6
<1> QED BY <1>3, <1>4

\* Behind a value no length waits for its array.
LEMMA NotPending ==
  ASSUME NEW ei, NEW v, NEW level \in Int, NEW i \in Int, Legal(level, ei),
         ~ (i - 1 \in DOMAIN ei) \/ ei[i - 1].type # "len"
  PROVE  ~ Pending(ei, i) /\ Lead(ei, v, i) = << >>
<1>1. ASSUME Pending(ei, i) PROVE FALSE
  <2>1. ElemFacts(level, ei, i) /\ ei[i].array_type = "var"
    BY <1>1, LegalElems DEF Pending
  <2> QED BY <2>1 DEF ElemFacts
<1> QED BY <1>1 DEF Lead

\* A message does not wait at the start of a TLV.
LEMMA NewNotPending ==
  ASSUME NEW ei, NEW v, NEW i \in Int, Legal(1, ei), i \in DOMAIN ei => NewTlv(ei, i)
  PROVE  ~ Pending(ei, i) /\ Lead(ei, v, i) = << >>
<1>1. ASSUME i - 1 \in DOMAIN ei, ei[i - 1].type = "len", i \in DOMAIN ei PROVE FALSE
  <2>1. LegalTlv(ei, i - 1) /\ i - 1 \in 1..Len(ei)
    BY <1>1 DEF Legal, IsSequence
  <2>2. ei[i - 1].tlv_type = ei[(i - 1) + 1].tlv_type
    BY <1>1, <2>1 DEF LegalTlv, SameTlv
  <2>3. (i - 1) + 1 = i /\ i - 1 \in 1..(i - 1)
    BY <2>1
  <2>4. ei[i - 1].tlv_type = ei[i].tlv_type
    BY <2>2, <2>3
  <2> QED BY <1>1, <2>3, <2>4 DEF NewTlv, SameTlv
<1>2. ~ Pending(ei, i)
  <2>1. 1 \in Int
    OBVIOUS
  <2>2. CASE i \in DOMAIN ei
    BY <1>1, <2>1, <2>2, NotPending
  <2>3. CASE ~ (i \in DOMAIN ei)
    BY <2>3 DEF Pending
  <2> QED BY <2>2, <2>3
<1> QED BY <1>2 DEF Lead

\* A TLV is complete.
LEMMA CloseGood ==
  ASSUME NEW ei, NEW v, NEW st, NEW next, NEW q, NEW b, NEW L, NEW n, NEW type, NEW level \in Int,
         NEW c \in Int, Legal(level, ei), EncGood(level, ei, v, st, q), c \in DOMAIN ei,
         IsValue(ei[c]), L = Lead(ei, v, st.i), L \in Seq(Nat), b \in Seq(Nat), type \in Nat,
         next = CloseTlv(level, type, EncodeState(c + 1, st.out, Cat(st.tlv, b), n))
  PROVE  EncGood(level, ei, v, next, Cat(q, Frame(level, type, Cat(L, b))))
<1> DEFINE w == Cat(L, b)
           F == Frame(level, type, w)
           p == Cat(q, F)
<1>1. w \in Seq(Nat)
  BY Cats
<1>2. q \in Seq(Nat) /\ level \in 1..Levels /\ DOMAIN ei = 1..Len(ei) /\ Len(ei) \in Nat
  BY DEF EncGood, Legal, IsSequence
<1> HIDE DEF w
<1>3. /\ Ok(next) /\ next.i = c + 1
      /\ level > 1 => next.out = st.out /\ next.tlv = Cat(st.tlv, b)
      /\ ~ (level > 1) => next.out = Cat(st.out, Frame(level, type, Cat(st.tlv, b))) /\ next.tlv = << >>
  BY Closed
<1>4. c + 1 \in 1..(Len(ei) + 1) /\ (c + 1) - 1 = c
  BY <1>2
<1>5. ~ Pending(ei, c + 1) /\ Lead(ei, v, c + 1) = << >>
  <2>1. ei[(c + 1) - 1].type # "len"
    BY <1>4 DEF IsValue
  <2>2. c + 1 \in Int
    OBVIOUS
  <2> QED BY <2>1, <2>2, NotPending
<1>6. c + 1 \in DOMAIN ei => InForce(level, ei, v, c + 1)
  <2>1. CASE level > 1
    BY <2>1 DEF InForce
  <2>2. CASE level = 1 /\ c + 1 \in DOMAIN ei
    <3>1. NewTlv(ei, c + 1)
      BY <2>2, AfterValue
    <3>2. c + 1 \in Int
      OBVIOUS
    <3>3. Present(ei, v, c + 1)
      BY <3>1, <3>2, NewPresent
    <3> QED BY <3>3 DEF InForce
  <2> QED BY <1>2, <2>1, <2>2
<1>7. F \in Seq(Nat) /\ (level > 1 => F = w)
  BY <1>1, Framed
<1> HIDE DEF F
<1>8. p \in Seq(Nat) /\ Cat(p, << >>) = p
  <2>1. p \in Seq(Nat)
    BY <1>2, <1>7, Cats
  <2> HIDE DEF p
  <2> QED BY <2>1, CatEmpty
<1>9. level = 1 => next.out = p /\ next.tlv = << >>
  <2> SUFFICES ASSUME level = 1 PROVE next.out = p /\ next.tlv = << >>
    OBVIOUS
  <2>1. st.out = q /\ st.tlv = L
    BY DEF EncGood
  <2>2. next.out = Cat(st.out, Frame(level, type, Cat(st.tlv, b))) /\ next.tlv = << >>
    BY <1>3
  <2>3. next.out = Cat(q, Frame(level, type, Cat(L, b))) 
    BY <2>1, <2>2
  <2> QED BY <2>2, <2>3 DEF F, w
<1>10. level > 1 => next.out = << >> /\ next.tlv = Cat(p, << >>)
  <2> SUFFICES ASSUME level > 1 PROVE next.out = << >> /\ next.tlv = Cat(p, << >>)
    OBVIOUS
  <2>1. st.out = << >> /\ st.tlv = Cat(q, L)
    BY DEF EncGood
  <2>2. next.out = st.out /\ next.tlv = Cat(st.tlv, b)
    BY <1>3
  <2>3. Cat(Cat(q, L), b) = Cat(q, w)
    BY <1>2, CatGroup DEF w
  <2>4. p = Cat(q, w)
    BY <1>7
  <2>5. next.tlv = p
    BY <2>1, <2>2, <2>3, <2>4
  <2> QED BY <1>8, <2>1, <2>2, <2>5
<1> HIDE DEF p
<1>11. EncGood(level, ei, v, next, p)
  BY <1>3, <1>4, <1>5, <1>6, <1>8, <1>9, <1>10 DEF EncGood
<1> QED BY <1>11 DEF p, F, w

\* What a turn of qmi_encode makes of good states.
GoodTurn(level, ei, v, dec, st, q, next) ==
  \E p : EncGood(level, ei, v, next, p) /\ EncStep(level, ei, v, dec, st.i, q, next.i, p)

\* Turns that complete nothing leave good states.
LEMMA WaitGood ==
  ASSUME NEW ei, NEW v, NEW dec, NEW st, NEW q, NEW j, NEW tlv, NEW n, NEW level \in Int,
         EncGood(level, ei, v, st, q), j \in 1..(Len(ei) + 1), level = 1 => tlv = Lead(ei, v, j),
         level > 1 => tlv = Cat(q, Lead(ei, v, j)), Pending(ei, j) => n = v[j - 1] /\ v[j - 1] # 0,
         j \in DOMAIN ei => InForce(level, ei, v, j), Waits(ei, v, level, st.i, j)
  PROVE  GoodTurn(level, ei, v, dec, st, q, EncodeState(j, st.out, tlv, n))
<1>1. PICK next : next = EncodeState(j, st.out, tlv, n)
  OBVIOUS
<1>2. Ok(next) /\ next.i = j /\ next.out = st.out /\ next.tlv = tlv /\ next.n = n
  BY <1>1, EncodeStates
<1>3. q \in Seq(Nat) /\ (level = 1 => st.out = q) /\ (level > 1 => st.out = << >>)
  BY DEF EncGood
<1>4. EncGood(level, ei, v, next, q)
  BY <1>2, <1>3 DEF EncGood
<1>5. EncStep(level, ei, v, dec, st.i, q, next.i, q)
  BY <1>2 DEF EncStep
<1>6. GoodTurn(level, ei, v, dec, st, q, next)
  BY <1>4, <1>5 DEF GoodTurn
<1> QED BY <1>1, <1>6

\* A good state stays good past a flag.
LEMMA FlagGood ==
  ASSUME NEW ei, NEW v, NEW dec, NEW st, NEW q, NEW level \in Int, NEW i \in Int, Legal(level, ei),
         ValidStructure(level, ei, v), EncGood(level, ei, v, st, q), i = st.i, i \in DOMAIN ei,
         ei[i].type = "opt"
  PROVE  GoodTurn(level, ei, v, dec, st, q, PastFlag(ei, v, level, st))
<1>1. ElemFacts(level, ei, i) /\ InForce(level, ei, v, i)
  BY LegalElems DEF EncGood
<1>2. level = 1 /\ ei[i].array_type = "none" /\ i \in 1..Len(ei) /\ Len(ei) \in Nat
  BY <1>1 DEF ElemFacts, IsValue
<1>3. Present(ei, v, i) /\ Legal(1, ei) /\ LegalTlv(ei, i) /\ v[i] \in {0, 1}
  BY <1>1, <1>2, ValidElems DEF InForce, Legal, ValueFacts
<1>4. st.tlv = << >>
  BY <1>2 DEF EncGood, Lead, Pending
<1> DEFINE n == DataLen(ei[i], st.n)
<1> HIDE DEF n
<1>5. CASE v[i] = 1
  <2>1. i + 1 \in 1..(Len(ei) + 1) /\ (i + 1) - 1 = i /\ i + 1 \in Int
    BY <1>2
  <2>2. ~ Pending(ei, i + 1) /\ Lead(ei, v, i + 1) = << >>
    BY <2>1, NotPending
  <2>3. Present(ei, v, i + 1)
    BY <1>3, <1>5, NextPresent
  <2>4. InForce(level, ei, v, i + 1)
    BY <2>3 DEF InForce
  <2>5. Waits(ei, v, level, st.i, i + 1)
    BY <1>5 DEF Waits
  <2>6. PICK j \in Int : j = i + 1
    OBVIOUS
  <2>7. PICK t : t = Lead(ei, v, j) /\ t = st.tlv
    BY <1>4, <2>2, <2>6, Zenon
  <2>8. GoodTurn(level, ei, v, dec, st, q, EncodeState(j, st.out, t, n))
    <3>1. level = 1 => t = Lead(ei, v, j)
      BY <2>7
    <3>2. level > 1 => t = Cat(q, Lead(ei, v, j))
      BY <1>2
    <3>3. Pending(ei, j) => n = v[j - 1] /\ v[j - 1] # 0
      BY <2>2, <2>6
    <3>4. j \in 1..(Len(ei) + 1) /\ InForce(level, ei, v, j) /\ Waits(ei, v, level, st.i, j)
      BY <2>1, <2>4, <2>5, <2>6
    <3> QED BY <3>1, <3>2, <3>3, <3>4, WaitGood
  <2> QED BY <1>5, <2>6, <2>8, <2>7 DEF PastFlag, n
<1>6. CASE v[i] = 0
  <2>1. PICK j : j = SkipToNextElem(ei, i, 1)
    OBVIOUS
  <2>2. j \in (i + 1)..(Len(ei) + 1) /\ (j \in DOMAIN ei => NewTlv(ei, j))
    BY <1>3, <2>1, AfterSkip
  <2>3. j \in 1..(Len(ei) + 1) /\ j \in Int
    BY <1>2, <2>2
  <2>4. ~ Pending(ei, j) /\ Lead(ei, v, j) = << >>
    BY <1>3, <2>2, <2>3, NewNotPending
  <2>5. j \in DOMAIN ei => InForce(level, ei, v, j)
    BY <2>2, <2>3, NewPresent DEF InForce
  <2>6. Waits(ei, v, level, st.i, j)
    BY <1>2, <1>6, <2>1 DEF Waits
  <2>7. PICK t : t = Lead(ei, v, j) /\ t = st.tlv
    BY <1>4, <2>4, Zenon
  <2>8. GoodTurn(level, ei, v, dec, st, q, EncodeState(j, st.out, t, n))
    <3>1. level = 1 => t = Lead(ei, v, j)
      BY <2>7
    <3>2. level > 1 => t = Cat(q, Lead(ei, v, j))
      BY <1>2
    <3>3. Pending(ei, j) => n = v[j - 1] /\ v[j - 1] # 0
      BY <2>4
    <3> QED BY <2>3, <2>5, <2>6, <3>1, <3>2, <3>3, WaitGood
  <2> QED BY <1>2, <1>6, <2>1, <2>8, <2>7 DEF PastFlag, n
<1> QED BY <1>3, <1>5, <1>6

\* A turn that completes a value leaves a good state.
LEMMA CloseTurn ==
  ASSUME NEW ei, NEW v, NEW dec, NEW st, NEW q, NEW w, NEW b, NEW n, NEW level \in Int,
         NEW c \in Int, Legal(level, ei), ValidStructure(level, ei, v),
         EncGood(level, ei, v, st, q), st.i \in DOMAIN ei,
         c = st.i \/ (c = st.i + 1 /\ ei[st.i].type = "len" /\ v[st.i] = 0),
         Carried(level, ei, v, dec, c, b), b \in Seq(Nat), w \in Seq(Nat),
         Cat(Lead(ei, v, st.i), w) = Cat(Lead(ei, v, c), b)
  PROVE  GoodTurn(level, ei, v, dec, st, q,
                  CloseTlv(level, ei[st.i].tlv_type, EncodeState(c + 1, st.out, Cat(st.tlv, w), n)))
<1>1. PICK next : next = CloseTlv(level, ei[st.i].tlv_type, EncodeState(c + 1, st.out, Cat(st.tlv, w), n))
  OBVIOUS
<1>2. PICK L, type, i : L = Lead(ei, v, i) /\ type = ei[i].tlv_type /\ i = st.i
  OBVIOUS
<1>3. i \in 1..(Len(ei) + 1) /\ InForce(level, ei, v, i) /\ i \in Int /\ Len(ei) \in Nat
  BY <1>2 DEF EncGood, Legal, IsSequence
<1>4. L \in Seq(Nat) /\ type \in Nat
  BY <1>2, <1>3, LeadBytes, LegalElems DEF ElemFacts
<1>5. c \in DOMAIN ei /\ IsValue(ei[c])
  BY DEF Carried
<1> DEFINE p == Cat(q, Frame(level, type, Cat(L, w)))
<1>6. EncGood(level, ei, v, next, p)
  BY <1>1, <1>2, <1>4, <1>5, CloseGood
<1>7. next.i = c + 1
  <2>1. PICK o, t, j : o = st.out /\ t = Cat(st.tlv, w) /\ j = c + 1
    OBVIOUS
  <2>2. next = CloseTlv(level, type, EncodeState(j, o, t, n))
    BY <1>1, <1>2, <2>1
  <2>3. next.i = j
    BY <2>2, Closed
  <2> QED BY <2>1, <2>3
<1>8. p = Cat(q, Frame(level, type, Cat(Lead(ei, v, c), b)))
  BY <1>2
<1> HIDE DEF p
<1>9. Completes(level, ei, v, dec, i, q, next.i, p, c, b)
  BY <1>2, <1>7, <1>8 DEF Completes
<1>10. EncStep(level, ei, v, dec, st.i, q, next.i, p)
  BY <1>2, <1>9 DEF EncStep
<1>11. GoodTurn(level, ei, v, dec, st, q, next)
  BY <1>6, <1>10 DEF GoodTurn
<1> QED BY <1>1, <1>11

\* A good state stays good past a length.
LEMMA LengthGood ==
  ASSUME NEW ei, NEW v, NEW enc, NEW dec, NEW st, NEW q, NEW level \in Int, NEW i \in Int,
         Legal(level, ei), ValidStructure(level, ei, v), Carries(enc, dec, level + 1),
         EncGood(level, ei, v, st, q), i = st.i, i \in DOMAIN ei, ei[i].type = "len"
  PROVE  GoodTurn(level, ei, v, dec, st, q, PastLength(ei, v, level, st))
<1>1. ElemFacts(level, ei, i) /\ InForce(level, ei, v, i) /\ ValueFacts(level, ei, v, i)
  BY LegalElems, ValidElems DEF EncGood
<1>2. /\ ei[i].array_type = "none" /\ i \in 1..Len(ei) /\ Len(ei) \in Nat /\ v[i] \in Nat
      /\ i + 1 \in DOMAIN ei /\ ei[i + 1].array_type = "var"
  BY <1>1 DEF ElemFacts, IsValue, ValueFacts
<1>3. level \in Nat \ {0} /\ DOMAIN ei = 1..Len(ei)
  BY DEF Legal, IsSequence
<1>4. Lead(ei, v, i) = << >> /\ q \in Seq(Nat)
  BY <1>2 DEF Lead, Pending, EncGood
<1>5. (level = 1 => st.tlv = << >>) /\ (level > 1 => st.tlv = q)
  <2>1. Cat(q, << >>) = q
    BY <1>4, CatEmpty
  <2> QED BY <1>4, <2>1 DEF EncGood
<1>6. InForce(level, ei, v, i + 1)
  <2>1. CASE level > 1
    BY <2>1 DEF InForce
  <2>2. CASE level = 1
    <3>1. Present(ei, v, i) /\ Legal(1, ei)
      BY <1>1, <2>2 DEF InForce
    <3>2. Present(ei, v, i + 1)
      BY <3>1, NextPresent
    <3> QED BY <3>2 DEF InForce
  <2> QED BY <1>3, <2>1, <2>2
<1>7. (i + 1) - 1 = i /\ i + 1 \in 1..(Len(ei) + 1) /\ i + 1 \in Int
  BY <1>2
<1>8. ElemFacts(level, ei, i + 1) /\ ValueFacts(level, ei, v, i + 1)
  BY <1>2, <1>6, <1>7, LegalElems, ValidElems
<1> DEFINE size == LenSize(ei[i])
           bytes == Bytes(v[i], size)
<1>9. bytes \in Seq(Nat)
  <2>1. size \in {1, 2} /\ v[i] \in Nat /\ v[i] \in Int
    BY <1>2, Sizes
  <2> HIDE DEF size
  <2> QED BY <2>1, BytesMatch
<1>10. Lead(ei, v, i + 1) = bytes /\ Pending(ei, i + 1)
  BY <1>2, <1>7 DEF Lead, Pending
<1> HIDE DEF bytes
<1>11. CASE v[i] # 0
  <2>1. PICK j \in Int : j = i + 1
    OBVIOUS
  <2>2. /\ (level = 1 => Cat(st.tlv, bytes) = Lead(ei, v, j))
        /\ (level > 1 => Cat(st.tlv, bytes) = Cat(q, Lead(ei, v, j)))
    BY <1>5, <1>9, <1>10, <2>1, CatEmpty
  <2>3. v[j - 1] = v[i] /\ j \in 1..(Len(ei) + 1) /\ InForce(level, ei, v, j)
    BY <1>6, <1>7, <2>1
  <2>4. Waits(ei, v, level, st.i, j)
    BY <1>11, <2>1 DEF Waits
  <2>5. PICK t, n : t = Cat(st.tlv, bytes) /\ n = v[i]
    OBVIOUS
  <2>6. GoodTurn(level, ei, v, dec, st, q, EncodeState(j, st.out, t, n))
    BY <1>11, <2>2, <2>3, <2>4, <2>5, WaitGood
  <2> QED BY <1>11, <2>1, <2>5, <2>6 DEF PastLength, bytes
<1>12. CASE v[i] = 0
  <2>1. SkipToNextElem(ei, i + 1, level) = i + 2
    BY SkipLength
  <2>2. PICK c \in Int : c = i + 1 /\ i + 2 = c + 1
    BY <1>7
  <2>3. PICK e, x : e = ei[c] /\ x = v[c]
    OBVIOUS
  <2>4. e.array_type = "var" /\ IsValue(e) /\ e.type # "string" /\ ValueElem(level, e)
    BY <1>2, <1>8, <2>2, <2>3 DEF ElemFacts
  <2>5. LenOf(ei, v, c) = 0
    BY <1>2, <1>7, <1>12, <2>2 DEF LenOf, DataLen
  <2>6. ValidAs(level, e, 0, x)
    BY <1>8, <2>2, <2>3, <2>4, <2>5 DEF ValueFacts
  <2>7. Arrives(dec, level, e, 0, x, << >>)
    BY <1>3, <2>4, <2>6, EmptyArrives
  <2>8. Carried(level, ei, v, dec, c, << >>)
    BY <1>2, <1>6, <2>2, <2>3, <2>4, <2>5, <2>7 DEF Carried
  <2>9. Cat(Lead(ei, v, i), bytes) = Cat(Lead(ei, v, c), << >>)
    BY <1>4, <1>9, <1>10, <2>2, CatEmpty
  <2>10. PICK z \in Seq(Nat) : z = << >>
    BY EmptySeq
  <2>11. PICK w : w = bytes /\ w \in Seq(Nat)
    BY <1>9
  <2>12. GoodTurn(level, ei, v, dec, st, q,
                  CloseTlv(level, ei[st.i].tlv_type, EncodeState(c + 1, st.out, Cat(st.tlv, w), 0)))
    <3>1. Carried(level, ei, v, dec, c, z) /\ Cat(Lead(ei, v, st.i), w) = Cat(Lead(ei, v, c), z)
      BY <2>8, <2>9, <2>11, <2>10
    <3>2. c = st.i \/ (c = st.i + 1 /\ ei[st.i].type = "len" /\ v[st.i] = 0)
      BY <1>12, <2>2
    <3>3. PICK n : n = 0
      OBVIOUS
    <3>4. GoodTurn(level, ei, v, dec, st, q,
                  CloseTlv(level, ei[st.i].tlv_type, EncodeState(c + 1, st.out, Cat(st.tlv, w), n)))
      BY <2>11, <2>10, <3>1, <3>2, CloseTurn
    <3> QED BY <3>3, <3>4
  <2> QED BY <1>12, <2>1, <2>2, <2>11, <2>12 DEF PastLength, bytes
<1> QED BY <1>11, <1>12

\* A good state stays good past a value, whose length it knows.
LEMMA ValueGood ==
  ASSUME NEW ei, NEW v, NEW enc, NEW dec, NEW st, NEW q, NEW level \in Int, NEW room \in Int,
         NEW i \in Int, Legal(level, ei), ValidStructure(level, ei, v),
         Carries(enc, dec, level + 1), EncGood(level, ei, v, st, q), i = st.i, i \in DOMAIN ei,
         IsValue(ei[i])
  PROVE  LET r == EncodeValue(enc, level, ei[i], v[i], LenOf(ei, v, i), room)
         IN  /\ DataLen(ei[i], st.n) = LenOf(ei, v, i) /\ LenOf(ei, v, i) \in Nat
             /\ ~ BadArray(ei[i], LenOf(ei, v, i))
             /\ Ok(r) => r.out \in Seq(Nat) /\ GoodTurn(level, ei, v, dec, st, q, PastValue(ei, level, st, r.out))
<1>1. ElemFacts(level, ei, i) /\ InForce(level, ei, v, i) /\ ValueFacts(level, ei, v, i)
  BY LegalElems, ValidElems DEF EncGood
<1>2. level \in Nat \ {0}
  BY DEF Legal, IsSequence
<1>3. PICK n : n = LenOf(ei, v, i)
  OBVIOUS
<1>4. n \in Nat /\ ~ TooLong(ei[i], n) /\ ValidAs(level, ei[i], n, v[i]) /\ ValueElem(level, ei[i])
      /\ ei[i].array_type \in {"none", "static", "var"} /\ ei[i].tlv_type \in Nat
  BY <1>1, <1>3 DEF ValueFacts, ElemFacts
<1>5. ei[i].array_type = "var" => st.n = n /\ n # 0
  BY <1>3 DEF LenOf, DataLen, EncGood, Pending
<1>6. DataLen(ei[i], st.n) = n
  BY <1>3, <1>4, <1>5 DEF LenOf, DataLen
<1>7. ~ BadArray(ei[i], n)
  BY <1>4, <1>5 DEF BadArray, TooLong
<1>8. PICK r : r = EncodeValue(enc, level, ei[i], v[i], n, room)
  OBVIOUS
<1>9. ASSUME Ok(r)
      PROVE  /\ r.out \in Seq(Nat)
             /\ GoodTurn(level, ei, v, dec, st, q, PastValue(ei, level, st, r.out))
  <2>1. Arrives(dec, level, ei[i], n, v[i], r.out)
    <3>1. PICK nn \in Int : nn = n
      BY <1>4
    <3>2. PICK e, x : e = ei[i] /\ x = v[i]
      OBVIOUS
    <3>3. Arrives(dec, level, e, nn, x, EncodeValue(enc, level, e, x, nn, room).out)
      BY <1>2, <1>4, <1>8, <1>9, <3>1, <3>2, ValueArrives
    <3> QED BY <1>8, <3>1, <3>3, <3>2
  <2>2. PICK b : b = r.out /\ b \in Seq(Nat)
    BY <2>1 DEF Arrives
  <2>3. Carried(level, ei, v, dec, i, b)
    BY <1>1, <1>3, <2>1, <2>2 DEF Carried
  <2>4. GoodTurn(level, ei, v, dec, st, q,
                 CloseTlv(level, ei[st.i].tlv_type, EncodeState(i + 1, st.out, Cat(st.tlv, b), n)))
    BY <2>2, <2>3, CloseTurn
  <2> QED BY <1>6, <2>2, <2>4 DEF PastValue
<1> QED BY <1>3, <1>4, <1>6, <1>7, <1>8, <1>9

-----------------------------------------------------------------------------
(* The array length qmi_decode has in force, and what it reads.            *)

\* What is written in good states.
LEMMA WrittenNat ==
  ASSUME NEW ei, NEW v, NEW st, NEW q, NEW level \in Int, Legal(level, ei),
         ValidStructure(level, ei, v), EncGood(level, ei, v, st, q)
  PROVE  st.out \in Seq(Nat) /\ st.tlv \in Seq(Nat) /\ Written(st) \in Nat
<1>1. PICK i \in Int : i = st.i
  BY DEF EncGood
<1>2. PICK L : L = Lead(ei, v, i) /\ L \in Seq(Nat)
  <2>1. i \in DOMAIN ei => InForce(level, ei, v, i)
    BY <1>1 DEF EncGood
  <2>2. Lead(ei, v, i) \in Seq(Nat)
    BY <2>1, LeadBytes
  <2> QED BY <2>2
<1>3. level = 1 \/ level > 1
  BY DEF Legal
<1>4. q \in Seq(Nat) /\ Cat(q, L) \in Seq(Nat)
  <2>1. q \in Seq(Nat)
    BY DEF EncGood
  <2> QED BY <1>2, <2>1, Cats
<1>5. ASSUME st.out \in Seq(Nat), st.tlv \in Seq(Nat) PROVE Written(st) \in Nat
  <2>1. PICK a \in Nat : a = Len(st.out)
    BY <1>5
  <2>2. PICK b \in Nat : b = Len(st.tlv)
    BY <1>5
  <2>3. a + b \in Nat
    OBVIOUS
  <2> QED BY <2>1, <2>2, <2>3 DEF Written
<1>6. CASE level = 1
  <2>1. st.out = q /\ st.tlv = L
    BY <1>1, <1>2, <1>6 DEF EncGood
  <2>2. st.out \in Seq(Nat) /\ st.tlv \in Seq(Nat)
    BY <1>2, <1>4, <2>1
  <2> QED BY <1>5, <2>2
<1>7. CASE level > 1
  <2>1. st.out = << >> /\ st.tlv = Cat(q, L)
    BY <1>1, <1>2, <1>7 DEF EncGood
  <2>2. st.out \in Seq(Nat) /\ st.tlv \in Seq(Nat)
    <3>1. PICK z \in Seq(Nat) : z = << >>
      BY EmptySeq
    <3> QED BY <1>4, <2>1, <3>1
  <2> QED BY <1>5, <2>2
<1> QED BY <1>3, <1>6, <1>7

\* A turn of qmi_encode that succeeds leaves a good state.
LEMMA TurnGood ==
  ASSUME NEW ei, NEW v, NEW enc, NEW dec, NEW st, NEW q, NEW level \in Int, NEW room \in Int,
         Legal(level, ei), ValidStructure(level, ei, v), Carries(enc, dec, level + 1),
         EncGood(level, ei, v, st, q), st.i \in DOMAIN ei,
         Ok(EncodeElem(enc, ei, v, room, level, st))
  PROVE  GoodTurn(level, ei, v, dec, st, q, EncodeElem(enc, ei, v, room, level, st))
<1>1. PICK i : i = st.i /\ i \in Int /\ i \in DOMAIN ei
  BY DEF EncGood
<1>2. PICK next : next = EncodeElem(enc, ei, v, room, level, st)
  OBVIOUS
<1>3. ElemFacts(level, ei, i)
  BY <1>1, LegalElems
<1>4. CASE ei[i].type = "opt"
  <2>1. ei[i].array_type = "none"
    BY <1>3, <1>4 DEF ElemFacts, IsValue
  <2>2. next = PastFlag(ei, v, level, st)
    BY <1>1, <1>2, <1>4, <2>1, FlagTurn
  <2> QED BY <1>1, <1>2, <1>4, <2>2, FlagGood
<1>5. CASE ei[i].type = "len"
  <2>1. ei[i].array_type = "none"
    BY <1>3, <1>5 DEF ElemFacts, IsValue
  <2>2. next = IF Fits(LenSize(ei[i]), Written(st), room) THEN PastLength(ei, v, level, st)
               ELSE EncodeFailed
    BY <1>1, <1>2, <1>5, <2>1, LengthTurn
  <2>3. next = PastLength(ei, v, level, st)
    BY <1>2, <2>2, Results
  <2> QED BY <1>1, <1>2, <1>5, <2>3, LengthGood
<1>6. CASE IsValue(ei[i])
  <2>1. PICK n : n = LenOf(ei, v, i)
    OBVIOUS
  <2>2. Written(st) \in Nat
    BY WrittenNat
  <2>3. PICK left \in Int : left = room - Written(st)
    BY <2>2
  <2>4. PICK r : r = EncodeValue(enc, level, ei[i], v[i], n, left)
    OBVIOUS
  <2>5. /\ DataLen(ei[i], st.n) = n /\ n \in Nat /\ ~ BadArray(ei[i], n)
        /\ Ok(r) => GoodTurn(level, ei, v, dec, st, q, PastValue(ei, level, st, r.out))
    BY <1>1, <1>6, <2>1, <2>4, ValueGood
  <2>6. ei[i].elem_size \in Nat
    BY <1>3, <1>6 DEF ElemFacts, ValueElem
  <2>7. next = IF Ok(r) THEN PastValue(ei, level, st, r.out) ELSE EncodeFailed
    <3>1. PICK k : k = st.n
      OBVIOUS
    <3>2. IsValue(ei[st.i]) /\ ei[st.i].elem_size \in Nat /\ DataLen(ei[st.i], st.n) \in Nat
          /\ ~ BadArray(ei[st.i], DataLen(ei[st.i], st.n))
      BY <1>1, <1>6, <2>5, <2>6
    <3>3. EncodeElem(enc, ei, v, room, level, st) =
            IF Ok(EncodeValue(enc, level, ei[st.i], v[st.i], DataLen(ei[st.i], st.n), room - Written(st)))
            THEN PastValue(ei, level, st,
                   EncodeValue(enc, level, ei[st.i], v[st.i], DataLen(ei[st.i], st.n), room - Written(st)).out)
            ELSE EncodeFailed
      BY <2>2, <3>2, ValueTurn
    <3>4. r = EncodeValue(enc, level, ei[st.i], v[st.i], DataLen(ei[st.i], st.n), room - Written(st))
      BY <1>1, <2>3, <2>4, <2>5
    <3> QED BY <1>2, <3>3, <3>4
  <2>8. Ok(r) /\ next = PastValue(ei, level, st, r.out)
    BY <1>2, <2>7, Results
  <2> QED BY <1>2, <2>5, <2>8
<1> QED BY <1>3, <1>4, <1>5, <1>6 DEF ElemFacts

\* What data_len_value may hold before element i: the length of an earlier array.
Short(ei, n, i) ==
  n \in Nat /\ (n <= 1 \/ \E j \in 1..(i - 1) : ei[j].array_type # "none" /\ n <= ei[j].elem_len)

\* What data_len_value holds can be stored in the length to come.
LEMMA ShortFits ==
  ASSUME NEW ei, NEW n, NEW level \in Int, NEW i \in Int, NEW l \in Int, Legal(level, ei),
         Short(ei, n, i), l \in DOMAIN ei, ei[l].type = "len", l = i \/ l = i - 1
  PROVE  n < Limit(LenSize(ei[l]))
<1>1. ElemFacts(level, ei, l)
  BY LegalElems
<1>2. /\ ei[l].array_type = "none"
      /\ \A j \in 1..(l - 1) : ei[j].array_type # "none" => ei[j].elem_len < Limit(LenSize(ei[l]))
      /\ l \in 1..Len(ei) /\ Len(ei) \in Nat
  BY <1>1 DEF ElemFacts, IsValue
<1>3. PICK m \in Nat : m = Limit(LenSize(ei[l])) /\ m > 1
  BY Sizes, Limits
<1>4. n \in Nat
  BY DEF Short
<1>5. CASE n <= 1
  BY <1>3, <1>4, <1>5
<1>6. CASE ~ (n <= 1)
  <2>1. PICK j \in 1..(i - 1) : ei[j].array_type # "none" /\ n <= ei[j].elem_len
    BY <1>6 DEF Short
  <2>2. j \in 1..(l - 1)
    <3>1. j # l
      BY <1>2, <2>1
    <3> QED BY <1>2, <2>1, <3>1
  <2>3. ei[j].elem_len < m
    BY <1>2, <1>3, <2>1, <2>2
  <2>4. j \in DOMAIN ei
    BY <1>2, <2>2 DEF Legal, IsSequence
  <2>5. ei[j].elem_len \in Nat
    <3>1. ElemFacts(level, ei, j)
      BY <2>4, LegalElems
    <3> QED BY <3>1 DEF ElemFacts
  <2> QED BY <1>3, <1>4, <2>1, <2>3, <2>5
<1> QED BY <1>5, <1>6

\* The length of an array is short for what comes behind it.
LEMMA ShortNext ==
  ASSUME NEW ei, NEW n, NEW level \in Int, NEW i \in Int, NEW c \in Int, Legal(level, ei),
         c \in DOMAIN ei, c < i, n \in Nat, ~ TooLong(ei[c], n), ei[c].array_type = "none" => n = 1,
         ei[c].array_type = "static" => n = ei[c].elem_len
  PROVE  Short(ei, n, i)
<1>1. ElemFacts(level, ei, c)
  BY LegalElems
<1>2. ei[c].elem_len \in Nat /\ ei[c].array_type \in {"none", "static", "var"} /\ c \in 1..Len(ei)
  BY <1>1 DEF ElemFacts
<1>3. CASE ei[c].array_type = "none"
  BY <1>3 DEF Short
<1>4. CASE ei[c].array_type # "none"
  <2>1. n <= ei[c].elem_len
    BY <1>2, <1>4 DEF TooLong
  <2>2. c \in 1..(i - 1)
    BY <1>2
  <2> QED BY <1>4, <2>1, <2>2 DEF Short
<1> QED BY <1>3, <1>4

\* It stays so.
LEMMA ShortLater ==
  ASSUME NEW ei, NEW n, NEW i \in Int, NEW j \in Int, Short(ei, n, i), i <= j
  PROVE  Short(ei, n, j)
<1>1. 1..(i - 1) \subseteq 1..(j - 1)
  OBVIOUS
<1> QED BY <1>1 DEF Short

\* A structure with another value for element i.
With(v, i, x) == [v EXCEPT ![i] = x]

\* The decoder is at the length m, and has taken it.
AtLength(ei, buf, from, s, m) ==
  /\ ei[s.i].type = "len" /\ s.at \in Nat /\ s.n \in Nat /\ s.n < Limit(LenSize(ei[s.i]))
  /\ m \in Nat /\ m < Limit(LenSize(ei[s.i])) /\ Match(buf, from + s.at, Bytes(m, LenSize(ei[s.i])))

LengthRead(ei, s, t, m) ==
  t = DecodeState(s.at + LenSize(ei[s.i]), s.i + 1, m, With(s.v, s.i, m))

\* Lengths are taken from the wire.
LEMMA LengthTaken ==
  ASSUME NEW ei, NEW buf, NEW s, NEW m \in Int, NEW from \in Int, buf \in Seq(Nat), from \in Nat,
         AtLength(ei, buf, from, s, m)
  PROVE  LengthRead(ei, s, TakeLen(ei, buf, from, s), m)
<1>1. PICK size \in Int : size = LenSize(ei[s.i]) /\ size \in {1, 2}
  BY Sizes
<1>2. PICK b : b = Bytes(m, size) /\ Len(b) = size
  BY <1>1, BytesMatch DEF AtLength
<1>3. PICK at \in Int : at = from + s.at
  BY DEF AtLength
<1>4. Slice(buf, at, size) = b
  <2>1. Match(buf, at, b)
    BY <1>1, <1>2, <1>3 DEF AtLength
  <2>2. Slice(buf, at, Len(b)) = b
    BY <2>1, MatchSlice
  <2> QED BY <1>2, <2>2
<1>5. StoreLow(s.n, b) = m
  <2>1. PICK n \in Nat : n = s.n /\ n < Limit(size)
    BY <1>1 DEF AtLength
  <2>2. m \in Nat /\ m < Limit(size)
    BY <1>1 DEF AtLength
  <2>3. StoreLow(n, Bytes(m, size)) = m
    BY <1>1, <2>1, <2>2, StoreShort
  <2> QED BY <1>2, <2>1, <2>3
<1> QED BY <1>1, <1>3, <1>4, <1>5 DEF TakeLen, With, AtLength, LengthRead

\* Where there is no length none is taken.
LEMMA NoLengthTaken ==
  ASSUME NEW ei, NEW buf, NEW s, NEW from, ei[s.i].type # "len"
  PROVE  TakeLen(ei, buf, from, s) = s
BY DEF TakeLen

\* The decoder is at a value, and has taken it.
AtItsValue(dec, level, ei, buf, from, s, tlvLen, n, y, b) ==
  /\ IsValue(ei[s.i]) /\ n = DataLen(ei[s.i], s.n) /\ ~ TooLong(ei[s.i], n) /\ s.at \in Nat
  /\ Arrives(dec, level, ei[s.i], n, y, b) /\ Match(buf, from + s.at, b)
  /\ tlvLen \in Nat /\ Len(b) <= tlvLen /\ (level = 1 => tlvLen = Len(b))

ValueRead(s, t, n, y, b) == t = DecodeState(s.at + Len(b), s.i + 1, n, With(s.v, s.i, y))

\* Values are taken from the wire.
LEMMA ValueTaken ==
  ASSUME NEW dec, NEW ei, NEW buf, NEW s, NEW b, NEW y, NEW n, NEW level \in Int, NEW from \in Int,
         NEW tlvLen \in Int, buf \in Seq(Nat), from \in Nat,
         AtItsValue(dec, level, ei, buf, from, s, tlvLen, n, y, b)
  PROVE  ValueRead(s, TakeValue(dec, ei, buf, from, level, s, tlvLen), n, y, b)
<1>1. PICK at \in Int : at = from + s.at /\ at \in Nat
  BY DEF AtItsValue
<1>2. PICK e : e = ei[s.i] /\ IsValue(e) /\ n = DataLen(e, s.n) /\ ~ TooLong(e, n)
  BY DEF AtItsValue
<1>3. PICK r : r = DecodeValue(dec, level, e, n, buf, at, tlvLen)
  OBVIOUS
<1>4. r = Took(Len(b), y)
  <2>1. Match(buf, at, b) /\ Arrives(dec, level, e, n, y, b)
    BY <1>1, <1>2 DEF AtItsValue
  <2>2. tlvLen \in Nat /\ Len(b) <= tlvLen /\ (level = 1 => tlvLen = Len(b))
    BY DEF AtItsValue
  <2> QED BY <1>1, <1>3, <2>1, <2>2 DEF Arrives
<1>5. Ok(r) /\ r.at = Len(b) /\ r.v = y
  BY <1>4, Results
<1>6. TakeValue(dec, ei, buf, from, level, s, tlvLen) =
        IF TooLong(e, n) \/ ~ Ok(r) THEN DecodeFailed
        ELSE DecodeState(s.at + r.at, s.i + 1, n, [s.v EXCEPT ![s.i] = r.v])
  <2>1. CASE e.type = "basic"
    BY <1>1, <1>2, <1>3, <2>1 DEF TakeValue, DecodeValue, Ok
  <2>2. CASE e.type = "struct"
    BY <1>1, <1>2, <1>3, <2>2 DEF TakeValue, DecodeValue, Ok
  <2>3. CASE e.type = "string"
    BY <1>1, <1>2, <1>3, <2>3 DEF TakeValue, DecodeValue, Ok
  <2> QED BY <1>2, <2>1, <2>2, <2>3 DEF IsValue
<1> QED BY <1>2, <1>5, <1>6 DEF With, ValueRead

-----------------------------------------------------------------------------
(* Nested structures: qmi_decode goes on where qmi_encode went on.         *)

\* A structure whose elements before i are there.
Partial(ei, v, i) == [j \in DOMAIN ei |-> IF j < i THEN v[j] ELSE Blank(ei[j])]

\* With its next value, a structure is filled in further.
LEMMA PartialNext ==
  ASSUME NEW ei, NEW v, NEW i \in Int, IsSequence(ei), i \in DOMAIN ei
  PROVE  With(Partial(ei, v, i), i, v[i]) = Partial(ei, v, i + 1)
<1>1. ASSUME NEW j \in DOMAIN ei
      PROVE  (IF j = i THEN v[i] ELSE IF j < i THEN v[j] ELSE Blank(ei[j]))
               = IF j < i + 1 THEN v[j] ELSE Blank(ei[j])
  BY DEF IsSequence
<1> QED BY <1>1 DEF Partial, With

\* From a zeroed structure to the whole one.
LEMMA PartialEnds ==
  ASSUME NEW ei, NEW v, NEW level \in Int, IsSequence(ei), ValidStructure(level, ei, v)
  PROVE  Partial(ei, v, 1) = Zeroed(ei) /\ Partial(ei, v, Len(ei) + 1) = v
<1>1. \A j \in DOMAIN ei : j \in Int /\ ~ (j < 1) /\ j < Len(ei) + 1
  BY DEF IsSequence
<1>2. v = [i \in DOMAIN ei |-> v[i]]
  BY DEF ValidStructure
<1>3. Partial(ei, v, 1) = Zeroed(ei)
  BY <1>1 DEF Partial, Zeroed
<1>4. Partial(ei, v, Len(ei) + 1) = [i \in DOMAIN ei |-> v[i]]
  BY <1>1 DEF Partial
<1> QED BY <1>2, <1>3, <1>4

\* qmi_decode in a structure, when its encoder was in front of i with q complete.
NestedRel(ei, v, d, q, i) ==
  /\ Ok(d) /\ d.at = Len(q) /\ Short(ei, d.n, i)
  /\ d.i = (IF Pending(ei, i) THEN i - 1 ELSE i)
  /\ d.v = Partial(ei, v, d.i)

\* When it has taken the length, if there is one.
AtValue(ei, v, s, c, at) ==
  /\ s.at = at /\ s.i = c /\ DataLen(ei[c], s.n) = LenOf(ei, v, c) /\ s.v = Partial(ei, v, c)

\* qmi_decode takes the length in front of an array, if there is one.
LEMMA NestedLead ==
  ASSUME NEW ei, NEW v, NEW buf, NEW d, NEW q, NEW level \in Int, NEW i \in Int, NEW c \in Int,
         NEW from \in Int, buf \in Seq(Nat), from \in Nat, q \in Seq(Nat), Legal(level, ei),
         ValidStructure(level, ei, v), level > 1, NestedRel(ei, v, d, q, i), c \in DOMAIN ei,
         i \in DOMAIN ei, c = i \/ (c = i + 1 /\ ei[i].type = "len"), IsValue(ei[c]),
         Match(buf, from + Len(q), Lead(ei, v, c))
  PROVE  /\ d.i \in 1..Len(ei)
         /\ AtValue(ei, v, TakeLen(ei, buf, from, TakeFlag(ei, d)), c, Len(q) + Len(Lead(ei, v, c)))
<1>1. Ok(d) /\ d.at = Len(q) /\ Short(ei, d.n, i) /\ d.n \in Nat /\ d.v = Partial(ei, v, d.i)
  BY DEF NestedRel, Short
<1>2. ElemFacts(level, ei, c) /\ DOMAIN ei = 1..Len(ei) /\ Len(ei) \in Nat /\ IsSequence(ei)
  BY LegalElems DEF Legal, IsSequence
<1>3. Len(q) \in Nat
  OBVIOUS
<1>4. CASE ei[c].array_type = "var"
  <2>1. PICK l \in Int : l = c - 1 /\ l + 1 = c
    <3>1. (c - 1) \in Int /\ (c - 1) + 1 = c
      OBVIOUS
    <3> QED BY <3>1, Zenon
  <2>2. l \in DOMAIN ei /\ ei[l].type = "len" /\ l \in 1..Len(ei)
    BY <1>2, <1>4, <2>1 DEF ElemFacts
  <2>3. d.i = l
    <3>1. CASE c = i
      BY <1>4, <2>1, <3>1 DEF NestedRel, Pending
    <3>2. CASE c = i + 1 /\ ei[i].type = "len"
      <4>1. ~ Pending(ei, i)
        <5>1. i = l /\ ElemFacts(level, ei, i)
          BY <2>1, <2>2, <3>2, LegalElems
        <5> QED BY <3>2, <5>1 DEF ElemFacts, IsValue, Pending
      <4> QED BY <2>1, <3>2, <4>1 DEF NestedRel
    <3> QED BY <3>1, <3>2
  <2>4. PICK m \in Int : m = v[l] /\ m \in Nat /\ m < Limit(LenSize(ei[l]))
    <3>1. InForce(level, ei, v, l)
      BY DEF InForce
    <3>2. ValueFacts(level, ei, v, l)
      BY <2>2, <3>1, ValidElems
    <3> QED BY <2>2, <3>2 DEF ValueFacts
  <2>5. Lead(ei, v, c) = Bytes(m, LenSize(ei[l])) /\ Len(Lead(ei, v, c)) = LenSize(ei[l])
    <3>1. Lead(ei, v, c) = Bytes(m, LenSize(ei[l]))
      BY <1>4, <2>1, <2>4 DEF Lead, Pending
    <3>2. Len(Bytes(m, LenSize(ei[l]))) = LenSize(ei[l])
      BY <2>4, Sizes, BytesMatch
    <3> QED BY <3>1, <3>2
  <2>6. TakeFlag(ei, d) = d
    BY <2>2, <2>3 DEF TakeFlag
  <2>7. d.n < Limit(LenSize(ei[l]))
    <3>1. l = i \/ l = i - 1
      BY <2>1
    <3>2. PICK n : n = d.n
      OBVIOUS
    <3>3. Short(ei, n, i)
      BY <1>1, <3>2
    <3>4. n < Limit(LenSize(ei[l]))
      BY <2>2, <3>1, <3>3, ShortFits
    <3> QED BY <3>2, <3>4
  <2>8. LengthRead(ei, d, TakeLen(ei, buf, from, d), m)
    <3>1. AtLength(ei, buf, from, d, m)
      BY <1>1, <1>3, <2>2, <2>3, <2>4, <2>5, <2>7 DEF AtLength
    <3> QED BY <2>4, <3>1, LengthTaken
  <2>9. With(d.v, d.i, m) = Partial(ei, v, c)
    <3>1. With(Partial(ei, v, l), l, v[l]) = Partial(ei, v, l + 1)
      BY <1>2, <2>2, PartialNext
    <3> QED BY <1>1, <2>1, <2>3, <2>4, <3>1
  <2>10. PICK s : s = TakeLen(ei, buf, from, TakeFlag(ei, d))
    OBVIOUS
  <2>11. s.at = Len(q) + LenSize(ei[l]) /\ s.i = c /\ s.n = m /\ s.v = Partial(ei, v, c)
    <3>1. PICK x, y : x = d.at + LenSize(ei[d.i]) /\ y = Partial(ei, v, c)
      OBVIOUS
    <3>2. s = DecodeState(x, c, m, y)
      BY <2>1, <2>3, <2>6, <2>8, <2>9, <2>10, <3>1 DEF LengthRead
    <3>3. s.at = x /\ s.i = c /\ s.n = m /\ s.v = y
      BY <3>2, DecodeStates
    <3> QED BY <1>1, <2>3, <3>1, <3>3
  <2>12. DataLen(ei[c], s.n) = LenOf(ei, v, c)
    BY <1>4, <2>1, <2>4, <2>11 DEF LenOf, DataLen
  <2> QED BY <2>2, <2>3, <2>5, <2>10, <2>11, <2>12 DEF AtValue
<1>5. CASE ei[c].array_type # "var"
  <2>1. c = i
    <3>1. CASE c = i + 1 /\ ei[i].type = "len"
      <4>1. ElemFacts(level, ei, i)
        BY LegalElems
      <4> QED BY <1>5, <3>1, <4>1 DEF ElemFacts
    <3> QED BY <3>1
  <2>2. ~ Pending(ei, c) /\ Lead(ei, v, c) = << >>
    BY <1>5 DEF Pending, Lead
  <2>3. d.i = c
    BY <2>1, <2>2 DEF NestedRel
  <2>4. TakeLen(ei, buf, from, TakeFlag(ei, d)) = d
    BY <2>3 DEF TakeLen, TakeFlag, IsValue
  <2>5. Len(q) + Len(Lead(ei, v, c)) = Len(q)
    BY <1>3, <2>2
  <2>6. DataLen(ei[c], d.n) = LenOf(ei, v, c)
    BY <1>2, <1>5 DEF LenOf, DataLen, ElemFacts
  <2> QED BY <1>1, <1>2, <2>3, <2>4, <2>5, <2>6 DEF AtValue
<1> QED BY <1>4, <1>5

\* Values and their lengths in front of an element.
LEMMA AtValues ==
  ASSUME NEW ei, NEW v, NEW dec, NEW b, NEW level \in Int, NEW c \in Int, Legal(level, ei),
         ValidStructure(level, ei, v), Carried(level, ei, v, dec, c, b)
  PROVE  /\ c \in DOMAIN ei /\ IsValue(ei[c]) /\ InForce(level, ei, v, c) /\ b \in Seq(Nat)
         /\ Lead(ei, v, c) \in Seq(Nat) /\ LenOf(ei, v, c) \in Nat
         /\ ~ TooLong(ei[c], LenOf(ei, v, c))
         /\ Short(ei, LenOf(ei, v, c), c + 1)
         /\ Arrives(dec, level, ei[c], LenOf(ei, v, c), v[c], b)
<1>1. /\ c \in DOMAIN ei /\ IsValue(ei[c]) /\ InForce(level, ei, v, c)
      /\ Arrives(dec, level, ei[c], LenOf(ei, v, c), v[c], b)
  BY DEF Carried
<1>2. b \in Seq(Nat)
  BY <1>1 DEF Arrives
<1>3. Lead(ei, v, c) \in Seq(Nat)
  BY <1>1, LeadBytes
<1>4. LenOf(ei, v, c) \in Nat /\ ~ TooLong(ei[c], LenOf(ei, v, c))
  BY <1>1, ValidElems DEF ValueFacts
<1>5. Short(ei, LenOf(ei, v, c), c + 1)
  <2>1. PICK n \in Int : n = LenOf(ei, v, c) /\ n \in Nat /\ ~ TooLong(ei[c], n)
    BY <1>4
  <2>2. (ei[c].array_type = "none" => n = 1) /\ (ei[c].array_type = "static" => n = ei[c].elem_len)
    BY <2>1 DEF LenOf, DataLen
  <2>3. PICK i \in Int : i = c + 1 /\ c < i
    OBVIOUS
  <2>4. Short(ei, n, i)
    BY <1>1, <2>1, <2>2, <2>3, ShortNext
  <2> QED BY <2>1, <2>3, <2>4
<1> QED BY <1>1, <1>2, <1>3, <1>4, <1>5

\* In a structure what is complete takes bytes.
LEMMA NestedBytes ==
  ASSUME NEW ei, NEW v, NEW dec, NEW b, NEW level \in Int, NEW c \in Int, Legal(level, ei),
         ValidStructure(level, ei, v), Carried(level, ei, v, dec, c, b), level > 1
  PROVE  Len(Lead(ei, v, c)) + Len(b) > 0
<1>1. /\ c \in DOMAIN ei /\ IsValue(ei[c]) /\ InForce(level, ei, v, c) /\ b \in Seq(Nat)
      /\ Lead(ei, v, c) \in Seq(Nat) /\ Arrives(dec, level, ei[c], LenOf(ei, v, c), v[c], b)
      /\ LenOf(ei, v, c) \in Nat
  BY AtValues
<1>2. PICK a \in Nat : a = Len(Lead(ei, v, c))
  BY <1>1
<1>3. PICK n \in Nat : n = Len(b)
  BY <1>1
<1>4. ElemFacts(level, ei, c)
  BY <1>1, LegalElems
<1>5. CASE ei[c].array_type = "var"
  <2>1. PICK l \in Int : l = c - 1
    OBVIOUS
  <2>2. l \in DOMAIN ei /\ ei[l].type = "len" /\ InForce(level, ei, v, l)
    BY <1>1, <1>4, <1>5, <2>1, ForceOfLength DEF ElemFacts
  <2>3. v[l] \in Nat
    BY <2>2, ValidElems DEF ValueFacts
  <2>4. PICK m \in Int : m = v[l] /\ m \in Nat
    BY <2>3
  <2>5. Lead(ei, v, c) = Bytes(m, LenSize(ei[l]))
    BY <1>1, <1>5, <2>1, <2>4 DEF Lead, Pending
  <2>6. LenSize(ei[l]) \in {1, 2}
    BY Sizes
  <2>7. Len(Bytes(m, LenSize(ei[l]))) = LenSize(ei[l])
    BY <2>4, <2>6, BytesMatch
  <2>8. a > 0
    BY <1>2, <2>5, <2>6, <2>7
  <2> QED BY <1>2, <1>3, <2>8
<1>6. CASE ei[c].array_type # "var"
  <2>1. LenOf(ei, v, c) > 0
    BY <1>4, <1>6 DEF LenOf, DataLen, ElemFacts
  <2>2. n > 0
    BY <1>1, <1>3, <2>1 DEF Arrives
  <2> QED BY <1>2, <1>3, <2>2
<1> QED BY <1>5, <1>6

\* In a structure qmi_decode has nothing to do where qmi_encode completes nothing.
LEMMA NestedWait ==
  ASSUME NEW ei, NEW v, NEW d, NEW q, NEW level \in Int, NEW i \in Int, NEW j \in Int,
         Legal(level, ei), level > 1, NestedRel(ei, v, d, q, i), i \in DOMAIN ei,
         Waits(ei, v, level, i, j)
  PROVE  NestedRel(ei, v, d, q, j)
<1>1. ElemFacts(level, ei, i)
  BY LegalElems
<1>2. ei[i].type = "len" /\ j = i + 1
  BY <1>1 DEF Waits, ElemFacts
<1>3. j \in DOMAIN ei /\ ei[j].array_type = "var" /\ ei[i].array_type = "none"
  BY <1>1, <1>2 DEF ElemFacts, IsValue
<1>4. Pending(ei, j) /\ ~ Pending(ei, i) /\ j - 1 = i
  BY <1>2, <1>3 DEF Pending
<1>5. Ok(d) /\ d.at = Len(q) /\ Short(ei, d.n, i) /\ d.i = i /\ d.v = Partial(ei, v, d.i)
  BY <1>4 DEF NestedRel
<1>6. Short(ei, d.n, j)
  <2>1. PICK n : n = d.n
    OBVIOUS
  <2>2. Short(ei, n, i) /\ i <= j
    BY <1>2, <1>5, <2>1
  <2>3. Short(ei, n, j)
    BY <2>2, ShortLater
  <2> QED BY <2>1, <2>3
<1> QED BY <1>4, <1>5, <1>6 DEF NestedRel

\* In a structure qmi_decode takes what qmi_encode completed.
LEMMA NestedTurn ==
  ASSUME NEW ei, NEW v, NEW dec, NEW buf, NEW d, NEW q, NEW j, NEW p, NEW b, NEW level \in Int,
         NEW i \in Int, NEW c \in Int, NEW from \in Int, NEW len \in Int, buf \in Seq(Nat),
         from \in Nat, len \in Nat, q \in Seq(Nat), Legal(level, ei), ValidStructure(level, ei, v),
         level > 1, NestedRel(ei, v, d, q, i), i \in DOMAIN ei,
         Completes(level, ei, v, dec, i, q, j, p, c, b), Match(buf, from, p), Len(p) <= len
  PROVE  /\ Len(p) > Len(q)
         /\ NestedRel(ei, v, DecodeNext(dec, ei, buf, from, len, level, d), p, j)
<1>1. /\ c = i \/ (c = i + 1 /\ ei[i].type = "len" /\ v[i] = 0)
      /\ Carried(level, ei, v, dec, c, b) /\ j = c + 1
      /\ p = Cat(q, Frame(level, ei[i].tlv_type, Cat(Lead(ei, v, c), b)))
  BY DEF Completes
<1>2. /\ c \in DOMAIN ei /\ IsValue(ei[c]) /\ b \in Seq(Nat)
      /\ Lead(ei, v, c) \in Seq(Nat) /\ LenOf(ei, v, c) \in Nat /\ ~ TooLong(ei[c], LenOf(ei, v, c))
      /\ Short(ei, LenOf(ei, v, c), c + 1) /\ Arrives(dec, level, ei[c], LenOf(ei, v, c), v[c], b)
  BY <1>1, AtValues
<1>3. PICK L : L = Lead(ei, v, c) /\ L \in Seq(Nat)
  BY <1>2
<1>4. p = Cat(Cat(q, L), b) /\ Cat(q, L) \in Seq(Nat) /\ Len(Cat(q, L)) = Len(q) + Len(L)
  <2>1. p = Cat(q, Cat(L, b))
    BY <1>1, <1>3 DEF Frame
  <2>2. b \in Seq(Nat) /\ q \in Seq(Nat)
    BY <1>2
  <2>3. Cat(Cat(q, L), b) = Cat(q, Cat(L, b))
    BY <1>3, <2>2, CatGroup
  <2>4. Cat(q, L) \in Seq(Nat) /\ Len(Cat(q, L)) = Len(q) + Len(L)
    BY <1>3, <2>2, Cats
  <2> QED BY <2>1, <2>3, <2>4
<1>5. PICK nq \in Nat : nq = Len(q)
  OBVIOUS
<1>6. PICK nl \in Nat : nl = Len(L)
  BY <1>3
<1>7. PICK nb \in Nat : nb = Len(b)
  BY <1>2
<1>8. Len(p) = nq + nl + nb
  <2>1. Len(Cat(Cat(q, L), b)) = Len(Cat(q, L)) + Len(b)
    BY <1>2, <1>4, Cats
  <2> QED BY <1>4, <1>5, <1>6, <1>7, <2>1
<1>9. nl + nb > 0
  BY <1>1, <1>3, <1>6, <1>7, NestedBytes
<1>10. Match(buf, from + nq, L) /\ Match(buf, from + (nq + nl), b)
  <2>1. PICK x : x = Cat(q, L) /\ x \in Seq(Nat) /\ Len(x) = nq + nl
    BY <1>4, <1>5, <1>6
  <2>2. Match(buf, from, Cat(x, b))
    BY <1>4, <2>1
  <2>3. Match(buf, from, x) /\ Match(buf, from + Len(x), b)
    BY <1>2, <2>1, <2>2, MatchCat
  <2>4. Match(buf, from, Cat(q, L))
    BY <2>1, <2>3
  <2>5. Match(buf, from + Len(q), L)
    BY <1>3, <2>4, MatchCat
  <2> QED BY <1>5, <2>1, <2>3, <2>5
<1>11. /\ d.i \in 1..Len(ei)
       /\ AtValue(ei, v, TakeLen(ei, buf, from, TakeFlag(ei, d)), c, nq + nl)
  <2>1. Match(buf, from + Len(q), Lead(ei, v, c))
    BY <1>3, <1>5, <1>10
  <2>2. c = i \/ (c = i + 1 /\ ei[i].type = "len")
    BY <1>1
  <2>3. /\ d.i \in 1..Len(ei)
        /\ AtValue(ei, v, TakeLen(ei, buf, from, TakeFlag(ei, d)), c, Len(q) + Len(Lead(ei, v, c)))
    BY <1>2, <2>1, <2>2, NestedLead
  <2> QED BY <1>3, <1>5, <1>6, <2>3
<1>12. PICK s : s = TakeLen(ei, buf, from, TakeFlag(ei, d))
  OBVIOUS
<1>13. /\ s.at = nq + nl /\ s.i = c /\ DataLen(ei[c], s.n) = LenOf(ei, v, c)
       /\ s.v = Partial(ei, v, c)
  BY <1>11, <1>12 DEF AtValue
<1>14. Ok(d) /\ d.at = nq
  BY <1>5 DEF NestedRel
<1>15. PICK r \in Int : r = len - (nq + nl) /\ r \in Nat /\ nb <= r
  BY <1>8
<1>16. DecodeNext(dec, ei, buf, from, len, level, d) = TakeValue(dec, ei, buf, from, level, s, r)
  <2>1. IsSequence(ei)
    BY DEF Legal
  <2>2. ~ (~ d.ok \/ d.at >= len \/ (level > 1 /\ d.i > Len(ei)))
    BY <1>8, <1>9, <1>11, <1>14, <2>1 DEF Ok, IsSequence
  <2>3. DecodeNext(dec, ei, buf, from, len, level, d)
          = DecodeElem(dec, ei, buf, from, level, d, len - d.at)
    BY <2>2 DEF DecodeNext, DecodeTurn
  <2>4. DecodeElem(dec, ei, buf, from, level, d, len - d.at)
          = TakeValue(dec, ei, buf, from, level, s, (len - d.at) - (s.at - d.at))
    BY <1>12 DEF DecodeElem
  <2>5. (len - d.at) - (s.at - d.at) = r
    BY <1>13, <1>14, <1>15
  <2> QED BY <2>3, <2>4, <2>5
<1>17. PICK n : n = LenOf(ei, v, c)
  OBVIOUS
<1>18. PICK e : e = DecodeNext(dec, ei, buf, from, len, level, d)
  OBVIOUS
<1>19. ValueRead(s, e, n, v[c], b)
  <2>1. AtItsValue(dec, level, ei, buf, from, s, r, n, v[c], b)
    <3>1. IsValue(ei[s.i]) /\ n = DataLen(ei[s.i], s.n) /\ ~ TooLong(ei[s.i], n) /\ s.at \in Nat
      BY <1>2, <1>13, <1>17
    <3>2. Arrives(dec, level, ei[s.i], n, v[c], b)
      BY <1>2, <1>13, <1>17
    <3>3. Match(buf, from + s.at, b)
      BY <1>10, <1>13
    <3>4. r \in Nat /\ Len(b) <= r /\ (level = 1 => r = Len(b))
      BY <1>7, <1>15
    <3> QED BY <3>1, <3>2, <3>3, <3>4 DEF AtItsValue
  <2> QED BY <1>15, <1>16, <1>18, <2>1, ValueTaken
<1>20. Ok(e) /\ e.at = Len(p) /\ e.i = c + 1 /\ e.n = n /\ e.v = With(s.v, c, v[c])
  <2>1. PICK x, k, w : x = s.at + Len(b) /\ k = s.i + 1 /\ w = With(s.v, s.i, v[c])
    OBVIOUS
  <2>2. e = DecodeState(x, k, n, w)
    BY <1>19, <2>1 DEF ValueRead
  <2>3. Ok(e) /\ e.at = x /\ e.i = k /\ e.n = n /\ e.v = w
    BY <2>2, DecodeStates
  <2>4. x = Len(p) /\ k = c + 1 /\ w = With(s.v, c, v[c])
    BY <1>7, <1>8, <1>13, <2>1
  <2> QED BY <2>3, <2>4
<1>21. With(s.v, c, v[c]) = Partial(ei, v, c + 1)
  <2>1. IsSequence(ei)
    BY DEF Legal
  <2> QED BY <1>2, <1>13, <2>1, PartialNext
<1>22. ~ Pending(ei, c + 1)
  <2>1. ASSUME Pending(ei, c + 1) PROVE FALSE
    <3>1. PICK k \in Int : k = c + 1 /\ k - 1 = c
      OBVIOUS
    <3>2. k \in DOMAIN ei /\ ei[k].array_type = "var"
      BY <2>1, <3>1 DEF Pending
    <3>3. ElemFacts(level, ei, k)
      BY <3>2, LegalElems
    <3>4. ei[c].type = "len"
      BY <3>1, <3>2, <3>3 DEF ElemFacts
    <3> QED BY <1>2, <3>4 DEF IsValue
  <2> QED BY <2>1
<1>23. NestedRel(ei, v, e, p, j)
  <2>1. Short(ei, e.n, j)
    BY <1>1, <1>2, <1>17, <1>20
  <2> QED BY <1>1, <1>20, <1>21, <1>22, <2>1 DEF NestedRel
<1> QED BY <1>5, <1>8, <1>9, <1>18, <1>23

-----------------------------------------------------------------------------
(* Messages: a receiver may know fewer elements.                           *)

\* Flags open their TLV.
LEMMA FlagStarts ==
  ASSUME NEW ei, NEW i \in Int, Legal(1, ei), i \in DOMAIN ei, ei[i].type = "opt"
  PROVE  NewTlv(ei, i)
<1>1. DOMAIN ei = 1..Len(ei) /\ Len(ei) \in Nat
  BY DEF Legal, IsSequence
<1>2. SUFFICES ASSUME NEW j \in 1..(i - 1), SameTlv(ei, i, j) PROVE FALSE
  BY DEF NewTlv
<1>3. \A k \in j..(i - 1) : SameTlv(ei, i, k) /\ ei[k].type \in {"opt", "len"}
  <2>1. LegalTlv(ei, i)
    BY DEF Legal
  <2> QED BY <1>2, <2>1 DEF LegalTlv
<1>4. PICK l \in Int : l = i - 1 /\ l + 1 = i
  OBVIOUS
<1>5. l \in j..(i - 1) /\ l \in DOMAIN ei
  BY <1>1, <1>4
<1>6. CASE ei[l].type = "opt"
  <2>1. LegalTlv(ei, l)
    BY <1>5 DEF Legal
  <2>2. ei[l + 1].type # "opt"
    BY <1>6, <2>1 DEF LegalTlv
  <2> QED BY <1>4, <2>2
<1>7. CASE ei[l].type = "len"
  <2>1. ElemFacts(1, ei, l) /\ ElemFacts(1, ei, i)
    BY <1>5, LegalElems
  <2>2. ei[i].array_type = "var"
    BY <1>4, <1>7, <2>1 DEF ElemFacts
  <2> QED BY <2>1, <2>2 DEF ElemFacts, IsValue
<1> QED BY <1>3, <1>5, <1>6, <1>7

\* The TLV of value c starts at h; behind its flag, if it has one, comes g: the
\* value, or the length of an array.
Tlv(ei, h, g, c) ==
  /\ NewTlv(ei, h) /\ h \in DOMAIN ei /\ g \in DOMAIN ei
  /\ g = IF ei[h].type = "opt" THEN h + 1 ELSE h
  /\ ei[g].type # "opt"
  /\ c = IF ei[g].type = "len" THEN g + 1 ELSE g
  /\ ei[g].type = "len" <=> ei[c].array_type = "var"
  /\ \A k \in DOMAIN ei : SameTlv(ei, c, k) <=> k \in h..c

\* Every value is in a TLV, which starts with its flag or length if it has one.
LEMMA TlvExists ==
  ASSUME NEW ei, NEW c \in Int, Legal(1, ei), c \in DOMAIN ei, IsValue(ei[c])
  PROVE  \E h \in Int : \E g \in Int : Tlv(ei, h, g, c)
<1>1. DOMAIN ei = 1..Len(ei) /\ Len(ei) \in Nat
  BY DEF Legal, IsSequence
<1>2. \A i \in DOMAIN ei : LegalTlv(ei, i)
  BY DEF Legal
<1>3. \A i \in Int : i \in DOMAIN ei => ElemFacts(1, ei, i)
  BY LegalElems
<1>4. PICK g \in Int : g = IF ei[c].array_type = "var" THEN c - 1 ELSE c
  OBVIOUS
<1>5. /\ g \in DOMAIN ei /\ SameTlv(ei, c, g) /\ ei[g].type # "opt"
      /\ c = IF ei[g].type = "len" THEN g + 1 ELSE g
      /\ ei[g].type = "len" <=> ei[c].array_type = "var"
  <2>1. CASE ei[c].array_type = "var"
    <3>1. g = c - 1 /\ g + 1 = c
      BY <1>4, <2>1
    <3>2. g \in DOMAIN ei /\ ei[g].type = "len"
      BY <1>3, <2>1, <3>1 DEF ElemFacts
    <3>3. SameTlv(ei, g, g + 1)
      BY <1>2, <3>2 DEF LegalTlv
    <3>4. SameTlv(ei, c, g)
      BY <3>1, <3>3 DEF SameTlv
    <3> QED BY <2>1, <3>1, <3>2, <3>4
  <2>2. CASE ei[c].array_type # "var"
    <3>1. g = c
      BY <1>4, <2>2
    <3>2. ei[c].type # "opt" /\ ei[c].type # "len"
      BY DEF IsValue
    <3> QED BY <2>2, <3>1, <3>2 DEF SameTlv
  <2> QED BY <2>1, <2>2
<1>6. PICK p \in Int : p = g - 1 /\ p + 1 = g
  OBVIOUS
<1>7. PICK h \in Int : h = IF p \in DOMAIN ei /\ SameTlv(ei, g, p) THEN p ELSE g
  OBVIOUS
<1>8. /\ h \in DOMAIN ei /\ NewTlv(ei, h) /\ SameTlv(ei, c, h)
      /\ g = IF ei[h].type = "opt" THEN h + 1 ELSE h
  <2>1. CASE p \in DOMAIN ei /\ SameTlv(ei, g, p)
    <3>1. h = p
      BY <1>7, <2>1
    <3>2. p \in 1..(g - 1)
      BY <1>1, <1>6, <2>1
    <3>3. p \in p..(g - 1)
      BY <1>6
    <3>4. ei[p].type \in {"opt", "len"}
      <4>1. LegalTlv(ei, g)
        BY <1>2, <1>5
      <4> QED BY <2>1, <3>2, <3>3, <4>1 DEF LegalTlv
    <3>5. ei[p].type # "len"
      <4>1. ASSUME ei[p].type = "len" PROVE FALSE
        <5>1. ei[g].array_type = "var"
          BY <1>3, <1>6, <2>1, <4>1 DEF ElemFacts
        <5>2. IsValue(ei[g]) /\ g \in DOMAIN ei
          BY <1>3, <1>5, <5>1 DEF ElemFacts
        <5>3. g = c
          BY <1>5, <5>2 DEF IsValue
        <5>4. ei[g].type = "len"
          BY <1>5, <5>1, <5>3
        <5> QED BY <5>2, <5>4 DEF IsValue
      <4> QED BY <4>1
    <3>6. ei[p].type = "opt"
      BY <3>4, <3>5
    <3>7. NewTlv(ei, p)
      BY <2>1, <3>6, FlagStarts
    <3>8. SameTlv(ei, c, p)
      BY <1>5, <2>1 DEF SameTlv
    <3> QED BY <1>6, <2>1, <3>1, <3>6, <3>7, <3>8
  <2>2. CASE ~ (p \in DOMAIN ei /\ SameTlv(ei, g, p))
    <3>1. h = g
      BY <1>7, <2>2
    <3>2. ASSUME NEW j \in 1..(g - 1), SameTlv(ei, g, j) PROVE FALSE
      <4>1. LegalTlv(ei, g)
        BY <1>2, <1>5
      <4>2. p \in j..(g - 1) /\ p \in DOMAIN ei
        BY <1>1, <1>5, <1>6, <3>2
      <4>3. SameTlv(ei, g, p)
        BY <3>2, <4>1, <4>2 DEF LegalTlv
      <4> QED BY <2>2, <4>2, <4>3
    <3>3. NewTlv(ei, g)
      BY <3>2 DEF NewTlv
    <3> QED BY <1>5, <3>1, <3>3
  <2> QED BY <2>1, <2>2
<1>9. ASSUME NEW k \in DOMAIN ei PROVE SameTlv(ei, c, k) <=> k \in h..c
  <2>1. k \in Int /\ k \in 1..Len(ei) /\ h \in 1..Len(ei)
    BY <1>1, <1>8
  <2>2. ASSUME k \in h..c PROVE SameTlv(ei, c, k)
    <3>1. k = h \/ k = g \/ k = c
      BY <1>5, <1>8, <2>2
    <3>2. SameTlv(ei, c, c)
      BY DEF SameTlv
    <3> QED BY <1>5, <1>8, <3>1, <3>2
  <2>3. ASSUME SameTlv(ei, c, k), k < h PROVE FALSE
    <3>1. k \in 1..(h - 1)
      BY <2>1, <2>3
    <3>2. ~ SameTlv(ei, h, k)
      BY <1>8, <3>1 DEF NewTlv
    <3> QED BY <1>8, <2>3, <3>2 DEF SameTlv
  <2>4. ASSUME SameTlv(ei, c, k), k > c PROVE FALSE
    <3>1. c \in 1..(k - 1) /\ c \in c..(k - 1)
      BY <1>1, <2>1, <2>4
    <3>2. SameTlv(ei, k, c)
      BY <2>4 DEF SameTlv
    <3>3. LegalTlv(ei, k)
      BY <1>2
    <3>4. ei[c].type \in {"opt", "len"}
      BY <3>1, <3>2, <3>3 DEF LegalTlv
    <3> QED BY <3>4 DEF IsValue
  <2> QED BY <2>1, <2>2, <2>3, <2>4
<1> QED BY <1>5, <1>8, <1>9 DEF Tlv

\* No two elements of a message are the same.
LEMMA ElemsDiffer ==
  ASSUME NEW ei, NEW i \in Int, NEW k \in Int, Legal(1, ei), i \in DOMAIN ei, k \in DOMAIN ei, i < k
  PROVE  ei[i] # ei[k]
<1>1. DOMAIN ei = 1..Len(ei) /\ Len(ei) \in Nat
  BY DEF Legal, IsSequence
<1>2. SUFFICES ASSUME ei[i] = ei[k] PROVE FALSE
  OBVIOUS
<1>3. SameTlv(ei, k, i) /\ i \in 1..(k - 1)
  BY <1>1, <1>2 DEF SameTlv
<1>4. \A m \in i..(k - 1) : SameTlv(ei, k, m) /\ ei[m].type \in {"opt", "len"}
  <2>1. LegalTlv(ei, k)
    BY DEF Legal
  <2> QED BY <1>3, <2>1 DEF LegalTlv
<1>5. ei[i].type \in {"opt", "len"}
  BY <1>3, <1>4
<1>6. CASE ei[i].type = "opt"
  <2>1. NewTlv(ei, k)
    BY <1>2, <1>6, FlagStarts
  <2> QED BY <1>3, <2>1 DEF NewTlv
<1>7. CASE ei[i].type = "len"
  <2>1. ElemFacts(1, ei, i)
    BY LegalElems
  <2>2. i + 1 \in DOMAIN ei /\ ei[i + 1].array_type = "var"
    BY <1>7, <2>1 DEF ElemFacts
  <2>3. ElemFacts(1, ei, i + 1)
    BY <2>2, LegalElems
  <2>4. IsValue(ei[i + 1])
    BY <2>2, <2>3 DEF ElemFacts
  <2>5. CASE i + 1 = k
    BY <1>2, <1>7, <2>4, <2>5 DEF IsValue
  <2>6. CASE i + 1 # k
    <3>1. i + 1 \in i..(k - 1)
      BY <1>1, <2>6
    <3> QED BY <1>4, <2>4, <3>1 DEF IsValue
  <2> QED BY <2>5, <2>6
<1> QED BY <1>5, <1>6, <1>7

\* What a receiver that does not know some types has of a descriptor: element i
\* is its element pos[i].
Knows(ei, types, i) == i \in DOMAIN ei /\ ei[i].tlv_type \notin types

Reader(ei, rd, types, pos) ==
  /\ IsSequence(rd) /\ \A t \in types : t >= OptionalStart
  /\ \A i \in Int : Knows(ei, types, i) => pos[i] \in DOMAIN rd /\ rd[pos[i]] = ei[i]
  /\ \A x \in DOMAIN rd : \E i \in Int : Knows(ei, types, i) /\ pos[i] = x
  /\ \A i \in Int, j \in Int : Knows(ei, types, i) /\ Knows(ei, types, j) /\ i < j => pos[i] < pos[j]
  /\ \A i \in Int : Knows(ei, types, i) /\ Knows(ei, types, i + 1) => pos[i + 1] = pos[i] + 1

\* Elements have places of their own.
LEMMA PosDiffer ==
  ASSUME NEW ei, NEW rd, NEW types, NEW pos, NEW i \in Int, NEW j \in Int,
         Reader(ei, rd, types, pos), Knows(ei, types, i), Knows(ei, types, j), pos[i] = pos[j]
  PROVE  i = j
<1>1. pos[i] \in DOMAIN rd /\ DOMAIN rd = 1..Len(rd) /\ Len(rd) \in Nat
  BY DEF Reader, IsSequence
<1>2. PICK a \in Int : a = pos[i] /\ a = pos[j]
  BY <1>1
<1>3. ~ (i < j)
  <2>1. i < j => pos[i] < pos[j]
    BY DEF Reader
  <2> QED BY <1>2, <2>1
<1>4. ~ (j < i)
  <2>1. j < i => pos[j] < pos[i]
    BY DEF Reader
  <2> QED BY <1>2, <2>1
<1> QED BY <1>3, <1>4

\* The elements from h to the one before k have been filled in, starting with w.
Filled(ei, rd, types, pos, v, x, w, h, k) ==
  /\ x = [y \in DOMAIN rd |-> x[y]]
  /\ \A m \in Int : Knows(ei, types, m) => x[pos[m]] = IF h <= m /\ m < k THEN v[m] ELSE w[pos[m]]

\* With the value of element k, a receiver's structure is filled in up to it.
LEMMA FilledNext ==
  ASSUME NEW ei, NEW rd, NEW types, NEW pos, NEW v, NEW x, NEW w, NEW h \in Int, NEW k \in Int,
         Reader(ei, rd, types, pos), Filled(ei, rd, types, pos, v, x, w, h, k), h <= k,
         Knows(ei, types, k)
  PROVE  Filled(ei, rd, types, pos, v, With(x, pos[k], v[k]), w, h, k + 1)
<1>1. PICK z : z = With(x, pos[k], v[k])
  OBVIOUS
<1>2. DOMAIN x = DOMAIN rd
  BY DEF Filled
<1>3. /\ z = [y \in DOMAIN rd |-> z[y]]
      /\ \A y \in DOMAIN rd : z[y] = IF y = pos[k] THEN v[k] ELSE x[y]
  BY <1>1, <1>2 DEF With
<1>4. ASSUME NEW m \in Int, Knows(ei, types, m)
      PROVE  z[pos[m]] = IF h <= m /\ m < k + 1 THEN v[m] ELSE w[pos[m]]
  <2>1. pos[m] \in DOMAIN rd
    BY <1>4 DEF Reader
  <2>2. CASE m = k
    BY <1>3, <2>1, <2>2
  <2>3. CASE m # k
    <3>1. pos[m] # pos[k]
      BY <1>4, <2>3, PosDiffer
    <3>2. z[pos[m]] = x[pos[m]]
      BY <1>3, <2>1, <3>1
    <3>3. x[pos[m]] = IF h <= m /\ m < k THEN v[m] ELSE w[pos[m]]
      BY <1>4 DEF Filled
    <3>4. m < k <=> m < k + 1
      BY <2>3
    <3> QED BY <3>2, <3>3, <3>4
  <2> QED BY <2>2, <2>3
<1> QED BY <1>1, <1>3, <1>4 DEF Filled

\* When qmi_encode is in front of i, the TLVs of these elements are complete.
Complete(ei, i, k) == k < i /\ (i > Len(ei) \/ ~ SameTlv(ei, k, i))

\* qmi_decode in a message, when its encoder was in front of i with q complete.
MessageRel(ei, rd, types, pos, v, d, q, i) ==
  /\ Ok(d) /\ d.at = Len(q) /\ Short(ei, d.n, i)
  /\ d.v = [x \in DOMAIN rd |-> d.v[x]]
  /\ \A k \in Int : Knows(ei, types, k) =>
       d.v[pos[k]] = IF Complete(ei, i, k) THEN v[k] ELSE Blank(ei[k])

\* A turn of qmi_encode that completes nothing.
LEMMA SameComplete ==
  ASSUME NEW ei, NEW v, NEW i \in Int, NEW j \in Int, NEW k \in Int, Legal(1, ei),
         ValidStructure(1, ei, v), i \in DOMAIN ei, k \in DOMAIN ei, Waits(ei, v, 1, i, j)
  PROVE  /\ i < j
         /\ Complete(ei, i, k) => Complete(ei, j, k)
         /\ Complete(ei, j, k) /\ ~ Complete(ei, i, k) => v[k] = Blank(ei[k])
<1>1. DOMAIN ei = 1..Len(ei) /\ Len(ei) \in Nat
  BY DEF Legal, IsSequence
<1>2. i \in 1..Len(ei) /\ k \in 1..Len(ei) /\ LegalTlv(ei, i)
  BY <1>1 DEF Legal
<1>3. CASE j = i + 1 /\ (ei[i].type = "len" \/ ei[i].type = "opt")
  <2>1. SameTlv(ei, i, i + 1)
    BY <1>2, <1>3 DEF LegalTlv
  <2>2. i < Len(ei)
    <3>1. CASE ei[i].type = "opt"
      BY <1>2, <3>1 DEF LegalTlv
    <3>2. CASE ei[i].type = "len"
      BY <1>1, <3>2, LegalElems DEF ElemFacts
    <3> QED BY <1>3, <3>1, <3>2
  <2>3. SameTlv(ei, k, j) <=> SameTlv(ei, k, i)
    BY <1>3, <2>1 DEF SameTlv
  <2>4. SameTlv(ei, i, i)
    BY DEF SameTlv
  <2>5. Complete(ei, i, k) <=> Complete(ei, j, k)
    BY <1>2, <1>3, <2>2, <2>3, <2>4 DEF Complete
  <2> QED BY <1>3, <2>5
<1>4. CASE ei[i].type = "opt" /\ v[i] = 0 /\ j = SkipToNextElem(ei, i, 1)
  <2>1. /\ j \in (i + 1)..(Len(ei) + 1) /\ (j \in DOMAIN ei => NewTlv(ei, j))
        /\ \A m \in i..(j - 1) : ei[m].tlv_type = ei[i].tlv_type
    BY <1>4, AfterSkip
  <2>2. NewTlv(ei, i)
    BY <1>4, FlagStarts
  <2>3. Complete(ei, j, k) <=> k < j
    <3>1. CASE j > Len(ei)
      BY <1>2, <2>1, <3>1 DEF Complete
    <3>2. CASE j <= Len(ei)
      <4>1. j \in DOMAIN ei
        BY <1>1, <1>2, <2>1, <3>2
      <4>2. ASSUME k < j PROVE ~ SameTlv(ei, k, j)
        <5>1. k \in 1..(j - 1)
          BY <1>2, <2>1, <4>2
        <5> QED BY <2>1, <4>1, <5>1 DEF NewTlv, SameTlv
      <4> QED BY <1>2, <2>1, <3>2, <4>2 DEF Complete
    <3> QED BY <2>1, <1>1, <3>1, <3>2
  <2>4. Complete(ei, i, k) <=> k < i
    <3>1. ASSUME k < i PROVE ~ SameTlv(ei, k, i)
      <4>1. k \in 1..(i - 1)
        BY <1>2, <3>1
      <4> QED BY <2>2, <4>1 DEF NewTlv, SameTlv
    <3> QED BY <1>2, <3>1 DEF Complete
  <2>5. ASSUME ~ (k < i), k < j PROVE v[k] = Blank(ei[k])
    <3>1. CASE k = i
      BY <1>4, <3>1 DEF Blank
    <3>2. CASE k # i
      <4>1. k \in i..(j - 1) /\ i \in 1..(k - 1)
        BY <1>2, <2>1, <2>5, <3>2
      <4>2. SameTlv(ei, k, i)
        BY <2>1, <4>1 DEF SameTlv
      <4>3. v[i] # 1
        BY <1>4
      <4>4. ~ Present(ei, v, k)
        BY <1>4, <4>1, <4>2, <4>3 DEF Present
      <4> QED BY <4>4 DEF ValidStructure
    <3> QED BY <3>1, <3>2
  <2>6. i < j
    BY <1>2, <2>1
  <2> QED BY <1>2, <2>1, <2>3, <2>4, <2>5, <2>6
<1> QED BY <1>3, <1>4 DEF Waits

\* In a message qmi_decode has nothing to do where qmi_encode completes nothing.
LEMMA MessageWait ==
  ASSUME NEW ei, NEW rd, NEW types, NEW pos, NEW v, NEW d, NEW q, NEW i \in Int, NEW j \in Int,
         Legal(1, ei), ValidStructure(1, ei, v), MessageRel(ei, rd, types, pos, v, d, q, i),
         i \in DOMAIN ei, Waits(ei, v, 1, i, j)
  PROVE  MessageRel(ei, rd, types, pos, v, d, q, j)
<1>1. i < j
  BY SameComplete
<1>2. Short(ei, d.n, j)
  <2>1. PICK n : n = d.n
    OBVIOUS
  <2>2. Short(ei, n, i) /\ i <= j
    BY <1>1, <2>1 DEF MessageRel
  <2>3. Short(ei, n, j)
    BY <2>2, ShortLater
  <2> QED BY <2>1, <2>3
<1>3. ASSUME NEW k \in Int, Knows(ei, types, k)
      PROVE  d.v[pos[k]] = IF Complete(ei, j, k) THEN v[k] ELSE Blank(ei[k])
  <2>1. d.v[pos[k]] = IF Complete(ei, i, k) THEN v[k] ELSE Blank(ei[k])
    BY <1>3 DEF MessageRel
  <2>2. k \in DOMAIN ei
    BY <1>3 DEF Knows
  <2>3. /\ Complete(ei, i, k) => Complete(ei, j, k)
        /\ Complete(ei, j, k) /\ ~ Complete(ei, i, k) => v[k] = Blank(ei[k])
    BY <2>2, SameComplete
  <2> QED BY <2>1, <2>3
<1> QED BY <1>2, <1>3 DEF MessageRel

\* Type and length of a TLV are found in front of it.
LEMMA FrameParts ==
  ASSUME NEW buf, NEW type, NEW w, NEW at \in Int, buf \in Seq(Nat), type \in Nat, w \in Seq(Nat),
         at \in Nat, Len(w) < Limit(2), Match(buf, at, Frame(1, type, w))
  PROVE  /\ buf[at + 1] = type /\ Number(Slice(buf, at + 1, 2)) = Len(w)
         /\ Match(buf, at + TlvHead, w)
<1>1. PICK n \in Int : n = Len(w) /\ n \in Nat /\ n < Limit(2)
  OBVIOUS
<1>2. PICK b : b = Bytes(n, 2) /\ b \in Seq(Nat) /\ Len(b) = 2
  <2>1. 2 \in {1, 2}
    OBVIOUS
  <2>2. Bytes(n, 2) \in Seq(Nat) /\ Len(Bytes(n, 2)) = 2
    BY <1>1, <2>1, BytesMatch
  <2> QED BY <2>2
<1>3. PICK t \in Seq(Nat) : t = <<type>> /\ Len(t) = 1 /\ t[1] = type
  <2>1. <<type>> \in Seq(Nat) /\ Len(<<type>>) = 1 /\ <<type>>[1] = type
    OBVIOUS
  <2> QED BY <2>1, Zenon
<1>4. Frame(1, type, w) = Cat(t, Cat(b, w))
  <2>1. Frame(1, type, w) = (t \o b) \o w
    BY <1>1, <1>2, <1>3 DEF Frame
  <2>2. Cat(Cat(t, b), w) = Cat(t, Cat(b, w))
    BY <1>2, CatGroup
  <2> QED BY <2>1, <2>2 DEF Cat
<1>5. Cat(b, w) \in Seq(Nat)
  BY <1>2, Cats
<1>6. PICK y : y = Cat(b, w) /\ y \in Seq(Nat)
  BY <1>5
<1>7. Match(buf, at, t) /\ Match(buf, at + 1, y)
  <2>1. Match(buf, at, Cat(t, y))
    BY <1>4, <1>6
  <2>2. Match(buf, at, t) /\ Match(buf, at + Len(t), y)
    BY <1>6, <2>1, MatchCat
  <2> QED BY <1>3, <2>2
<1>8. PICK m \in Int : m = at + 1
  OBVIOUS
<1>9. Match(buf, m, b) /\ Match(buf, m + 2, w)
  <2>1. Match(buf, m, Cat(b, w))
    BY <1>6, <1>7, <1>8
  <2>2. Match(buf, m, b) /\ Match(buf, m + Len(b), w)
    BY <1>2, <2>1, MatchCat
  <2> QED BY <1>2, <2>2
<1>10. buf[at + 1] = type
  <2>1. 1 \in 1..Len(t)
    BY <1>3
  <2> QED BY <1>3, <1>7, <2>1 DEF Match
<1>11. Number(Slice(buf, at + 1, 2)) = n
  <2>1. Slice(buf, m, Len(b)) = b
    BY <1>9, MatchSlice
  <2>2. Slice(buf, m, 2) = b
    BY <1>2, <2>1
  <2>3. 2 \in {1, 2}
    OBVIOUS
  <2>4. Number(Bytes(n, 2)) = n
    BY <1>1, <2>3, BytesNumber
  <2> QED BY <1>2, <1>8, <2>2, <2>4
<1>12. m + 2 = at + TlvHead
  BY <1>8 DEF TlvHead
<1> QED BY <1>1, <1>9, <1>10, <1>11, <1>12

\* find_ei finds where a TLV starts.
LEMMA FindHead ==
  ASSUME NEW ei, NEW rd, NEW types, NEW pos, NEW h \in Int, NEW g \in Int, NEW c \in Int,
         Reader(ei, rd, types, pos), Tlv(ei, h, g, c), Knows(ei, types, c)
  PROVE  FindEi(rd, ei[c].tlv_type) = pos[h] /\ Knows(ei, types, h) /\ pos[h] # 0
<1>1. DOMAIN rd = 1..Len(rd) /\ Len(rd) \in Nat
  BY DEF Reader, IsSequence
<1>2. c \in DOMAIN ei /\ h \in DOMAIN ei /\ h \in h..c
  <2>1. g <= c /\ h <= g
    BY DEF Tlv
  <2>2. h \in h..c
    BY <2>1
  <2> QED BY <2>2 DEF Tlv, Knows
<1>3. SameTlv(ei, c, h) /\ Knows(ei, types, h)
  <2>1. SameTlv(ei, c, h)
    BY <1>2 DEF Tlv
  <2> QED BY <1>2, <2>1 DEF SameTlv, Knows
<1>4. pos[h] \in DOMAIN rd /\ rd[pos[h]] = ei[h]
  BY <1>3 DEF Reader
<1>5. PICK x \in Int : x = pos[h]
  BY <1>1, <1>4
<1>6. PICK found : found = { y \in DOMAIN rd : rd[y].tlv_type = ei[c].tlv_type }
  OBVIOUS
<1>7. x \in found
  BY <1>3, <1>4, <1>5, <1>6 DEF SameTlv
<1>8. ASSUME NEW y \in found PROVE x <= y
  <2>1. y \in DOMAIN rd /\ rd[y].tlv_type = ei[c].tlv_type /\ y \in Int
    BY <1>1, <1>6
  <2>2. PICK k \in Int : Knows(ei, types, k) /\ pos[k] = y
    BY <2>1 DEF Reader
  <2>3. k \in DOMAIN ei /\ rd[y] = ei[k]
    BY <2>2 DEF Reader, Knows
  <2>4. k \in h..c
    <3>1. SameTlv(ei, c, k)
      BY <2>1, <2>3 DEF SameTlv
    <3> QED BY <2>3, <3>1 DEF Tlv
  <2>5. CASE k = h
    BY <1>5, <2>2, <2>5
  <2>6. CASE k # h
    <3>1. h < k
      BY <2>4, <2>6
    <3>2. pos[h] < pos[k]
      BY <1>3, <2>2, <3>1 DEF Reader
    <3> QED BY <1>5, <2>1, <2>2, <3>2
  <2> QED BY <2>5, <2>6
<1>9. \A y \in found : (\A z \in found : y <= z) => y = x
  <2>1. SUFFICES ASSUME NEW y \in found, \A z \in found : y <= z PROVE y = x
    OBVIOUS
  <2>2. y <= x /\ x <= y /\ y \in Int
    BY <1>1, <1>6, <1>7, <1>8, <2>1
  <2> QED BY <2>2
<1>10. (CHOOSE y \in found : \A z \in found : y <= z) = x
  BY <1>7, <1>8, <1>9
<1>11. FindEi(rd, ei[c].tlv_type) = IF found = {} THEN 0
                                    ELSE CHOOSE y \in found : \A z \in found : y <= z
  BY <1>6 DEF FindEi
<1>12. found # {}
  BY <1>7
<1>13. x # 0
  BY <1>1, <1>4, <1>5
<1> QED BY <1>3, <1>5, <1>10, <1>11, <1>12, <1>13

\* find_ei does not find what is not known.
LEMMA FindNothing ==
  ASSUME NEW ei, NEW rd, NEW types, NEW pos, NEW c \in Int, Reader(ei, rd, types, pos),
         c \in DOMAIN ei, ei[c].tlv_type \in types, ei[c].tlv_type \in Nat
  PROVE  FindEi(rd, ei[c].tlv_type) = 0 /\ ~ Mandatory(ei[c].tlv_type)
<1>1. ASSUME NEW y \in DOMAIN rd PROVE rd[y].tlv_type # ei[c].tlv_type
  <2>1. PICK k \in Int : Knows(ei, types, k) /\ pos[k] = y
    BY DEF Reader
  <2>2. rd[y] = ei[k] /\ ei[k].tlv_type \notin types
    BY <2>1 DEF Reader, Knows
  <2> QED BY <2>2
<1>2. { y \in DOMAIN rd : rd[y].tlv_type = ei[c].tlv_type } = {}
  BY <1>1
<1>3. ei[c].tlv_type >= OptionalStart
  BY DEF Reader
<1> QED BY <1>2, <1>3, CodecConstants DEF FindEi, Mandatory

\* A value that was completed completes its TLV.
LEMMA CompleteAfter ==
  ASSUME NEW ei, NEW h \in Int, NEW g \in Int, NEW c \in Int, NEW i \in Int, NEW k \in Int,
         Legal(1, ei), c \in DOMAIN ei, IsValue(ei[c]), i = c \/ (c = i + 1 /\ ei[i].type = "len"),
         i \in DOMAIN ei, k \in DOMAIN ei
  PROVE  /\ SameTlv(ei, c, i)
         /\ Complete(ei, c + 1, k) <=> (Complete(ei, i, k) \/ SameTlv(ei, c, k))
         /\ SameTlv(ei, c, k) => ~ Complete(ei, i, k)
<1>1. DOMAIN ei = 1..Len(ei) /\ Len(ei) \in Nat
  BY DEF Legal, IsSequence
<1>2. SameTlv(ei, c, i)
  <2>1. CASE i = c
    BY <2>1 DEF SameTlv
  <2>2. CASE c = i + 1 /\ ei[i].type = "len"
    <3>1. LegalTlv(ei, i)
      BY DEF Legal
    <3>2. SameTlv(ei, i, i + 1)
      BY <2>2, <3>1 DEF LegalTlv
    <3> QED BY <2>2, <3>2 DEF SameTlv
  <2> QED BY <2>1, <2>2
<1>3. Complete(ei, i, k) <=> k < i /\ ~ SameTlv(ei, c, k)
  <2>1. i <= Len(ei)
    BY <1>1
  <2>2. SameTlv(ei, k, i) <=> SameTlv(ei, c, k)
    BY <1>2 DEF SameTlv
  <2> QED BY <1>1, <2>1, <2>2 DEF Complete
<1>4. Complete(ei, c + 1, k) <=> k <= c
  <2>1. CASE c + 1 > Len(ei)
    BY <1>1, <2>1 DEF Complete
  <2>2. CASE c + 1 <= Len(ei)
    <3>1. c + 1 \in DOMAIN ei
      BY <1>1, <2>2
    <3>2. NewTlv(ei, c + 1)
      BY <3>1, AfterValue
    <3>3. ASSUME k <= c PROVE ~ SameTlv(ei, k, c + 1)
      <4>1. k \in 1..((c + 1) - 1)
        BY <1>1, <3>3
      <4> QED BY <3>2, <4>1 DEF NewTlv, SameTlv
    <3> QED BY <1>1, <2>2, <3>3 DEF Complete
  <2> QED BY <1>1, <2>1, <2>2
<1>5. SameTlv(ei, c, k) => k <= c
  <2>1. PICK a \in Int : \E b \in Int : Tlv(ei, a, b, c)
    BY TlvExists
  <2>2. PICK b \in Int : Tlv(ei, a, b, c)
    BY <2>1
  <2>3. SameTlv(ei, c, k) <=> k \in a..c
    BY <2>2 DEF Tlv
  <2> QED BY <2>3
<1>6. k <= c /\ ~ (k < i) => SameTlv(ei, c, k)
  <2>1. ASSUME k <= c, ~ (k < i) PROVE k = c \/ k = i
    BY <1>1, <2>1
  <2>2. SameTlv(ei, c, c)
    BY DEF SameTlv
  <2> QED BY <1>2, <2>1, <2>2
<1>7. k < i => k <= c
  BY <1>1
<1> QED BY <1>2, <1>3, <1>4, <1>5, <1>6, <1>7

\* qmi_decode in a TLV, in front of element k.
AtElem(ei, rd, types, pos, v, s, w, h, k, at) ==
  s.at = at /\ s.i = pos[k] /\ Filled(ei, rd, types, pos, v, s.v, w, h, k)

\* A receiver knows all elements of a TLV or none.
LEMMA KnowsTlv ==
  ASSUME NEW ei, NEW types, NEW h \in Int, NEW g \in Int, NEW c \in Int, Tlv(ei, h, g, c),
         Knows(ei, types, c)
  PROVE  /\ Knows(ei, types, h) /\ Knows(ei, types, g) /\ SameTlv(ei, c, h) /\ h <= g /\ g <= c
         /\ ei[h].type = "opt" => h < c
<1>1. h <= g /\ g <= c /\ (ei[h].type = "opt" => h < c) /\ g \in DOMAIN ei /\ h \in DOMAIN ei
  BY DEF Tlv
<1>2. SameTlv(ei, c, h) /\ SameTlv(ei, c, g)
  <2>1. h \in h..c /\ g \in h..c
    BY <1>1
  <2> QED BY <1>1, <2>1 DEF Tlv
<1> QED BY <1>1, <1>2 DEF SameTlv, Knows

\* qmi_decode takes the flag of a TLV.
LEMMA MessageFlag ==
  ASSUME NEW ei, NEW rd, NEW types, NEW pos, NEW v, NEW s, NEW w, NEW at, NEW h \in Int,
         NEW g \in Int, NEW c \in Int, Legal(1, ei), Reader(ei, rd, types, pos), Tlv(ei, h, g, c),
         Knows(ei, types, c), InForce(1, ei, v, c), AtElem(ei, rd, types, pos, v, s, w, h, h, at)
  PROVE  /\ AtElem(ei, rd, types, pos, v, TakeFlag(rd, s), w, h, g, at)
         /\ TakeFlag(rd, s).n = s.n
<1>1. /\ Knows(ei, types, h) /\ Knows(ei, types, g) /\ SameTlv(ei, c, h) /\ h <= g /\ g <= c
      /\ ei[h].type = "opt" => h < c
  BY KnowsTlv
<1>2. rd[pos[h]] = ei[h] /\ s.at = at /\ s.i = pos[h] /\ Filled(ei, rd, types, pos, v, s.v, w, h, h)
  BY <1>1 DEF Reader, AtElem
<1>3. CASE ei[h].type # "opt"
  <2>1. g = h
    BY <1>3 DEF Tlv
  <2>2. TakeFlag(rd, s) = s
    BY <1>2, <1>3 DEF TakeFlag
  <2> QED BY <2>1, <2>2
<1>4. CASE ei[h].type = "opt"
  <2>1. g = h + 1
    BY <1>4 DEF Tlv
  <2>2. v[h] = 1
    <3>1. Present(ei, v, c)
      BY DEF InForce
    <3>2. DOMAIN ei = 1..Len(ei) /\ h \in DOMAIN ei
      BY <1>1 DEF Legal, IsSequence, Knows
    <3>3. h \in 1..(c - 1)
      BY <1>1, <1>4, <3>2
    <3> QED BY <1>1, <1>4, <3>1, <3>3 DEF Present
  <2>3. pos[g] = pos[h] + 1
    BY <1>1, <2>1 DEF Reader
  <2>4. PICK k, x, n : k = pos[g] /\ x = With(s.v, pos[h], v[h]) /\ n = s.n
    OBVIOUS
  <2>5. TakeFlag(rd, s) = DecodeState(at, k, n, x)
    BY <1>2, <1>4, <2>2, <2>3, <2>4 DEF TakeFlag, With
  <2>6. PICK t : t = TakeFlag(rd, s)
    OBVIOUS
  <2>7. t.at = at /\ t.i = k /\ t.n = n /\ t.v = x
    BY <2>5, <2>6, DecodeStates
  <2>8. Filled(ei, rd, types, pos, v, x, w, h, g)
    <3>1. PICK y : y = s.v
      OBVIOUS
    <3>2. Filled(ei, rd, types, pos, v, y, w, h, h) /\ h <= h
      BY <1>2, <3>1
    <3>3. Filled(ei, rd, types, pos, v, With(y, pos[h], v[h]), w, h, h + 1)
      BY <1>1, <3>2, FilledNext
    <3> QED BY <2>1, <2>4, <3>1, <3>3
  <2> QED BY <2>4, <2>6, <2>7, <2>8 DEF AtElem
<1> QED BY <1>3, <1>4

\* qmi_decode takes the length in a TLV.
LEMMA MessageLength ==
  ASSUME NEW ei, NEW rd, NEW types, NEW pos, NEW v, NEW buf, NEW s, NEW w, NEW h \in Int,
         NEW g \in Int, NEW c \in Int, NEW at \in Int, NEW from \in Int, buf \in Seq(Nat),
         from \in Nat, at \in Nat, Legal(1, ei), ValidStructure(1, ei, v),
         Reader(ei, rd, types, pos), Tlv(ei, h, g, c), Knows(ei, types, c), InForce(1, ei, v, c),
         AtElem(ei, rd, types, pos, v, s, w, h, g, at), s.n \in Nat,
         ei[g].type = "len" => s.n < Limit(LenSize(ei[g])), Match(buf, from + at, Lead(ei, v, c))
  PROVE  /\ AtElem(ei, rd, types, pos, v, TakeLen(rd, buf, from, s), w, h, c, at + Len(Lead(ei, v, c)))
         /\ DataLen(ei[c], TakeLen(rd, buf, from, s).n) = LenOf(ei, v, c)
<1>1. /\ Knows(ei, types, h) /\ Knows(ei, types, g) /\ SameTlv(ei, c, h) /\ h <= g /\ g <= c
      /\ ei[h].type = "opt" => h < c
  BY KnowsTlv
<1>2. rd[pos[g]] = ei[g] /\ s.at = at /\ s.i = pos[g] /\ Filled(ei, rd, types, pos, v, s.v, w, h, g)
  BY <1>1 DEF Reader, AtElem
<1>3. c \in DOMAIN ei /\ g \in DOMAIN ei
  BY <1>1 DEF Knows
<1>4. CASE ei[g].type # "len"
  <2>1. g = c /\ ei[c].array_type # "var"
    BY <1>4 DEF Tlv
  <2>2. TakeLen(rd, buf, from, s) = s
    BY <1>2, <1>4 DEF TakeLen
  <2>3. Lead(ei, v, c) = << >>
    BY <2>1 DEF Lead, Pending
  <2>4. at + Len(Lead(ei, v, c)) = at
    BY <2>3
  <2>5. DataLen(ei[c], s.n) = LenOf(ei, v, c)
    <3>1. ei[c].array_type \in {"none", "static", "var"}
      BY <1>3, LegalElems DEF ElemFacts
    <3> QED BY <2>1, <3>1 DEF DataLen, LenOf
  <2> QED BY <2>1, <2>2, <2>4, <2>5
<1>5. CASE ei[g].type = "len"
  <2>1. c = g + 1 /\ ei[c].array_type = "var" /\ c - 1 = g
    BY <1>5 DEF Tlv
  <2>2. InForce(1, ei, v, g)
    BY <1>3, <2>1, ForceOfLength
  <2>3. v[g] \in Nat /\ v[g] < Limit(LenSize(ei[g]))
    BY <1>3, <1>5, <2>2, ValidElems DEF ValueFacts
  <2>4. PICK m \in Int : m = v[g] /\ m \in Nat /\ m < Limit(LenSize(ei[g]))
    BY <2>3
  <2>5. Lead(ei, v, c) = Bytes(m, LenSize(ei[g])) /\ Len(Lead(ei, v, c)) = LenSize(ei[g])
    <3>1. Lead(ei, v, c) = Bytes(m, LenSize(ei[g]))
      BY <1>3, <2>1, <2>4 DEF Lead, Pending
    <3>2. Len(Bytes(m, LenSize(ei[g]))) = LenSize(ei[g])
      BY <2>4, Sizes, BytesMatch
    <3> QED BY <3>1, <3>2
  <2>6. PICK t : t = TakeLen(rd, buf, from, s)
    OBVIOUS
  <2>7. LengthRead(rd, s, t, m)
    <3>1. AtLength(rd, buf, from, s, m)
      BY <1>2, <1>5, <2>4, <2>5 DEF AtLength
    <3> QED BY <2>4, <2>6, <3>1, LengthTaken
  <2>8. PICK x, k, y : x = at + LenSize(ei[g]) /\ k = pos[c] /\ y = With(s.v, pos[g], m)
    OBVIOUS
  <2>9. pos[c] = pos[g] + 1
    BY <1>1, <2>1 DEF Reader
  <2>10. t = DecodeState(x, k, m, y)
    BY <1>2, <2>7, <2>8, <2>9 DEF LengthRead
  <2>11. t.at = x /\ t.i = k /\ t.n = m /\ t.v = y
    BY <2>10, DecodeStates
  <2>12. Filled(ei, rd, types, pos, v, y, w, h, c)
    <3>1. PICK z : z = s.v
      OBVIOUS
    <3>2. Filled(ei, rd, types, pos, v, z, w, h, g)
      BY <1>2, <3>1
    <3>3. Filled(ei, rd, types, pos, v, With(z, pos[g], v[g]), w, h, g + 1)
      BY <1>1, <3>2, FilledNext
    <3> QED BY <2>1, <2>4, <2>8, <3>1, <3>3
  <2>13. DataLen(ei[c], t.n) = LenOf(ei, v, c)
    BY <2>1, <2>4, <2>11 DEF DataLen, LenOf
  <2>14. t.at = at + Len(Lead(ei, v, c)) /\ t.i = pos[c] /\ t.v = y
    BY <2>5, <2>8, <2>11
  <2> QED BY <2>6, <2>12, <2>13, <2>14 DEF AtElem
<1> QED BY <1>4, <1>5

\* In a message qmi_decode takes the TLV that qmi_encode completed, or skips it.
LEMMA MessageTurn ==
  ASSUME NEW ei, NEW rd, NEW types, NEW pos, NEW v, NEW dec, NEW buf, NEW d, NEW q, NEW j, NEW p,
         NEW b, NEW i \in Int, NEW c \in Int, NEW from \in Int, NEW len \in Int, buf \in Seq(Nat),
         from \in Nat, len \in Nat, q \in Seq(Nat), Legal(1, ei), ValidStructure(1, ei, v),
         Reader(ei, rd, types, pos), MessageRel(ei, rd, types, pos, v, d, q, i), i \in DOMAIN ei,
         Completes(1, ei, v, dec, i, q, j, p, c, b), Match(buf, from, p), Len(p) <= len,
         len < Limit(2)
  PROVE  /\ Len(p) > Len(q)
         /\ MessageRel(ei, rd, types, pos, v, DecodeNext(dec, rd, buf, from, len, 1, d), p, j)
<1>1. /\ c = i \/ (c = i + 1 /\ ei[i].type = "len")
      /\ Carried(1, ei, v, dec, c, b) /\ j = c + 1
      /\ p = Cat(q, Frame(1, ei[i].tlv_type, Cat(Lead(ei, v, c), b)))
  BY DEF Completes
<1>2. /\ c \in DOMAIN ei /\ IsValue(ei[c]) /\ InForce(1, ei, v, c) /\ b \in Seq(Nat)
      /\ Lead(ei, v, c) \in Seq(Nat) /\ LenOf(ei, v, c) \in Nat /\ ~ TooLong(ei[c], LenOf(ei, v, c))
      /\ Short(ei, LenOf(ei, v, c), c + 1) /\ Arrives(dec, 1, ei[c], LenOf(ei, v, c), v[c], b)
  BY <1>1, AtValues
<1>3. ei[i].tlv_type = ei[c].tlv_type
  <2>1. SameTlv(ei, c, i)
    <3>1. CASE c = i
      BY <3>1 DEF SameTlv
    <3>2. CASE c = i + 1 /\ ei[i].type = "len"
      <4>1. LegalTlv(ei, i)
        BY DEF Legal
      <4>2. SameTlv(ei, i, i + 1)
        BY <3>2, <4>1 DEF LegalTlv
      <4> QED BY <3>2, <4>2 DEF SameTlv
    <3> QED BY <1>1, <3>1, <3>2
  <2> QED BY <2>1 DEF SameTlv
<1>4. PICK type \in Int : type = ei[c].tlv_type /\ type \in Nat
  <2>1. ElemFacts(1, ei, c)
    BY <1>2, LegalElems
  <2> QED BY <2>1 DEF ElemFacts
<1>5. PICK L : L = Lead(ei, v, c) /\ L \in Seq(Nat)
  BY <1>2
<1>6. PICK w : w = Cat(L, b) /\ w \in Seq(Nat) /\ Len(w) = Len(L) + Len(b)
  BY <1>2, <1>5, Cats
<1>7. PICK fr : fr = Frame(1, type, w) /\ fr \in Seq(Nat) /\ Len(fr) = TlvHead + Len(w)
  <2>0. type \in Nat /\ w \in Seq(Nat)
    BY <1>4, <1>6
  <2>1. Frame(1, type, w) \in Seq(Nat)
    BY <2>0, Framed
  <2>2. Len(Frame(1, type, w)) = TlvHead + Len(w)
    <3>1. ASSUME NEW level \in Int, ~ (level > 1)
          PROVE  Len(Frame(level, type, w)) = TlvHead + Len(w)
      BY <2>0, <3>1, Framed
    <3>2. 1 \in Int /\ ~ (1 > 1)
      OBVIOUS
    <3> QED BY <3>1, <3>2
  <2> QED BY <2>1, <2>2
<1>8. p = Cat(q, fr) /\ Len(p) = Len(q) + Len(fr)
  <2>1. p = Cat(q, fr)
    BY <1>1, <1>3, <1>4, <1>5, <1>6, <1>7
  <2>2. Len(Cat(q, fr)) = Len(q) + Len(fr)
    BY <1>7, Cats
  <2> QED BY <2>1, <2>2
<1>9. PICK nq \in Nat : nq = Len(q)
  OBVIOUS
<1>10. PICK nl \in Nat : nl = Len(L)
  BY <1>5
<1>11. PICK nb \in Nat : nb = Len(b)
  BY <1>2
<1>12. Len(w) = nl + nb /\ Len(p) = nq + (3 + (nl + nb))
  <2>1. Len(w) = nl + nb
    BY <1>6, <1>10, <1>11
  <2>2. Len(fr) = 3 + (nl + nb)
    BY <1>7, <2>1 DEF TlvHead
  <2> QED BY <1>8, <1>9, <2>1, <2>2
<1>13. PICK at \in Int : at = from + nq /\ at \in Nat
  OBVIOUS
<1>14. /\ buf[at + 1] = type /\ Number(Slice(buf, at + 1, 2)) = nl + nb
       /\ Match(buf, at + 3, w)
  <2>1. Match(buf, from, Cat(q, fr))
    BY <1>8
  <2>2. Match(buf, from + Len(q), fr)
    BY <1>7, <2>1, MatchCat
  <2>3. Match(buf, at, Frame(1, type, w))
    BY <1>7, <1>9, <1>13, <2>2
  <2>4. Len(w) < Limit(2)
    <3>1. PICK m \in Int : m = Limit(2)
      <4>1. 2 \in {1, 2}
        OBVIOUS
      <4> QED BY <4>1, Limits
    <3>2. nl + nb < m
      BY <1>12, <3>1
    <3> QED BY <1>12, <3>1, <3>2
  <2>5. type \in Nat /\ w \in Seq(Nat) /\ at \in Nat
    BY <1>4, <1>6, <1>13
  <2>6. buf[at + 1] = type /\ Number(Slice(buf, at + 1, 2)) = Len(w) /\ Match(buf, at + TlvHead, w)
    BY <2>3, <2>4, <2>5, FrameParts
  <2> QED BY <1>12, <2>6 DEF TlvHead
<1>15. Match(buf, at + 3, L) /\ Match(buf, at + (3 + nl), b)
  <2>1. PICK m \in Int : m = at + 3
    OBVIOUS
  <2>2. Match(buf, m, Cat(L, b))
    BY <1>6, <1>14, <2>1
  <2>3. Match(buf, m, L) /\ Match(buf, m + Len(L), b)
    BY <1>2, <1>5, <2>2, MatchCat
  <2>4. m + Len(L) = at + (3 + nl)
    BY <1>10, <2>1
  <2> QED BY <2>1, <2>3, <2>4
<1>16. Ok(d) /\ d.at = nq /\ Short(ei, d.n, i) /\ d.v = [x \in DOMAIN rd |-> d.v[x]] /\ d.n \in Nat
  BY <1>9 DEF MessageRel, Short
<1>17. PICK e : e = DecodeNext(dec, rd, buf, from, len, 1, d)
  OBVIOUS
<1>18. e = DecodeTurn(dec, rd, buf, from, len, 1, d)
  <2>1. ~ (~ d.ok \/ d.at >= len \/ (1 > 1 /\ d.i > Len(rd)))
    BY <1>12, <1>16 DEF Ok
  <2> QED BY <1>17, <2>1 DEF DecodeNext
<1>19. PICK x \in Int : x = FindEi(rd, type)
  <2>1. CASE Knows(ei, types, c)
    <3>1. PICK h \in Int : \E g \in Int : Tlv(ei, h, g, c)
      BY <1>2, TlvExists
    <3>2. PICK g \in Int : Tlv(ei, h, g, c)
      BY <3>1
    <3>3. FindEi(rd, ei[c].tlv_type) = pos[h] /\ Knows(ei, types, h)
      BY <2>1, <3>2, FindHead
    <3>4. pos[h] \in Int
      BY <3>3 DEF Reader, IsSequence
    <3> QED BY <1>4, <3>3, <3>4
  <2>2. CASE ~ Knows(ei, types, c)
    <3>1. FindEi(rd, ei[c].tlv_type) = 0
      BY <1>2, <1>4, <2>2, FindNothing DEF Knows
    <3> QED BY <1>4, <3>1
  <2> QED BY <2>1, <2>2
<1>20. e = IF x # 0 THEN DecodeElem(dec, rd, buf, from, 1, DecodeState(nq + 3, x, d.n, d.v), nl + nb)
           ELSE IF Mandatory(type) THEN DecodeFailed
           ELSE DecodeState(nq + 3 + (nl + nb), d.i, d.n, d.v)
  <2>1. from + d.at = at
    BY <1>13, <1>16
  <2>2. PICK t, m : t = buf[at + 1] /\ m = Number(Slice(buf, at + 1, 2))
    OBVIOUS
  <2>3. DecodeTurn(dec, rd, buf, from, len, 1, d)
          = IF FindEi(rd, t) # 0
            THEN DecodeElem(dec, rd, buf, from, 1, DecodeState(d.at + 3, FindEi(rd, t), d.n, d.v), m)
            ELSE IF Mandatory(t) THEN DecodeFailed ELSE DecodeState(d.at + 3 + m, d.i, d.n, d.v)
    BY <2>1, <2>2 DEF DecodeTurn, TlvHead
  <2>4. t = type /\ m = nl + nb
    BY <1>14, <2>2
  <2> QED BY <1>16, <1>18, <1>19, <2>3, <2>4
<1>21. \A k \in Int : k \in DOMAIN ei =>
         /\ Complete(ei, c + 1, k) <=> (Complete(ei, i, k) \/ SameTlv(ei, c, k))
         /\ SameTlv(ei, c, k) => ~ Complete(ei, i, k)
  BY <1>1, <1>2, CompleteAfter
<1>22. \A k \in Int : Knows(ei, types, k) =>
         d.v[pos[k]] = IF Complete(ei, i, k) THEN v[k] ELSE Blank(ei[k])
  BY DEF MessageRel
<1>23. ASSUME ~ Knows(ei, types, c)
       PROVE  MessageRel(ei, rd, types, pos, v, e, p, c + 1)
  <2>1. x = 0 /\ ~ Mandatory(type)
    <3>1. FindEi(rd, ei[c].tlv_type) = 0 /\ ~ Mandatory(ei[c].tlv_type)
      BY <1>2, <1>4, <1>23, FindNothing DEF Knows
    <3> QED BY <1>4, <1>19, <3>1
  <2>2. PICK k, n, y : k = d.i /\ n = d.n /\ y = d.v
    OBVIOUS
  <2>3. e = DecodeState(nq + 3 + (nl + nb), k, n, y)
    BY <1>20, <2>1, <2>2
  <2>4. PICK z \in Int : z = nq + 3 + (nl + nb)
    OBVIOUS
  <2>5. e = DecodeState(z, k, n, y)
    BY <2>3, <2>4
  <2>6. Ok(e) /\ e.at = z /\ e.n = n /\ e.v = y
    BY <2>5, DecodeStates
  <2>7. z = Len(p)
    BY <1>12, <2>4
  <2>8. Short(ei, n, c + 1)
    <3>1. Short(ei, n, i)
      BY <1>16, <2>2
    <3>2. i <= c + 1
      BY <1>1
    <3>3. PICK m \in Int : m = c + 1
      OBVIOUS
    <3>4. Short(ei, n, m)
      BY <3>1, <3>2, <3>3, ShortLater
    <3> QED BY <3>3, <3>4
  <2>9. ASSUME NEW m \in Int, Knows(ei, types, m)
        PROVE  y[pos[m]] = IF Complete(ei, c + 1, m) THEN v[m] ELSE Blank(ei[m])
    <3>1. m \in DOMAIN ei /\ ~ SameTlv(ei, c, m)
      BY <1>2, <1>23, <2>9 DEF Knows, SameTlv
    <3>2. Complete(ei, c + 1, m) <=> Complete(ei, i, m)
      BY <1>21, <3>1
    <3> QED BY <1>22, <2>2, <2>9, <3>2
  <2>10. y = [m \in DOMAIN rd |-> y[m]]
    BY <1>16, <2>2
  <2> QED BY <2>6, <2>7, <2>8, <2>9, <2>10 DEF MessageRel
<1>24. ASSUME Knows(ei, types, c)
       PROVE  MessageRel(ei, rd, types, pos, v, e, p, c + 1)
  <2>1. PICK h \in Int : \E g \in Int : Tlv(ei, h, g, c)
    BY <1>2, TlvExists
  <2>2. PICK g \in Int : Tlv(ei, h, g, c)
    BY <2>1
  <2>3. x = pos[h] /\ x # 0 /\ Knows(ei, types, h)
    <3>1. FindEi(rd, ei[c].tlv_type) = pos[h] /\ Knows(ei, types, h) /\ pos[h] # 0
      BY <1>24, <2>2, FindHead
    <3> QED BY <1>4, <1>19, <3>1
  <2>4. PICK n, y : n = d.n /\ y = d.v
    OBVIOUS
  <2>5. PICK s0 : s0 = DecodeState(nq + 3, x, n, y)
    OBVIOUS
  <2>6. PICK a \in Int : a = nq + 3 /\ a \in Nat
    OBVIOUS
  <2>7. s0.at = a /\ s0.i = x /\ s0.n = n /\ s0.v = y
    <3>1. s0 = DecodeState(a, x, n, y)
      BY <2>5, <2>6
    <3> QED BY <3>1, DecodeStates
  <2>8. AtElem(ei, rd, types, pos, v, s0, y, h, h, a)
    <3>1. \A m \in Int : ~ (h <= m /\ m < h)
      OBVIOUS
    <3>2. Filled(ei, rd, types, pos, v, y, y, h, h)
      BY <1>16, <2>4, <3>1 DEF Filled
    <3> QED BY <2>3, <2>7, <3>2 DEF AtElem
  <2>9. PICK s1 : s1 = TakeFlag(rd, s0)
    OBVIOUS
  <2>10. AtElem(ei, rd, types, pos, v, s1, y, h, g, a) /\ s1.n = n
    <3>1. AtElem(ei, rd, types, pos, v, TakeFlag(rd, s0), y, h, g, a) /\ TakeFlag(rd, s0).n = s0.n
      <4>1. InForce(1, ei, v, c)
        BY <1>2
      <4> QED BY <1>24, <2>2, <2>8, <4>1, MessageFlag
    <3> QED BY <2>7, <2>9, <3>1
  <2>11. PICK s2 : s2 = TakeLen(rd, buf, from, s1)
    OBVIOUS
  <2>12. /\ AtElem(ei, rd, types, pos, v, s2, y, h, c, a + nl)
         /\ DataLen(ei[c], s2.n) = LenOf(ei, v, c)
    <3>1. Match(buf, from + a, Lead(ei, v, c))
      BY <1>5, <1>13, <1>15, <2>6
    <3>2. s1.n \in Nat
      BY <1>16, <2>4, <2>10
    <3>3. ASSUME ei[g].type = "len" PROVE s1.n < Limit(LenSize(ei[g]))
      <4>1. g \in DOMAIN ei /\ (g = i \/ g = i - 1)
        <5>1. c = g + 1 /\ g \in DOMAIN ei
          BY <2>2, <3>3 DEF Tlv
        <5> QED BY <1>1, <5>1
      <4>2. Short(ei, n, i)
        BY <1>16, <2>4
      <4>3. n < Limit(LenSize(ei[g]))
        BY <3>3, <4>1, <4>2, ShortFits
      <4> QED BY <2>10, <4>3
    <3>4. AtElem(ei, rd, types, pos, v, s1, y, h, g, a)
      BY <2>10
    <3>5. /\ AtElem(ei, rd, types, pos, v, TakeLen(rd, buf, from, s1), y, h, c, a + Len(Lead(ei, v, c)))
          /\ DataLen(ei[c], TakeLen(rd, buf, from, s1).n) = LenOf(ei, v, c)
      <4>1. InForce(1, ei, v, c) /\ a \in Nat
        BY <1>2, <2>6
      <4> QED BY <1>24, <2>2, <3>1, <3>2, <3>3, <3>4, <4>1, MessageLength
    <3> QED BY <1>5, <1>10, <2>11, <3>5
  <2>13. /\ s2.at = a + nl /\ s2.i = pos[c] /\ Filled(ei, rd, types, pos, v, s2.v, y, h, c)
         /\ rd[pos[c]] = ei[c]
    BY <1>24, <2>12 DEF AtElem, Reader
  <2>14. e = TakeValue(dec, rd, buf, from, 1, s2, nb)
    <3>1. e = DecodeElem(dec, rd, buf, from, 1, s0, nl + nb)
      BY <1>20, <2>3, <2>4, <2>5
    <3>2. DecodeElem(dec, rd, buf, from, 1, s0, nl + nb)
            = TakeValue(dec, rd, buf, from, 1, s2, (nl + nb) - (s2.at - s0.at))
      BY <2>9, <2>11 DEF DecodeElem
    <3>3. (nl + nb) - (s2.at - s0.at) = nb
      BY <2>7, <2>13
    <3> QED BY <3>1, <3>2, <3>3
  <2>15. PICK m : m = LenOf(ei, v, c)
    OBVIOUS
  <2>16. ValueRead(s2, e, m, v[c], b)
    <3>1. AtItsValue(dec, 1, rd, buf, from, s2, nb, m, v[c], b)
      <4>1. /\ IsValue(rd[s2.i]) /\ m = DataLen(rd[s2.i], s2.n) /\ ~ TooLong(rd[s2.i], m)
            /\ s2.at \in Nat
        BY <1>2, <2>6, <2>12, <2>13, <2>15
      <4>2. Arrives(dec, 1, rd[s2.i], m, v[c], b)
        BY <1>2, <2>13, <2>15
      <4>3. Match(buf, from + s2.at, b)
        BY <1>13, <1>15, <2>6, <2>13
      <4>4. nb \in Nat /\ Len(b) <= nb /\ (1 = 1 => nb = Len(b))
        BY <1>11
      <4> QED BY <4>1, <4>2, <4>3, <4>4 DEF AtItsValue
    <3>2. ValueRead(s2, TakeValue(dec, rd, buf, from, 1, s2, nb), m, v[c], b)
      <4>1. nb \in Int
        OBVIOUS
      <4> QED BY <3>1, <4>1, ValueTaken
    <3> QED BY <2>14, <3>2
  <2>17. PICK to, k, z : to = s2.at + Len(b) /\ k = s2.i + 1 /\ z = With(s2.v, s2.i, v[c])
    OBVIOUS
  <2>18. Ok(e) /\ e.at = to /\ e.n = m /\ e.v = z
    <3>1. e = DecodeState(to, k, m, z)
      BY <2>16, <2>17 DEF ValueRead
    <3> QED BY <3>1, DecodeStates
  <2>19. to = Len(p)
    BY <1>11, <1>12, <2>6, <2>13, <2>17
  <2>20. Filled(ei, rd, types, pos, v, z, y, h, c + 1)
    <3>1. PICK u : u = s2.v
      OBVIOUS
    <3>2. Filled(ei, rd, types, pos, v, u, y, h, c) /\ h <= c
      <4>1. h <= c
        BY <1>24, <2>2, KnowsTlv
      <4> QED BY <2>13, <3>1, <4>1
    <3>3. Filled(ei, rd, types, pos, v, With(u, pos[c], v[c]), y, h, c + 1)
      BY <1>24, <3>2, FilledNext
    <3> QED BY <2>13, <2>17, <3>1, <3>3
  <2>21. ASSUME NEW o \in Int, Knows(ei, types, o)
         PROVE  z[pos[o]] = IF Complete(ei, c + 1, o) THEN v[o] ELSE Blank(ei[o])
    <3>1. o \in DOMAIN ei
      BY <2>21 DEF Knows
    <3>2. SameTlv(ei, c, o) <=> o \in h..c
      BY <2>2, <3>1 DEF Tlv
    <3>3. z[pos[o]] = IF h <= o /\ o < c + 1 THEN v[o] ELSE y[pos[o]]
      BY <2>20, <2>21 DEF Filled
    <3>4. CASE SameTlv(ei, c, o)
      <4>1. Complete(ei, c + 1, o)
        BY <1>21, <3>1, <3>4
      <4>2. h <= o /\ o < c + 1
        BY <3>2, <3>4
      <4> QED BY <3>3, <4>1, <4>2
    <3>5. CASE ~ SameTlv(ei, c, o)
      <4>1. Complete(ei, c + 1, o) <=> Complete(ei, i, o)
        BY <1>21, <3>1, <3>5
      <4>2. ~ (h <= o /\ o < c + 1)
        BY <3>2, <3>5
      <4>3. y[pos[o]] = IF Complete(ei, i, o) THEN v[o] ELSE Blank(ei[o])
        BY <1>22, <2>4, <2>21
      <4> QED BY <3>3, <4>1, <4>2, <4>3
    <3> QED BY <3>4, <3>5
  <2>22. z = [o \in DOMAIN rd |-> z[o]]
    BY <2>20 DEF Filled
  <2>23. Short(ei, m, c + 1)
    BY <1>2, <2>15
  <2> QED BY <2>18, <2>19, <2>21, <2>22, <2>23 DEF MessageRel
<1>25. Len(p) > Len(q)
  BY <1>9, <1>12
<1> QED BY <1>1, <1>17, <1>23, <1>24, <1>25

-----------------------------------------------------------------------------
(* qmi_decode comes to the end of what qmi_encode has put out.             *)

\* The receiver has the same descriptor in structures, and knows some types of
\* a message.
ReaderAt(level, ei, rd, types, pos) ==
  IF level > 1 THEN rd = ei ELSE Reader(ei, rd, types, pos)

DecRel(level, ei, rd, types, pos, v, d, q, i) ==
  IF level > 1 THEN NestedRel(ei, v, d, q, i) ELSE MessageRel(ei, rd, types, pos, v, d, q, i)

\* Whatever follows q in a buffer, qmi_decode comes to where q is complete.
Comes(level, ei, rd, types, pos, v, q, i, g) ==
  \E m \in Int : 0 <= m /\ m <= Len(q) /\ DecRel(level, ei, rd, types, pos, v, g[m], q, i)

IsRun(level, dec, rd, q, g, buf, from, len) ==
  /\ buf \in Seq(Nat) /\ from \in Nat /\ len \in Nat /\ Match(buf, from, q) /\ Len(q) <= len
  /\ level = 1 => len < Limit(2)
  /\ IsDecoding(dec, rd, buf, from, len, level, g, len + Len(rd))

Reaches(level, dec, ei, rd, types, pos, v, q, i) ==
  \A g, buf : \A from \in Int, len \in Int :
    IsRun(level, dec, rd, q, g, buf, from, len) => Comes(level, ei, rd, types, pos, v, q, i, g)

\* How a run of qmi_decode starts and goes on.
LEMMA RunStarts ==
  ASSUME NEW dec, NEW rd, NEW q, NEW g, NEW buf, NEW level \in Int, NEW from \in Int,
         NEW len \in Int, IsSequence(rd), IsRun(level, dec, rd, q, g, buf, from, len)
  PROVE  /\ g[0] = DecodeState(0, 1, 0, Zeroed(rd))
         /\ \A m \in Int : 0 <= m /\ m < len + Len(rd) =>
              g[m + 1] = DecodeNext(dec, rd, buf, from, len, level, g[m])
<1>1. len + Len(rd) \in Nat /\ len \in Nat /\ Len(rd) \in Nat
  BY DEF IsRun, IsSequence
<1>2. IsDecoding(dec, rd, buf, from, len, level, g, len + Len(rd))
  BY DEF IsRun
<1>3. /\ g[0] = DecodeState(0, 1, 0, Zeroed(rd))
      /\ \A k \in 1..(len + Len(rd)) : g[k] = DecodeNext(dec, rd, buf, from, len, level, g[k - 1])
  BY <1>1, <1>2, DecodingTurns
<1>4. ASSUME NEW m \in Int, 0 <= m, m < len + Len(rd)
      PROVE  g[m + 1] = DecodeNext(dec, rd, buf, from, len, level, g[m])
  <2>1. m + 1 \in 1..(len + Len(rd)) /\ (m + 1) - 1 = m
    BY <1>1, <1>4
  <2>2. g[m + 1] = DecodeNext(dec, rd, buf, from, len, level, g[(m + 1) - 1])
    BY <1>3, <2>1
  <2> QED BY <2>1, <2>2
<1> QED BY <1>3, <1>4

\* Before anything is put out, qmi_decode is there.
LEMMA ReachStart ==
  ASSUME NEW dec, NEW ei, NEW rd, NEW types, NEW pos, NEW v, NEW q, NEW level \in Int,
         Legal(level, ei), ValidStructure(level, ei, v), ReaderAt(level, ei, rd, types, pos),
         q \in Seq(Nat), Len(q) = 0
  PROVE  Reaches(level, dec, ei, rd, types, pos, v, q, 1)
<1>1. IsSequence(ei) /\ DOMAIN ei = 1..Len(ei) /\ Len(ei) \in Nat /\ level \in 1..Levels
  BY DEF Legal, IsSequence
<1>2. IsSequence(rd)
  BY <1>1 DEF ReaderAt, Reader
<1>3. SUFFICES ASSUME NEW g, NEW buf, NEW from \in Int, NEW len \in Int,
                      IsRun(level, dec, rd, q, g, buf, from, len)
               PROVE  DecRel(level, ei, rd, types, pos, v, g[0], q, 1)
  BY <1>3 DEF Reaches, Comes
<1>4. g[0] = DecodeState(0, 1, 0, Zeroed(rd))
  BY <1>2, <1>3, RunStarts
<1>5. PICK d : d = g[0]
  OBVIOUS
<1>6. Ok(d) /\ d.at = 0 /\ d.i = 1 /\ d.n = 0 /\ d.v = Zeroed(rd)
  <2>1. PICK z : z = Zeroed(rd)
    OBVIOUS
  <2>2. d = DecodeState(0, 1, 0, z)
    BY <1>4, <1>5, <2>1
  <2>3. Ok(d) /\ d.at = 0 /\ d.i = 1 /\ d.n = 0 /\ d.v = z
    BY <2>2, DecodeStates
  <2> QED BY <2>1, <2>3
<1>7. Short(ei, d.n, 1)
  BY <1>6 DEF Short
<1>8. CASE level > 1
  <2>1. rd = ei
    BY <1>8 DEF ReaderAt
  <2>2. ~ Pending(ei, 1)
    <3>1. ASSUME Pending(ei, 1) PROVE FALSE
      <4>1. 1 \in DOMAIN ei /\ ei[1].array_type = "var"
        BY <3>1 DEF Pending
      <4>2. ElemFacts(level, ei, 1)
        BY <4>1, LegalElems
      <4>3. 1 - 1 \in DOMAIN ei
        BY <4>1, <4>2 DEF ElemFacts
      <4> QED BY <1>1, <4>3
    <3> QED BY <3>1
  <2>3. Partial(ei, v, 1) = Zeroed(ei)
    BY <1>1, PartialEnds
  <2>4. NestedRel(ei, v, d, q, 1)
    BY <1>6, <1>7, <2>1, <2>2, <2>3 DEF NestedRel
  <2> QED BY <1>5, <1>8, <2>4 DEF DecRel
<1>9. CASE ~ (level > 1)
  <2>1. Reader(ei, rd, types, pos)
    BY <1>9 DEF ReaderAt
  <2>2. /\ Zeroed(rd) = [x \in DOMAIN rd |-> Zeroed(rd)[x]]
        /\ \A x \in DOMAIN rd : Zeroed(rd)[x] = Blank(rd[x])
    BY DEF Zeroed
  <2>3. ASSUME NEW k \in Int, Knows(ei, types, k)
        PROVE  Zeroed(rd)[pos[k]] = IF Complete(ei, 1, k) THEN v[k] ELSE Blank(ei[k])
    <3>1. pos[k] \in DOMAIN rd /\ rd[pos[k]] = ei[k] /\ k \in DOMAIN ei
      BY <2>1, <2>3 DEF Reader, Knows
    <3>2. ~ Complete(ei, 1, k)
      BY <1>1, <3>1 DEF Complete
    <3> QED BY <2>2, <3>1, <3>2
  <2>4. PICK z : z = Zeroed(rd)
    OBVIOUS
  <2>5. d.v = z /\ z = [x \in DOMAIN rd |-> z[x]]
    BY <1>6, <2>2, <2>4
  <2>6. ASSUME NEW k \in Int, Knows(ei, types, k)
        PROVE  z[pos[k]] = IF Complete(ei, 1, k) THEN v[k] ELSE Blank(ei[k])
    BY <2>3, <2>4, <2>6
  <2>7. MessageRel(ei, rd, types, pos, v, d, q, 1)
    BY <1>6, <1>7, <2>5, <2>6 DEF MessageRel
  <2> QED BY <1>5, <1>9, <2>7 DEF DecRel
<1> QED BY <1>8, <1>9

\* It is there when qmi_encode puts out nothing.
LEMMA ReachWait ==
  ASSUME NEW dec, NEW ei, NEW rd, NEW types, NEW pos, NEW v, NEW q, NEW level \in Int,
         NEW i \in Int, NEW j \in Int, Legal(level, ei), ValidStructure(level, ei, v),
         i \in DOMAIN ei, Reaches(level, dec, ei, rd, types, pos, v, q, i),
         Waits(ei, v, level, i, j)
  PROVE  Reaches(level, dec, ei, rd, types, pos, v, q, j)
<1>1. SUFFICES ASSUME NEW g, NEW buf, NEW from \in Int, NEW len \in Int,
                      IsRun(level, dec, rd, q, g, buf, from, len)
               PROVE  Comes(level, ei, rd, types, pos, v, q, j, g)
  BY DEF Reaches
<1>2. Comes(level, ei, rd, types, pos, v, q, i, g)
  BY <1>1 DEF Reaches
<1>3. PICK m \in Int : 0 <= m /\ m <= Len(q) /\ DecRel(level, ei, rd, types, pos, v, g[m], q, i)
  BY <1>2 DEF Comes
<1>4. PICK d : d = g[m]
  OBVIOUS
<1>5. DecRel(level, ei, rd, types, pos, v, d, q, j)
  <2>1. CASE level > 1
    <3>1. NestedRel(ei, v, d, q, i)
      BY <1>3, <1>4, <2>1 DEF DecRel
    <3>2. NestedRel(ei, v, d, q, j)
      BY <2>1, <3>1, NestedWait
    <3> QED BY <2>1, <3>2 DEF DecRel
  <2>2. CASE ~ (level > 1)
    <3>1. level = 1
      BY <2>2 DEF Legal
    <3>2. MessageRel(ei, rd, types, pos, v, d, q, i)
      BY <1>3, <1>4, <2>2 DEF DecRel
    <3>3. Legal(1, ei) /\ ValidStructure(1, ei, v) /\ Waits(ei, v, 1, i, j)
      BY <3>1
    <3>4. MessageRel(ei, rd, types, pos, v, d, q, j)
      BY <3>2, <3>3, MessageWait
    <3> QED BY <2>2, <3>4 DEF DecRel
  <2> QED BY <2>1, <2>2
<1> QED BY <1>3, <1>4, <1>5 DEF Comes

\* It comes there when qmi_encode completes a value.
LEMMA ReachTurn ==
  ASSUME NEW dec, NEW ei, NEW rd, NEW types, NEW pos, NEW v, NEW q, NEW p, NEW b, NEW j,
         NEW level \in Int, NEW i \in Int, NEW c \in Int, Legal(level, ei),
         ValidStructure(level, ei, v), i \in DOMAIN ei, ReaderAt(level, ei, rd, types, pos),
         q \in Seq(Nat), b \in Seq(Nat), Reaches(level, dec, ei, rd, types, pos, v, q, i),
         Completes(level, ei, v, dec, i, q, j, p, c, b)
  PROVE  Reaches(level, dec, ei, rd, types, pos, v, p, j)
<1>1. SUFFICES ASSUME NEW g, NEW buf, NEW from \in Int, NEW len \in Int,
                      IsRun(level, dec, rd, p, g, buf, from, len)
               PROVE  Comes(level, ei, rd, types, pos, v, p, j, g)
  BY DEF Reaches
<1>2. /\ buf \in Seq(Nat) /\ from \in Nat /\ len \in Nat /\ Match(buf, from, p) /\ Len(p) <= len
      /\ level = 1 => len < Limit(2)
      /\ IsDecoding(dec, rd, buf, from, len, level, g, len + Len(rd))
  BY <1>1 DEF IsRun
<1>3. PICK y : p = Cat(q, y) /\ y \in Seq(Nat)
  <2>1. PICK y : y = Frame(level, ei[i].tlv_type, Cat(Lead(ei, v, c), b))
    OBVIOUS
  <2>2. p = Cat(q, y) /\ Carried(level, ei, v, dec, c, b)
    BY <2>1 DEF Completes
  <2>3. Lead(ei, v, c) \in Seq(Nat)
    BY <2>2, AtValues
  <2>4. Cat(Lead(ei, v, c), b) \in Seq(Nat)
    BY <2>3, Cats
  <2>5. ei[i].tlv_type \in Nat
    BY LegalElems DEF ElemFacts
  <2>6. y \in Seq(Nat)
    BY <2>1, <2>4, <2>5, Framed
  <2> QED BY <2>2, <2>6
<1>4. Match(buf, from, q) /\ Len(p) = Len(q) + Len(y)
  BY <1>2, <1>3, MatchCat, Cats
<1>5. PICK nq \in Nat : nq = Len(q)
  OBVIOUS
<1>6. PICK ny \in Nat : ny = Len(y)
  BY <1>3
<1>7. PICK np \in Nat : np = Len(p) /\ np = nq + ny
  BY <1>4, <1>5, <1>6
<1>8. IsRun(level, dec, rd, q, g, buf, from, len)
  <2>1. Len(q) <= len
    BY <1>2, <1>5, <1>7
  <2> QED BY <1>2, <1>4, <2>1 DEF IsRun
<1>9. Comes(level, ei, rd, types, pos, v, q, i, g)
  BY <1>8 DEF Reaches
<1>10. PICK m \in Int : 0 <= m /\ m <= nq /\ DecRel(level, ei, rd, types, pos, v, g[m], q, i)
  BY <1>5, <1>9 DEF Comes
<1>11. PICK d : d = g[m]
  OBVIOUS
<1>12. PICK e : e = DecodeNext(dec, rd, buf, from, len, level, d)
  OBVIOUS
<1>13. Len(p) > Len(q) /\ DecRel(level, ei, rd, types, pos, v, e, p, j)
  <2>1. CASE level > 1
    <3>1. rd = ei
      BY <2>1 DEF ReaderAt
    <3>2. NestedRel(ei, v, d, q, i)
      BY <1>10, <1>11, <2>1 DEF DecRel
    <3>3. /\ Len(p) > Len(q)
          /\ NestedRel(ei, v, DecodeNext(dec, ei, buf, from, len, level, d), p, j)
      BY <1>2, <2>1, <3>2, NestedTurn
    <3> QED BY <1>12, <2>1, <3>1, <3>3 DEF DecRel
  <2>2. CASE ~ (level > 1)
    <3>1. level = 1
      BY <2>2 DEF Legal
    <3>2. MessageRel(ei, rd, types, pos, v, d, q, i)
      BY <1>10, <1>11, <2>2 DEF DecRel
    <3>3. Legal(1, ei) /\ ValidStructure(1, ei, v) /\ Completes(1, ei, v, dec, i, q, j, p, c, b)
      BY <3>1
    <3>4. len < Limit(2)
      BY <1>2, <3>1
    <3>5. Reader(ei, rd, types, pos)
      BY <2>2 DEF ReaderAt
    <3>6. /\ Len(p) > Len(q)
          /\ MessageRel(ei, rd, types, pos, v, DecodeNext(dec, rd, buf, from, len, 1, d), p, j)
      BY <1>2, <3>2, <3>3, <3>4, <3>5, MessageTurn
    <3> QED BY <1>12, <2>2, <3>1, <3>6 DEF DecRel
  <2> QED BY <2>1, <2>2
<1>14. m + 1 <= np /\ 0 <= m + 1 /\ m < len
  BY <1>2, <1>5, <1>7, <1>10, <1>13
<1>15. IsSequence(rd)
  <2>1. CASE level > 1
    BY <2>1 DEF ReaderAt, Legal
  <2>2. CASE ~ (level > 1)
    BY <2>2 DEF ReaderAt, Reader
  <2> QED BY <2>1, <2>2
<1>16. g[m + 1] = e
  <2>1. m < len + Len(rd)
    BY <1>2, <1>14, <1>15 DEF IsSequence
  <2>2. g[m + 1] = DecodeNext(dec, rd, buf, from, len, level, g[m])
    BY <1>8, <1>10, <1>15, <2>1, RunStarts
  <2> QED BY <1>11, <1>12, <2>2
<1>17. PICK k \in Int : k = m + 1
  OBVIOUS
<1>18. 0 <= k /\ k <= Len(p) /\ DecRel(level, ei, rd, types, pos, v, g[k], p, j)
  BY <1>7, <1>13, <1>14, <1>16, <1>17
<1> QED BY <1>18 DEF Comes

\* It follows a turn of qmi_encode.
LEMMA ReachStep ==
  ASSUME NEW dec, NEW ei, NEW rd, NEW types, NEW pos, NEW v, NEW q, NEW p, NEW level \in Int,
         NEW i \in Int, NEW j \in Int, Legal(level, ei), ValidStructure(level, ei, v),
         i \in DOMAIN ei, ReaderAt(level, ei, rd, types, pos), q \in Seq(Nat),
         Reaches(level, dec, ei, rd, types, pos, v, q, i), EncStep(level, ei, v, dec, i, q, j, p)
  PROVE  Reaches(level, dec, ei, rd, types, pos, v, p, j) /\ j > i
<1>1. CASE p = q /\ Waits(ei, v, level, i, j)
  <2>1. Reaches(level, dec, ei, rd, types, pos, v, q, j)
    BY <1>1, ReachWait
  <2>2. j > i
    <3>1. CASE ei[i].type = "opt" /\ j = SkipToNextElem(ei, i, level)
      <4>1. level = 1
        <5>1. ElemFacts(level, ei, i)
          BY LegalElems
        <5> QED BY <3>1, <5>1 DEF ElemFacts
      <4>2. j = SkipToNextElem(ei, i, 1) /\ Legal(1, ei)
        BY <3>1, <4>1
      <4>3. j \in (i + 1)..(Len(ei) + 1)
        BY <4>2, AfterSkip
      <4>4. Len(ei) \in Nat
        BY <4>2 DEF Legal, IsSequence
      <4> QED BY <4>3, <4>4
    <3>2. CASE j = i + 1
      BY <3>2
    <3> QED BY <1>1, <3>1, <3>2 DEF Waits
  <2> QED BY <1>1, <2>1, <2>2
<1>2. CASE \E c \in Int, b \in Seq(Nat) : Completes(level, ei, v, dec, i, q, j, p, c, b)
  <2>1. PICK c \in Int : \E b \in Seq(Nat) : Completes(level, ei, v, dec, i, q, j, p, c, b)
    BY <1>2
  <2>2. PICK b : b \in Seq(Nat) /\ Completes(level, ei, v, dec, i, q, j, p, c, b)
    BY <2>1
  <2>3. Reaches(level, dec, ei, rd, types, pos, v, p, j)
    BY <2>2, ReachTurn
  <2>4. j > i
    <3>1. j = c + 1 /\ (c = i \/ c = i + 1)
      BY <2>2 DEF Completes
    <3> QED BY <3>1
  <2> QED BY <2>3, <2>4
<1> QED BY <1>1, <1>2 DEF EncStep

\* After k turns qmi_encode is behind element k, and qmi_decode can follow.
GoodAt(level, dec, ei, rd, types, pos, v, st, q, k) ==
  /\ EncGood(level, ei, v, st, q) /\ st.i > k
  /\ Reaches(level, dec, ei, rd, types, pos, v, q, st.i)

\* qmi_encode starts in a good state.
LEMMA GoodStart ==
  ASSUME NEW dec, NEW ei, NEW rd, NEW types, NEW pos, NEW v, NEW st, NEW q, NEW level \in Int,
         Legal(level, ei), ValidStructure(level, ei, v), ReaderAt(level, ei, rd, types, pos),
         q \in Seq(Nat), q = << >>, st = EncodeState(1, << >>, << >>, 0)
  PROVE  GoodAt(level, dec, ei, rd, types, pos, v, st, q, 0)
<1>1. DOMAIN ei = 1..Len(ei) /\ Len(ei) \in Nat /\ level \in 1..Levels
  BY DEF Legal, IsSequence
<1>2. Ok(st) /\ st.i = 1 /\ st.out = q /\ st.tlv = q
  <2>1. st = EncodeState(1, q, q, 0)
    OBVIOUS
  <2> QED BY <2>1, EncodeStates
<1>3. ~ Pending(ei, 1)
  <2>1. ASSUME Pending(ei, 1) PROVE FALSE
    <3>1. 1 \in DOMAIN ei /\ ei[1].array_type = "var"
      BY <2>1 DEF Pending
    <3>2. ElemFacts(level, ei, 1)
      BY <3>1, LegalElems
    <3>3. 1 - 1 \in DOMAIN ei
      BY <3>1, <3>2 DEF ElemFacts
    <3> QED BY <1>1, <3>3
  <2> QED BY <2>1
<1>4. Lead(ei, v, 1) = q
  BY <1>3 DEF Lead
<1>5. Cat(q, q) = q
  BY CatEmpty
<1>6. InForce(level, ei, v, 1)
  <2>1. NewTlv(ei, 1)
    BY DEF NewTlv
  <2>2. Present(ei, v, 1)
    BY <2>1, NewPresent
  <2> QED BY <2>2 DEF InForce
<1>7. Reaches(level, dec, ei, rd, types, pos, v, q, 1)
  <2>1. Len(q) = 0
    OBVIOUS
  <2> QED BY <2>1, ReachStart
<1>8. EncGood(level, ei, v, st, q)
  <2>1. st.i \in 1..(Len(ei) + 1)
    BY <1>1, <1>2
  <2>2. level = 1 => st.out = q /\ st.tlv = Lead(ei, v, st.i)
    BY <1>2, <1>4, Zenon
  <2>3. level > 1 => st.out = << >> /\ st.tlv = Cat(q, Lead(ei, v, st.i))
    BY <1>2, <1>4, <1>5, Zenon
  <2>4. ~ Pending(ei, st.i) /\ InForce(level, ei, v, st.i)
    BY <1>2, <1>3, <1>6
  <2> QED BY <1>2, <2>1, <2>2, <2>3, <2>4 DEF EncGood
<1>9. st.i > 0
  BY <1>2
<1>10. Reaches(level, dec, ei, rd, types, pos, v, q, st.i)
  BY <1>2, <1>7
<1> QED BY <1>8, <1>9, <1>10 DEF GoodAt

\* Its turns keep the state good.
LEMMA GoodNext ==
  ASSUME NEW enc, NEW dec, NEW ei, NEW rd, NEW types, NEW pos, NEW v, NEW st, NEW q, NEW next,
         NEW level \in Int, NEW room \in Int, NEW k \in Int, Legal(level, ei),
         ValidStructure(level, ei, v), ReaderAt(level, ei, rd, types, pos),
         Carries(enc, dec, level + 1), GoodAt(level, dec, ei, rd, types, pos, v, st, q, k),
         k < Len(ei), next = EncodeNext(enc, ei, v, room, level, st), Ok(next)
  PROVE  \E p : GoodAt(level, dec, ei, rd, types, pos, v, next, p, k + 1)
<1>1. DOMAIN ei = 1..Len(ei) /\ Len(ei) \in Nat
  BY DEF Legal, IsSequence
<1>2. /\ EncGood(level, ei, v, st, q) /\ st.i > k
      /\ Reaches(level, dec, ei, rd, types, pos, v, q, st.i)
  BY DEF GoodAt
<1>3. PICK i \in Int : i = st.i /\ i \in 1..(Len(ei) + 1) /\ Ok(st) /\ q \in Seq(Nat)
  BY <1>2 DEF EncGood
<1>4. CASE i > Len(ei)
  <2>1. next = st
    BY <1>3, <1>4 DEF EncodeNext
  <2>2. st.i > k + 1
    BY <1>1, <1>3, <1>4
  <2>3. GoodAt(level, dec, ei, rd, types, pos, v, next, q, k + 1)
    BY <1>2, <2>1, <2>2 DEF GoodAt
  <2> QED BY <2>3
<1>5. CASE i <= Len(ei)
  <2>1. st.i \in DOMAIN ei /\ i \in DOMAIN ei
    BY <1>1, <1>3, <1>5
  <2>2. next = EncodeElem(enc, ei, v, room, level, st)
    BY <1>1, <1>3, <1>5 DEF EncodeNext, Ok
  <2>3. GoodTurn(level, ei, v, dec, st, q, next)
    <3>1. Ok(EncodeElem(enc, ei, v, room, level, st))
      BY <2>2
    <3>2. GoodTurn(level, ei, v, dec, st, q, EncodeElem(enc, ei, v, room, level, st))
      BY <1>2, <2>1, <3>1, TurnGood
    <3> QED BY <2>2, <3>2
  <2>4. PICK p : EncGood(level, ei, v, next, p) /\ EncStep(level, ei, v, dec, st.i, q, next.i, p)
    BY <2>3 DEF GoodTurn
  <2>5. PICK j \in Int : j = next.i
    BY <2>4 DEF EncGood
  <2>6. Reaches(level, dec, ei, rd, types, pos, v, p, j) /\ j > i
    <3>1. Reaches(level, dec, ei, rd, types, pos, v, q, i) /\ EncStep(level, ei, v, dec, i, q, j, p)
      BY <1>2, <1>3, <2>4, <2>5
    <3> QED BY <1>3, <2>1, <3>1, ReachStep
  <2>7. next.i > k + 1
    BY <1>2, <1>3, <2>5, <2>6
  <2>8. GoodAt(level, dec, ei, rd, types, pos, v, next, p, k + 1)
    BY <2>4, <2>5, <2>6, <2>7 DEF GoodAt
  <2> QED BY <2>8
<1> QED BY <1>1, <1>3, <1>4, <1>5

\* qmi_encode is good after every turn that succeeds.
LEMMA EncodeGood ==
  ASSUME NEW enc, NEW dec, NEW ei, NEW rd, NEW types, NEW pos, NEW v, NEW f, NEW level \in Int,
         NEW room \in Int, Legal(level, ei), ValidStructure(level, ei, v),
         ReaderAt(level, ei, rd, types, pos), Carries(enc, dec, level + 1),
         IsEncoding(enc, ei, v, room, level, f, Len(ei))
  PROVE  \A k \in 0..Len(ei) : Ok(f[k]) => \E q : GoodAt(level, dec, ei, rd, types, pos, v, f[k], q, k)
<1>1. DOMAIN ei = 1..Len(ei) /\ Len(ei) \in Nat
  BY DEF Legal, IsSequence
<1>2. PICK n \in Nat : n = Len(ei)
  BY <1>1
<1>3. /\ f[0] = EncodeState(1, << >>, << >>, 0)
      /\ \A k \in 1..Len(ei) : f[k] = EncodeNext(enc, ei, v, room, level, f[k - 1])
  BY <1>1, EncodingTurns
<1> DEFINE S == { k \in 0..n : Ok(f[k]) => \E q : GoodAt(level, dec, ei, rd, types, pos, v, f[k], q, k) }
<1>4. 0 \in S
  <2>1. PICK z \in Seq(Nat) : z = << >>
    BY EmptySeq
  <2>2. GoodAt(level, dec, ei, rd, types, pos, v, f[0], z, 0)
    BY <1>3, <2>1, GoodStart
  <2> QED BY <2>2
<1>5. ASSUME NEW k \in 0..(n - 1), k \in S PROVE k + 1 \in S
  <2>1. k + 1 \in 0..n /\ k + 1 \in 1..Len(ei) /\ (k + 1) - 1 = k /\ k < Len(ei) /\ k \in Int
    BY <1>2
  <2>2. f[k + 1] = EncodeNext(enc, ei, v, room, level, f[k])
    <3>1. f[k + 1] = EncodeNext(enc, ei, v, room, level, f[(k + 1) - 1])
      BY <1>3, <2>1
    <3> QED BY <2>1, <3>1
  <2>3. ASSUME Ok(f[k + 1])
        PROVE  \E q : GoodAt(level, dec, ei, rd, types, pos, v, f[k + 1], q, k + 1)
    <3>1. PICK st : st = f[k]
      OBVIOUS
    <3>2. PICK next : next = f[k + 1] /\ next = EncodeNext(enc, ei, v, room, level, st) /\ Ok(next)
      BY <2>2, <2>3, <3>1
    <3>3. Ok(st)
      <4>1. ASSUME ~ Ok(st) PROVE FALSE
        <5>1. next = st
          BY <3>2, <4>1 DEF EncodeNext, Ok
        <5> QED BY <3>2, <4>1, <5>1
      <4> QED BY <4>1
    <3>4. PICK q : GoodAt(level, dec, ei, rd, types, pos, v, st, q, k)
      BY <1>5, <3>1, <3>3
    <3>5. \E p : GoodAt(level, dec, ei, rd, types, pos, v, next, p, k + 1)
      BY <2>1, <3>2, <3>4, GoodNext
    <3> QED BY <3>2, <3>5
  <2> QED BY <2>1, <2>3
<1> HIDE DEF S
<1>6. \A k \in 0..n : k \in S
  BY <1>4, <1>5, IntervalInduction
<1> QED BY <1>2, <1>6 DEF S

\* Whatever qmi_encode puts out, qmi_decode comes to where it is complete.
LEMMA EncodeReaches ==
  ASSUME NEW enc, NEW dec, NEW ei, NEW rd, NEW types, NEW pos, NEW v, NEW r, NEW level \in Int,
         NEW room \in Int, Legal(level, ei), ValidStructure(level, ei, v),
         ReaderAt(level, ei, rd, types, pos), Carries(enc, dec, level + 1),
         r = QmiEncode(enc, ei, v, room, level), Ok(r)
  PROVE  r.out \in Seq(Nat) /\ Reaches(level, dec, ei, rd, types, pos, v, r.out, Len(ei) + 1)
<1>1. DOMAIN ei = 1..Len(ei) /\ Len(ei) \in Nat
  BY DEF Legal, IsSequence
<1>2. PICK n \in Nat : n = Len(ei)
  BY <1>1
<1>3. PICK f : /\ IsEncoding(enc, ei, v, room, level, f, Len(ei))
               /\ EncodeLoop(enc, ei, v, room, level) = f
  BY <1>1, EncodingRun
<1>4. PICK st : st = f[n]
  OBVIOUS
<1>5. r = IF Ok(st) THEN Emit(Cat(st.out, st.tlv)) ELSE Einval
  BY <1>2, <1>3, <1>4 DEF QmiEncode, Ok, Cat
<1>6. Ok(st) /\ r.out = Cat(st.out, st.tlv)
  BY <1>5, Results
<1>7. PICK q : GoodAt(level, dec, ei, rd, types, pos, v, st, q, n)
  <2>1. n \in 0..Len(ei)
    BY <1>2
  <2>2. \A k \in 0..Len(ei) : Ok(f[k]) => \E q : GoodAt(level, dec, ei, rd, types, pos, v, f[k], q, k)
    BY <1>3, EncodeGood
  <2> QED BY <1>4, <1>6, <2>1, <2>2
<1>8. st.i = n + 1 /\ q \in Seq(Nat)
  <2>1. st.i > n /\ st.i \in 1..(n + 1) /\ q \in Seq(Nat)
    BY <1>2, <1>7 DEF GoodAt, EncGood
  <2> QED BY <2>1
<1>9. Lead(ei, v, n + 1) = << >>
  <2>1. ~ (n + 1 \in DOMAIN ei)
    BY <1>1, <1>2
  <2> QED BY <2>1 DEF Lead, Pending
<1>10. r.out = q
  <2>1. PICK z \in Seq(Nat) : z = << >>
    BY EmptySeq
  <2>2. Lead(ei, v, st.i) = z
    BY <1>8, <1>9, <2>1
  <2>3. Cat(q, z) = q /\ Cat(z, q) = q
    BY <1>8, <2>1, CatEmpty
  <2>4. EncGood(level, ei, v, st, q)
    BY <1>7 DEF GoodAt
  <2>5. CASE level = 1
    <3>1. st.out = q /\ st.tlv = z
      BY <2>2, <2>4, <2>5 DEF EncGood
    <3> QED BY <1>6, <2>3, <3>1
  <2>6. CASE level > 1
    <3>1. st.out = << >> /\ st.tlv = Cat(q, Lead(ei, v, st.i))
      BY <2>4, <2>6 DEF EncGood
    <3>2. st.out = z
      BY <2>1, <3>1, Zenon
    <3>3. st.tlv = q
      BY <2>2, <2>3, <3>1
    <3> QED BY <1>6, <2>3, <3>2, <3>3
  <2> QED BY <2>5, <2>6 DEF Legal
<1> QED BY <1>2, <1>7, <1>8, <1>10 DEF GoodAt

\* qmi_decode stays where it is when it has nothing to do.
LEMMA StuckStays ==
  ASSUME NEW dec, NEW rd, NEW q, NEW g, NEW buf, NEW d, NEW level \in Int, NEW from \in Int,
         NEW len \in Int, NEW m \in Int, IsSequence(rd),
         IsRun(level, dec, rd, q, g, buf, from, len), 0 <= m, m <= len + Len(rd), d = g[m],
         DecodeNext(dec, rd, buf, from, len, level, d) = d
  PROVE  g[len + Len(rd)] = d
<1>1. len \in Nat /\ Len(rd) \in Nat
  BY DEF IsRun, IsSequence
<1>2. PICK n \in Int : n = len + Len(rd) /\ n \in Nat
  BY <1>1
<1>3. PICK N \in Nat : N = n - m /\ m + N = n
  BY <1>2
<1> DEFINE S == { k \in 0..N : g[m + k] = d }
<1>4. 0 \in S
  <2>1. m + 0 = m
    OBVIOUS
  <2> QED BY <2>1
<1>5. ASSUME NEW k \in 0..(N - 1), k \in S PROVE k + 1 \in S
  <2>1. k + 1 \in 0..N /\ m + (k + 1) = (m + k) + 1 /\ 0 <= m + k /\ m + k < n /\ m + k \in Int
    BY <1>3
  <2>2. g[(m + k) + 1] = DecodeNext(dec, rd, buf, from, len, level, g[m + k])
    BY <1>2, <2>1, RunStarts
  <2>3. g[m + k] = d
    BY <1>5
  <2> QED BY <2>1, <2>2, <2>3
<1> HIDE DEF S
<1>6. \A k \in 0..N : k \in S
  BY <1>4, <1>5, IntervalInduction
<1>7. N \in S
  BY <1>6
<1> QED BY <1>2, <1>3, <1>7 DEF S

\* At the end of its input qmi_decode has found all of it.
LEMMA ComesToEnd ==
  ASSUME NEW dec, NEW ei, NEW rd, NEW types, NEW pos, NEW v, NEW q, NEW g, NEW buf,
         NEW level \in Int, NEW from \in Int, NEW len \in Int, Legal(level, ei),
         ReaderAt(level, ei, rd, types, pos), q \in Seq(Nat),
         IsRun(level, dec, rd, q, g, buf, from, len),
         Comes(level, ei, rd, types, pos, v, q, Len(ei) + 1, g), level > 1 \/ len <= Len(q)
  PROVE  DecRel(level, ei, rd, types, pos, v, g[len + Len(rd)], q, Len(ei) + 1)
<1>1. DOMAIN ei = 1..Len(ei) /\ Len(ei) \in Nat /\ level \in 1..Levels
  BY DEF Legal, IsSequence
<1>2. IsSequence(rd)
  BY <1>1 DEF ReaderAt, Reader, Legal
<1>3. len \in Nat /\ Len(rd) \in Nat /\ Len(q) <= len
  BY <1>2 DEF IsRun, IsSequence
<1>4. PICK nq \in Nat : nq = Len(q)
  OBVIOUS
<1>5. PICK m \in Int : /\ 0 <= m /\ m <= nq
                       /\ DecRel(level, ei, rd, types, pos, v, g[m], q, Len(ei) + 1)
  BY <1>4 DEF Comes
<1>6. PICK d : d = g[m]
  OBVIOUS
<1>7. DecodeNext(dec, rd, buf, from, len, level, d) = d
  <2>1. CASE level > 1
    <3>1. rd = ei /\ NestedRel(ei, v, d, q, Len(ei) + 1)
      BY <1>5, <1>6, <2>1 DEF ReaderAt, DecRel
    <3>2. ~ Pending(ei, Len(ei) + 1)
      BY <1>1 DEF Pending
    <3>3. d.i = Len(ei) + 1
      BY <3>1, <3>2 DEF NestedRel
    <3>4. d.i > Len(rd)
      BY <1>1, <3>1, <3>3
    <3> QED BY <2>1, <3>4 DEF DecodeNext
  <2>2. CASE ~ (level > 1)
    <3>1. level = 1
      BY <1>1, <2>2
    <3>2. MessageRel(ei, rd, types, pos, v, d, q, Len(ei) + 1)
      BY <1>5, <1>6, <2>2 DEF DecRel
    <3>3. d.at = nq /\ nq = len
      BY <1>3, <1>4, <2>2, <3>1, <3>2 DEF MessageRel
    <3>4. d.at >= len
      BY <3>3
    <3> QED BY <3>4 DEF DecodeNext
  <2> QED BY <2>1, <2>2
<1>8. m <= len + Len(rd)
  BY <1>3, <1>4, <1>5
<1>9. g[len + Len(rd)] = d
  BY <1>2, <1>5, <1>6, <1>7, <1>8, StuckStays
<1> QED BY <1>5, <1>6, <1>9

\* Bytes are in themselves.
LEMMA MatchSelf ==
  ASSUME NEW q, q \in Seq(Nat)
  PROVE  Match(q, 0, q)
<1>1. Len(q) \in Nat
  OBVIOUS
<1>2. \A p \in 1..Len(q) : 0 + p = p
  OBVIOUS
<1>3. 0 + Len(q) <= Len(q)
  BY <1>1
<1> QED BY <1>2, <1>3 DEF Match

\* In state d qmi_decode has come to where q is complete, and returns it.
Ends(level, dec, ei, rd, types, pos, v, q, buf, from, len, g, d) ==
  /\ DecRel(level, ei, rd, types, pos, v, d, q, Len(ei) + 1) /\ Ok(d)
  /\ IsRun(level, dec, rd, q, g, buf, from, len)
  /\ Comes(level, ei, rd, types, pos, v, q, Len(ei) + 1, g)
  /\ QmiDecode(dec, rd, buf, from, len, level) = Took(Len(q), d.v)

\* qmi_decode returns what it has come to.
LEMMA DecodeEnds ==
  ASSUME NEW dec, NEW ei, NEW rd, NEW types, NEW pos, NEW v, NEW q, NEW buf, NEW level \in Int,
         NEW from \in Int, NEW len \in Int, Legal(level, ei), ReaderAt(level, ei, rd, types, pos),
         q \in Seq(Nat), Reaches(level, dec, ei, rd, types, pos, v, q, Len(ei) + 1),
         buf \in Seq(Nat), from \in Nat, len \in Nat, Match(buf, from, q), Len(q) <= len,
         \/ level > 1 \/ (len <= Len(q) /\ len < Limit(2))
  PROVE  \E d, g : Ends(level, dec, ei, rd, types, pos, v, q, buf, from, len, g, d)
<1>1. IsSequence(rd)
  BY DEF ReaderAt, Reader, Legal
<1>2. len + Len(rd) \in Nat
  BY <1>1 DEF IsSequence
<1>3. PICK g : /\ IsDecoding(dec, rd, buf, from, len, level, g, len + Len(rd))
               /\ DecodeLoop(dec, rd, buf, from, len, level) = g
  BY <1>2, DecodingRun
<1>4. IsRun(level, dec, rd, q, g, buf, from, len)
  BY <1>3 DEF IsRun
<1>5. Comes(level, ei, rd, types, pos, v, q, Len(ei) + 1, g)
  BY <1>4 DEF Reaches
<1>6. PICK d : d = g[len + Len(rd)]
  OBVIOUS
<1>7. DecRel(level, ei, rd, types, pos, v, d, q, Len(ei) + 1)
  BY <1>4, <1>5, <1>6, ComesToEnd
<1>8. Ok(d) /\ d.at = Len(q)
  BY <1>7 DEF DecRel, NestedRel, MessageRel
<1>9. QmiDecode(dec, rd, buf, from, len, level) = IF Ok(d) THEN Took(d.at, d.v) ELSE Refused
  BY <1>3, <1>6 DEF QmiDecode, Ok
<1> QED BY <1>4, <1>5, <1>7, <1>8, <1>9 DEF Ends

\* Structures arrive as they were sent, when those nested in them do.
LEMMA StructureCarried ==
  ASSUME NEW enc, NEW dec, NEW s, NEW o, NEW level \in NestedLevels, NEW room \in Int,
         level <= Levels, Carries(enc, dec, level + 1), s \in Structures[level],
         o = QmiEncode(enc, s.ei, s.v, room, level), Ok(o)
  PROVE  CarriedBy(o, s, DecodeAt(dec, level))
<1>1. PICK ei, v : ei = s.ei /\ v = s.v
  OBVIOUS
<1>2. ei \in Descriptors[level] /\ ValidStructure(level, ei, v)
  BY <1>1, DescriptorsLegal
<1>3. Legal(level, ei) /\ Len(ei) > 0
  BY <1>2, LegalDescriptors
<1>4. level \in Int /\ level > 1 /\ Len(ei) \in Nat
  BY <1>3, CodecConstants DEF NestedLevels, Legal, IsSequence
<1>5. PICK q, pos, types : q = o.out /\ pos = 0 /\ types = 0
  OBVIOUS
<1>6. ReaderAt(level, ei, ei, types, pos)
  BY <1>4 DEF ReaderAt
<1>7. q \in Seq(Nat) /\ Reaches(level, dec, ei, ei, types, pos, v, q, Len(ei) + 1)
  <2>1. o = QmiEncode(enc, ei, v, room, level)
    BY <1>1
  <2>2. o.out \in Seq(Nat) /\ Reaches(level, dec, ei, ei, types, pos, v, o.out, Len(ei) + 1)
    BY <1>2, <1>3, <1>4, <1>6, <2>1, EncodeReaches
  <2> QED BY <1>5, <2>2
<1>8. ~ (level = 1)
  BY <1>4
<1>9. Len(q) > 0
  <2>1. Match(q, 0, q) /\ Len(q) \in Nat
    BY <1>7, MatchSelf
  <2>2. PICK from \in Int : from = 0 /\ from \in Nat
    OBVIOUS
  <2>3. PICK len \in Int : len = Len(q) /\ len \in Nat /\ Len(q) <= len
    BY <2>1
  <2>4. Match(q, from, q)
    BY <2>1, <2>2
  <2>5. PICK d, g : Ends(level, dec, ei, ei, types, pos, v, q, q, from, len, g, d)
    BY <1>3, <1>4, <1>6, <1>7, <1>8, <2>2, <2>3, <2>4, DecodeEnds
  <2>6. PICK m \in Int : /\ 0 <= m /\ m <= Len(q)
                         /\ DecRel(level, ei, ei, types, pos, v, g[m], q, Len(ei) + 1)
    BY <2>5 DEF Ends, Comes
  <2>7. ASSUME m = 0 PROVE FALSE
    <3>1. IsSequence(ei)
      BY <1>3 DEF Legal
    <3>2. g[0] = DecodeState(0, 1, 0, Zeroed(ei))
      BY <1>4, <2>5, <3>1, RunStarts DEF Ends
    <3>3. g[0].i = 1
      BY <3>2, DecodeStates
    <3>4. NestedRel(ei, v, g[0], q, Len(ei) + 1)
      BY <1>4, <2>6, <2>7 DEF DecRel
    <3>5. ~ Pending(ei, Len(ei) + 1)
      BY <1>4, <3>1 DEF Pending, IsSequence
    <3>6. g[0].i = Len(ei) + 1
      BY <3>4, <3>5 DEF NestedRel
    <3> QED BY <1>3, <1>4, <3>3, <3>6
  <2> QED BY <2>1, <2>6, <2>7
<1>10. ASSUME NEW buf, NEW from \in Int, NEW len \in Int, buf \in Seq(Nat), from \in Nat, len \in Nat,
              Match(buf, from, q), Len(q) <= len
       PROVE  DecodeAt(dec, level)[<<s.ei, buf, from, len>>] = Took(Len(q), v)
  <2>1. PICK d, g : Ends(level, dec, ei, ei, types, pos, v, q, buf, from, len, g, d)
    BY <1>3, <1>4, <1>6, <1>7, <1>8, <1>10, DecodeEnds
  <2>2. d.v = v
    <3>1. NestedRel(ei, v, d, q, Len(ei) + 1)
      BY <1>4, <2>1 DEF Ends, DecRel
    <3>2. ~ Pending(ei, Len(ei) + 1)
      BY <1>3, <1>4 DEF Pending, Legal, IsSequence
    <3>3. d.v = Partial(ei, v, Len(ei) + 1)
      BY <3>1, <3>2 DEF NestedRel
    <3>4. IsSequence(ei)
      BY <1>3 DEF Legal
    <3> QED BY <1>2, <1>4, <3>3, <3>4, PartialEnds
  <2>3. PICK x : x = <<ei, buf, from, len>>
    OBVIOUS
  <2>4. x \in Descriptors[level] \X Seq(Nat) \X Nat \X Nat
    BY <1>2, <1>10, <2>3
  <2>5. x[1] = ei /\ x[2] = buf /\ x[3] = from /\ x[4] = len
    BY <2>3
  <2>6. DecodeAt(dec, level)[x] = QmiDecode(dec, x[1], x[2], x[3], x[4], level)
    BY <2>4 DEF DecodeAt
  <2>7. QmiDecode(dec, ei, buf, from, len, level) = Took(Len(q), v)
    BY <2>1, <2>2 DEF Ends
  <2> QED BY <1>1, <2>3, <2>5, <2>6, <2>7
<1> QED BY <1>1, <1>5, <1>7, <1>9, <1>10 DEF CarriedBy

\* qmi_encode and qmi_decode at a level, on what they are used for.
LEMMA AtLevel ==
  ASSUME NEW nested, NEW level \in Int, NEW s, NEW r \in Int, s \in Structures[level]
  PROVE  EncodeAt(nested, level)[<<s, r>>] = QmiEncode(nested, s.ei, s.v, r, level)
<1>1. PICK x : x = <<s, r>>
  OBVIOUS
<1>2. x \in Structures[level] \X Int /\ x[1] = s /\ x[2] = r
  BY <1>1
<1>3. EncodeAt(nested, level)[x] = QmiEncode(nested, x[1].ei, x[1].v, x[2], level)
  BY <1>2 DEF EncodeAt
<1> QED BY <1>1, <1>2, <1>3

\* Structures arrive at every level.
THEOREM Contract ==
  \A level \in NestedLevels : Carries(Encoder[level], Decoder[level], level)
<1> DEFINE S == { level \in NestedLevels : Carries(Encoder[level], Decoder[level], level) }
<1>1. ASSUME NEW level \in NestedLevels, level <= Levels => level + 1 \in S PROVE level \in S
  <2>1. SUFFICES ASSUME NEW s \in Structures[level], NEW r \in Int, Ok(Encoder[level][<<s, r>>])
                 PROVE  CarriedBy(Encoder[level][<<s, r>>], s, Decoder[level])
    BY DEF Carries
  <2>2. level <= Levels
    BY DescriptorsLegal
  <2>3. Carries(Encoder[level + 1], Decoder[level + 1], level + 1)
    BY <1>1, <2>2
  <2>4. PICK enc, dec : enc = Encoder[level + 1] /\ dec = Decoder[level + 1]
    OBVIOUS
  <2>5. Encoder[level] = EncodeAt(enc, level) /\ Decoder[level] = DecodeAt(dec, level)
    BY <2>2, <2>4, EncoderLevels, DecoderLevels
  <2>6. PICK o : o = QmiEncode(enc, s.ei, s.v, r, level)
    OBVIOUS
  <2>7. level \in Int
    BY CodecConstants DEF NestedLevels
  <2>8. Encoder[level][<<s, r>>] = o
    BY <2>1, <2>5, <2>6, <2>7, AtLevel
  <2>9. Ok(o)
    BY <2>1, <2>8
  <2>10. Carries(enc, dec, level + 1)
    BY <2>3, <2>4
  <2>11. CarriedBy(o, s, DecodeAt(dec, level))
    BY <2>1, <2>2, <2>6, <2>9, <2>10, StructureCarried
  <2> QED BY <2>5, <2>8, <2>11
<1> HIDE DEF S
<1>2. \A level \in NestedLevels : level \in S
  BY <1>1, LevelInduction
<1> QED BY <1>2 DEF S

-----------------------------------------------------------------------------
(* The checks for room.                                                    *)

\* p is put out with r bytes of room, where o is with enough of them: room for
\* a TLV's header is asked for in any case.
Within(o, p, r) ==
  /\ Len(o.out) + TlvHead <= r => p = o
  /\ Len(o.out) + TlvHead > r => ~ Ok(p)

\* Structures without strings are encoded wherever they fit.
Exact(enc, has, level) ==
  \A s \in Structures[level], R \in Int, r \in Int :
    ~ has[s.ei] /\ Ok(enc[<<s, R>>]) => Within(enc[<<s, R>>], enc[<<s, r>>], r)

\* As long as nothing is put out, nothing is checked.
WithinSoFar(o, p, r) == (Len(o.out) = 0 /\ p = o) \/ Within(o, p, r)

\* One more structure fits where its bytes and those before it fit.
LEMMA WithinStep ==
  ASSUME NEW enc, NEW dec, NEW has, NEW ei, NEW vs, NEW done, NEW mine, NEW next, NEW level \in Int,
         NEW R \in Int, NEW r \in Int, NEW k \in Int, Exact(enc, has, level), ~ has[ei],
         [ei |-> ei, v |-> vs[k]] \in Structures[level],
         PutStep(enc, dec, R, [ei |-> ei, v |-> vs[k]], done, next),
         PutOk(enc, [ei |-> ei, v |-> vs[k]], R, done, next), WithinSoFar(done, mine, r)
  PROVE  Within(next, PutNext(enc, ei, vs, r, k, mine), r)
<1>1. PICK s : s = [ei |-> ei, v |-> vs[k]]
  OBVIOUS
<1>2. s \in Structures[level] /\ PutStep(enc, dec, R, s, done, next) /\ PutOk(enc, s, R, done, next)
  BY <1>1
<1>3. s.ei = ei
  BY <1>1
<1>4. PICK a \in Int : a = Len(done.out) /\ a >= 0
  <2>1. done.out \in Seq(Nat)
    BY <1>2 DEF PutStep
  <2>2. Len(done.out) \in Nat
    BY <2>1
  <2> QED BY <2>2
<1>5. PICK o : o = enc[<<s, R - a>>]
  OBVIOUS
<1>6. Ok(done) /\ Ok(o) /\ next = Emit(done.out \o o.out)
  BY <1>2, <1>4, <1>5 DEF PutOk
<1>7. PICK b \in Int : b = Len(o.out) /\ b > 0 /\ Len(next.out) = a + b
  <2>1. CarriedBy(o, s, dec) /\ Len(next.out) = Len(done.out) + Len(o.out)
    BY <1>2, <1>4, <1>5 DEF PutStep
  <2>2. o.out \in Seq(Nat) /\ Len(o.out) > 0
    BY <2>1 DEF CarriedBy
  <2>3. PICK b \in Int : b = Len(o.out)
    BY <2>2
  <2>4. b > 0 /\ Len(next.out) = a + b
    BY <1>4, <2>1, <2>2, <2>3
  <2> QED BY <2>3, <2>4, Zenon
<1>8. PICK p : p = enc[<<s, r - a>>]
  OBVIOUS
<1>9. Within(o, p, r - a)
  <2>1. Ok(enc[<<s, R - a>>]) /\ ~ has[s.ei] /\ R - a \in Int /\ r - a \in Int
    BY <1>3, <1>5, <1>6
  <2>2. Within(enc[<<s, R - a>>], enc[<<s, r - a>>], r - a)
    BY <1>2, <2>1 DEF Exact
  <2> QED BY <1>5, <1>8, <2>2
<1>10. PICK mynext : mynext = PutNext(enc, ei, vs, r, k, mine)
  OBVIOUS
<1>11. ASSUME ~ Ok(mine) PROVE ~ Ok(mynext)
  BY <1>10, <1>11, Results DEF PutNext, Ok
<1>12. ASSUME mine = done
       PROVE  mynext = IF Ok(p) THEN Emit(done.out \o p.out) ELSE Einval
  <2>1. mynext = IF Ok(done) /\ Ok(p) THEN Emit(done.out \o p.out) ELSE Einval
    BY <1>1, <1>4, <1>8, <1>10, <1>12 DEF PutNext, Ok
  <2> QED BY <1>6, <2>1
<1>13. ASSUME a + b + TlvHead <= r PROVE mynext = next
  <2>1. a + TlvHead <= r /\ b + TlvHead <= r - a
    BY <1>7, <1>13 DEF TlvHead
  <2>2. mine = done
    BY <1>4, <2>1 DEF WithinSoFar, Within
  <2>3. p = o
    BY <1>7, <1>9, <2>1 DEF Within
  <2> QED BY <1>6, <1>12, <2>2, <2>3
<1>14. ASSUME a + b + TlvHead > r PROVE ~ Ok(mynext)
  <2>1. b + TlvHead > r - a
    BY <1>14 DEF TlvHead
  <2>2. ~ Ok(p)
    BY <1>7, <1>9, <2>1 DEF Within
  <2>3. CASE mine = done
    BY <1>12, <2>2, <2>3, Results
  <2>4. CASE mine # done
    <3>1. Within(done, mine, r)
      BY <2>4 DEF WithinSoFar
    <3>2. ~ (a + TlvHead <= r)
      BY <1>4, <2>4, <3>1 DEF Within
    <3>3. a + TlvHead > r
      BY <3>2 DEF TlvHead
    <3>4. ~ Ok(mine)
      BY <1>4, <3>1, <3>3 DEF Within
    <3> QED BY <1>11, <3>4
  <2> QED BY <2>3, <2>4
<1> QED BY <1>7, <1>10, <1>13, <1>14 DEF Within

\* An array of structures fits where its bytes fit.
LEMMA StructsWithin ==
  ASSUME NEW enc, NEW dec, NEW has, NEW ei, NEW vs, NEW level \in Int, NEW n \in Int, NEW R \in Int,
         NEW r \in Int, level \in Nat, Carries(enc, dec, level), n \in Nat, n > 0,
         Holds(level, ei, vs, n), Exact(enc, has, level), ~ has[ei],
         Ok(EncodeStructs(enc, ei, vs, n, R))
  PROVE  Within(EncodeStructs(enc, ei, vs, n, R), EncodeStructs(enc, ei, vs, n, r), r)
<1>1. PICK f : IsPutting(enc, ei, vs, R, f, n) /\ EncodeStructs(enc, ei, vs, n, R) = f[n]
  BY PuttingRun
<1>2. PICK g : IsPutting(enc, ei, vs, r, g, n) /\ EncodeStructs(enc, ei, vs, n, r) = g[n]
  BY PuttingRun
<1>3. f[0] = Emit(<< >>) /\ \A k \in 1..n : f[k] = PutNext(enc, ei, vs, R, k, f[k - 1])
  BY <1>1, PuttingTurns
<1>4. g[0] = Emit(<< >>) /\ \A k \in 1..n : g[k] = PutNext(enc, ei, vs, r, k, g[k - 1])
  BY <1>2, PuttingTurns
<1>5. \A k \in 0..(n - 1) : PutStep(enc, dec, R, [ei |-> ei, v |-> vs[k + 1]], f[k], f[k + 1])
  <2>1. Ok(f[n])
    BY <1>1
  <2> QED BY <1>1, <2>1, PutRunSteps
<1>6. Ok(f[n])
  BY <1>1
<1>7. \A k \in 0..n : Ok(f[k])
  <2>1. ASSUME NEW k \in 0..n PROVE Ok(f[k])
    <3>1. CASE k = n
      BY <1>6, <3>1
    <3>2. CASE k # n
      <4>1. k \in 0..(n - 1)
        BY <3>2
      <4> QED BY <1>5, <4>1 DEF PutStep
    <3> QED BY <3>1, <3>2
  <2> QED BY <2>1
<1> DEFINE S == { k \in 0..n : WithinSoFar(f[k], g[k], r) /\ (k > 0 => Within(f[k], g[k], r)) }
<1>8. 0 \in S
  <2>1. f[0] = g[0] /\ f[0].out = << >>
    BY <1>3, <1>4, Results
  <2>2. Len(f[0].out) = 0
    BY <2>1
  <2> QED BY <2>1, <2>2 DEF WithinSoFar
<1>9. ASSUME NEW k \in 0..(n - 1), k \in S PROVE k + 1 \in S
  <2>1. k + 1 \in 1..n /\ k + 1 \in 0..n /\ (k + 1) - 1 = k /\ k + 1 \in Int
    OBVIOUS
  <2>2. /\ f[k + 1] = PutNext(enc, ei, vs, R, k + 1, f[k])
        /\ g[k + 1] = PutNext(enc, ei, vs, r, k + 1, g[k])
    <3>1. /\ f[k + 1] = PutNext(enc, ei, vs, R, k + 1, f[(k + 1) - 1])
          /\ g[k + 1] = PutNext(enc, ei, vs, r, k + 1, g[(k + 1) - 1])
      BY <1>3, <1>4, <2>1
    <3> QED BY <2>1, <3>1
  <2>3. PICK done, mine, next : done = f[k] /\ mine = g[k] /\ next = f[k + 1]
    OBVIOUS
  <2>4. PutStep(enc, dec, R, [ei |-> ei, v |-> vs[k + 1]], done, next)
    BY <1>5, <2>3
  <2>5. PutOk(enc, [ei |-> ei, v |-> vs[k + 1]], R, done, next)
    <3>1. Ok(PutNext(enc, ei, vs, R, k + 1, done))
      BY <1>7, <2>1, <2>2, <2>3
    <3>2. PutOk(enc, [ei |-> ei, v |-> vs[k + 1]], R, done, PutNext(enc, ei, vs, R, k + 1, done))
      BY <2>1, <3>1, PutNextOk
    <3> QED BY <2>2, <2>3, <3>2
  <2>6. WithinSoFar(done, mine, r)
    BY <1>9, <2>3
  <2>7. [ei |-> ei, v |-> vs[k + 1]] \in Structures[level]
    BY <2>1 DEF Holds
  <2>8. Within(next, PutNext(enc, ei, vs, r, k + 1, mine), r)
    BY <2>1, <2>4, <2>5, <2>6, <2>7, WithinStep
  <2>9. Within(f[k + 1], g[k + 1], r)
    BY <2>2, <2>3, <2>8
  <2> QED BY <2>1, <2>9 DEF WithinSoFar
<1> HIDE DEF S
<1>10. \A k \in 0..n : k \in S
  BY <1>8, <1>9, IntervalInduction
<1>11. Within(f[n], g[n], r)
  <2>1. n \in S
    BY <1>10
  <2> QED BY <2>1 DEF S
<1> QED BY <1>1, <1>2, <1>11

\* Values without strings of structures are encoded wherever they fit.
LEMMA ValueWithin ==
  ASSUME NEW enc, NEW dec, NEW has, NEW e, NEW x, NEW level \in Int, NEW n \in Int, NEW R \in Int,
         NEW r \in Int, level \in Nat \ {0}, n \in Nat, n > 0, Carries(enc, dec, level + 1),
         Exact(enc, has, level + 1), ValueElem(level, e), ValidAs(level, e, n, x),
         e.type = "string" => ~ (level > 1), e.type = "struct" => ~ has[e.ei],
         Ok(EncodeValue(enc, level, e, x, n, R))
  PROVE  Within(EncodeValue(enc, level, e, x, n, R), EncodeValue(enc, level, e, x, n, r), r)
<1>1. PICK o, p : o = EncodeValue(enc, level, e, x, n, R) /\ p = EncodeValue(enc, level, e, x, n, r)
  OBVIOUS
<1>2. Ok(o)
  BY <1>1
<1>3. CASE e.type = "basic"
  <2>1. Len(x) = n * e.elem_size /\ x \in Seq(Byte)
    BY <1>3 DEF ValidAs
  <2>2. PICK m \in Int : m = n * e.elem_size
    BY DEF ValueElem
  <2>3. /\ o = (IF m + TlvHead <= R THEN Emit(x) ELSE Einval)
        /\ p = (IF m + TlvHead <= r THEN Emit(x) ELSE Einval)
    BY <1>1, <1>3, <2>2 DEF EncodeValue
  <2>4. o = Emit(x)
    BY <1>2, <2>3, Results
  <2>5. Len(o.out) = m
    BY <2>1, <2>2, <2>4, Results
  <2>6. m + TlvHead <= r => p = o
    BY <2>3, <2>4
  <2>7. m + TlvHead > r => ~ Ok(p)
    <3>1. m + TlvHead > r => ~ (m + TlvHead <= r)
      BY DEF TlvHead
    <3> QED BY <2>3, <3>1, Results
  <2> QED BY <1>1, <2>5, <2>6, <2>7 DEF Within
<1>4. CASE e.type = "string"
  <2>1. ~ (level > 1) /\ level = 1
    BY <1>4
  <2>2. Len(x) <= e.elem_len /\ x \in Seq(Byte)
    BY <1>4 DEF ValidAs
  <2>3. PICK m \in Int : m = Len(x)
    BY <2>2
  <2>4. ~ (Len(x) > e.elem_len)
    BY <2>2, <2>3 DEF ValueElem
  <2>5. o = EncodeString(e, x, R, level) /\ p = EncodeString(e, x, r, level)
    BY <1>1, <1>4 DEF EncodeValue
  <2>6. /\ o = (IF m + TlvHead > R THEN Einval ELSE Emit(x))
        /\ p = (IF m + TlvHead > r THEN Einval ELSE Emit(x))
    BY <2>1, <2>3, <2>4, <2>5 DEF EncodeString
  <2>7. o = Emit(x)
    BY <1>2, <2>6, Results
  <2>8. Len(o.out) = m
    BY <2>3, <2>7, Results
  <2>9. m + TlvHead <= r => p = o
    <3>1. m + TlvHead <= r => ~ (m + TlvHead > r)
      BY DEF TlvHead
    <3> QED BY <2>6, <2>7, <3>1
  <2>10. m + TlvHead > r => ~ Ok(p)
    BY <2>6, Results
  <2> QED BY <1>1, <2>8, <2>9, <2>10 DEF Within
<1>5. CASE e.type = "struct"
  <2>1. Holds(level + 1, e.ei, x, n) /\ ~ has[e.ei]
    BY <1>5 DEF ValidAs, Holds
  <2>2. o = EncodeStructs(enc, e.ei, x, n, R) /\ p = EncodeStructs(enc, e.ei, x, n, r)
    BY <1>1, <1>5 DEF EncodeValue
  <2>3. PICK l \in Int : l = level + 1 /\ l \in Nat
    OBVIOUS
  <2>4. Carries(enc, dec, l) /\ Exact(enc, has, l) /\ Holds(l, e.ei, x, n)
    BY <2>1, <2>3
  <2>5. PICK d : d = e.ei
    OBVIOUS
  <2>6. Ok(EncodeStructs(enc, d, x, n, R)) /\ ~ has[d] /\ Holds(l, d, x, n)
    BY <1>2, <2>1, <2>2, <2>4, <2>5
  <2>7. Within(EncodeStructs(enc, d, x, n, R), EncodeStructs(enc, d, x, n, r), r)
    BY <2>3, <2>4, <2>6, StructsWithin
  <2> QED BY <1>1, <2>2, <2>5, <2>7
<1> QED BY <1>3, <1>4, <1>5 DEF ValueElem

\* Bytes put out, and those of an open TLV with its header.
Spent(st) == Written(st) + IF Len(st.tlv) = 0 THEN 0 ELSE TlvHead

\* What is written has a length.
LEMMA WrittenSum ==
  ASSUME NEW st, st.out \in Seq(Nat), st.tlv \in Seq(Nat)
  PROVE  Written(st) \in Nat
<1>1. PICK a \in Nat : a = Len(st.out)
  OBVIOUS
<1>2. PICK b \in Nat : b = Len(st.tlv)
  OBVIOUS
<1>3. a + b \in Nat
  OBVIOUS
<1> QED BY <1>1, <1>2, <1>3 DEF Written

\* What a value takes.
LEMMA SpentClosed ==
  ASSUME NEW out, NEW tlv, NEW bytes, NEW i, NEW n, NEW type, NEW level \in Int, out \in Seq(Nat),
         tlv \in Seq(Nat), bytes \in Seq(Nat), type \in Nat, ~ (level > 1) \/ Len(bytes) > 0
  PROVE  Spent(CloseTlv(level, type, EncodeState(i, out, Cat(tlv, bytes), n)))
           = Len(out) + Len(tlv) + Len(bytes) + TlvHead
<1>1. PICK a \in Nat : a = Len(out)
  OBVIOUS
<1>2. PICK b \in Nat : b = Len(tlv)
  OBVIOUS
<1>3. PICK c \in Nat : c = Len(bytes)
  OBVIOUS
<1>4. PICK w \in Seq(Nat) : w = Cat(tlv, bytes) /\ Len(w) = b + c
  BY <1>2, <1>3, Cats
<1>5. PICK u : u = CloseTlv(level, type, EncodeState(i, out, w, n))
  OBVIOUS
<1>6. /\ level > 1 => u.out = out /\ u.tlv = w
      /\ ~ (level > 1) => u.out = Cat(out, Frame(level, type, w)) /\ u.tlv = << >>
  BY <1>5, Closed
<1>7. Spent(u) = a + b + c + TlvHead
  <2>1. CASE level > 1
    <3>1. c > 0
      BY <1>3, <2>1
    <3>2. Len(u.out) = a /\ Len(u.tlv) = b + c
      BY <1>1, <1>4, <1>6, <2>1
    <3> QED BY <3>1, <3>2 DEF Spent, Written, TlvHead
  <2>2. CASE ~ (level > 1)
    <3>1. PICK F \in Seq(Nat) : F = Frame(level, type, w) /\ Len(F) = TlvHead + Len(w)
      BY <1>4, <2>2, Framed
    <3>2. PICK h : h = Cat(out, F)
      OBVIOUS
    <3>3. Len(h) = a + (TlvHead + (b + c))
      BY <1>1, <1>4, <3>1, <3>2, Cats
    <3>4. u.out = h /\ Len(u.tlv) = 0
      BY <1>6, <2>2, <3>1, <3>2
    <3> QED BY <3>3, <3>4 DEF Spent, Written, TlvHead
  <2> QED BY <2>1, <2>2
<1>8. Spent(u) = Len(out) + Len(tlv) + Len(bytes) + TlvHead
  BY <1>1, <1>2, <1>3, <1>7
<1> QED BY <1>4, <1>5, <1>8, Zenon

\* No strings in structures.
Plain(ei, has, level) ==
  \A i \in DOMAIN ei : /\ ei[i].type = "string" => ~ (level > 1)
                       /\ ei[i].type = "struct" => ~ has[ei[i].ei]

\* A turn from st ends in u with much room, and in w with r bytes.
Turned(st, u, w, r) ==
  \/ w = u /\ Spent(u) = Spent(st)
  \/ /\ Spent(u) >= Spent(st) /\ Spent(u) > 0
     /\ Spent(u) <= r => w = u
     /\ Spent(u) > r => ~ Ok(w)

\* A turn that takes m bytes, and room for a TLV's header.
LEMMA TurnedBy ==
  ASSUME NEW st, NEW u, NEW w, NEW r \in Int, NEW m \in Int, st.out \in Seq(Nat),
         st.tlv \in Seq(Nat), m >= 0, Spent(u) = Written(st) + m + TlvHead,
         Written(st) + m + TlvHead <= r => w = u, Written(st) + m + TlvHead > r => ~ Ok(w)
  PROVE  Turned(st, u, w, r)
<1>1. PICK a \in Nat : a = Written(st)
  BY WrittenSum
<1>2. PICK b \in Int : b = Spent(st) /\ b <= a + TlvHead
  <2>1. Spent(st) = a \/ Spent(st) = a + TlvHead
    BY <1>1 DEF Spent, TlvHead
  <2> QED BY <2>1 DEF TlvHead
<1>3. PICK c \in Int : c = Spent(u) /\ c = a + m + TlvHead
  BY <1>1 DEF TlvHead
<1>4. c >= b /\ c > 0
  BY <1>2, <1>3 DEF TlvHead
<1>5. (c <= r => w = u) /\ (c > r => ~ Ok(w))
  BY <1>1, <1>3
<1> QED BY <1>2, <1>3, <1>4, <1>5 DEF Turned

\* A turn at a length, with more room and with less.
LEMMA LengthTurned ==
  ASSUME NEW ei, NEW v, NEW st, NEW w, NEW level \in Int, NEW r \in Int, NEW i \in Int, i = st.i,
         ei[i].tlv_type \in Nat, v[i] \in Nat, st.out \in Seq(Nat), st.tlv \in Seq(Nat),
         w = IF Fits(LenSize(ei[i]), Written(st), r) THEN PastLength(ei, v, level, st)
             ELSE EncodeFailed
  PROVE  Turned(st, PastLength(ei, v, level, st), w, r)
<1>1. PICK size \in Int : size = LenSize(ei[i]) /\ size \in {1, 2}
  BY Sizes
<1>2. PICK u : u = PastLength(ei, v, level, st)
  OBVIOUS
<1>3. Spent(u) = Written(st) + size + TlvHead
  <2>1. CASE v[i] = 0
    <3>1. PICK b \in Seq(Nat) : b = Bytes(0, size) /\ Len(b) = size
      BY <1>1, BytesMatch
    <3>2. u = CloseTlv(level, ei[i].tlv_type,
                EncodeState(SkipToNextElem(ei, i + 1, level), st.out, Cat(st.tlv, b), 0))
      BY <1>1, <1>2, <2>1, <3>1 DEF PastLength
    <3>3. PICK type, j : type = ei[i].tlv_type /\ j = SkipToNextElem(ei, i + 1, level)
      OBVIOUS
    <3>4. type \in Nat /\ Len(b) > 0
      BY <1>1, <3>1, <3>3
    <3>5. PICK out, tlv \in Seq(Nat) : out = st.out /\ tlv = st.tlv
      OBVIOUS
    <3>6. Spent(CloseTlv(level, type, EncodeState(j, out, Cat(tlv, b), 0)))
            = Len(out) + Len(tlv) + Len(b) + TlvHead
      BY <3>4, SpentClosed
    <3>7. Spent(u) = Len(out) + Len(tlv) + Len(b) + TlvHead
      BY <3>2, <3>3, <3>5, <3>6, Zenon
    <3>8. Written(st) = Len(out) + Len(tlv)
      BY <3>5 DEF Written
    <3> QED BY <3>1, <3>7, <3>8
  <2>2. CASE v[i] # 0
    <3>1. PICK n \in Int : n = v[i]
      OBVIOUS
    <3>2. PICK b \in Seq(Nat) : b = Bytes(n, size) /\ Len(b) = size
      BY <1>1, <3>1, BytesMatch
    <3>3. PICK t \in Seq(Nat) : t = Cat(st.tlv, b) /\ Len(t) = Len(st.tlv) + Len(b)
      BY Cats
    <3>4. u = EncodeState(i + 1, st.out, t, n)
      BY <1>1, <1>2, <2>2, <3>1, <3>2, <3>3 DEF PastLength
    <3>5. u.out = st.out /\ u.tlv = t
      BY <3>4, EncodeStates
    <3>6. PICK a \in Nat : a = Len(st.out)
      OBVIOUS
    <3>7. PICK c \in Nat : c = Len(st.tlv)
      OBVIOUS
    <3>8. Len(u.out) = a /\ Len(u.tlv) = c + size /\ size > 0
      BY <1>1, <3>2, <3>3, <3>5, <3>6, <3>7
    <3>9. Spent(u) = a + (c + size) + TlvHead
      BY <1>1, <3>8 DEF Spent, Written, TlvHead
    <3>10. Written(st) = a + c
      BY <3>6, <3>7 DEF Written
    <3> QED BY <1>1, <3>9, <3>10 DEF TlvHead
  <2> QED BY <2>1, <2>2
<1>4. PICK a \in Nat : a = Written(st)
  BY WrittenSum
<1>5. w = IF size + a + TlvHead <= r THEN u ELSE EncodeFailed
  BY <1>1, <1>2, <1>4 DEF Fits
<1>6. /\ (size + a + TlvHead <= r <=> a + size + TlvHead <= r)
      /\ (size + a + TlvHead > r <=> a + size + TlvHead > r)
      /\ (size + a + TlvHead > r <=> ~ (size + a + TlvHead <= r))
  BY <1>1 DEF TlvHead
<1>7. (a + size + TlvHead <= r => w = u) /\ (a + size + TlvHead > r => ~ Ok(w))
  BY <1>5, <1>6, Results
<1>8. (Written(st) + size + TlvHead <= r => w = u) /\ (Written(st) + size + TlvHead > r => ~ Ok(w))
  BY <1>4, <1>7
<1>9. Turned(st, u, w, r)
  BY <1>1, <1>3, <1>8, TurnedBy
<1> QED BY <1>2, <1>9

\* A turn at a value asks for room for its bytes and a TLV's header.
LEMMA ValueSpent ==
  ASSUME NEW ei, NEW st, NEW b, NEW level \in Int, ei[st.i].tlv_type \in Nat, st.out \in Seq(Nat),
         st.tlv \in Seq(Nat), b \in Seq(Nat), ~ (level > 1) \/ Len(b) > 0
  PROVE  Spent(PastValue(ei, level, st, b)) = Written(st) + Len(b) + TlvHead
<1>1. PICK type, j, n : type = ei[st.i].tlv_type /\ j = st.i + 1 /\ n = DataLen(ei[st.i], st.n)
  OBVIOUS
<1>2. type \in Nat
  BY <1>1
<1>3. PICK out, tlv \in Seq(Nat) : out = st.out /\ tlv = st.tlv
  OBVIOUS
<1>4. PastValue(ei, level, st, b) = CloseTlv(level, type, EncodeState(j, out, Cat(tlv, b), n))
  BY <1>1, <1>3 DEF PastValue
<1>5. Spent(CloseTlv(level, type, EncodeState(j, out, Cat(tlv, b), n)))
        = Len(out) + Len(tlv) + Len(b) + TlvHead
  <2>1. CASE level > 1
    <3>1. Len(b) > 0
      BY <2>1
    <3> QED BY <1>2, <3>1, SpentClosed
  <2>2. CASE ~ (level > 1)
    BY <1>2, <2>2, SpentClosed
  <2> QED BY <2>1, <2>2
<1>6. Written(st) = Len(out) + Len(tlv)
  BY <1>3 DEF Written
<1> QED BY <1>4, <1>5, <1>6, Zenon

\* A turn at a value, with more room and with less.
LEMMA ValueTurned ==
  ASSUME NEW ei, NEW st, NEW o, NEW p, NEW w, NEW level \in Int, NEW r \in Int, NEW i \in Int,
         i = st.i, ei[i].tlv_type \in Nat, st.out \in Seq(Nat), st.tlv \in Seq(Nat),
         o.out \in Seq(Nat), ~ (level > 1) \/ Len(o.out) > 0, Ok(o), Within(o, p, r - Written(st)),
         w = IF Ok(p) THEN PastValue(ei, level, st, p.out) ELSE EncodeFailed
  PROVE  Turned(st, PastValue(ei, level, st, o.out), w, r)
<1>1. PICK b \in Seq(Nat) : b = o.out
  OBVIOUS
<1>2. PICK m \in Int : m = Len(b) /\ m >= 0
  <2>1. PICK m \in Int : m = Len(b)
    OBVIOUS
  <2>2. m >= 0
    BY <2>1
  <2> QED BY <2>1, <2>2, Zenon
<1>3. PICK u : u = PastValue(ei, level, st, b)
  OBVIOUS
<1>4. Spent(u) = Written(st) + m + TlvHead
  BY <1>1, <1>2, <1>3, ValueSpent
<1>5. PICK a \in Nat : a = Written(st)
  BY WrittenSum
<1>6. /\ m + TlvHead <= r - a => p = o
      /\ m + TlvHead > r - a => ~ Ok(p)
  BY <1>1, <1>2, <1>5 DEF Within
<1>7. (a + m + TlvHead <= r => m + TlvHead <= r - a) /\ (a + m + TlvHead > r => m + TlvHead > r - a)
  BY DEF TlvHead
<1>8. p = o => w = u
  BY <1>1, <1>3
<1>9. ~ Ok(p) => ~ Ok(w)
  BY Results
<1>10. (a + m + TlvHead <= r => w = u) /\ (a + m + TlvHead > r => ~ Ok(w))
  BY <1>6, <1>7, <1>8, <1>9
<1>11. (Written(st) + m + TlvHead <= r => w = u) /\ (Written(st) + m + TlvHead > r => ~ Ok(w))
  BY <1>5, <1>10
<1>12. Turned(st, u, w, r)
  BY <1>2, <1>4, <1>11, TurnedBy
<1> QED BY <1>1, <1>3, <1>12

\* What qmi_encode needs to know of a value to turn it out.
LEMMA GoodValue ==
  ASSUME NEW ei, NEW v, NEW enc, NEW dec, NEW st, NEW q, NEW level \in Int, NEW i \in Int,
         Legal(level, ei), ValidStructure(level, ei, v), Carries(enc, dec, level + 1),
         EncGood(level, ei, v, st, q), i = st.i, i \in DOMAIN ei, IsValue(ei[i])
  PROVE  \E n \in Nat : /\ DataLen(ei[i], st.n) = n /\ n > 0 /\ ~ BadArray(ei[i], n)
                        /\ ValidAs(level, ei[i], n, v[i]) /\ ValueElem(level, ei[i])
<1>1. ElemFacts(level, ei, i) /\ InForce(level, ei, v, i) /\ ValueFacts(level, ei, v, i)
  BY LegalElems, ValidElems DEF EncGood
<1>2. PICK n : n = LenOf(ei, v, i)
  OBVIOUS
<1>3. n \in Nat /\ ValidAs(level, ei[i], n, v[i]) /\ ValueElem(level, ei[i])
      /\ ei[i].array_type \in {"none", "static", "var"} /\ ei[i].elem_len \in Nat \ {0}
  BY <1>1, <1>2 DEF ValueFacts, ElemFacts
<1>4. PICK r : r = EncodeValue(enc, level, ei[i], v[i], n, 0)
  OBVIOUS
<1>5. DataLen(ei[i], st.n) = n /\ ~ BadArray(ei[i], n)
  BY <1>2, ValueGood
<1>6. n # 0
  <2>1. CASE ei[i].array_type = "var"
    BY <1>5, <2>1 DEF BadArray
  <2>2. CASE ei[i].array_type # "var"
    BY <1>3, <1>5, <2>2 DEF DataLen
  <2> QED BY <2>1, <2>2
<1> QED BY <1>3, <1>5, <1>6

\* A turn with little room is one with much, or fails when it takes too much.
LEMMA TurnWithin ==
  ASSUME NEW ei, NEW v, NEW enc, NEW dec, NEW has, NEW st, NEW q, NEW level \in Int, NEW R \in Int,
         NEW r \in Int, Legal(level, ei), ValidStructure(level, ei, v),
         Carries(enc, dec, level + 1), Exact(enc, has, level + 1), Plain(ei, has, level),
         EncGood(level, ei, v, st, q), st.i \in DOMAIN ei, Ok(EncodeElem(enc, ei, v, R, level, st))
  PROVE  Turned(st, EncodeElem(enc, ei, v, R, level, st), EncodeElem(enc, ei, v, r, level, st), r)
<1>1. PICK i : i = st.i /\ i \in Int /\ i \in DOMAIN ei
  BY DEF EncGood
<1>2. PICK u, w : /\ u = EncodeElem(enc, ei, v, R, level, st)
                  /\ w = EncodeElem(enc, ei, v, r, level, st) /\ Ok(u)
  OBVIOUS
<1>3. ElemFacts(level, ei, i)
  BY <1>1, LegalElems
<1>4. st.out \in Seq(Nat) /\ st.tlv \in Seq(Nat) /\ Written(st) \in Nat
  BY WrittenNat
<1>5. ei[i].tlv_type \in Nat
  BY <1>3 DEF ElemFacts
<1>6. CASE ei[i].type = "opt"
  <2>1. ei[i].array_type = "none"
    BY <1>3, <1>6 DEF ElemFacts, IsValue
  <2>2. u = PastFlag(ei, v, level, st) /\ w = PastFlag(ei, v, level, st)
    BY <1>1, <1>2, <1>6, <2>1, FlagTurn
  <2>3. u.out = st.out /\ u.tlv = st.tlv
    <3>1. PICK j, n, out, tlv : /\ j = IF v[st.i] = 1 THEN st.i + 1
                                       ELSE SkipToNextElem(ei, st.i, level)
                                /\ n = DataLen(ei[st.i], st.n) /\ out = st.out /\ tlv = st.tlv
      OBVIOUS
    <3>2. u = EncodeState(j, out, tlv, n)
      BY <2>2, <3>1 DEF PastFlag
    <3>3. u.out = out /\ u.tlv = tlv
      BY <3>2, EncodeStates
    <3> QED BY <3>1, <3>3
  <2>4. Spent(u) = Spent(st)
    BY <2>3 DEF Spent, Written
  <2>5. w = u
    BY <2>2, Zenon
  <2> QED BY <1>2, <2>4, <2>5 DEF Turned
<1>7. CASE ei[i].type = "len"
  <2>1. ei[i].array_type = "none"
    BY <1>3, <1>7 DEF ElemFacts, IsValue
  <2>2. u = IF Fits(LenSize(ei[i]), Written(st), R) THEN PastLength(ei, v, level, st)
            ELSE EncodeFailed
    BY <1>1, <1>2, <1>7, <2>1, LengthTurn
  <2>3. u = PastLength(ei, v, level, st)
    BY <1>2, <2>2, Results
  <2>4. w = IF Fits(LenSize(ei[i]), Written(st), r) THEN PastLength(ei, v, level, st)
            ELSE EncodeFailed
    BY <1>1, <1>2, <1>7, <2>1, LengthTurn
  <2>5. v[i] \in Nat
    <3>1. InForce(level, ei, v, i)
      BY <1>1 DEF EncGood
    <3>2. ValueFacts(level, ei, v, i)
      BY <1>1, <3>1, ValidElems
    <3> QED BY <1>7, <3>2 DEF ValueFacts
  <2>6. Turned(st, PastLength(ei, v, level, st), w, r)
    BY <1>1, <1>4, <1>5, <2>4, <2>5, LengthTurned
  <2> QED BY <1>2, <2>3, <2>6
<1>8. CASE IsValue(ei[i])
  <2>1. PICK n \in Nat : /\ DataLen(ei[i], st.n) = n /\ n > 0 /\ ~ BadArray(ei[i], n)
                         /\ ValidAs(level, ei[i], n, v[i]) /\ ValueElem(level, ei[i])
    BY <1>1, <1>8, GoodValue
  <2>2. PICK a \in Int : a = Written(st)
    BY <1>4
  <2>3. PICK o, p : /\ o = EncodeValue(enc, level, ei[i], v[i], n, R - a)
                    /\ p = EncodeValue(enc, level, ei[i], v[i], n, r - a)
    OBVIOUS
  <2>4. u = IF Ok(o) THEN PastValue(ei, level, st, o.out) ELSE EncodeFailed
    <3>1. IsValue(ei[st.i]) /\ ei[st.i].elem_size \in Nat /\ DataLen(ei[st.i], st.n) \in Nat
          /\ ~ BadArray(ei[st.i], DataLen(ei[st.i], st.n))
      BY <1>1, <1>8, <2>1 DEF ValueElem
    <3>2. EncodeElem(enc, ei, v, R, level, st) =
            IF Ok(EncodeValue(enc, level, ei[st.i], v[st.i], DataLen(ei[st.i], st.n), R - Written(st)))
            THEN PastValue(ei, level, st,
                   EncodeValue(enc, level, ei[st.i], v[st.i], DataLen(ei[st.i], st.n), R - Written(st)).out)
            ELSE EncodeFailed
      BY <1>4, <3>1, ValueTurn
    <3>3. o = EncodeValue(enc, level, ei[st.i], v[st.i], DataLen(ei[st.i], st.n), R - Written(st))
      BY <1>1, <2>1, <2>2, <2>3
    <3> QED BY <1>2, <3>2, <3>3
  <2>5. w = IF Ok(p) THEN PastValue(ei, level, st, p.out) ELSE EncodeFailed
    <3>1. IsValue(ei[st.i]) /\ ei[st.i].elem_size \in Nat /\ DataLen(ei[st.i], st.n) \in Nat
          /\ ~ BadArray(ei[st.i], DataLen(ei[st.i], st.n))
      BY <1>1, <1>8, <2>1 DEF ValueElem
    <3>2. EncodeElem(enc, ei, v, r, level, st) =
            IF Ok(EncodeValue(enc, level, ei[st.i], v[st.i], DataLen(ei[st.i], st.n), r - Written(st)))
            THEN PastValue(ei, level, st,
                   EncodeValue(enc, level, ei[st.i], v[st.i], DataLen(ei[st.i], st.n), r - Written(st)).out)
            ELSE EncodeFailed
      BY <1>4, <3>1, ValueTurn
    <3>3. p = EncodeValue(enc, level, ei[st.i], v[st.i], DataLen(ei[st.i], st.n), r - Written(st))
      BY <1>1, <2>1, <2>2, <2>3
    <3> QED BY <1>2, <3>2, <3>3
  <2>6. Ok(o) /\ u = PastValue(ei, level, st, o.out)
    BY <1>2, <2>4, Results
  <2>7. PICK e, x : e = ei[i] /\ x = v[i]
    OBVIOUS
  <2>8. level \in Nat \ {0}
    BY DEF Legal, IsSequence
  <2>9. Within(o, p, r - a)
    <3>1. ValueElem(level, e) /\ ValidAs(level, e, n, x)
      BY <2>1, <2>7
    <3>2. e.type = "string" => ~ (level > 1)
      BY <1>1, <2>7 DEF Plain
    <3>3. e.type = "struct" => ~ has[e.ei]
      BY <1>1, <2>7 DEF Plain
    <3>4. PICK nn, left, small \in Int : nn = n /\ left = R - a /\ small = r - a
      OBVIOUS
    <3>5. /\ nn \in Nat /\ nn > 0 /\ ValidAs(level, e, nn, x)
          /\ Ok(EncodeValue(enc, level, e, x, nn, left))
      BY <2>1, <2>3, <2>6, <2>7, <3>1, <3>4
    <3>6. Within(EncodeValue(enc, level, e, x, nn, left), EncodeValue(enc, level, e, x, nn, small), small)
      BY <2>8, <3>1, <3>2, <3>3, <3>5, ValueWithin
    <3> QED BY <2>3, <2>7, <3>4, <3>6
  <2>10. o.out \in Seq(Nat) /\ (~ (level > 1) \/ Len(o.out) > 0)
    <3>1. PICK nn, left \in Int : nn = n /\ left = R - a
      OBVIOUS
    <3>2. nn \in Nat /\ nn > 0 /\ ValueElem(level, e) /\ ValidAs(level, e, nn, x)
          /\ Ok(EncodeValue(enc, level, e, x, nn, left))
      BY <2>1, <2>3, <2>6, <2>7, <3>1
    <3>3. Arrives(dec, level, e, nn, x, EncodeValue(enc, level, e, x, nn, left).out)
      BY <2>8, <3>2, ValueArrives
    <3>4. Arrives(dec, level, e, nn, x, o.out)
      BY <2>3, <2>7, <3>1, <3>3
    <3> QED BY <3>2, <3>4 DEF Arrives
  <2>11. Within(o, p, r - Written(st))
    BY <2>2, <2>9
  <2>12. Turned(st, PastValue(ei, level, st, o.out), w, r)
    BY <1>1, <1>4, <1>5, <2>5, <2>6, <2>10, <2>11, ValueTurned
  <2> QED BY <1>2, <2>6, <2>12
<1> QED BY <1>3, <1>6, <1>7, <1>8 DEF ElemFacts

\* mine is where qmi_encode is with r bytes, st where it is with enough.
Follows(st, mine, r) ==
  \/ Spent(st) = 0 /\ mine = st
  \/ (Spent(st) <= r => mine = st) /\ (Spent(st) > r => ~ Ok(mine))

\* It follows, turn by turn.
LEMMA FollowsNext ==
  ASSUME NEW st, NEW mine, NEW u, NEW w, NEW next, NEW r \in Int, Ok(st), Spent(st) \in Int,
         Spent(u) \in Int, Turned(st, u, w, r), Follows(st, mine, r), mine = st => next = w,
         ~ Ok(mine) => ~ Ok(next)
  PROVE  Follows(u, next, r)
<1>1. PICK a \in Int : a = Spent(st)
  OBVIOUS
<1>2. PICK b \in Int : b = Spent(u)
  OBVIOUS
<1>3. CASE mine = st
  <2>1. next = w
    BY <1>3
  <2>2. a = 0 \/ ~ (a > r)
    BY <1>1, <1>3 DEF Follows
  <2>3. CASE w = u /\ b = a
    <3>1. b = 0 \/ b <= r
      BY <2>2, <2>3
    <3>2. (b = 0 /\ next = u) \/ ((b <= r => next = u) /\ (b > r => ~ Ok(next)))
      BY <2>1, <2>3, <3>1
    <3> QED BY <1>2, <3>2 DEF Follows
  <2>4. CASE (b <= r => w = u) /\ (b > r => ~ Ok(w))
    BY <1>2, <2>1, <2>4 DEF Follows
  <2> QED BY <1>1, <1>2, <2>3, <2>4 DEF Turned
<1>4. CASE mine # st
  <2>1. ~ (a <= r) /\ (a > r => ~ Ok(mine))
    BY <1>1, <1>4 DEF Follows
  <2>2. a > r /\ ~ Ok(next)
    BY <2>1
  <2>3. b >= a
    BY <1>1, <1>2 DEF Turned
  <2>4. ~ (b <= r)
    BY <2>2, <2>3
  <2> QED BY <1>2, <2>2, <2>4 DEF Follows
<1> QED BY <1>3, <1>4

\* Whether the bytes b, put out as o where there is room, fit as p.
Fitting(level, o, p, r) ==
  IF level > 1 THEN Within(o, p, r)
  ELSE (Len(o.out) <= r => p = o) /\ (Len(o.out) > r => ~ Ok(p))

\* A structure is encoded wherever it fits.
LEMMA EncodeFits ==
  ASSUME NEW enc, NEW dec, NEW has, NEW ei, NEW rd, NEW types, NEW pos, NEW v, NEW o, NEW p,
         NEW level \in Int, NEW R \in Int, NEW r \in Int, Legal(level, ei),
         ValidStructure(level, ei, v), ReaderAt(level, ei, rd, types, pos),
         Carries(enc, dec, level + 1), Exact(enc, has, level + 1), Plain(ei, has, level),
         o = QmiEncode(enc, ei, v, R, level), Ok(o), p = QmiEncode(enc, ei, v, r, level),
         level > 1 \/ r >= 0, ~ (level > 1) \/ Len(o.out) > 0
  PROVE  Fitting(level, o, p, r)
<1>1. DOMAIN ei = 1..Len(ei) /\ Len(ei) \in Nat
  BY DEF Legal, IsSequence
<1>2. PICK n \in Nat : n = Len(ei)
  BY <1>1
<1>3. PICK f : IsEncoding(enc, ei, v, R, level, f, Len(ei)) /\ EncodeLoop(enc, ei, v, R, level) = f
  BY <1>1, EncodingRun
<1>4. PICK g : IsEncoding(enc, ei, v, r, level, g, Len(ei)) /\ EncodeLoop(enc, ei, v, r, level) = g
  BY <1>1, EncodingRun
<1>5. /\ f[0] = EncodeState(1, << >>, << >>, 0)
      /\ \A k \in 1..Len(ei) : f[k] = EncodeNext(enc, ei, v, R, level, f[k - 1])
  BY <1>1, <1>3, EncodingTurns
<1>6. /\ g[0] = EncodeState(1, << >>, << >>, 0)
      /\ \A k \in 1..Len(ei) : g[k] = EncodeNext(enc, ei, v, r, level, g[k - 1])
  BY <1>1, <1>4, EncodingTurns
<1>7. \A k \in 0..n : Ok(f[k]) => \E q : GoodAt(level, dec, ei, rd, types, pos, v, f[k], q, k)
  BY <1>2, <1>3, EncodeGood
<1>8. ASSUME NEW k \in 0..(n - 1)
      PROVE  /\ k + 1 \in 0..n /\ k \in 0..n
             /\ f[k + 1] = EncodeNext(enc, ei, v, R, level, f[k])
             /\ g[k + 1] = EncodeNext(enc, ei, v, r, level, g[k])
  <2>1. k + 1 \in 1..Len(ei) /\ (k + 1) - 1 = k /\ k + 1 \in 0..n /\ k \in 0..n
    BY <1>2
  <2>2. /\ f[k + 1] = EncodeNext(enc, ei, v, R, level, f[(k + 1) - 1])
        /\ g[k + 1] = EncodeNext(enc, ei, v, r, level, g[(k + 1) - 1])
    BY <1>5, <1>6, <2>1
  <2> QED BY <2>1, <2>2
<1>9. PICK st, mine : st = f[n] /\ mine = g[n]
  OBVIOUS
<1>10. /\ o = IF Ok(st) THEN Emit(Cat(st.out, st.tlv)) ELSE Einval
       /\ p = IF Ok(mine) THEN Emit(Cat(mine.out, mine.tlv)) ELSE Einval
  BY <1>2, <1>3, <1>4, <1>9 DEF QmiEncode, Ok, Cat
<1>11. Ok(st) /\ o.out = Cat(st.out, st.tlv)
  BY <1>10, Results
<1> DEFINE O == { k \in 0..n : Ok(f[k]) }
<1>12. n \in O /\ \A k \in 0..(n - 1) : k + 1 \in O => k \in O
  <2>1. ASSUME NEW k \in 0..(n - 1), Ok(f[k + 1]) PROVE Ok(f[k]) /\ k \in 0..n
    <3>1. f[k + 1] = EncodeNext(enc, ei, v, R, level, f[k]) /\ k \in 0..n
      BY <1>8
    <3>2. ~ Ok(f[k]) => f[k + 1] = f[k]
      BY <3>1 DEF EncodeNext, Ok
    <3> QED BY <2>1, <3>1, <3>2
  <2>2. n \in O
    BY <1>9, <1>11
  <2> QED BY <2>1, <2>2
<1> HIDE DEF O
<1>13. \A k \in 0..n : k \in O
  BY <1>12, IntervalDescent
<1>14. \A k \in 0..n : Ok(f[k])
  BY <1>13 DEF O
<1>15. \A k \in 0..n : \E q : GoodAt(level, dec, ei, rd, types, pos, v, f[k], q, k)
  BY <1>7, <1>14
<1>16. \A k \in 0..n : f[k].out \in Seq(Nat) /\ f[k].tlv \in Seq(Nat) /\ Spent(f[k]) \in Int
  <2>1. ASSUME NEW k \in 0..n
        PROVE  f[k].out \in Seq(Nat) /\ f[k].tlv \in Seq(Nat) /\ Spent(f[k]) \in Int
    <3>1. PICK s, q : s = f[k] /\ EncGood(level, ei, v, s, q)
      BY <1>15 DEF GoodAt
    <3>2. s.out \in Seq(Nat) /\ s.tlv \in Seq(Nat) /\ Written(s) \in Nat
      BY <3>1, WrittenNat
    <3>3. Spent(s) \in Int
      BY <3>2 DEF Spent, TlvHead
    <3> QED BY <3>1, <3>2, <3>3
  <2> QED BY <2>1
<1> DEFINE S == { k \in 0..n : Follows(f[k], g[k], r) }
<1>17. 0 \in S
  <2>1. f[0] = g[0] /\ 0 \in 0..n
    BY <1>5, <1>6
  <2>2. f[0].out = << >> /\ f[0].tlv = << >>
    BY <1>5, EncodeStates
  <2>3. Len(f[0].out) = 0 /\ Len(f[0].tlv) = 0
    BY <2>2
  <2>4. Spent(f[0]) = 0
    BY <2>3 DEF Spent, Written
  <2> QED BY <2>1, <2>4 DEF Follows
<1>18. ASSUME NEW k \in 0..(n - 1), k \in S PROVE k + 1 \in S
  <2>1. PICK s, m, u, y : s = f[k] /\ m = g[k] /\ u = f[k + 1] /\ y = g[k + 1]
    OBVIOUS
  <2>2. /\ u = EncodeNext(enc, ei, v, R, level, s) /\ y = EncodeNext(enc, ei, v, r, level, m)
        /\ k + 1 \in 0..n /\ k \in 0..n
    BY <1>8, <2>1
  <2>3. Ok(s) /\ Ok(u) /\ Spent(s) \in Int /\ Spent(u) \in Int
    BY <1>14, <1>16, <2>1, <2>2
  <2>4. PICK q : EncGood(level, ei, v, s, q)
    BY <1>15, <2>1, <2>2 DEF GoodAt
  <2>5. Follows(s, m, r)
    BY <1>18, <2>1
  <2>6. ~ Ok(m) => ~ Ok(y)
    BY <2>2 DEF EncodeNext, Ok
  <2>7. PICK w : w = EncodeNext(enc, ei, v, r, level, s)
    OBVIOUS
  <2>8. m = s => y = w
    BY <2>2, <2>7
  <2>9. Turned(s, u, w, r)
    <3>1. PICK i \in Int : i = s.i /\ i \in 1..(Len(ei) + 1)
      BY <2>4 DEF EncGood
    <3>2. CASE i > Len(ei)
      <4>1. u = s /\ w = s
        BY <2>2, <2>7, <3>1, <3>2 DEF EncodeNext
      <4> QED BY <4>1 DEF Turned
    <3>3. CASE i <= Len(ei)
      <4>1. s.i \in DOMAIN ei /\ ~ (s.i > Len(ei))
        BY <1>1, <3>1, <3>3
      <4>2. u = EncodeElem(enc, ei, v, R, level, s) /\ w = EncodeElem(enc, ei, v, r, level, s)
        BY <2>2, <2>3, <2>7, <4>1 DEF EncodeNext, Ok
      <4>3. Ok(EncodeElem(enc, ei, v, R, level, s))
        BY <2>3, <4>2
      <4>4. Turned(s, EncodeElem(enc, ei, v, R, level, s), EncodeElem(enc, ei, v, r, level, s), r)
        BY <2>4, <4>1, <4>3, TurnWithin
      <4> QED BY <4>2, <4>4
    <3> QED BY <1>1, <3>1, <3>2, <3>3
  <2>10. Follows(u, y, r)
    BY <2>3, <2>5, <2>6, <2>8, <2>9, FollowsNext
  <2> QED BY <2>1, <2>2, <2>10
<1> HIDE DEF S
<1>19. \A k \in 0..n : k \in S
  BY <1>17, <1>18, IntervalInduction
<1>20. Follows(st, mine, r)
  <2>1. n \in S
    BY <1>19
  <2> QED BY <1>9, <2>1 DEF S
<1>21. PICK q : EncGood(level, ei, v, st, q) /\ st.i = n + 1 /\ q \in Seq(Nat)
  <2>1. n \in 0..n
    OBVIOUS
  <2>2. PICK q : GoodAt(level, dec, ei, rd, types, pos, v, st, q, n)
    BY <1>9, <1>15, <2>1
  <2>3. EncGood(level, ei, v, st, q) /\ st.i > n /\ st.i \in 1..(n + 1) /\ q \in Seq(Nat)
    BY <1>2, <2>2 DEF GoodAt, EncGood
  <2>4. st.i = n + 1
    BY <2>3
  <2> QED BY <2>3, <2>4
<1>22. Lead(ei, v, n + 1) = << >>
  <2>1. ~ (n + 1 \in DOMAIN ei)
    BY <1>1, <1>2
  <2> QED BY <2>1 DEF Lead, Pending
<1>23. PICK z \in Seq(Nat) : z = << >>
  BY EmptySeq
<1>24. Lead(ei, v, st.i) = z /\ Cat(q, z) = q /\ Cat(z, q) = q /\ Len(z) = 0
  <2>1. Lead(ei, v, st.i) = z
    BY <1>21, <1>22, <1>23
  <2>2. Cat(q, z) = q /\ Cat(z, q) = q
    BY <1>21, <1>23, CatEmpty
  <2>3. Len(z) = 0
    BY <1>23
  <2> QED BY <2>1, <2>2, <2>3
<1>25. PICK a \in Int : a = Len(q) /\ a >= 0
  <2>1. PICK a \in Int : a = Len(q)
    BY <1>21
  <2>2. a >= 0
    BY <1>21, <2>1
  <2> QED BY <2>1, <2>2, Zenon
<1>26. p = o \/ ~ (mine = st)
  BY <1>10, <1>11
<1>27. ~ Ok(mine) => ~ Ok(p)
  BY <1>10, Results
<1>28. CASE ~ (level > 1)
  <2>1. st.out = q /\ st.tlv = z
    BY <1>21, <1>24, <1>28 DEF EncGood, Legal
  <2>2. o.out = q
    BY <1>11, <1>24, <2>1
  <2>3. Spent(st) = a
    BY <1>24, <1>25, <2>1 DEF Spent, Written
  <2>4. (a <= r => p = o) /\ (a > r => ~ Ok(p))
    <3>1. (a = 0 /\ mine = st) \/ ((a <= r => mine = st) /\ (a > r => ~ Ok(mine)))
      BY <1>20, <2>3 DEF Follows
    <3>2. r >= 0
      BY <1>28
    <3>3. a = 0 => ~ (a > r)
      BY <3>2
    <3> QED BY <1>26, <1>27, <3>1, <3>3
  <2>5. Len(o.out) = a
    BY <1>25, <2>2
  <2> QED BY <1>28, <2>4, <2>5 DEF Fitting
<1>29. CASE level > 1
  <2>1. st.out = z /\ st.tlv = q
    <3>1. st.out = << >> /\ st.tlv = Cat(q, Lead(ei, v, st.i))
      BY <1>21, <1>29 DEF EncGood
    <3> QED BY <1>23, <1>24, <3>1, Zenon
  <2>2. o.out = q
    BY <1>11, <1>24, <2>1
  <2>3. Len(o.out) = a /\ a > 0
    <3>1. Len(o.out) > 0
      BY <1>29
    <3> QED BY <1>25, <2>2, <3>1
  <2>4. Spent(st) = a + TlvHead
    BY <1>24, <1>25, <2>1, <2>3 DEF Spent, Written, TlvHead
  <2>5. PICK b \in Int : b = a + TlvHead
    BY DEF TlvHead
  <2>6. b > 0 /\ Spent(st) = b
    BY <2>3, <2>4, <2>5 DEF TlvHead
  <2>7. (b <= r => mine = st) /\ (b > r => ~ Ok(mine))
    BY <1>20, <2>6 DEF Follows
  <2>8. (b <= r => p = o) /\ (b > r => ~ Ok(p))
    BY <1>26, <1>27, <2>7
  <2>9. Within(o, p, r)
    BY <2>3, <2>5, <2>8 DEF Within
  <2> QED BY <1>29, <2>9 DEF Fitting
<1> QED BY <1>28, <1>29

\* A descriptor without strings in its structures, and at nested levels in itself.
LEMMA PlainAt ==
  ASSUME NEW nested, NEW level \in Int, NEW ei, ei \in Descriptors[level],
         ~ HasStringAt(nested, level)[ei]
  PROVE  Plain(ei, nested, level)
<1>1. HasStringAt(nested, level)[ei] =
        \E i \in DOMAIN ei : ei[i].type = "string" \/ (ei[i].type = "struct" /\ nested[ei[i].ei])
  BY DEF HasStringAt
<1>2. \A i \in DOMAIN ei : ei[i].type # "string" /\ (ei[i].type = "struct" => ~ nested[ei[i].ei])
  BY <1>1
<1> QED BY <1>2 DEF Plain

\* Structures without strings are encoded wherever they fit, at every level.
THEOREM Exactness ==
  \A level \in NestedLevels : Exact(Encoder[level], HasString[level], level)
<1> DEFINE S == { level \in NestedLevels : Exact(Encoder[level], HasString[level], level) }
<1>1. ASSUME NEW level \in NestedLevels, level <= Levels => level + 1 \in S PROVE level \in S
  <2>1. SUFFICES ASSUME NEW s \in Structures[level], NEW R \in Int, NEW r \in Int,
                        ~ HasString[level][s.ei], Ok(Encoder[level][<<s, R>>])
                 PROVE  Within(Encoder[level][<<s, R>>], Encoder[level][<<s, r>>], r)
    BY DEF Exact
  <2>2. level <= Levels /\ s.ei \in Descriptors[level] /\ ValidStructure(level, s.ei, s.v)
    BY DescriptorsLegal
  <2>3. Exact(Encoder[level + 1], HasString[level + 1], level + 1) /\ level + 1 \in NestedLevels
    BY <1>1, <2>2
  <2>4. PICK enc, dec, has, ei, v :
          enc = Encoder[level + 1] /\ dec = Decoder[level + 1] /\ has = HasString[level + 1]
          /\ ei = s.ei /\ v = s.v
    OBVIOUS
  <2>5. Encoder[level] = EncodeAt(enc, level) /\ HasString[level] = HasStringAt(has, level)
    BY <2>2, <2>4, EncoderLevels, HasStringLevels
  <2>6. PICK o, p : o = QmiEncode(enc, ei, v, R, level) /\ p = QmiEncode(enc, ei, v, r, level)
    OBVIOUS
  <2>7. level \in Int /\ level > 1
    BY CodecConstants DEF NestedLevels
  <2>8. Encoder[level][<<s, R>>] = o /\ Encoder[level][<<s, r>>] = p
    BY <2>1, <2>4, <2>5, <2>6, <2>7, AtLevel
  <2>9. Ok(o)
    BY <2>1, <2>8
  <2>10. Carries(enc, dec, level + 1) /\ Exact(enc, has, level + 1)
    BY <2>3, <2>4, Contract
  <2>11. Len(o.out) > 0
    <3>1. Carries(Encoder[level], Decoder[level], level)
      BY Contract
    <3>2. CarriedBy(Encoder[level][<<s, R>>], s, Decoder[level])
      BY <2>1, <3>1 DEF Carries
    <3> QED BY <2>8, <3>2 DEF CarriedBy
  <2>12. Legal(level, ei) /\ ValidStructure(level, ei, v)
    BY <2>2, <2>4, LegalDescriptors
  <2>13. Plain(ei, has, level)
    <3>1. ~ HasStringAt(has, level)[ei] /\ ei \in Descriptors[level]
      BY <2>1, <2>2, <2>4, <2>5
    <3> QED BY <2>7, <3>1, PlainAt
  <2>14. PICK types, pos : types = {} /\ pos = << >>
    OBVIOUS
  <2>15. ReaderAt(level, ei, ei, types, pos)
    BY <2>7 DEF ReaderAt
  <2>16. level > 1 \/ r >= 0
    BY <2>7
  <2>17. ~ (level > 1) \/ Len(o.out) > 0
    BY <2>11
  <2>18. Fitting(level, o, p, r)
    BY <2>6, <2>7, <2>9, <2>10, <2>12, <2>13, <2>15, <2>16, <2>17, EncodeFits
  <2>19. Within(o, p, r)
    BY <2>7, <2>18 DEF Fitting
  <2> QED BY <2>8, <2>19
<1> HIDE DEF S
<1>2. \A level \in NestedLevels : level \in S
  BY <1>1, LevelInduction
<1> QED BY <1>2 DEF S

-----------------------------------------------------------------------------
(* Messages of QmiExchange.                                                *)

\* One turn of making a receiver's descriptor.
KnowNext(ei, types, k, done) ==
  IF ei[k].tlv_type \in types THEN done ELSE Append(done, ei[k])

\* A receiver's descriptor, element by element.
IsKnowing(ei, types, f, n) ==
  f = [k \in 0..n |-> IF k = 0 THEN << >> ELSE KnowNext(ei, types, k, f[k - 1])]

\* A descriptor can be made from any number of elements.
LEMMA KnowingExists ==
  ASSUME NEW ei, NEW types, NEW N \in Nat
  PROVE  \E f : IsKnowing(ei, types, f, N)
<1> DEFINE S == { m \in 0..N : \E f : IsKnowing(ei, types, f, m) }
<1>1. 0 \in S
  <2>1. IsKnowing(ei, types, [k \in 0..0 |-> << >>], 0)
    BY DEF IsKnowing
  <2> QED BY <2>1
<1>2. ASSUME NEW m \in 0..(N - 1), m \in S PROVE m + 1 \in S
  <2>1. PICK f : IsKnowing(ei, types, f, m)
    BY <1>2
  <2>2. /\ m \in Nat /\ m + 1 \in 0..N
        /\ \A k \in 0..m : f[k] = IF k = 0 THEN << >> ELSE KnowNext(ei, types, k, f[k - 1])
    BY <2>1 DEF IsKnowing
  <2> DEFINE d == [k \in 0..(m + 1) |-> IF k <= m THEN f[k] ELSE KnowNext(ei, types, (m + 1), f[m])]
  <2>3. ASSUME NEW k \in 0..(m + 1)
        PROVE  d[k] = IF k = 0 THEN << >> ELSE KnowNext(ei, types, k, d[k - 1])
    <3>1. CASE k = 0
      BY <2>2, <3>1
    <3>2. CASE k \in 1..m
      <4>1. k <= m /\ k - 1 \in 0..(m + 1) /\ k - 1 <= m /\ k \in 0..m /\ k # 0
        BY <2>2, <3>2
      <4> QED BY <2>2, <4>1
    <3>3. CASE k = m + 1
      <4>1. k - 1 = m /\ ~ (k <= m) /\ m \in 0..(m + 1) /\ m <= m /\ k # 0
        BY <2>2, <3>3
      <4> QED BY <3>3, <4>1
    <3> QED BY <2>2, <3>1, <3>2, <3>3
  <2>4. d = [k \in 0..(m + 1) |-> d[k]]
    OBVIOUS
  <2> HIDE DEF d
  <2>5. IsKnowing(ei, types, d, m + 1)
    BY <2>3, <2>4 DEF IsKnowing
  <2> QED BY <2>2, <2>5
<1> HIDE DEF S
<1>3. \A m \in 0..N : m \in S
  BY <1>1, <1>2, IntervalInduction
<1> QED BY <1>3 DEF S

\* What is done with each.
LEMMA KnowingTurns ==
  ASSUME NEW f, NEW ei, NEW types, Len(ei) \in Nat, IsKnowing(ei, types, f, Len(ei))
  PROVE  f[0] = << >> /\ \A k \in 1..Len(ei) : f[k] = KnowNext(ei, types, k, f[k - 1])
BY DEF IsKnowing

\* It is what Known makes.
LEMMA KnowingRun ==
  ASSUME NEW ei, NEW types, Len(ei) \in Nat
  PROVE  \E f : IsKnowing(ei, types, f, Len(ei)) /\ Known(ei, types) = f[Len(ei)]
<1> DEFINE f == CHOOSE f : IsKnowing(ei, types, f, Len(ei))
<1>1. Known(ei, types) = f[Len(ei)]
  BY DEF Known, IsKnowing, KnowNext
<1>2. IsKnowing(ei, types, f, Len(ei))
  BY KnowingExists
<1> HIDE DEF f
<1> QED BY <1>1, <1>2

\* What of the first k elements is in a receiver's descriptor s, at pos.
KnownUpTo(ei, types, pos, s, k) ==
  /\ s \in Seq({ ei[i] : i \in DOMAIN ei })
  /\ pos[k] = Len(s)
  /\ \A i \in 0..k : pos[i] \in Nat /\ pos[i] <= Len(s)
  /\ \A i \in 1..k : Knows(ei, types, i) =>
       /\ pos[i] \in 1..Len(s) /\ s[pos[i]] = ei[i]
       /\ pos[i] = pos[i - 1] + 1
  /\ \A x \in 1..Len(s) : \E i \in 1..k : Knows(ei, types, i) /\ pos[i] = x
  /\ \A i \in 0..k, j \in 0..k : i <= j => pos[i] <= pos[j]

\* What is known of the first elements is known of one more.
LEMMA KnownUpToNext ==
  ASSUME NEW ei, NEW types, NEW pos, NEW s, NEW t, NEW k \in Int, IsSequence(ei), k >= 0,
         k + 1 \in DOMAIN ei, KnownUpTo(ei, types, pos, s, k), t = KnowNext(ei, types, k + 1, s),
         pos[k + 1] = Len(t)
  PROVE  KnownUpTo(ei, types, pos, t, k + 1)
<1>1. PICK E : E = { ei[i] : i \in DOMAIN ei }
  OBVIOUS
<1>2. s \in Seq(E) /\ pos[k] = Len(s) /\ Len(s) \in Nat /\ k \in 0..k /\ k \in Nat
  BY <1>1 DEF KnownUpTo
<1>3. PICK e : e = ei[k + 1] /\ e \in E
  BY <1>1
<1>4. CASE ~ Knows(ei, types, k + 1)
  <2>1. t = s
    BY <1>4 DEF KnowNext, Knows
  <2>2. pos[k + 1] = Len(s)
    BY <2>1
  <2>3. \A i \in 0..(k + 1) : i \in 0..k \/ i = k + 1
    BY <1>2
  <2>4. \A i \in 1..(k + 1) : i \in 1..k \/ i = k + 1
    BY <1>2
  <2>5. \A i \in 0..(k + 1) : pos[i] \in Nat /\ pos[i] <= Len(s)
    BY <1>2, <2>2, <2>3 DEF KnownUpTo
  <2>6. \A i \in 1..(k + 1) : Knows(ei, types, i) =>
          pos[i] \in 1..Len(s) /\ s[pos[i]] = ei[i] /\ pos[i] = pos[i - 1] + 1
    BY <1>4, <2>4 DEF KnownUpTo
  <2>7. \A x \in 1..Len(s) : \E i \in 1..(k + 1) : Knows(ei, types, i) /\ pos[i] = x
    <3>1. \A i \in 1..k : i \in 1..(k + 1)
      BY <1>2
    <3> QED BY <3>1 DEF KnownUpTo
  <2>8. ASSUME NEW i \in 0..(k + 1), NEW j \in 0..(k + 1), i <= j PROVE pos[i] <= pos[j]
    <3>1. CASE j = k + 1
      BY <2>2, <2>5, <3>1
    <3>2. CASE j # k + 1
      <4>1. i \in 0..k /\ j \in 0..k
        BY <1>2, <2>8, <3>2
      <4> QED BY <2>8, <4>1 DEF KnownUpTo
    <3> QED BY <3>1, <3>2
  <2> QED BY <1>1, <1>2, <2>1, <2>2, <2>5, <2>6, <2>7, <2>8 DEF KnownUpTo
<1>5. CASE Knows(ei, types, k + 1)
  <2>1. t = Append(s, e)
    BY <1>3, <1>5 DEF KnowNext, Knows
  <2>2. PICK n \in Nat : n = Len(s)
    BY <1>2
  <2>3. /\ t \in Seq(E) /\ Len(t) = n + 1 /\ t[n + 1] = e
        /\ \A x \in 1..n : t[x] = s[x]
    BY <1>2, <1>3, <2>1, <2>2
  <2>4. pos[k + 1] = n + 1 /\ pos[k] = n
    BY <1>2, <2>2, <2>3
  <2>5. \A i \in 0..(k + 1) : i \in 0..k \/ i = k + 1
    BY <1>2
  <2>6. \A i \in 1..(k + 1) : i \in 1..k \/ i = k + 1
    BY <1>2
  <2>7. \A i \in 0..k : pos[i] \in Nat /\ pos[i] <= n
    BY <2>2 DEF KnownUpTo
  <2>8. \A i \in 0..(k + 1) : pos[i] \in Nat /\ pos[i] <= n + 1
    BY <2>4, <2>5, <2>7
  <2>9. ASSUME NEW i \in 1..(k + 1), Knows(ei, types, i)
        PROVE  pos[i] \in 1..(n + 1) /\ t[pos[i]] = ei[i] /\ pos[i] = pos[i - 1] + 1
    <3>1. CASE i \in 1..k
      <4>1. pos[i] \in 1..n /\ s[pos[i]] = ei[i] /\ pos[i] = pos[i - 1] + 1
        BY <2>2, <2>9, <3>1 DEF KnownUpTo
      <4> QED BY <2>3, <4>1
    <3>2. CASE i = k + 1
      <4>1. i - 1 = k
        BY <3>2
      <4> QED BY <1>3, <2>3, <2>4, <3>2, <4>1
    <3> QED BY <2>6, <3>1, <3>2
  <2>10. ASSUME NEW x \in 1..(n + 1) PROVE \E i \in 1..(k + 1) : Knows(ei, types, i) /\ pos[i] = x
    <3>1. CASE x = n + 1
      <4>1. k + 1 \in 1..(k + 1)
        BY <1>2
      <4> QED BY <1>5, <2>4, <3>1, <4>1
    <3>2. CASE x # n + 1
      <4>1. x \in 1..Len(s)
        BY <2>2, <3>2
      <4>2. \A i \in 1..k : i \in 1..(k + 1)
        BY <1>2
      <4> QED BY <4>1, <4>2 DEF KnownUpTo
    <3> QED BY <3>1, <3>2
  <2>11. ASSUME NEW i \in 0..(k + 1), NEW j \in 0..(k + 1), i <= j PROVE pos[i] <= pos[j]
    <3>1. CASE j = k + 1
      BY <2>4, <2>8, <3>1
    <3>2. CASE j # k + 1
      <4>1. i \in 0..k /\ j \in 0..k
        BY <1>2, <2>11, <3>2
      <4> QED BY <2>11, <4>1 DEF KnownUpTo
    <3> QED BY <3>1, <3>2
  <2> QED BY <1>1, <2>3, <2>4, <2>8, <2>9, <2>10, <2>11 DEF KnownUpTo
<1> QED BY <1>4, <1>5

\* A receiver's descriptor is what Reader says.
LEMMA KnownReader ==
  ASSUME NEW ei, NEW types, IsSequence(ei), \A t \in types : t >= OptionalStart
  PROVE  \E pos : Reader(ei, Known(ei, types), types, pos)
<1>1. DOMAIN ei = 1..Len(ei) /\ Len(ei) \in Nat
  BY DEF IsSequence
<1>2. PICK n \in Nat : n = Len(ei)
  BY <1>1
<1>3. PICK f : IsKnowing(ei, types, f, Len(ei)) /\ Known(ei, types) = f[Len(ei)]
  BY <1>1, KnowingRun
<1>4. f[0] = << >> /\ \A k \in 1..n : f[k] = KnowNext(ei, types, k, f[k - 1])
  BY <1>1, <1>2, <1>3, KnowingTurns
<1>5. PICK pos : pos = [k \in 0..n |-> Len(f[k])]
  OBVIOUS
<1>6. \A k \in 0..n : pos[k] = Len(f[k])
  BY <1>5
<1> DEFINE S == { k \in 0..n : KnownUpTo(ei, types, pos, f[k], k) }
<1>7. 0 \in S
  <2>1. 0 \in 0..n
    OBVIOUS
  <2>2. f[0] \in Seq({ ei[i] : i \in DOMAIN ei }) /\ Len(f[0]) = 0 /\ pos[0] = 0
    BY <1>4, <1>6, <2>1
  <2>3. (\A i \in 0..0 : i = 0) /\ (\A i \in 1..0 : FALSE)
    OBVIOUS
  <2> QED BY <2>1, <2>2, <2>3 DEF KnownUpTo
<1>8. ASSUME NEW k \in 0..(n - 1), k \in S PROVE k + 1 \in S
  <2>1. /\ k \in Int /\ k >= 0 /\ k + 1 \in DOMAIN ei /\ k + 1 \in 1..n /\ k + 1 \in 0..n
        /\ (k + 1) - 1 = k
    BY <1>1, <1>2
  <2>2. PICK s, t : s = f[k] /\ t = f[k + 1]
    OBVIOUS
  <2>3. t = KnowNext(ei, types, k + 1, s)
    BY <1>4, <2>1, <2>2
  <2>4. pos[k + 1] = Len(t)
    BY <1>6, <2>1, <2>2
  <2>5. KnownUpTo(ei, types, pos, s, k)
    BY <1>8, <2>2
  <2>6. KnownUpTo(ei, types, pos, t, k + 1)
    BY <2>1, <2>3, <2>4, <2>5, KnownUpToNext
  <2> QED BY <2>1, <2>2, <2>6
<1> HIDE DEF S
<1>9. \A k \in 0..n : k \in S
  BY <1>7, <1>8, IntervalInduction
<1>10. n \in S
  BY <1>9
<1>11. PICK rd : rd = Known(ei, types)
  OBVIOUS
<1>12. KnownUpTo(ei, types, pos, rd, n)
  BY <1>2, <1>3, <1>10, <1>11 DEF S
<1>13. IsSequence(rd) /\ DOMAIN rd = 1..Len(rd)
  BY <1>12 DEF KnownUpTo, IsSequence
<1>14. \A i \in Int : Knows(ei, types, i) => i \in 1..n
  BY <1>1, <1>2 DEF Knows
<1>15. \A i \in Int : Knows(ei, types, i) => pos[i] \in DOMAIN rd /\ rd[pos[i]] = ei[i]
  BY <1>12, <1>13, <1>14 DEF KnownUpTo
<1>16. \A x \in DOMAIN rd : \E i \in Int : Knows(ei, types, i) /\ pos[i] = x
  <2>1. \A i \in 1..n : i \in Int
    OBVIOUS
  <2> QED BY <1>12, <1>13, <2>1 DEF KnownUpTo
<1>17. ASSUME NEW i \in Int, NEW j \in Int, Knows(ei, types, i), Knows(ei, types, j), i < j
       PROVE  pos[i] < pos[j]
  <2>1. i \in 1..n /\ j \in 1..n
    BY <1>14, <1>17
  <2>2. i \in 0..n /\ j - 1 \in 0..n /\ j \in 0..n /\ i <= j - 1
    BY <1>17, <2>1
  <2>3. pos[i] <= pos[j - 1] /\ pos[i] \in Nat /\ pos[j - 1] \in Nat /\ pos[j] \in Nat
    BY <1>12, <2>2 DEF KnownUpTo
  <2>4. pos[j] = pos[j - 1] + 1
    BY <1>12, <1>17, <2>1 DEF KnownUpTo
  <2> QED BY <2>3, <2>4
<1>18. ASSUME NEW i \in Int, Knows(ei, types, i), Knows(ei, types, i + 1)
       PROVE  pos[i + 1] = pos[i] + 1
  <2>1. i + 1 \in 1..n
    BY <1>14, <1>18
  <2>2. pos[i + 1] = pos[(i + 1) - 1] + 1
    BY <1>12, <1>18, <2>1 DEF KnownUpTo
  <2>3. (i + 1) - 1 = i
    OBVIOUS
  <2> QED BY <2>2, <2>3
<1>19. Reader(ei, rd, types, pos)
  BY <1>13, <1>15, <1>16, <1>17, <1>18 DEF Reader
<1> QED BY <1>11, <1>19

\* What Expected picks, for a reader's element, is the element it stands for.
LEMMA ExpectedAt ==
  ASSUME NEW ei, NEW rd, NEW types, NEW pos, NEW v, NEW i \in Int, LegalMessage(ei),
         Reader(ei, rd, types, pos), Knows(ei, types, i)
  PROVE  pos[i] \in DOMAIN rd /\ Expected(rd, ei, v)[pos[i]] = v[i]
<1>1. Legal(1, ei) /\ DOMAIN ei = 1..Len(ei) /\ Len(ei) \in Nat
  BY LegalDescriptors DEF LegalMessage, IsSequence
<1>2. i \in DOMAIN ei /\ pos[i] \in DOMAIN rd /\ rd[pos[i]] = ei[i]
  BY DEF Knows, Reader
<1>3. PICK x : x = pos[i]
  OBVIOUS
<1>4. PICK c : c = (CHOOSE k \in DOMAIN ei : ei[k] = rd[x])
  OBVIOUS
<1>5. \E k \in DOMAIN ei : ei[k] = rd[x]
  BY <1>2, <1>3
<1>6. c \in DOMAIN ei /\ ei[c] = rd[x]
  BY <1>4, <1>5
<1>7. c \in Int
  BY <1>1, <1>6
<1>8. ei[c] = ei[i]
  BY <1>2, <1>3, <1>6
<1>9. c = i
  <2>1. ASSUME NEW a \in Int, NEW b \in Int, a \in DOMAIN ei, b \in DOMAIN ei, a < b
        PROVE  ei[a] # ei[b]
    BY <1>1, <2>1, ElemsDiffer
  <2>2. ~ (c < i) /\ ~ (i < c)
    BY <1>2, <1>6, <1>7, <1>8, <2>1
  <2> QED BY <1>7, <2>2
<1>10. Expected(rd, ei, v)[x] = v[c]
  BY <1>2, <1>3, <1>4 DEF Expected
<1> QED BY <1>2, <1>3, <1>9, <1>10

\* w has a value for each element of rd, and of what its receiver knows those of v.
FilledFrom(ei, rd, types, pos, v, w) ==
  /\ w = [x \in DOMAIN rd |-> w[x]]
  /\ \A i \in Int : Knows(ei, types, i) => w[pos[i]] = v[i]

\* A structure filled in with what its reader knows is what Expected says.
LEMMA ExpectedWhole ==
  ASSUME NEW ei, NEW rd, NEW types, NEW pos, NEW v, NEW w, LegalMessage(ei),
         Reader(ei, rd, types, pos), FilledFrom(ei, rd, types, pos, v, w)
  PROVE  w = Expected(rd, ei, v)
<1>1. PICK z : z = Expected(rd, ei, v)
  OBVIOUS
<1>2. z = [x \in DOMAIN rd |-> z[x]]
  BY <1>1 DEF Expected
<1>3. \A i \in Int : Knows(ei, types, i) => Expected(rd, ei, v)[pos[i]] = v[i]
  BY ExpectedAt
<1>4. ASSUME NEW x \in DOMAIN rd PROVE w[x] = z[x]
  <2>1. PICK i \in Int : Knows(ei, types, i) /\ pos[i] = x
    BY DEF Reader
  <2>2. Expected(rd, ei, v)[pos[i]] = v[i]
    BY <1>3, <2>1
  <2>3. w[pos[i]] = v[i]
    BY <2>1 DEF FilledFrom
  <2>4. w[pos[i]] = z[pos[i]]
    BY <1>1, <2>2, <2>3, Zenon
  <2> QED BY <2>1, <2>4, Zenon
<1>5. w = z
  BY <1>2, <1>4 DEF FilledFrom
<1> QED BY <1>1, <1>5

\* Every message that can be encoded arrives in what its receiver knows of it.
THEOREM MessageArrives ==
  ASSUME NEW ei, NEW v, NEW types, NEW o, NEW room \in Int, LegalMessage(ei),
         ValidStructure(1, ei, v), \A t \in types : t >= OptionalStart, o = EncodeBody(ei, v, room),
         Ok(o)
  PROVE  /\ o.out \in Seq(Nat)
         /\ Len(o.out) < Limit(2) =>
              DecodeBody(Known(ei, types), o.out) = Took(Len(o.out), Expected(Known(ei, types), ei, v))
<1>1. PICK enc, dec, rd : enc = Encoder[2] /\ dec = Decoder[2] /\ rd = Known(ei, types)
  OBVIOUS
<1>2. PICK level \in Int : level = 1
  OBVIOUS
<1>3. Carries(enc, dec, level + 1)
  <2>1. 2 \in NestedLevels
    BY CodecConstants DEF NestedLevels
  <2>2. Carries(Encoder[2], Decoder[2], 2)
    BY <2>1, Contract
  <2>3. level + 1 = 2
    BY <1>2
  <2> QED BY <1>1, <2>2, <2>3
<1>4. Legal(1, ei) /\ IsSequence(ei) /\ Len(ei) \in Nat
  BY LegalDescriptors DEF LegalMessage, IsSequence
<1>5. Legal(level, ei) /\ ValidStructure(level, ei, v) /\ ~ (level > 1)
  BY <1>2, <1>4
<1>6. PICK pos : Reader(ei, rd, types, pos)
  BY <1>1, <1>4, KnownReader
<1>7. ReaderAt(level, ei, rd, types, pos)
  BY <1>5, <1>6 DEF ReaderAt
<1>8. PICK q : q = o.out
  OBVIOUS
<1>9. q \in Seq(Nat) /\ Reaches(level, dec, ei, rd, types, pos, v, q, Len(ei) + 1)
  <2>1. o = QmiEncode(enc, ei, v, room, level)
    BY <1>1, <1>2 DEF EncodeBody
  <2>2. o.out \in Seq(Nat) /\ Reaches(level, dec, ei, rd, types, pos, v, o.out, Len(ei) + 1)
    BY <1>3, <1>5, <1>7, <2>1, EncodeReaches
  <2> QED BY <1>8, <2>2
<1>10. ASSUME Len(q) < Limit(2) PROVE DecodeBody(rd, q) = Took(Len(q), Expected(rd, ei, v))
  <2>1. Match(q, 0, q) /\ Len(q) \in Nat
    BY <1>9, MatchSelf
  <2>2. PICK from \in Int : from = 0 /\ from \in Nat
    OBVIOUS
  <2>3. PICK len \in Int : len = Len(q)
    BY <2>1
  <2>4. len \in Nat /\ Len(q) <= len /\ len <= Len(q) /\ len < Limit(2)
    BY <1>10, <2>1, <2>3
  <2>5. Match(q, from, q) /\ from \in Nat
    BY <2>1, <2>2
  <2>6. PICK d, g : Ends(level, dec, ei, rd, types, pos, v, q, q, from, len, g, d)
    BY <1>5, <1>7, <1>9, <2>4, <2>5, DecodeEnds
  <2>7. MessageRel(ei, rd, types, pos, v, d, q, Len(ei) + 1)
    BY <1>5, <2>6 DEF Ends, DecRel
  <2>8. PICK w : w = d.v
    OBVIOUS
  <2>9. w = [x \in DOMAIN rd |-> w[x]]
    BY <2>7, <2>8 DEF MessageRel
  <2>10. ASSUME NEW i \in Int, Knows(ei, types, i) PROVE w[pos[i]] = v[i]
    <3>1. i \in 1..Len(ei)
      BY <1>4, <2>10 DEF Knows, IsSequence
    <3>2. Complete(ei, Len(ei) + 1, i)
      BY <1>4, <3>1 DEF Complete
    <3> QED BY <2>7, <2>8, <2>10, <3>2 DEF MessageRel
  <2>11. w = Expected(rd, ei, v)
    <3>1. FilledFrom(ei, rd, types, pos, v, w)
      BY <2>9, <2>10 DEF FilledFrom
    <3> QED BY <1>6, <3>1, ExpectedWhole
  <2>12. QmiDecode(dec, rd, q, from, len, level) = Took(Len(q), w)
    BY <2>6, <2>8 DEF Ends
  <2>13. DecodeBody(rd, q) = QmiDecode(dec, rd, q, from, len, level)
    BY <1>1, <1>2, <2>2, <2>3 DEF DecodeBody
  <2> QED BY <2>11, <2>12, <2>13
<1> QED BY <1>1, <1>8, <1>9, <1>10

\* A message without a structure arrives as a zeroed one.
THEOREM NullArrives ==
  ASSUME NEW ei, NEW types, LegalMessage(ei), \A t \in types : t >= OptionalStart
  PROVE  DecodeBody(Known(ei, types), << >>) = Took(0, Expected(Known(ei, types), ei, Zeroed(ei)))
<1>1. PICK dec, rd : dec = Decoder[2] /\ rd = Known(ei, types)
  OBVIOUS
<1>2. PICK q \in Seq(Nat) : q = << >>
  BY EmptySeq
<1>3. IsSequence(ei)
  BY DEF LegalMessage
<1>4. PICK pos : Reader(ei, rd, types, pos)
  BY <1>1, <1>3, KnownReader
<1>5. IsSequence(rd) /\ Len(rd) \in Nat
  BY <1>4 DEF Reader, IsSequence
<1>6. PICK level, from, len \in Int : level = 1 /\ from = 0 /\ len = 0
  OBVIOUS
<1>7. PICK g : /\ IsDecoding(dec, rd, q, from, len, level, g, len + Len(rd))
               /\ DecodeLoop(dec, rd, q, from, len, level) = g
  <2>1. len + Len(rd) \in Nat
    BY <1>5, <1>6
  <2> QED BY <1>6, <2>1, DecodingRun
<1>8. IsRun(level, dec, rd, q, g, q, from, len)
  <2>1. Len(q) = 0
    BY <1>2
  <2>2. Match(q, 0, q)
    BY MatchSelf
  <2>3. 0 < Limit(2)
    BY CodecConstants DEF Limit
  <2> QED BY <1>6, <1>7, <2>1, <2>2, <2>3 DEF IsRun
<1>9. g[0] = DecodeState(0, 1, 0, Zeroed(rd))
  BY <1>5, <1>6, <1>8, RunStarts
<1>10. PICK d : d = g[0]
  OBVIOUS
<1>11. Ok(d) /\ d.at = 0 /\ d.v = Zeroed(rd)
  <2>1. PICK z : z = Zeroed(rd)
    OBVIOUS
  <2>2. d = DecodeState(0, 1, 0, z)
    BY <1>9, <1>10, <2>1
  <2>3. Ok(d) /\ d.at = 0 /\ d.v = z
    BY <2>2, DecodeStates
  <2> QED BY <2>1, <2>3
<1>12. DecodeNext(dec, rd, q, from, len, level, d) = d
  <2>1. d.at >= len
    BY <1>6, <1>11
  <2> QED BY <2>1 DEF DecodeNext
<1>13. g[len + Len(rd)] = d
  <2>1. PICK m \in Int : m = 0
    OBVIOUS
  <2>2. 0 <= m /\ m <= len + Len(rd) /\ d = g[m]
    BY <1>5, <1>6, <1>10, <2>1
  <2> QED BY <1>5, <1>6, <1>8, <1>12, <2>2, StuckStays
<1>14. QmiDecode(dec, rd, q, from, len, level) = Took(d.at, d.v)
  BY <1>7, <1>11, <1>13 DEF QmiDecode, Ok
<1>15. DecodeBody(rd, q) = QmiDecode(dec, rd, q, from, len, level)
  BY <1>1, <1>2, <1>6 DEF DecodeBody
<1>16. PICK z, w : z = Zeroed(ei) /\ w = Zeroed(rd)
  OBVIOUS
<1>17. w = Expected(rd, ei, z)
  <2>1. w = [x \in DOMAIN rd |-> w[x]] /\ \A x \in DOMAIN rd : w[x] = Blank(rd[x])
    BY <1>16 DEF Zeroed
  <2>2. \A i \in DOMAIN ei : z[i] = Blank(ei[i])
    BY <1>16 DEF Zeroed
  <2>3. \A i \in Int : Knows(ei, types, i) => w[pos[i]] = z[i]
    BY <1>4, <2>1, <2>2 DEF Reader, Knows
  <2>4. FilledFrom(ei, rd, types, pos, z, w)
    BY <2>1, <2>3 DEF FilledFrom
  <2> QED BY <1>4, <2>4, ExpectedWhole
<1>18. DecodeBody(rd, q) = Took(d.at, d.v)
  BY <1>14, <1>15, Zenon
<1>19. d.at = 0 /\ d.v = Expected(rd, ei, Zeroed(ei))
  BY <1>11, <1>16, <1>17, Zenon
<1> QED BY <1>1, <1>2, <1>18, <1>19, Zenon

\* A message without strings in its structures is encoded just where it fits.
THEOREM MessageFits ==
  ASSUME NEW ei, NEW v, NEW o, NEW p, NEW R \in Int, NEW r \in Int, LegalMessage(ei),
         ValidStructure(1, ei, v), ~ NestedString(ei), r >= 0, o = EncodeBody(ei, v, R), Ok(o),
         p = EncodeBody(ei, v, r)
  PROVE  Fitting(1, o, p, r)
<1>1. PICK enc, dec, has : enc = Encoder[2] /\ dec = Decoder[2] /\ has = HasString[2]
  OBVIOUS
<1>2. PICK level \in Int : level = 1
  OBVIOUS
<1>3. Carries(enc, dec, level + 1) /\ Exact(enc, has, level + 1)
  <2>1. 2 \in NestedLevels
    BY CodecConstants DEF NestedLevels
  <2>2. Carries(Encoder[2], Decoder[2], 2) /\ Exact(Encoder[2], HasString[2], 2)
    BY <2>1, Contract, Exactness
  <2>3. level + 1 = 2
    BY <1>2
  <2> QED BY <1>1, <2>2, <2>3
<1>4. Legal(1, ei) /\ IsSequence(ei)
  BY LegalDescriptors DEF LegalMessage
<1>5. Legal(level, ei) /\ ValidStructure(level, ei, v) /\ ~ (level > 1)
  BY <1>2, <1>4
<1>6. PICK types, rd : types = {} /\ rd = Known(ei, types)
  OBVIOUS
<1>7. PICK pos : Reader(ei, rd, types, pos)
  <2>1. \A t \in types : t >= OptionalStart
    BY <1>6
  <2>2. \E pos : Reader(ei, Known(ei, types), types, pos)
    BY <1>4, <2>1, KnownReader
  <2> QED BY <1>6, <2>2
<1>8. ReaderAt(level, ei, rd, types, pos)
  BY <1>5, <1>7 DEF ReaderAt
<1>9. Plain(ei, has, level)
  <2>1. \A i \in DOMAIN ei : ei[i].type = "struct" => ~ has[ei[i].ei]
    BY <1>1 DEF NestedString
  <2> QED BY <1>5, <2>1 DEF Plain
<1>10. o = QmiEncode(enc, ei, v, R, level) /\ p = QmiEncode(enc, ei, v, r, level)
  BY <1>1, <1>2 DEF EncodeBody
<1>11. level > 1 \/ r >= 0
  OBVIOUS
<1>12. ~ (level > 1) \/ Len(o.out) > 0
  BY <1>5
<1>13. Fitting(level, o, p, r)
  <2>1. Ok(o)
    OBVIOUS
  <2> QED BY <1>3, <1>5, <1>8, <1>9, <1>10, <1>11, <1>12, <2>1, EncodeFits
<1> QED BY <1>2, <1>13

-----------------------------------------------------------------------------
(* What a packet says about what was sent, phase by phase.                  *)

\* A structure was passed to qmi_encode_message.
MessageSent(s) ==
  \E m \in Messages, kind \in Kinds, room \in Rooms :
    /\ NestedString(m.ei) => room = Plenty
    /\ s = [ei |-> m.ei, v |-> m.v, null |-> FALSE, kind |-> kind, room |-> room]

\* None was passed to it.
NullSent(s) ==
  \E ei \in NullTypes, kind \in Kinds, room \in Rooms :
    s = [ei |-> ei, v |-> Zeroed(ei), null |-> TRUE, kind |-> kind, room |-> room]

\* A control packet was sent.
ServerSent(s) ==
  \E cmd \in Commands, x \in Servers : s = [cmd |-> cmd, version |-> x.version, instance |-> x.instance]

Body(s) == EncodeBody(s.ei, s.v, s.room - HeaderSize)

\* p holds what was made of s.
IsData(s, p) ==
  \/ MessageSent(s) /\ s.room >= HeaderSize /\ Body(s).ok /\ p = DataPacket(s.kind, Body(s).out)
  \/ NullSent(s) /\ s.room >= HeaderSize /\ MinMsgLen(s.ei) = 0 /\ p = DataPacket(s.kind, << >>)

IsControl(s, p) == ServerSent(s) /\ p = [from |-> "ctrl", cmd |-> s.cmd, instance |-> Pack(s)]

\* Nothing could be made of s.
IsRefused(s) ==
  \/ MessageSent(s) /\ ~ (s.room >= HeaderSize /\ Body(s).ok)
  \/ NullSent(s) /\ ~ (s.room >= HeaderSize /\ MinMsgLen(s.ei) = 0)

\* g is what a receiver has read in p, ok whether it was what it waited for.
IsRead(s, p, g, ok) ==
  \E types \in Unknown, kind \in Kinds :
    LET r == DecodeBody(Known(s.ei, types), p.payload)
    IN  /\ g = [reader |-> Known(s.ei, types), kind |-> kind, at |-> r.at, v |-> r.v]
        /\ ok = (p.kind = kind /\ r.ok)

\* The inductive invariant: in each phase, what was sent, what became of it and
\* what has been read in that.
ExchangeInv ==
  \/ phase = "idle" /\ sent = Empty /\ packet = Empty /\ got = Empty
  \/ phase = "refused" /\ IsRefused(sent) /\ packet = Empty /\ got = Empty
  \/ phase = "sent" /\ (IsData(sent, packet) \/ IsControl(sent, packet)) /\ got = Empty
  \/ phase = "control" /\ IsControl(sent, packet) /\ got = QrtrDecode(packet)
  \/ phase = "data" /\ IsData(sent, packet) /\ got = [type |-> "data"]
  \/ phase = "accepted" /\ IsData(sent, packet) /\ HeaderFits(packet) /\ got = [type |-> "data"]
  \/ phase = "rejected" /\ IsData(sent, packet) /\ ~ HeaderFits(packet) /\ got = [type |-> "data"]
  \/ /\ phase \in {"decoded", "failed"} /\ IsData(sent, packet) /\ HeaderFits(packet)
     /\ IsRead(sent, packet, got, phase = "decoded")

\* Records of the model are not the empty one.
LEMMA NotEmpty ==
  /\ \A s : MessageSent(s) \/ NullSent(s) \/ ServerSent(s) => s # Empty
  /\ \A s, p : IsData(s, p) \/ IsControl(s, p) => p # Empty
  /\ \A p : QrtrDecode(p) # Empty
  /\ \A s, p, g, ok : IsRead(s, p, g, ok) => g # Empty
<1>1. DOMAIN Empty = {"none"}
  BY DEF Empty
<1>2. ASSUME NEW s, MessageSent(s) PROVE s # Empty
  <2>1. PICK a, b, c, d : s = [ei |-> a, v |-> b, null |-> FALSE, kind |-> c, room |-> d]
    BY <1>2 DEF MessageSent
  <2>2. "ei" \in DOMAIN s
    BY <2>1
  <2> QED BY <1>1, <2>2
<1>3. ASSUME NEW s, NullSent(s) PROVE s # Empty
  <2>1. PICK a, b, c, d : s = [ei |-> a, v |-> b, null |-> TRUE, kind |-> c, room |-> d]
    BY <1>3 DEF NullSent
  <2>2. "ei" \in DOMAIN s
    BY <2>1
  <2> QED BY <1>1, <2>2
<1>4. ASSUME NEW s, ServerSent(s) PROVE s # Empty
  <2>1. PICK a, b, c : s = [cmd |-> a, version |-> b, instance |-> c]
    BY <1>4 DEF ServerSent
  <2>2. "cmd" \in DOMAIN s
    BY <2>1
  <2> QED BY <1>1, <2>2
<1>5. ASSUME NEW s, NEW p, IsData(s, p) PROVE p # Empty
  <2>1. PICK kind, payload : p = DataPacket(kind, payload)
    BY <1>5 DEF IsData
  <2>2. "from" \in DOMAIN p
    BY <2>1 DEF DataPacket
  <2> QED BY <1>1, <2>2
<1>6. ASSUME NEW s, NEW p, IsControl(s, p) PROVE p # Empty
  <2>1. PICK a, b : p = [from |-> "ctrl", cmd |-> a, instance |-> b]
    BY <1>6 DEF IsControl
  <2>2. "from" \in DOMAIN p
    BY <2>1
  <2> QED BY <1>1, <2>2
<1>7. ASSUME NEW p PROVE QrtrDecode(p) # Empty
  <2>1. "type" \in DOMAIN QrtrDecode(p)
    BY DEF QrtrDecode
  <2> QED BY <1>1, <2>1
<1>8. ASSUME NEW s, NEW p, NEW g, NEW ok, IsRead(s, p, g, ok) PROVE g # Empty
  <2>1. PICK a, b, c, d : g = [reader |-> a, kind |-> b, at |-> c, v |-> d]
    BY <1>8 DEF IsRead
  <2>2. "reader" \in DOMAIN g
    BY <2>1
  <2> QED BY <1>1, <2>2
<1> QED BY <1>2, <1>3, <1>4, <1>5, <1>6, <1>7, <1>8

\* The sender's port tells the packets apart.
LEMMA PortsTell ==
  /\ \A s, p : IsData(s, p) => p.from = "peer" /\ QrtrDecode(p) = [type |-> "data"]
  /\ \A s, p : IsControl(s, p) => p.from = "ctrl" /\ QrtrDecode(p).type # "data"
<1>1. ASSUME NEW s, NEW p, IsData(s, p) PROVE p.from = "peer" /\ QrtrDecode(p) = [type |-> "data"]
  <2>1. PICK kind, payload : p = DataPacket(kind, payload)
    BY <1>1 DEF IsData
  <2>2. p.from = "peer"
    BY <2>1 DEF DataPacket
  <2> QED BY <2>2 DEF QrtrDecode
<1>2. ASSUME NEW s, NEW p, IsControl(s, p) PROVE p.from = "ctrl" /\ QrtrDecode(p).type # "data"
  <2>1. p.from = "ctrl"
    BY <1>2 DEF IsControl
  <2>2. CASE p.cmd \in {"new_server", "del_server"}
    BY <2>1, <2>2 DEF QrtrDecode
  <2>3. CASE p.cmd \notin {"new_server", "del_server"}
    BY <2>1, <2>3 DEF QrtrDecode
  <2> QED BY <2>1, <2>2, <2>3
<1> QED BY <1>1, <1>2

\* What qmi_encode_message does with a structure.
LEMMA EncodeInv ==
  ASSUME NEW m \in Messages, NEW kind \in Kinds, NEW room \in Rooms, ExchangeInv,
         Encode(m, kind, room)
  PROVE  ExchangeInv'
<1>1. PICK s : s = [ei |-> m.ei, v |-> m.v, null |-> FALSE, kind |-> kind, room |-> room]
  OBVIOUS
<1>2. MessageSent(s)
  BY <1>1 DEF Encode, MessageSent
<1>3. PICK r : r = EncodeBody(m.ei, m.v, room - HeaderSize)
  OBVIOUS
<1>4. s.room = room /\ s.kind = kind /\ Body(s) = r
  BY <1>1, <1>3 DEF Body
<1>5. got = Empty /\ got' = Empty
  BY DEF Encode, ExchangeInv
<1>6. sent' = s
  BY <1>1 DEF Encode
<1>7. CASE room >= HeaderSize /\ r.ok
  <2>1. phase' = "sent" /\ packet' = DataPacket(kind, r.out)
    BY <1>3, <1>7 DEF Encode
  <2>2. IsData(s, packet')
    BY <1>2, <1>4, <1>7, <2>1 DEF IsData
  <2> QED BY <1>5, <1>6, <2>1, <2>2 DEF ExchangeInv
<1>8. CASE ~ (room >= HeaderSize /\ r.ok)
  <2>1. phase' = "refused" /\ packet' = Empty
    BY <1>3, <1>8 DEF Encode
  <2>2. IsRefused(s)
    BY <1>2, <1>4, <1>8 DEF IsRefused
  <2> QED BY <1>5, <1>6, <2>1, <2>2 DEF ExchangeInv
<1> QED BY <1>7, <1>8

\* What it does without one.
LEMMA EncodeNullInv ==
  ASSUME NEW ei \in NullTypes, NEW kind \in Kinds, NEW room \in Rooms, ExchangeInv,
         EncodeNull(ei, kind, room)
  PROVE  ExchangeInv'
<1>1. PICK s : s = [ei |-> ei, v |-> Zeroed(ei), null |-> TRUE, kind |-> kind, room |-> room]
  OBVIOUS
<1>2. NullSent(s)
  BY <1>1 DEF NullSent
<1>3. s.room = room /\ s.kind = kind /\ s.ei = ei
  BY <1>1
<1>4. got = Empty /\ got' = Empty
  BY DEF EncodeNull, ExchangeInv
<1>5. sent' = s
  BY <1>1 DEF EncodeNull
<1>6. CASE MinMsgLen(ei) = 0 /\ room >= HeaderSize
  <2>1. phase' = "sent" /\ packet' = DataPacket(kind, << >>)
    BY <1>6 DEF EncodeNull
  <2>2. IsData(s, packet')
    BY <1>2, <1>3, <1>6, <2>1 DEF IsData
  <2> QED BY <1>4, <1>5, <2>1, <2>2 DEF ExchangeInv
<1>7. CASE ~ (MinMsgLen(ei) = 0 /\ room >= HeaderSize)
  <2>1. phase' = "refused" /\ packet' = Empty
    BY <1>7 DEF EncodeNull
  <2>2. IsRefused(s)
    BY <1>2, <1>3, <1>7 DEF IsRefused
  <2> QED BY <1>4, <1>5, <2>1, <2>2 DEF ExchangeInv
<1> QED BY <1>6, <1>7

\* What qrtr_decode and the two decoders find is as the phase says.
LEMMA ReceiverInv ==
  ASSUME ExchangeInv,
         \/ Receive \/ DecodeHeader
         \/ \E unknown \in Unknown, kind \in Kinds : DecodeMessage(unknown, kind)
  PROVE  ExchangeInv'
<1>1. CASE Receive
  <2>1. phase = "sent" /\ got' = QrtrDecode(packet) /\ sent' = sent /\ packet' = packet
        /\ phase' = IF QrtrDecode(packet).type = "data" THEN "data" ELSE "control"
    BY <1>1 DEF Receive
  <2>2. CASE IsData(sent, packet)
    <3>1. QrtrDecode(packet) = [type |-> "data"]
      BY <2>2, PortsTell
    <3>2. phase' = "data" /\ got' = [type |-> "data"]
      BY <2>1, <3>1
    <3> QED BY <2>1, <2>2, <3>2 DEF ExchangeInv
  <2>3. CASE IsControl(sent, packet)
    <3>1. QrtrDecode(packet).type # "data"
      BY <2>3, PortsTell
    <3>2. phase' = "control"
      BY <2>1, <3>1
    <3>3. IsControl(sent', packet') /\ got' = QrtrDecode(packet')
      BY <2>1, <2>3
    <3> QED BY <3>2, <3>3 DEF ExchangeInv
  <2> QED BY <2>1, <2>2, <2>3 DEF ExchangeInv
<1>2. CASE DecodeHeader
  <2>1. IsData(sent, packet) /\ got = [type |-> "data"]
    BY <1>2 DEF DecodeHeader, ExchangeInv
  <2>2. sent' = sent /\ packet' = packet /\ got' = got
        /\ phase' = IF HeaderFits(packet) THEN "accepted" ELSE "rejected"
    BY <1>2 DEF DecodeHeader
  <2>3. CASE HeaderFits(packet)
    BY <2>1, <2>2, <2>3 DEF ExchangeInv
  <2>4. CASE ~ HeaderFits(packet)
    BY <2>1, <2>2, <2>4 DEF ExchangeInv
  <2> QED BY <2>3, <2>4
<1>3. ASSUME NEW unknown \in Unknown, NEW kind \in Kinds, DecodeMessage(unknown, kind)
      PROVE  ExchangeInv'
  <2>1. IsData(sent, packet) /\ HeaderFits(packet)
    BY <1>3 DEF DecodeMessage, ExchangeInv
  <2>2. PICK r : r = DecodeBody(Known(sent.ei, unknown), packet.payload)
    OBVIOUS
  <2>3. got' = [reader |-> Known(sent.ei, unknown), kind |-> kind, at |-> r.at, v |-> r.v]
        /\ phase' = (IF packet.kind = kind /\ r.ok THEN "decoded" ELSE "failed")
        /\ sent' = sent /\ packet' = packet
    BY <1>3, <2>2 DEF DecodeMessage
  <2>4. (phase' = "decoded") = (packet.kind = kind /\ r.ok) /\ phase' \in {"decoded", "failed"}
    BY <2>3
  <2>5. IsRead(sent, packet, got', phase' = "decoded")
    BY <2>2, <2>3, <2>4 DEF IsRead
  <2> QED BY <2>1, <2>3, <2>4, <2>5 DEF ExchangeInv
<1> QED BY <1>1, <1>2, <1>3

\* The invariant is inductive.
LEMMA ExchangeInductive ==
  /\ Init => ExchangeInv
  /\ ExchangeInv /\ [Next]_vars => ExchangeInv'
<1>1. Init => ExchangeInv
  BY DEF Init, ExchangeInv
<1>2. ASSUME ExchangeInv, [Next]_vars PROVE ExchangeInv'
  <2>1. ASSUME NEW m \in Messages, NEW kind \in Kinds, NEW room \in Rooms, Encode(m, kind, room)
        PROVE  ExchangeInv'
    BY <1>2, <2>1, EncodeInv
  <2>2. ASSUME NEW ei \in NullTypes, NEW kind \in Kinds, NEW room \in Rooms, EncodeNull(ei, kind, room)
        PROVE  ExchangeInv'
    BY <1>2, <2>2, EncodeNullInv
  <2>3. ASSUME NEW cmd \in Commands, NEW s \in Servers, Control(cmd, s) PROVE ExchangeInv'
    <3>1. PICK t : t = [cmd |-> cmd, version |-> s.version, instance |-> s.instance]
      OBVIOUS
    <3>2. ServerSent(t) /\ t.cmd = cmd /\ Pack(t) = Pack(s)
      BY <3>1 DEF ServerSent, Pack
    <3>3. /\ sent' = t /\ packet' = [from |-> "ctrl", cmd |-> cmd, instance |-> Pack(s)]
          /\ phase' = "sent"
      BY <2>3, <3>1 DEF Control
    <3>4. IsControl(sent', packet')
      BY <3>2, <3>3 DEF IsControl
    <3>5. got' = Empty
      BY <1>2, <2>3 DEF Control, ExchangeInv
    <3> QED BY <3>3, <3>4, <3>5 DEF ExchangeInv
  <2>4. CASE \/ Receive \/ DecodeHeader
             \/ \E unknown \in Unknown, kind \in Kinds : DecodeMessage(unknown, kind)
    BY <1>2, <2>4, ReceiverInv
  <2>5. CASE Finish
    BY <2>5 DEF Finish, ExchangeInv
  <2>6. CASE UNCHANGED vars
    BY <1>2, <2>6 DEF vars, ExchangeInv
  <2> QED BY <1>2, <2>1, <2>2, <2>3, <2>4, <2>5, <2>6 DEF Next
<1> QED BY <1>1, <1>2

\* What is known of a packet and its phase in every reachable state.
THEOREM ExchangeInvariant == Spec => []ExchangeInv
<1>1. Init => ExchangeInv
  BY ExchangeInductive
<1>2. ExchangeInv /\ [Next]_vars => ExchangeInv'
  BY ExchangeInductive
<1> QED BY <1>1, <1>2, PTL DEF Spec

\* The largest buffer.
LEMMA PlentyRoom == Rooms \subseteq Nat /\ Plenty \in Rooms /\ \A q \in Rooms : q <= Plenty
<1>1. Rooms \subseteq Nat /\ \E r \in Rooms : \A q \in Rooms : q <= r
  BY ExchangeConstants
<1> QED BY <1>1 DEF Plenty

\* It holds the structure v.
PlentyHolds(ei, v) ==
  /\ Ok(EncodeBody(ei, v, Plenty - HeaderSize))
  /\ Needed(ei, v) <= Plenty

\* What the fields of sent hold.
LEMMA SentFields ==
  /\ \A s : MessageSent(s) => /\ LegalMessage(s.ei) /\ ValidStructure(1, s.ei, s.v)
                              /\ PlentyHolds(s.ei, s.v) /\ s.null = FALSE
                              /\ s.room \in Rooms /\ (NestedString(s.ei) => s.room = Plenty)
  /\ \A s : NullSent(s) => LegalMessage(s.ei) /\ s.v = Zeroed(s.ei) /\ s.null = TRUE /\ s.room \in Rooms
<1>1. ASSUME NEW s, MessageSent(s)
      PROVE  /\ LegalMessage(s.ei) /\ ValidStructure(1, s.ei, s.v)
             /\ PlentyHolds(s.ei, s.v) /\ s.null = FALSE
             /\ s.room \in Rooms /\ (NestedString(s.ei) => s.room = Plenty)
  <2>1. PICK m \in Messages, kind \in Kinds, room \in Rooms :
          /\ NestedString(m.ei) => room = Plenty
          /\ s = [ei |-> m.ei, v |-> m.v, null |-> FALSE, kind |-> kind, room |-> room]
    BY <1>1 DEF MessageSent
  <2>2. s.ei = m.ei /\ s.v = m.v /\ s.null = FALSE /\ s.room = room
    BY <2>1
  <2>3. LegalMessage(m.ei) /\ ValidStructure(1, m.ei, m.v)
    BY ExchangeConstants
  <2>4. PICK o : o = EncodeBody(m.ei, m.v, Plenty - HeaderSize)
    OBVIOUS
  <2>5. o.ok /\ HeaderSize + Len(o.out) <= Plenty
    BY <2>4, ExchangeConstants
  <2>6. PlentyHolds(m.ei, m.v)
    BY <2>4, <2>5 DEF PlentyHolds, Needed, Ok
  <2> QED BY <2>1, <2>2, <2>3, <2>6
<1>2. ASSUME NEW s, NullSent(s)
      PROVE  LegalMessage(s.ei) /\ s.v = Zeroed(s.ei) /\ s.null = TRUE /\ s.room \in Rooms
  <2>1. PICK ei \in NullTypes, kind \in Kinds, room \in Rooms :
          s = [ei |-> ei, v |-> Zeroed(ei), null |-> TRUE, kind |-> kind, room |-> room]
    BY <1>2 DEF NullSent
  <2>2. s.ei = ei /\ s.v = Zeroed(ei) /\ s.null = TRUE /\ s.room = room
    BY <2>1
  <2>3. LegalMessage(ei)
    BY ExchangeConstants
  <2> QED BY <2>1, <2>2, <2>3
<1> QED BY <1>1, <1>2

\* What qmi_encode puts out is bytes.
LEMMA BodyBytes ==
  ASSUME NEW s, MessageSent(s), Body(s).ok
  PROVE  Body(s).out \in Seq(Nat)
<1>1. PICK ei, v, types : ei = s.ei /\ v = s.v /\ types = {}
  OBVIOUS
<1>2. LegalMessage(ei) /\ ValidStructure(1, ei, v) /\ s.room \in Rooms
  BY <1>1, SentFields
<1>3. PICK a \in Int, h \in Int : a = s.room /\ h = HeaderSize
  <2>1. \A q \in Rooms : q \in Int
    BY PlentyRoom
  <2>2. s.room \in Int /\ HeaderSize \in Int
    BY <1>2, <2>1 DEF HeaderSize
  <2> QED BY <2>2
<1>4. PICK room \in Int : room = a - h
  OBVIOUS
<1>5. PICK o : o = EncodeBody(ei, v, room)
  OBVIOUS
<1>6. Body(s) = o
  BY <1>1, <1>3, <1>4, <1>5 DEF Body
<1>7. Ok(o) /\ \A t \in types : t >= OptionalStart
  BY <1>1, <1>6 DEF Ok
<1>8. o.out \in Seq(Nat)
  BY <1>2, <1>5, <1>7, MessageArrives
<1> QED BY <1>6, <1>8

\* A packet with data is bytes, and what they say is taken from it whole by
\* whoever knows fewer optional elements.
LEMMA DataArrives ==
  ASSUME NEW s, NEW p, NEW types, IsData(s, p), types \in Unknown
  PROVE  /\ p.payload \in Seq(Nat) /\ p.kind = s.kind /\ p.msg_len = Len(p.payload) % Limit(2)
         /\ Len(p.payload) < Limit(2) =>
              DecodeBody(Known(s.ei, types), p.payload)
                = Took(Len(p.payload), Expected(Known(s.ei, types), s.ei, s.v))
<1>1. \A t \in types : t >= OptionalStart
  BY ExchangeConstants
<1>2. ASSUME NEW kind, NEW payload, p = DataPacket(kind, payload)
      PROVE  p.kind = kind /\ p.payload = payload /\ p.msg_len = Len(payload) % Limit(2)
  BY <1>2 DEF DataPacket
<1>3. CASE /\ MessageSent(s) /\ s.room >= HeaderSize /\ Body(s).ok
           /\ p = DataPacket(s.kind, Body(s).out)
  <2>1. PICK ei, v : ei = s.ei /\ v = s.v
    OBVIOUS
  <2>2. LegalMessage(ei) /\ ValidStructure(1, ei, v) /\ s.room \in Rooms
    BY <1>3, <2>1, SentFields
  <2>3. PICK room \in Int : room = s.room - HeaderSize
    <3>1. s.room \in Int /\ HeaderSize \in Int
      <4>1. \A q \in Rooms : q \in Int
        BY PlentyRoom
      <4> QED BY <2>2, <4>1 DEF HeaderSize
    <3>2. PICK a \in Int, b \in Int : a = s.room /\ b = HeaderSize
      BY <3>1
    <3>3. PICK room \in Int : room = a - b
      OBVIOUS
    <3> QED BY <3>2, <3>3
  <2>4. PICK o : o = EncodeBody(ei, v, room)
    OBVIOUS
  <2>5. Ok(o) /\ p = DataPacket(s.kind, o.out)
    BY <1>3, <2>1, <2>3, <2>4 DEF Body, Ok
  <2>6. /\ o.out \in Seq(Nat)
        /\ Len(o.out) < Limit(2) =>
             DecodeBody(Known(ei, types), o.out) = Took(Len(o.out), Expected(Known(ei, types), ei, v))
    BY <1>1, <2>2, <2>4, <2>5, MessageArrives
  <2>7. p.kind = s.kind /\ p.payload = o.out /\ p.msg_len = Len(o.out) % Limit(2)
    BY <1>2, <2>5
  <2> QED BY <2>1, <2>6, <2>7
<1>4. CASE NullSent(s) /\ p = DataPacket(s.kind, << >>)
  <2>1. PICK ei : ei = s.ei
    OBVIOUS
  <2>2. LegalMessage(ei) /\ s.v = Zeroed(ei)
    BY <1>4, <2>1, SentFields
  <2>3. DecodeBody(Known(ei, types), << >>) = Took(0, Expected(Known(ei, types), ei, Zeroed(ei)))
    BY <1>1, <2>2, NullArrives
  <2>4. PICK z \in Seq(Nat) : z = << >> /\ Len(z) = 0
    BY EmptySeq
  <2>5. p.kind = s.kind /\ p.payload = z /\ p.msg_len = Len(z) % Limit(2)
    BY <1>2, <1>4, <2>4
  <2>6. DecodeBody(Known(ei, types), z) = Took(Len(z), Expected(Known(ei, types), ei, s.v))
    BY <2>2, <2>3, <2>4
  <2> QED BY <2>1, <2>5, <2>6
<1> QED BY <1>3, <1>4 DEF IsData

\* A packet with data is bytes.
LEMMA DataBytes ==
  ASSUME NEW s, NEW p, IsData(s, p)
  PROVE  p.payload \in Seq(Nat) /\ p.msg_len = Len(p.payload) % Limit(2)
<1>1. CASE /\ MessageSent(s) /\ s.room >= HeaderSize /\ Body(s).ok
           /\ p = DataPacket(s.kind, Body(s).out)
  <2>1. PICK o : o = Body(s)
    OBVIOUS
  <2>2. o.out \in Seq(Nat)
    BY <1>1, <2>1, BodyBytes
  <2>3. p.payload = o.out /\ p.msg_len = Len(o.out) % Limit(2)
    BY <1>1, <2>1 DEF DataPacket
  <2> QED BY <2>2, <2>3
<1>2. CASE p = DataPacket(s.kind, << >>)
  <2>1. PICK z \in Seq(Nat) : z = << >>
    BY EmptySeq
  <2>2. p.payload = z /\ p.msg_len = Len(z) % Limit(2)
    BY <1>2, <2>1 DEF DataPacket
  <2> QED BY <2>1, <2>2
<1> QED BY <1>1, <1>2 DEF IsData

\* A number is its own remainder just when it is smaller.
LEMMA Remainder ==
  ASSUME NEW n \in Nat, NEW m \in Nat, m > 0
  PROVE  n % m < m /\ (n < m => n % m = n)
<1>1. n % m < m
  OBVIOUS
<1>2. n < m => n % m = n
  OBVIOUS
<1> QED BY <1>1, <1>2

\* A header that says how long the packet is says so in 16 bits.
LEMMA HeaderTells ==
  ASSUME NEW s, NEW p, IsData(s, p), p.payload \in Seq(Nat), p.msg_len = Len(p.payload) % Limit(2)
  PROVE  HeaderFits(p) <=> Len(p.payload) < Limit(2)
<1>1. PICK n \in Nat : n = Len(p.payload)
  OBVIOUS
<1>2. Limit(2) \in Nat /\ Limit(2) > 0
  BY Limits
<1>3. PICK m \in Nat : m = Limit(2) /\ m > 0
  BY <1>2
<1>4. (n % m = n) <=> n < m
  <2>1. n % m < m /\ (n < m => n % m = n)
    BY <1>3, Remainder
  <2> QED BY <2>1
<1> QED BY <1>1, <1>3, <1>4 DEF HeaderFits

\* What is read in a packet that says how long it is.
LEMMA ReadWhole ==
  ASSUME NEW s, NEW p, NEW g, NEW ok, IsData(s, p), HeaderFits(p), IsRead(s, p, g, ok)
  PROVE  /\ p.payload \in Seq(Nat) /\ g.at = Len(p.payload) /\ (ok <=> g.kind = s.kind)
         /\ g.v = Expected(g.reader, s.ei, s.v)
<1>1. PICK types \in Unknown, kind \in Kinds :
        LET r == DecodeBody(Known(s.ei, types), p.payload)
        IN  /\ g = [reader |-> Known(s.ei, types), kind |-> kind, at |-> r.at, v |-> r.v]
            /\ ok = (p.kind = kind /\ r.ok)
  BY DEF IsRead
<1>2. PICK r, rd, n, w : /\ rd = Known(s.ei, types) /\ r = DecodeBody(rd, p.payload)
                         /\ n = Len(p.payload)
                         /\ w = Expected(rd, s.ei, s.v)
  OBVIOUS
<1>3. g = [reader |-> rd, kind |-> kind, at |-> r.at, v |-> r.v] /\ ok = (p.kind = kind /\ r.ok)
  BY <1>1, <1>2
<1>4. p.payload \in Seq(Nat) /\ p.kind = s.kind /\ p.msg_len = Len(p.payload) % Limit(2)
  BY DataArrives
<1>5. Len(p.payload) < Limit(2)
  BY <1>4, HeaderTells
<1>6. r = Took(n, w)
  BY <1>2, <1>5, DataArrives
<1>7. r.ok = TRUE /\ r.at = n /\ r.v = w
  BY <1>6 DEF Took
<1>8. g.reader = rd /\ g.kind = kind /\ g.at = n /\ g.v = w
  BY <1>3, <1>7
<1>9. ok <=> g.kind = s.kind
  BY <1>3, <1>4, <1>7, <1>8
<1> QED BY <1>2, <1>4, <1>8, <1>9

-----------------------------------------------------------------------------
(* The properties.                                                         *)

\* A smaller quotient makes a smaller number.
LEMMA QuotientOrder ==
  ASSUME NEW q \in Nat, NEW i \in Nat, NEW b \in Nat, NEW c \in Nat, b < Base, q < i
  PROVE  Base * q + b < Base * i + c
<1>1. Base \in Nat
  BY CodecConstants
<1>2. PICK d \in Nat : i = q + 1 + d
  <2>1. i - q - 1 \in Nat /\ i = q + 1 + (i - q - 1)
    OBVIOUS
  <2> QED BY <2>1
<1>3. Base * i = Base * q + Base + Base * d /\ Base * d \in Nat /\ Base * q \in Nat
  BY <1>1, <1>2
<1>4. PICK x \in Nat, y \in Nat, z \in Nat : x = Base * q /\ y = Base * d /\ z = Base * i
  BY <1>1, <1>3
<1>5. z = x + Base + y
  BY <1>3, <1>4
<1>6. x + b < z + c
  BY <1>1, <1>5
<1> QED BY <1>4, <1>6

\* Version and instance are read from the number they share.
LEMMA PackRead ==
  ASSUME NEW i \in Nat, NEW version \in Nat, version < Base
  PROVE  (i * Base + version) % Base = version /\ (i * Base + version) \div Base = i
<1>1. Base \in Nat /\ i * Base = Base * i /\ Base * i \in Nat
  BY CodecConstants
<1>2. PICK n \in Nat : n = i * Base + version /\ n = Base * i + version
  <2>1. i * Base + version \in Nat /\ i * Base + version = Base * i + version
    BY <1>1
  <2> QED BY <2>1
<1>3. n % Base \in Byte /\ n \div Base \in Nat /\ n = Base * (n \div Base) + (n % Base)
  BY Digits
<1>4. PICK q \in Nat, b \in Nat : q = n \div Base /\ b = n % Base
  BY <1>1, <1>3 DEF Byte
<1>5. b < Base /\ n = Base * q + b
  BY <1>1, <1>3, <1>4 DEF Byte
<1>6. ~ (q < i) /\ ~ (i < q)
  <2>1. n \in Nat /\ Base * q + b = n /\ Base * i + version = n
    BY <1>2, <1>5
  <2>2. q < i => Base * q + b < Base * i + version
    BY <1>5, QuotientOrder
  <2>3. i < q => Base * i + version < Base * q + b
    BY QuotientOrder
  <2> QED BY <2>1, <2>2, <2>3
<1>7. q = i
  BY <1>6
<1>8. b = version
  <2>1. PICK x \in Nat : x = Base * i
    BY <1>1
  <2>2. n = x + version /\ n = x + b
    BY <1>2, <1>5, <1>7, <2>1
  <2> QED BY <2>2
<1> QED BY <1>2, <1>4, <1>7, <1>8

\* Observers of a server read the version and the instance that were published
\* (qrtr_publish, qrtr_decode).
THEOREM PublishedServerIsSeen == Spec => []PublishedIsSeen
<1>1. ASSUME ExchangeInv PROVE PublishedIsSeen
  <2>1. SUFFICES ASSUME phase = "control", sent.cmd \in {"new_server", "del_server"}, sent.version < Base
                 PROVE  /\ got.type = sent.cmd /\ got.version = sent.version
                        /\ got.instance = sent.instance
    BY DEF PublishedIsSeen
  <2>2. IsControl(sent, packet) /\ got = QrtrDecode(packet)
    BY <1>1, <2>1 DEF ExchangeInv
  <2>3. PICK cmd \in Commands, x \in Servers :
          sent = [cmd |-> cmd, version |-> x.version, instance |-> x.instance]
    BY <2>2 DEF IsControl, ServerSent
  <2>4. x.version \in Nat /\ x.instance \in Nat
    BY ExchangeConstants
  <2>5. PICK version \in Nat, instance \in Nat : version = x.version /\ instance = x.instance
    BY <2>4
  <2>6. sent.version = version /\ sent.instance = instance
    BY <2>3, <2>5
  <2>7. PICK n : n = instance * Base + version
    OBVIOUS
  <2>8. packet = [from |-> "ctrl", cmd |-> sent.cmd, instance |-> n]
    BY <2>1, <2>2, <2>6, <2>7 DEF IsControl, Pack
  <2>9. packet.from = "ctrl" /\ packet.cmd = sent.cmd /\ packet.instance = n
    BY <2>8
  <2>10. got = [type |-> sent.cmd, version |-> n % Base, instance |-> n \div Base]
    BY <2>1, <2>2, <2>9 DEF QrtrDecode
  <2>11. n % Base = version /\ n \div Base = instance
    BY <2>1, <2>6, <2>7, PackRead
  <2>12. got.type = sent.cmd /\ got.version = version /\ got.instance = instance
    BY <2>10, <2>11
  <2> QED BY <2>6, <2>12
<1> QED BY <1>1, ExchangeInvariant, PTL

\* A missing structure passes for the messages in which everything is optional
\* and for no other (qmi_encode_message, qmi_calc_min_msg_len).
THEOREM NullPassesForOptional == Spec => []NullIsOptional
<1>1. ASSUME ExchangeInv PROVE NullIsOptional
  <2>1. PICK optional \in BOOLEAN :
          optional = \A i \in DOMAIN sent.ei : sent.ei[i].tlv_type >= OptionalStart
    OBVIOUS
  <2>2. ASSUME NullSent(sent) PROVE MinMsgLen(sent.ei) = 0 <=> optional
    <3>1. LegalMessage(sent.ei)
      BY <2>2, SentFields
    <3>2. PICK ei : ei = sent.ei
      OBVIOUS
    <3>3. MinMsgLen(ei) = 0 <=> \A i \in DOMAIN ei : ei[i].tlv_type >= OptionalStart
      BY <3>1, <3>2, MinMsgLenOptional
    <3> QED BY <2>1, <3>2, <3>3
  <2>3. ASSUME phase = "sent", packet.from = "peer", sent.null PROVE optional
    <3>1. IsData(sent, packet)
      BY <1>1, <2>3, PortsTell DEF ExchangeInv
    <3>2. ~ MessageSent(sent)
      BY <2>3, SentFields
    <3>3. NullSent(sent) /\ MinMsgLen(sent.ei) = 0
      BY <3>1, <3>2 DEF IsData
    <3> QED BY <2>2, <3>3
  <2>4. ASSUME phase = "refused", sent.null, sent.room >= HeaderSize PROVE ~ optional
    <3>1. IsRefused(sent)
      BY <1>1, <2>4 DEF ExchangeInv
    <3>2. ~ MessageSent(sent)
      BY <2>4, SentFields
    <3>3. NullSent(sent) /\ MinMsgLen(sent.ei) # 0
      BY <2>4, <3>1, <3>2 DEF IsRefused
    <3> QED BY <2>2, <3>3
  <2> QED BY <2>1, <2>3, <2>4 DEF NullIsOptional
<1> QED BY <1>1, ExchangeInvariant, PTL

\* qmi_encode uses no more room than it has and needs no more than a message
\* takes, a message with strings in its structures aside.
LEMMA RoomTells ==
  ASSUME NEW s, MessageSent(s)
  PROVE  /\ Needed(s.ei, s.v) \in Nat /\ Needed(s.ei, s.v) >= HeaderSize
         /\ s.room >= HeaderSize /\ Body(s).ok => HeaderSize + Len(Body(s).out) <= s.room
         /\ ~ (s.room >= HeaderSize /\ Body(s).ok) => Needed(s.ei, s.v) > s.room
<1>1. PICK ei, v : ei = s.ei /\ v = s.v
  OBVIOUS
<1>2. /\ LegalMessage(ei) /\ ValidStructure(1, ei, v) /\ PlentyHolds(ei, v) /\ s.room \in Rooms
      /\ NestedString(ei) => s.room = Plenty
  BY <1>1, SentFields
<1>3. PICK h \in Nat : h = HeaderSize
  BY DEF HeaderSize
<1>4. PICK room \in Nat : room = s.room
  BY <1>2, PlentyRoom
<1>5. PICK plenty \in Nat : plenty = Plenty
  BY PlentyRoom
<1>6. PICK R \in Int, r \in Int : R = plenty - h /\ r = room - h
  OBVIOUS
<1>7. PICK o, p : o = EncodeBody(ei, v, R) /\ p = EncodeBody(ei, v, r)
  OBVIOUS
<1>8. Body(s) = p
  BY <1>1, <1>3, <1>4, <1>6, <1>7 DEF Body
<1>9. Ok(o) /\ Needed(ei, v) = h + Len(o.out) /\ Needed(ei, v) <= plenty
  BY <1>2, <1>3, <1>5, <1>6, <1>7 DEF PlentyHolds, Needed
<1>10. o.out \in Seq(Nat)
  <2>1. PICK types : types = {}
    OBVIOUS
  <2>2. \A t \in types : t >= OptionalStart
    BY <2>1
  <2> QED BY <1>2, <1>7, <1>9, <2>2, MessageArrives
<1>11. PICK n \in Nat : n = Len(o.out)
  BY <1>10
<1>12. Needed(ei, v) = h + n /\ h + n <= plenty
  BY <1>9, <1>11
<1>13. (room >= h /\ Ok(p) => h + Len(p.out) <= room) /\ (~ (room >= h /\ Ok(p)) => h + n > room)
  <2>1. CASE room < h
    BY <2>1
  <2>2. CASE room >= h /\ NestedString(ei)
    <3>1. p = o /\ room = plenty
      BY <1>2, <1>4, <1>5, <1>6, <1>7, <2>2
    <3>2. Ok(p) /\ h + Len(p.out) <= room
      BY <1>9, <1>11, <1>12, <3>1
    <3> QED BY <2>2, <3>2
  <2>3. CASE room >= h /\ ~ NestedString(ei)
    <3>1. r >= 0
      BY <1>6, <2>3
    <3>2. Fitting(1, o, p, r)
      BY <1>2, <1>7, <1>9, <2>3, <3>1, MessageFits
    <3>3. (n <= r => p = o) /\ (n > r => ~ Ok(p))
      BY <1>11, <3>2 DEF Fitting
    <3>4. CASE n <= r
      <4>1. Ok(p) /\ Len(p.out) = n
        BY <1>9, <1>11, <3>3, <3>4
      <4>2. h + n <= room
        BY <1>6, <3>4
      <4> QED BY <2>3, <4>1, <4>2
    <3>5. CASE n > r
      <4>1. ~ Ok(p) /\ h + n > room
        BY <1>6, <3>3, <3>5
      <4> QED BY <4>1
    <3> QED BY <3>4, <3>5
  <2> QED BY <2>1, <2>2, <2>3
<1>14. Needed(ei, v) \in Nat /\ Needed(ei, v) >= h
  BY <1>12
<1>15. /\ room >= h /\ p.ok => h + Len(p.out) <= room
       /\ ~ (room >= h /\ p.ok) => Needed(ei, v) > room
  BY <1>12, <1>13 DEF Ok
<1> QED BY <1>1, <1>3, <1>4, <1>8, <1>14, <1>15

\* What is sent fits its packet, and what fits is sent (qmi_encode).
THEOREM RoomIsExact == Spec => []RoomExact
<1>1. ASSUME ExchangeInv PROVE RoomExact
  <2>1. ASSUME phase = "sent", packet.from = "peer"
        PROVE  HeaderSize + Len(packet.payload) <= sent.room
    <3>1. IsData(sent, packet)
      BY <1>1, <2>1, PortsTell DEF ExchangeInv
    <3>2. CASE /\ MessageSent(sent) /\ sent.room >= HeaderSize /\ Body(sent).ok
               /\ packet = DataPacket(sent.kind, Body(sent).out)
      <4>1. HeaderSize + Len(Body(sent).out) <= sent.room
        BY <3>2, RoomTells
      <4>2. packet.payload = Body(sent).out
        BY <3>2 DEF DataPacket
      <4> QED BY <4>1, <4>2
    <3>3. CASE /\ NullSent(sent) /\ sent.room >= HeaderSize
               /\ packet = DataPacket(sent.kind, << >>)
      <4>1. packet.payload = << >>
        BY <3>3 DEF DataPacket
      <4>2. Len(packet.payload) = 0
        BY <4>1
      <4>3. HeaderSize + 0 <= sent.room
        <5>1. sent.room \in Nat
          BY <3>3, SentFields, PlentyRoom
        <5> QED BY <3>3, <5>1 DEF HeaderSize
      <4> QED BY <4>2, <4>3
    <3> QED BY <3>1, <3>2, <3>3 DEF IsData
  <2>2. ASSUME phase = "refused", ~ sent.null PROVE Needed(sent.ei, sent.v) > sent.room
    <3>1. IsRefused(sent)
      BY <1>1, <2>2 DEF ExchangeInv
    <3>2. ~ NullSent(sent)
      BY <2>2, SentFields
    <3>3. MessageSent(sent) /\ ~ (sent.room >= HeaderSize /\ Body(sent).ok)
      BY <3>1, <3>2 DEF IsRefused
    <3> QED BY <3>3, RoomTells
  <2> QED BY <2>1, <2>2 DEF RoomExact
<1> QED BY <1>1, ExchangeInvariant, PTL

\* A message arrives as it was sent, in all its receiver knows, unless it is too
\* long or not waited for (qmi_decode_header, qmi_decode_message).
THEOREM MessageReceivedIsSent == Spec => []ReceivedIsSent
<1>1. ASSUME ExchangeInv PROVE ReceivedIsSent
  <2>1. ASSUME phase = "rejected" PROVE Len(packet.payload) >= Limit(2)
    <3>1. IsData(sent, packet) /\ ~ HeaderFits(packet)
      BY <1>1, <2>1 DEF ExchangeInv
    <3>2. packet.payload \in Seq(Nat) /\ packet.msg_len = Len(packet.payload) % Limit(2)
      BY <3>1, DataBytes
    <3>3. ~ (Len(packet.payload) < Limit(2))
      BY <3>1, <3>2, HeaderTells
    <3>4. Len(packet.payload) \in Nat /\ Limit(2) \in Nat
      BY <3>2, Limits
    <3> QED BY <3>3, <3>4
  <2>2. ASSUME phase \in {"decoded", "failed"}
        PROVE  /\ got.at = Len(packet.payload) /\ (phase = "decoded" <=> got.kind = sent.kind)
               /\ got.v = Expected(got.reader, sent.ei, sent.v)
    <3>1. IsData(sent, packet) /\ HeaderFits(packet) /\ IsRead(sent, packet, got, phase = "decoded")
      BY <1>1, <2>2 DEF ExchangeInv
    <3> QED BY <3>1, ReadWhole
  <2> QED BY <2>1, <2>2 DEF ReceivedIsSent
<1> QED BY <1>1, ExchangeInvariant, PTL

\* The type invariant.
THEOREM ExchangeTypeCorrect == Spec => []TypeOK
<1>1. ASSUME ExchangeInv PROVE TypeOK
  <2>1. phase = "idle" => sent = Empty /\ packet = Empty /\ got = Empty
    BY <1>1 DEF ExchangeInv
  <2>2. phase # "idle" => sent # Empty
    BY <1>1, NotEmpty DEF ExchangeInv, IsData, IsControl, IsRefused
  <2>3. phase = "refused" => packet = Empty /\ got = Empty
    BY <1>1 DEF ExchangeInv
  <2>4. phase \notin {"idle", "refused"} => packet # Empty
    BY <1>1, NotEmpty DEF ExchangeInv
  <2>5. phase = "sent" => got = Empty
    BY <1>1 DEF ExchangeInv
  <2>6. phase \notin {"idle", "refused", "sent"} => got # Empty
    <3>1. [type |-> "data"] # Empty
      <4>1. "type" \in DOMAIN [type |-> "data"] /\ DOMAIN Empty = {"none"}
        BY DEF Empty
      <4> QED BY <4>1
    <3> QED BY <1>1, <3>1, NotEmpty DEF ExchangeInv
  <2>7. phase \in {"data", "accepted", "rejected", "decoded", "failed"} => packet.from = "peer"
    BY <1>1, PortsTell DEF ExchangeInv
  <2>8. ASSUME phase = "decoded" PROVE got.at \in 0..Len(packet.payload)
    <3>1. IsData(sent, packet) /\ HeaderFits(packet) /\ IsRead(sent, packet, got, phase = "decoded")
      BY <1>1, <2>8 DEF ExchangeInv
    <3>2. packet.payload \in Seq(Nat) /\ got.at = Len(packet.payload)
      BY <3>1, ReadWhole
    <3>3. Len(packet.payload) \in Nat
      BY <3>2
    <3> QED BY <3>2, <3>3
  <2>9. phase \in {"idle", "sent", "refused", "control", "data", "accepted", "rejected",
                   "decoded", "failed"}
    BY <1>1 DEF ExchangeInv
  <2>10. (sent = Empty) = (phase = "idle")
    BY <2>1, <2>2
  <2>11. (packet = Empty) = (phase \in {"idle", "refused"})
    BY <2>1, <2>3, <2>4
  <2>12. (got = Empty) = (phase \in {"idle", "refused", "sent"})
    BY <2>1, <2>3, <2>5, <2>6
  <2> QED BY <2>7, <2>8, <2>9, <2>10, <2>11, <2>12 DEF TypeOK
<1> QED BY <1>1, ExchangeInvariant, PTL
=============================================================================
