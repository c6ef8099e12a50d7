----------------------------- MODULE CobsProofs -----------------------------
(***************************************************************************)
(* TLAPS proofs about Cobs, for payloads, frames and buffers of every size *)
(* and every length of a full block.                                       *)
(***************************************************************************)
EXTENDS Cobs, SequenceTheorems, TLAPS

USE CobsAssumption DEF CobsAssumption

-----------------------------------------------------------------------------
(* Arithmetic of the block codes                                           *)

\* As long as a block is not full its code does not wrap.
LEMMA NextCodeInRange ==
  ASSUME code \in 1 .. MaxCode - 1
  PROVE  NextCode = code + 1
BY DEF NextCode

\* b full blocks fit into n bytes of payload only if b is at most the
\* overhead the encoder asks for.
LEMMA BlocksBound ==
  ASSUME NEW m \in Nat \ {0}, NEW b \in Nat, NEW n \in Nat, b * m <= n
  PROVE  n \div m \in Nat /\ b <= n \div m
<1> DEFINE q == n \div m
<1>1. q \in Nat /\ n < q * m + m
  OBVIOUS
<1>2. CASE b > q
  <2>1. b >= q + 1
    BY <1>1, <1>2
  <2>2. b * m >= (q + 1) * m
    BY <1>1, <2>1
  <2>3. (q + 1) * m = q * m + m
    BY <1>1
  <2> QED
    BY <1>1, <2>2, <2>3
<1> QED
  BY <1>1, <1>2

\* The encoder asks for two bytes at least.
LEMMA NeededBound ==
  ASSUME NEW n \in Nat
  PROVE  Needed(n) \in Nat /\ Needed(n) >= 2
<1>1. MaxCode - 1 \in Nat \ {0} /\ 0 * (MaxCode - 1) <= n
  OBVIOUS
<1>2. n \div (MaxCode - 1) \in Nat
  BY <1>1, BlocksBound
<1> QED
  BY <1>2 DEF Needed

-----------------------------------------------------------------------------
(* Type correctness                                                        *)

\* Writing back at code_idx leaves the rest of the output as it is.
LEMMA PatchOutput ==
  ASSUME NEW s \in Seq(Byte), NEW k \in 1 .. Len(s), NEW b \in Byte
  PROVE  LET p == [s EXCEPT ![k] = b]
         IN  /\ p \in Seq(Byte) /\ Len(p) = Len(s)
             /\ \A j \in 1 .. Len(s) : p[j] = IF j = k THEN b ELSE s[j]
BY ExceptSeq

\* The three ways the output grows: a payload byte, a code byte written back
\* and the next one opened, and both when a block is full.
LEMMA AddByte ==
  ASSUME NEW s \in Seq(Byte), NEW k \in 1 .. Len(s), NEW b \in Byte
  PROVE  LET t == Append(s, b)
         IN  /\ t \in Seq(Byte) /\ Len(t) = Len(s) + 1
             /\ b # 0 /\ ZeroOnlyAt(s, k) => ZeroOnlyAt(t, k)
<1> DEFINE t == Append(s, b)
<1>1. /\ t \in Seq(Byte) /\ Len(t) = Len(s) + 1 /\ t[Len(s) + 1] = b
      /\ \A j \in 1 .. Len(s) : t[j] = s[j]
  BY AppendProperties
<1> HIDE DEF t
<1>2. ASSUME b # 0, ZeroOnlyAt(s, k), NEW j \in 1 .. Len(t)
      PROVE  t[j] = 0 <=> j = k
  <2>1. CASE j \in 1 .. Len(s)
    BY <1>1, <1>2, <2>1 DEF ZeroOnlyAt
  <2>2. CASE j = Len(s) + 1
    BY <1>1, <1>2, <2>2
  <2> QED
    BY <1>1, <2>1, <2>2
<1>3. b # 0 /\ ZeroOnlyAt(s, k) => ZeroOnlyAt(t, k)
  BY <1>2 DEF ZeroOnlyAt
<1> QED
  BY <1>1, <1>3 DEF t

\* ... the next code byte opened.
LEMMA CloseBlock ==
  ASSUME NEW s \in Seq(Byte), NEW k \in 1 .. Len(s), NEW c \in Byte
  PROVE  LET t == Append([s EXCEPT ![k] = c], 0)
         IN  /\ t \in Seq(Byte) /\ Len(t) = Len(s) + 1
             /\ c # 0 /\ ZeroOnlyAt(s, k) => ZeroOnlyAt(t, Len(s) + 1)
<1> DEFINE p == [s EXCEPT ![k] = c]
           t == Append(p, 0)
<1>1. /\ p \in Seq(Byte) /\ Len(p) = Len(s)
      /\ \A j \in 1 .. Len(s) : p[j] = IF j = k THEN c ELSE s[j]
  BY PatchOutput
<1> HIDE DEF p
<1>2. /\ t \in Seq(Byte) /\ Len(t) = Len(s) + 1 /\ t[Len(s) + 1] = 0
      /\ \A j \in 1 .. Len(s) : t[j] = p[j]
  <2>1. 0 \in Byte
    BY DEF Byte
  <2>2. /\ Append(p, 0) \in Seq(Byte) /\ Len(Append(p, 0)) = Len(p) + 1
        /\ \A j \in 1 .. Len(p) : Append(p, 0)[j] = p[j]
        /\ Append(p, 0)[Len(p) + 1] = 0
    BY <1>1, <2>1, AppendProperties
  <2> QED
    BY <1>1, <2>2
<1> HIDE DEF t
<1>3. ASSUME c # 0, ZeroOnlyAt(s, k), NEW j \in 1 .. Len(t)
      PROVE  t[j] = 0 <=> j = Len(s) + 1
  <2>1. CASE j \in 1 .. Len(s)
    BY <1>1, <1>2, <1>3, <2>1 DEF ZeroOnlyAt
  <2>2. CASE j = Len(s) + 1
    BY <1>2, <2>2
  <2> QED
    BY <1>2, <2>1, <2>2
<1>4. c # 0 /\ ZeroOnlyAt(s, k) => ZeroOnlyAt(t, Len(s) + 1)
  BY <1>3 DEF ZeroOnlyAt
<1> QED
  BY <1>2, <1>4 DEF t, p

\* ... a block is full.
LEMMA CloseFullBlock ==
  ASSUME NEW s \in Seq(Byte), NEW k \in 1 .. Len(s), NEW c \in Byte,
         NEW b \in Byte
  PROVE  LET t == [s EXCEPT ![k] = c] \o <<b, 0>>
         IN  /\ t \in Seq(Byte) /\ Len(t) = Len(s) + 2
             /\ b # 0 /\ c # 0 /\ ZeroOnlyAt(s, k)
                  => ZeroOnlyAt(t, Len(s) + 2)
<1> DEFINE p == [s EXCEPT ![k] = c]
           t == p \o <<b, 0>>
<1>1. /\ p \in Seq(Byte) /\ Len(p) = Len(s)
      /\ \A j \in 1 .. Len(s) : p[j] = IF j = k THEN c ELSE s[j]
  BY PatchOutput
<1> HIDE DEF p
<1>2. /\ t \in Seq(Byte) /\ Len(t) = Len(s) + 2
      /\ t[Len(s) + 1] = b /\ t[Len(s) + 2] = 0
      /\ \A j \in 1 .. Len(s) : t[j] = p[j]
  <2> DEFINE e == <<b, 0>>
  <2>1. e \in Seq(Byte) /\ Len(e) = 2 /\ e[1] = b /\ e[2] = 0
    BY DEF Byte
  <2> HIDE DEF e
  <2>2. /\ t \in Seq(Byte) /\ Len(t) = Len(p) + Len(e)
        /\ \A j \in 1 .. Len(p) + Len(e) :
             t[j] = IF j <= Len(p) THEN p[j] ELSE e[j - Len(p)]
    BY <1>1, <2>1, ConcatProperties DEF e
  <2> HIDE DEF t
  <2>3. Len(s) \in Nat
    OBVIOUS
  <2> QED
    BY <1>1, <2>1, <2>2, <2>3
<1> HIDE DEF t
<1>3. ASSUME b # 0, c # 0, ZeroOnlyAt(s, k), NEW j \in 1 .. Len(t)
      PROVE  t[j] = 0 <=> j = Len(s) + 2
  <2>1. CASE j \in 1 .. Len(s)
    BY <1>1, <1>2, <1>3, <2>1 DEF ZeroOnlyAt
  <2>2. CASE j \in {Len(s) + 1, Len(s) + 2}
    BY <1>2, <1>3, <2>2
  <2> QED
    BY <1>2, <2>1, <2>2
<1>4. b # 0 /\ c # 0 /\ ZeroOnlyAt(s, k) => ZeroOnlyAt(t, Len(s) + 2)
  BY <1>3 DEF ZeroOnlyAt
<1> QED
  BY <1>2, <1>4 DEF t, p

\* Every index, code and buffer of the codec stays in its range; the code
\* byte of the block being built is never 0 and never 0xFF.
THEOREM CodecTypes == Spec => []TypeOK
<1>1. Init => TypeOK
  <2>1. ASSUME NEW S \in SUBSET Byte
        PROVE  BoundedSeq(S, MaxLen) \subseteq Seq(Byte)
    BY DEF BoundedSeq, SeqOf
  <2>2. /\ BoundedSeq(Value, MaxLen) \subseteq Seq(Byte)
        /\ BoundedSeq(Byte, MaxLen) \subseteq Seq(Byte)
    BY <2>1 DEF Byte
  <2>3. <<>> \in Seq(Byte)
    OBVIOUS
  <2> SUFFICES ASSUME Init PROVE TypeOK
    OBVIOUS
  <2>4. input \in BoundedSeq(Value, MaxLen) \/ input = <<>>
    BY DEF Init
  <2>5. frame \in BoundedSeq(Byte, MaxLen) \/ frame = <<>>
    BY DEF Init
  <2>6. input \in Seq(Byte) /\ frame \in Seq(Byte)
    BY <2>2, <2>3, <2>4, <2>5
  <2>7. pc \in Pcs /\ cap \in Nat /\ room \in Nat
    BY DEF Init, Pcs
  <2>8. output \in Seq(Byte) /\ decoded \in Seq(Byte)
    BY <2>3 DEF Init
  <2>9. /\ i = 1 /\ codeIdx = 1 /\ code = 1 /\ readIdx = 1
        /\ left = 0 /\ result = 0 /\ short \in BOOLEAN
        /\ pc # "scan"
    BY DEF Init
  <2> QED
    BY <2>6, <2>7, <2>8, <2>9 DEF TypeOK
<1>2. TypeOK /\ [Next]_vars => TypeOK'
  <2> SUFFICES ASSUME TypeOK, [Next]_vars PROVE TypeOK'
    OBVIOUS
  <2> USE DEF TypeOK, Pcs
  <2>1. CASE Begin
    <3>1. <<0>> \in Seq(Byte) /\ Len(<<0>>) = 1
      BY DEF Byte
    <3>2. CASE cap < Needed(Len(input))
      BY <2>1, <3>2 DEF Begin, dec
    <3>3. CASE ~(cap < Needed(Len(input)))
      <4>1. output' = <<0>> /\ codeIdx' = 1 /\ code' = 1 /\ i' = 1
        BY <2>1, <3>3 DEF Begin
      <4> QED
        BY <2>1, <3>1, <3>3, <4>1 DEF Begin, dec
    <3> QED
      BY <3>2, <3>3
  <2>2. CASE EncodeZero
    <3>1. codeIdx \in 1 .. Len(output) /\ code \in Byte
      BY <2>2 DEF EncodeZero, Byte
    <3>2. output' \in Seq(Byte) /\ Len(output') = Len(output) + 1
      BY <2>2, <3>1, CloseBlock DEF EncodeZero
    <3> QED
      BY <2>2, <3>2 DEF EncodeZero, dec
  <2>3. CASE EncodeByte
    <3>1. codeIdx \in 1 .. Len(output) /\ MaxCode \in Byte /\ input[i] \in Byte
      <4>1. pc = "scan" /\ i <= Len(input)
        BY <2>3 DEF EncodeByte
      <4>2. i \in 1 .. Len(input) /\ input \in Seq(Byte)
        BY <4>1
      <4>3. input[i] \in Byte
        BY <4>2, ElementOfSeq
      <4>4. MaxCode \in Byte
        BY DEF Byte
      <4> QED
        BY <4>1, <4>3, <4>4
    <3>2. NextCode = code + 1
      BY NextCodeInRange
    <3>3. CASE BlockFull
      <4>1. output' = [output EXCEPT ![codeIdx] = MaxCode] \o <<input[i], 0>>
        BY <2>3, <3>3 DEF EncodeByte
      <4>2. output' \in Seq(Byte) /\ Len(output') = Len(output) + 2
        BY <3>1, <4>1, CloseFullBlock
      <4> QED
        BY <2>3, <3>3, <4>2 DEF EncodeByte, dec
    <3>4. CASE ~BlockFull
      <4>1. output' \in Seq(Byte) /\ Len(output') = Len(output) + 1
        BY <2>3, <3>1, <3>4, AddByte DEF EncodeByte
      <4> QED
        BY <2>3, <3>2, <3>4, <4>1 DEF EncodeByte, BlockFull, dec
    <3> QED
      BY <3>3, <3>4
  <2>4. CASE Finish
    <3>1. codeIdx \in 1 .. Len(output) /\ code \in Byte
      BY <2>4 DEF Finish, Byte
    <3>2. output' \in Seq(Byte)
      BY <2>4, <3>1, CloseBlock DEF Finish, FinalCode
    <3> QED
      BY <2>4, <3>2 DEF Finish, dec
  <2>5. CASE Deliver
    BY <2>5 DEF Deliver, enc
  <2>6. CASE DecodeBegin
    BY <2>6 DEF DecodeBegin, Return, Goes, enc
  <2>7. CASE ReadCode
    <3>1. CASE frame[readIdx] = 0
      BY <2>7, <3>1 DEF ReadCode, Return, enc
    <3>2. CASE frame[readIdx] # 0
      <4>1. frame[readIdx] \in Byte
        BY <2>7 DEF ReadCode, InBlocks
      <4>2. left' \in Nat
        BY <2>7, <3>2, <4>1 DEF ReadCode, Byte
      <4>3. short' \in BOOLEAN
        BY <2>7, <3>2 DEF ReadCode
      <4> QED
        BY <2>7, <3>2, <4>2, <4>3 DEF ReadCode, Goes, enc
    <3> QED
      BY <3>1, <3>2
  <2>8. CASE CopyByte
    <3>1. decoded' \in Seq(Byte)
      <4>1. CASE ~InBlocks \/ frame[readIdx] = 0 \/ Full
        BY <2>8, <4>1 DEF CopyByte
      <4>2. CASE InBlocks /\ frame[readIdx] # 0 /\ ~Full
        <5>1. frame[readIdx] \in Byte
          BY <4>2 DEF InBlocks
        <5>2. decoded' = Append(decoded, frame[readIdx])
          BY <2>8, <4>2 DEF CopyByte, Put
        <5> QED
          BY <5>1, <5>2, AppendProperties
      <4> QED
        BY <4>1, <4>2
    <3>2. pc' \in {"copy", "done"} /\ left' \in Nat /\ result' \in Nat
      BY <2>8 DEF CopyByte, Return, Goes
    <3>3. readIdx' \in Nat /\ readIdx' >= 1
      BY <2>8 DEF CopyByte
    <3> QED
      BY <2>8, <3>1, <3>2, <3>3 DEF CopyByte, enc
  <2>9. CASE EndBlock
    <3>1. decoded' = decoded \/ decoded' = Append(decoded, 0)
      BY <2>9 DEF EndBlock, Put
    <3>2. decoded' \in Seq(Byte)
      <4>1. Append(decoded, 0) \in Seq(Byte)
        BY AppendProperties DEF Byte
      <4> QED
        BY <3>1, <4>1
    <3>3. pc' \in {"block", "done"} /\ result' \in Nat
      BY <2>9 DEF EndBlock, Return, Goes
    <3> QED
      BY <2>9, <3>2, <3>3 DEF EndBlock, enc
  <2>10. CASE Accept
    BY <2>10 DEF Accept, Return, enc
  <2>11. CASE UNCHANGED vars
    BY <2>11 DEF vars, enc, dec
  <2> QED
    BY <2>1, <2>2, <2>3, <2>4, <2>5, <2>6, <2>7, <2>8, <2>9, <2>10, <2>11
    DEF Next, Encode, Decode
<1> QED
  BY <1>1, <1>2, PTL DEF Spec

-----------------------------------------------------------------------------
(* The encoder                                                             *)

EncoderInv == EncodeInv /\ EncodeFits /\ DelimiterLast

\* With b full blocks among the first j - 1 bytes of a payload of n, the
\* output is shorter than the size the encoder asked for.
LEMMA ScanFits ==
  ASSUME NEW n \in Nat, NEW j \in Nat, NEW b \in Nat,
         j <= n + 1, b * (MaxCode - 1) < j
  PROVE  b + j < Needed(n)
<1> DEFINE q == n \div (MaxCode - 1)
<1>1. MaxCode - 1 \in Nat \ {0} /\ b * (MaxCode - 1) <= n
  OBVIOUS
<1>2. q \in Nat /\ b <= q
  BY <1>1, BlocksBound
<1>3. Needed(n) = n + q + 2
  BY DEF Needed
<1> HIDE DEF q
<1> QED
  BY <1>2, <1>3

\* In particular there is room for one more byte while the scan goes on.
LEMMA ScanRoom ==
  ASSUME TypeOK, EncodeInv, pc = "scan"
  PROVE  Len(output) < cap
<1>1. /\ Blocks \in Nat /\ Len(input) \in Nat /\ i <= Len(input) + 1
      /\ Needed(Len(input)) <= cap /\ Len(output) = Blocks + i
  BY DEF EncodeInv, TypeOK, Blocks
<1>2. Blocks * (MaxCode - 1) < i
  BY <1>1 DEF EncodeInv, TypeOK, Filled
<1>3. Blocks + i < Needed(Len(input)) /\ Needed(Len(input)) \in Nat
  BY <1>1, <1>2, ScanFits, NeededBound DEF TypeOK
<1> QED
  BY <1>1, <1>3 DEF TypeOK

\* No step of the encoder writes past the buffer, and of the zeros in the
\* output the only one that is not yet overwritten is the open code byte.
LEMMA EncoderStep ==
  TypeOK /\ TypeOK' /\ EncoderInv /\ [Next]_vars => EncoderInv'
<1> SUFFICES ASSUME TypeOK, TypeOK', EncoderInv, [Next]_vars
             PROVE  EncoderInv'
  OBVIOUS
<1> USE DEF EncoderInv
<1>1. CASE Begin
  <2>1. CASE cap < Needed(Len(input))
    BY <1>1, <2>1 DEF Begin, EncodeInv, EncodeFits, DelimiterLast
  <2>2. CASE ~(cap < Needed(Len(input)))
    <3>1. /\ pc' = "scan" /\ output' = <<0>> /\ codeIdx' = 1
          /\ code' = 1 /\ i' = 1 /\ UNCHANGED <<input, cap>>
      BY <1>1, <2>2 DEF Begin
    <3>2. Blocks' = 0 /\ Filled' = 0
      BY <3>1 DEF Blocks, Filled
    <3>3. Needed(Len(input)) <= cap /\ cap >= 2
      <4>1. Len(input) \in Nat /\ cap \in Nat
        BY DEF TypeOK
      <4>2. Needed(Len(input)) \in Nat /\ Needed(Len(input)) >= 2
        BY <4>1, NeededBound
      <4> QED
        BY <2>2, <4>1, <4>2
    <3>4. ZeroOnlyAt(output', codeIdx')
      BY <3>1 DEF ZeroOnlyAt
    <3>5. EncodeInv'
      BY <3>1, <3>2, <3>3, <3>4 DEF EncodeInv, TypeOK, Needed, ZeroOnlyAt
    <3> QED
      BY <3>1, <3>3, <3>5 DEF EncodeFits, DelimiterLast, TypeOK
  <2> QED
    BY <2>1, <2>2
<1>2. CASE EncodeZero
  <2>1. codeIdx \in 1 .. Len(output) /\ code \in Byte /\ code # 0
    BY <1>2 DEF EncodeZero, TypeOK, Byte
  <2>2. /\ pc = "scan" /\ pc' = "scan" /\ code' = 1
        /\ i <= Len(input) /\ i' = i + 1 /\ UNCHANGED <<input, cap>>
        /\ codeIdx' = Len(output) + 1
    BY <1>2 DEF EncodeZero
  <2>3. Len(output') = Len(output) + 1 /\ ZeroOnlyAt(output', codeIdx')
    <3>1. output \in Seq(Byte) /\ ZeroOnlyAt(output, codeIdx)
      BY <2>2 DEF TypeOK, EncodeInv
    <3>2. output' = Append([output EXCEPT ![codeIdx] = code], 0)
      BY <1>2 DEF EncodeZero
    <3> QED
      BY <2>1, <2>2, <3>1, <3>2, CloseBlock
  <2>4. Blocks' = Blocks /\ Filled' = Filled /\ Filled \in Int
    BY <2>2, <2>3 DEF Blocks, Filled, TypeOK
  <2>5. EncodeInv'
    <3>1. Filled' + code' <= i'
      BY <2>2, <2>4 DEF EncodeInv, TypeOK
    <3> QED
      BY <2>2, <2>3, <2>4, <3>1 DEF EncodeInv, TypeOK, Needed, ZeroOnlyAt
  <2> QED
    BY <2>2, <2>3, <2>5, ScanRoom DEF EncodeFits, DelimiterLast, TypeOK
<1>3. CASE EncodeByte
  <2>1. /\ pc = "scan" /\ pc' = "scan" /\ i' = i + 1 /\ i <= Len(input)
        /\ UNCHANGED <<input, cap>> /\ input[i] \in Byte /\ input[i] # 0
        /\ codeIdx \in 1 .. Len(output) /\ MaxCode \in Byte /\ MaxCode # 0
    <3>1. /\ pc = "scan" /\ pc' = "scan" /\ i' = i + 1 /\ i <= Len(input)
          /\ UNCHANGED <<input, cap>> /\ input[i] # 0
      BY <1>3 DEF EncodeByte
    <3>2. input[i] \in Byte /\ codeIdx \in 1 .. Len(output)
      <4>1. i \in 1 .. Len(input) /\ input \in Seq(Byte)
        BY <3>1 DEF TypeOK
      <4>2. codeIdx \in 1 .. Len(output)
        BY <3>1 DEF TypeOK
      <4> QED
        BY <4>1, <4>2, ElementOfSeq
    <3>3. MaxCode \in Byte /\ MaxCode # 0
      BY DEF Byte
    <3> QED
      BY <3>1, <3>2, <3>3
  <2>2. NextCode = code + 1
    BY NextCodeInRange DEF TypeOK
  <2>3. Blocks \in Nat /\ Filled \in Int
    BY <2>1 DEF Blocks, Filled, TypeOK, EncodeInv
  <2>4. CASE BlockFull
    <3>1. codeIdx' = Len(output) + 2 /\ code' = 1
      BY <1>3, <2>4 DEF EncodeByte
    <3>2. Len(output') = Len(output) + 2 /\ ZeroOnlyAt(output', codeIdx')
      <4>1. output' = [output EXCEPT ![codeIdx] = MaxCode] \o <<input[i], 0>>
        BY <1>3, <2>4 DEF EncodeByte
      <4>2. output \in Seq(Byte) /\ ZeroOnlyAt(output, codeIdx)
        BY <2>1 DEF TypeOK, EncodeInv
      <4> QED
        BY <2>1, <3>1, <4>1, <4>2, CloseFullBlock
    <3>3. Blocks' = Blocks + 1
      BY <2>1, <3>2 DEF Blocks, TypeOK
    <3>4. Filled' = Filled + (MaxCode - 1)
      BY <2>3, <3>3 DEF Filled
    <3>5. code + 1 = MaxCode
      BY <2>2, <2>4 DEF BlockFull
    <3>6. Filled' + code' <= i'
      BY <2>1, <2>3, <3>1, <3>3, <3>4, <3>5 DEF EncodeInv, TypeOK
    <3>7. EncodeInv'
      BY <2>1, <2>3, <3>2, <3>3, <3>6 DEF EncodeInv, TypeOK, Needed, ZeroOnlyAt
    <3>8. Len(output') <= cap'
      <4>1. /\ Blocks' \in Nat /\ i' \in Nat /\ i' <= Len(input) + 1
            /\ Len(input) \in Nat /\ Needed(Len(input)) <= cap
        <5>1. i \in Nat /\ Len(input) \in Nat /\ Needed(Len(input)) <= cap
          BY <2>1, <2>3 DEF TypeOK, EncodeInv
        <5>2. Blocks \in Nat
          BY <2>1, <2>3 DEF EncodeInv
        <5> QED
          BY <2>1, <3>3, <5>1, <5>2
      <4>2. Blocks' * (MaxCode - 1) < i'
        <5>1. Filled' < i'
          BY <2>3, <3>1, <3>4, <3>6, <4>1
        <5>2. Filled' = Blocks' * (MaxCode - 1)
          BY DEF Filled
        <5> QED
          BY <5>1, <5>2
      <4>3. Blocks' + i' < Needed(Len(input)) /\ Needed(Len(input)) \in Nat
        BY <4>1, <4>2, ScanFits, NeededBound
      <4>4. Len(output') = Blocks' + i'
        BY <2>1, <3>2 DEF Blocks, TypeOK
      <4>5. cap \in Nat /\ cap' = cap
        BY <2>1 DEF TypeOK
      <4>6. Needed(Len(input)) <= cap /\ Needed(Len(input)) \in Nat
        BY <4>1, <4>3
      <4>7. Len(output') < Needed(Len(input))
        BY <4>3, <4>4
      <4>8. Len(output') \in Nat
        BY <2>1 DEF TypeOK
      <4> QED
        BY <4>5, <4>6, <4>7, <4>8
    <3> QED
      BY <2>1, <3>7, <3>8 DEF EncodeFits, DelimiterLast
  <2>5. CASE ~BlockFull
    <3>1. code' = code + 1 /\ codeIdx' = codeIdx
      BY <1>3, <2>2, <2>5 DEF EncodeByte
    <3>2. Len(output') = Len(output) + 1 /\ ZeroOnlyAt(output', codeIdx')
      BY <1>3, <2>1, <2>5, <3>1, AddByte DEF EncodeByte, EncodeInv, TypeOK
    <3>3. Blocks' = Blocks /\ Filled' = Filled
      BY <2>1, <3>2 DEF Blocks, Filled, TypeOK
    <3>4. Filled' + code' <= i'
      BY <2>1, <2>3, <3>1, <3>3 DEF EncodeInv, TypeOK
    <3>5. EncodeInv'
      <4>1. i' <= Len(input') + 1 /\ Needed(Len(input')) <= cap'
        BY <2>1 DEF EncodeInv, TypeOK
      <4>2. Blocks' >= 0
        BY <2>3, <3>3
      <4> QED
        BY <2>1, <3>2, <3>4, <4>1, <4>2 DEF EncodeInv, Needed, ZeroOnlyAt
    <3> QED
      BY <2>1, <3>2, <3>5, ScanRoom DEF EncodeFits, DelimiterLast, TypeOK
  <2> QED
    BY <2>4, <2>5
<1>4. CASE Finish
  <2>1. codeIdx \in 1 .. Len(output) /\ code \in Byte /\ code # 0
    BY <1>4 DEF Finish, TypeOK, Byte
  <2>2. pc = "scan" /\ pc' = "encoded" /\ UNCHANGED cap
    BY <1>4 DEF Finish
  <2>3. Len(output') = Len(output) + 1 /\ ZeroOnlyAt(output', Len(output) + 1)
    BY <1>4, <2>1, CloseBlock DEF Finish, FinalCode, EncodeInv, TypeOK
  <2> QED
    BY <2>2, <2>3, ScanRoom DEF EncodeInv, EncodeFits, DelimiterLast, TypeOK
<1>5. CASE Deliver \/ Decode \/ UNCHANGED vars
  <2>1. \/ UNCHANGED enc /\ pc' # "encode" /\ pc' # "scan" /\ pc' # "encoded"
        \/ UNCHANGED <<pc, enc>>
    BY <1>5 DEF Deliver, Decode, DecodeBegin, ReadCode, CopyByte, EndBlock,
                Accept, Return, Goes, vars
  <2> QED
    BY <2>1 DEF enc, EncodeInv, EncodeFits, DelimiterLast, Blocks, Filled, Needed,
                 ZeroOnlyAt
<1> QED
  BY <1>1, <1>2, <1>3, <1>4, <1>5 DEF Next, Encode

-----------------------------------------------------------------------------
(* The decoder                                                             *)

DecoderInv == DecodeInv /\ DecodedShorter

\* Every block costs a code byte, and the zero a block may stand for comes
\* only with another block behind it: the decoder stays two bytes behind.
LEMMA DecoderStep ==
  TypeOK /\ DecoderInv /\ [Next]_vars => DecoderInv'
<1> SUFFICES ASSUME TypeOK, DecoderInv, [Next]_vars
             PROVE  DecoderInv'
  OBVIOUS
<1> USE DEF DecoderInv
<1>t. /\ Len(decoded) \in Nat /\ Len(frame) \in Nat /\ readIdx \in Nat
      /\ decoded \in Seq(Byte) /\ frame \in Seq(Byte)
  BY DEF TypeOK
<1>1. CASE Encode \/ Deliver
  <2>1. /\ UNCHANGED decoded /\ Len(decoded) = 0
        /\ pc' \in {"scan", "encoded", "decode", "done"}
    BY <1>1 DEF Encode, Begin, EncodeZero, EncodeByte, Finish, Deliver, dec,
                DecodeInv
  <2> QED
    BY <2>1 DEF DecodeInv, DecodedShorter
<1>2. CASE DecodeBegin
  <2>1. Len(decoded) = 0 /\ UNCHANGED <<decoded, frame>>
    BY <1>2 DEF DecodeBegin, DecodeInv
  <2>2. pc' = "done" \/ (pc' = "block" /\ readIdx' = 1 /\ Len(frame) >= 2)
    BY <1>2, <1>t DEF DecodeBegin, Return, Goes
  <2> QED
    BY <2>1, <2>2, <1>t DEF DecodeInv, DecodedShorter, InBlocks
<1>3. CASE ReadCode
  <2>1. /\ pc = "block" /\ readIdx < Len(frame) /\ Len(decoded) < readIdx
        /\ UNCHANGED <<decoded, frame>>
        /\ pc' = "done" \/ (pc' = "copy" /\ readIdx' = readIdx + 1)
    BY <1>3 DEF ReadCode, InBlocks, Return, Goes, DecodeInv
  <2> QED
    BY <2>1, <1>t DEF DecodeInv, DecodedShorter
<1>4. CASE CopyByte
  <2>1. /\ pc = "copy" /\ Len(decoded) + 2 <= readIdx /\ readIdx <= Len(frame)
        /\ UNCHANGED frame
    BY <1>4 DEF CopyByte, DecodeInv
  <2>2. CASE ~InBlocks \/ frame[readIdx] = 0 \/ Full
    BY <1>4, <2>1, <2>2, <1>t DEF CopyByte, Return, DecodeInv, DecodedShorter
  <2>3. CASE InBlocks /\ frame[readIdx] # 0 /\ ~Full
    <3>1. /\ pc' = "copy" /\ readIdx' = readIdx + 1 /\ readIdx < Len(frame)
          /\ decoded' = Append(decoded, frame[readIdx])
      BY <1>4, <2>3 DEF CopyByte, Goes, Put, InBlocks
    <3>2. frame[readIdx] \in Byte
      BY <3>1, <1>t DEF TypeOK
    <3>3. Len(decoded') = Len(decoded) + 1
      BY <3>1, <3>2, <1>t, AppendProperties
    <3> QED
      BY <2>1, <3>1, <3>3, <1>t DEF DecodeInv, DecodedShorter
  <2> QED
    BY <2>2, <2>3
<1>5. CASE EndBlock
  <2>1. /\ pc = "copy" /\ Len(decoded) + 2 <= readIdx /\ readIdx <= Len(frame)
        /\ UNCHANGED <<frame, readIdx>>
    BY <1>5 DEF EndBlock, DecodeInv
  <2>2. CASE UNCHANGED decoded
    <3>1. pc' = "done" \/ pc' = "block"
      BY <1>5 DEF EndBlock, Return, Goes
    <3> QED
      BY <2>1, <2>2, <3>1, <1>t DEF DecodeInv, DecodedShorter, InBlocks
  <2>3. CASE decoded' = Append(decoded, 0) /\ pc' = "block" /\ InBlocks
    <3>1. 0 \in Byte
      BY DEF Byte
    <3>2. Len(decoded') = Len(decoded) + 1
      BY <2>3, <3>1, <1>t, AppendProperties
    <3> QED
      BY <2>1, <2>3, <3>2, <1>t DEF DecodeInv, DecodedShorter, InBlocks
  <2> QED
    BY <1>5, <2>2, <2>3 DEF EndBlock, ZeroDue, Goes, Put
<1>6. CASE Accept
  BY <1>6, <1>t DEF Accept, Return, DecodeInv, DecodedShorter, InBlocks
<1>7. CASE UNCHANGED vars
  BY <1>7 DEF vars, dec, DecodeInv, DecodedShorter, InBlocks
<1> QED
  BY <1>1, <1>2, <1>3, <1>4, <1>5, <1>6, <1>7 DEF Next, Decode

-----------------------------------------------------------------------------
(* The theorems                                                            *)

\* The strengthening the next three theorems follow from.
THEOREM CodecInvariant == Spec => []CodecInv
<1>1. Init => EncoderInv
  <2> SUFFICES ASSUME Init PROVE EncoderInv
    OBVIOUS
  <2>1. output = <<>> /\ cap \in Nat /\ pc \in {"encode", "decode"}
    BY DEF Init
  <2> QED
    BY <2>1 DEF EncoderInv, EncodeInv, EncodeFits, DelimiterLast
<1>2. Init => DecoderInv
  <2> SUFFICES ASSUME Init PROVE DecoderInv
    OBVIOUS
  <2>1. decoded = <<>> /\ pc \in {"encode", "decode"}
    BY DEF Init
  <2> QED
    BY <2>1 DEF DecoderInv, DecodeInv, DecodedShorter
<1>3. EncoderInv /\ DecoderInv <=> CodecInv
  BY DEF EncoderInv, DecoderInv, CodecInv
<1> QED
  BY <1>1, <1>2, <1>3, CodecTypes, EncoderStep, DecoderStep, PTL DEF Spec

\* cobs_encode never writes past output_len: the single check at its top is
\* enough for payloads of every length and content.
THEOREM EncoderStaysInBuffer == Spec => []EncodeFits
BY CodecInvariant, PTL DEF CodecInv

\* Whatever the payload, 0x00 occurs in an encoded frame as its last byte
\* and nowhere else: a reader that hunts for it finds the end of the frame.
THEOREM FrameDelimited == Spec => []DelimiterLast
BY CodecInvariant, PTL DEF CodecInv

\* cobs_decode never produces more than two bytes less than it was given,
\* for valid frames and for line noise alike.
THEOREM DecoderShrinks == Spec => []DecodedShorter
BY CodecInvariant, PTL DEF CodecInv

\* cobs_decode never writes past output_len, for valid frames and for line
\* noise alike: each of its two writes is behind a check of the room left.
THEOREM DecoderStaysInRoom == Spec => []DecodeFits
<1>1. Init => DecodeFits
  <2> SUFFICES ASSUME Init PROVE DecodeFits
    OBVIOUS
  <2>1. decoded = <<>> /\ room \in Nat
    BY CobsAssumption DEF Init, CobsAssumption
  <2> QED
    BY <2>1 DEF DecodeFits
<1>2. TypeOK /\ DecodeFits /\ [Next]_vars => DecodeFits'
  <2> SUFFICES ASSUME TypeOK, DecodeFits, [Next]_vars
               PROVE  DecodeFits'
    OBVIOUS
  <2>1. /\ Len(decoded) \in Nat /\ room \in Nat /\ Len(decoded) <= room
        /\ decoded \in Seq(Byte) /\ frame \in Seq(Byte) /\ readIdx \in Nat \ {0}
    BY DEF TypeOK, DecodeFits
  <2>2. room' = room
    BY DEF Next, Encode, Decode, Begin, EncodeZero, EncodeByte, Finish, Deliver, dec,
      DecodeBegin, ReadCode, CopyByte, EndBlock, Accept, vars
  <2>3. decoded' = decoded \/ (~Full /\ \E b \in Byte : decoded' = Append(decoded, b))
    <3>1. CASE CopyByte
      <4>1. InBlocks => frame[readIdx] \in Byte
        BY <2>1 DEF InBlocks
      <4> QED
        BY <3>1, <4>1 DEF CopyByte, Put
    <3>2. CASE EndBlock
      <4>1. 0 \in Byte
        BY CobsAssumption DEF Byte, CobsAssumption
      <4> QED
        BY <3>2, <4>1 DEF EndBlock, Put
    <3> QED
      BY <3>1, <3>2 DEF Next, Encode, Decode, Begin, EncodeZero, EncodeByte, Finish,
        Deliver, dec, DecodeBegin, ReadCode, Accept, vars
  <2>4. CASE decoded' = decoded
    BY <2>1, <2>2, <2>4 DEF DecodeFits
  <2>5. ASSUME ~Full, NEW b \in Byte, decoded' = Append(decoded, b)
        PROVE  DecodeFits'
    <3>1. Len(decoded') = Len(decoded) + 1
      BY <2>1, <2>5, AppendProperties
    <3> QED
      BY <2>1, <2>2, <2>5, <3>1 DEF DecodeFits, Full
  <2> QED
    BY <2>3, <2>4, <2>5
<1> QED
  BY <1>1, <1>2, CodecTypes, PTL DEF Spec

-----------------------------------------------------------------------------
(* The round trip: chains of blocks                                        *)

\* The bytes an encoder step leaves in the output, next to what CloseBlock
\* and CloseFullBlock say of its length.
LEMMA CloseBlockBytes ==
  ASSUME NEW s \in Seq(Byte), NEW k \in 1 .. Len(s), NEW c \in Byte
  PROVE  LET t == Append([s EXCEPT ![k] = c], 0)
         IN  /\ t[k] = c /\ t[Len(s) + 1] = 0
             /\ \A j \in 1 .. Len(s) : j # k => t[j] = s[j]
<1> DEFINE p == [s EXCEPT ![k] = c]
<1>1. /\ p \in Seq(Byte) /\ Len(p) = Len(s)
      /\ \A j \in 1 .. Len(s) : p[j] = IF j = k THEN c ELSE s[j]
  BY PatchOutput
<1> HIDE DEF p
<1>2. 0 \in Byte
  BY DEF Byte
<1>3. /\ \A j \in 1 .. Len(p) : Append(p, 0)[j] = p[j]
      /\ Append(p, 0)[Len(p) + 1] = 0
  BY <1>1, <1>2, AppendProperties
<1> QED
  BY <1>1, <1>3 DEF p

LEMMA CloseFullBlockBytes ==
  ASSUME NEW s \in Seq(Byte), NEW k \in 1 .. Len(s), NEW c \in Byte,
         NEW b \in Byte
  PROVE  LET t == [s EXCEPT ![k] = c] \o <<b, 0>>
         IN  /\ t[k] = c /\ t[Len(s) + 1] = b
             /\ \A j \in 1 .. Len(s) : j # k => t[j] = s[j]
<1> DEFINE p == [s EXCEPT ![k] = c]
           e == <<b, 0>>
           t == p \o e
<1>1. /\ p \in Seq(Byte) /\ Len(p) = Len(s)
      /\ \A j \in 1 .. Len(s) : p[j] = IF j = k THEN c ELSE s[j]
  BY PatchOutput
<1> HIDE DEF p
<1>2. e \in Seq(Byte) /\ Len(e) = 2 /\ e[1] = b
  BY DEF Byte
<1> HIDE DEF e
<1>3. \A j \in 1 .. Len(p) + Len(e) :
        t[j] = IF j <= Len(p) THEN p[j] ELSE e[j - Len(p)]
  <2>1. p \in Seq(Byte) /\ e \in Seq(Byte)
    BY <1>1, <1>2
  <2>2. \A j \in 1 .. Len(p) + Len(e) :
          (p \o e)[j] = IF j <= Len(p) THEN p[j] ELSE e[j - Len(p)]
    BY <2>1, ConcatProperties
  <2> QED
    BY <2>2
<1> HIDE DEF t
<1>4. Len(s) \in Nat
  OBVIOUS
<1> QED
  BY <1>1, <1>2, <1>3, <1>4 DEF t, p, e

LEMMA MarkRange ==
  ASSUME NEW top \in Nat, NEW at \in Marks(top)
  PROVE  /\ DOMAIN at \subseteq 1 .. top
         /\ \A c \in DOMAIN at : at[c] \in 0 .. Len(input)
BY DEF Marks

\* A closed block stays what it is when the output changes from the open
\* code byte on only, and more blocks are marked.
LEMMA BlockKept ==
  ASSUME TypeOK, TypeOK', input' = input,
         NEW top \in Nat, NEW at \in Marks(top), NEW more,
         DOMAIN at \subseteq DOMAIN more,
         \A c \in DOMAIN at : more[c] = at[c],
         \A j \in 1 .. top - 1 : output'[j] = output[j],
         NEW c \in DOMAIN at, Block(at, c)
  PROVE  Block(more, c)'
<1>k. PICK k : k = output[c]
  OBVIOUS
<1>1. /\ k \in 1 .. MaxCode /\ c + k \in DOMAIN at /\ Copies(c, at[c], k)
      /\ at[c + k] = at[c] + IF k = MaxCode THEN k - 1 ELSE k
      /\ k < MaxCode => input[at[c + k]] = 0
  BY <1>k DEF Block
<1>2. c \in 1 .. top /\ c + k \in 1 .. top
  BY <1>1, MarkRange
<1>3. output'[c] = k
  BY <1>1, <1>2, <1>k
<1>4. Copies(c, more[c], output[c])'
  <2>1. ASSUME NEW j \in 1 .. k - 1
        PROVE  output'[c + j] = input'[more[c] + j] /\ output'[c + j] # 0
    <3>1. c + j \in 1 .. top - 1
      BY <1>1, <1>2
    <3>2. output[c + j] = input[at[c] + j] /\ output[c + j] # 0
      BY <1>1 DEF Copies
    <3> QED
      BY <3>1, <3>2
  <2> QED
    BY <1>3, <2>1 DEF Copies
<1>5. /\ k \in 1 .. MaxCode /\ c + k \in DOMAIN more
      /\ more[c + k] = more[c] + IF k = MaxCode THEN k - 1 ELSE k
      /\ k < MaxCode => input'[more[c + k]] = 0
  BY <1>1
<1> QED
  BY <1>3, <1>4, <1>5 DEF Block

\* So does the chain up to the open block.
LEMMA ChainKept ==
  ASSUME TypeOK, TypeOK', input' = input,
         NEW top \in Nat, NEW at \in Marks(top), Chain(at, top),
         \A j \in 1 .. top - 1 : output'[j] = output[j]
  PROVE  Chain(at, top)'
<1>1. \A c \in DOMAIN at \ {top} : Block(at, c)'
  BY BlockKept DEF Chain
<1> QED
  BY <1>1 DEF Chain

\* at with a block that starts behind v payload bytes marked at p.
Marked(at, p, v) ==
  [c \in DOMAIN at \cup {p} |-> IF c = p THEN v ELSE at[c]]

\* The block at c is complete: k is its code, the next block is to start at
\* p, and v payload bytes are before that.
Complete(at, c, k, p, v) ==
  /\ k \in 1 .. MaxCode /\ p = c + k /\ v \in 0 .. Len(input)
  /\ output[c] = k
  /\ \A j \in 1 .. k - 1 : output[c + j] = input[at[c] + j] /\ output[c + j] # 0
  /\ k = MaxCode => v = at[c] + k - 1
  /\ k < MaxCode => v = at[c] + k /\ input[v] = 0

\* A chain grows by the block that was open, once it is complete.
LEMMA ChainGrows ==
  ASSUME TypeOK, TypeOK', input' = input,
         NEW top \in Nat, NEW at \in Marks(top), Chain(at, top),
         \A j \in 1 .. top - 1 : output'[j] = output[j],
         NEW k, NEW p, NEW v, Complete(at, top, k, p, v)'
  PROVE  \E a \in Marks(p)' : Chain(a, p)' /\ a[p] = v
<1>0. PICK more : more = Marked(at, p, v)
  OBVIOUS
<1>c. /\ k \in 1 .. MaxCode /\ p = top + k /\ v \in 0 .. Len(input)
      /\ output'[top] = k
      /\ \A j \in 1 .. k - 1 : /\ output'[top + j] = input'[at[top] + j]
                                /\ output'[top + j] # 0
      /\ k = MaxCode => v = at[top] + k - 1
      /\ k < MaxCode => v = at[top] + k /\ input[v] = 0
  BY DEF Complete
<1>1. /\ DOMAIN at \subseteq 1 .. top /\ {1, top} \subseteq DOMAIN at
      /\ \A c \in DOMAIN at : at[c] \in 0 .. Len(input)
      /\ at[1] = 0 /\ p > top /\ top \in 1 .. top
  BY <1>c, MarkRange DEF Chain
<1>2. /\ DOMAIN more = DOMAIN at \cup {p} /\ more[p] = v
      /\ \A c \in DOMAIN at : more[c] = at[c]
  BY <1>0, <1>1 DEF Marked
<1>3. more \in Marks(p)'
  <2>1. more \in [DOMAIN at \cup {p} -> 0 .. Len(input')]
    BY <1>0, <1>1, <1>c DEF Marked
  <2>2. DOMAIN at \cup {p} \in SUBSET (1 .. p)
    BY <1>1, <1>c
  <2> QED
    BY <2>1, <2>2 DEF Marks
<1>4. ASSUME NEW c \in DOMAIN more \ {p} PROVE Block(more, c)'
  <2>1. CASE c # top
    BY <1>2, <2>1, BlockKept DEF Chain
  <2>2. CASE c = top
    <3>1. more[c] = at[c] /\ p \in DOMAIN more /\ more[p] = v
      BY <1>1, <1>2, <2>2
    <3>2. Copies(c, more[c], output[c])'
      BY <1>c, <2>2, <3>1 DEF Copies
    <3>3. v = at[c] + IF k = MaxCode THEN k - 1 ELSE k
      BY <1>1, <1>c, <2>2
    <3> QED
      BY <1>c, <2>2, <3>1, <3>2, <3>3 DEF Block
  <2> QED
    BY <2>1, <2>2
<1>5. Chain(more, p)'
  BY <1>1, <1>2, <1>4 DEF Chain
<1> QED
  BY <1>2, <1>3, <1>5

-----------------------------------------------------------------------------
(* The round trip: the encoder                                             *)

\* While the payload is scanned the output is a chain of closed blocks and
\* the block that is open.
ScanInv ==
  /\ pc = "encode" => output = <<>> /\ decoded = <<>>
  /\ pc = "scan" => (\E at \in Marks(codeIdx) : Scanned(at)) /\ decoded = <<>>

LEMMA BeginScans ==
  ASSUME TypeOK, Begin, pc' = "scan"
  PROVE  (\E at \in Marks(codeIdx) : Scanned(at))'
<1> DEFINE at == [c \in {1} |-> 0]
<1>1. /\ output' = <<0>> /\ codeIdx' = 1 /\ code' = 1 /\ i' = 1
      /\ input' = input
  BY DEF Begin
<1>2. Len(input) \in Nat
  BY DEF TypeOK
<1>3. DOMAIN at = {1} /\ at[1] = 0 /\ at \in [{1} -> 0 .. Len(input)]
  BY <1>2
<1>4. at \in Marks(codeIdx)'
  <2>1. {1} \in SUBSET (1 .. 1)
    OBVIOUS
  <2> QED
    BY <1>1, <1>3, <2>1 DEF Marks
<1> HIDE DEF at
<1>5. Scanned(at)'
  BY <1>1, <1>2, <1>3 DEF Scanned, Chain, Copies
<1> QED
  BY <1>4, <1>5

\* Where the open block is, in the output and in the payload.
LEMMA OpenBlock ==
  ASSUME TypeOK, pc = "scan", NEW at \in Marks(codeIdx), Scanned(at)
  PROVE  /\ codeIdx \in 1 .. Len(output) /\ code \in 1 .. MaxCode - 1
         /\ output \in Seq(Byte) /\ Len(output) = codeIdx + code - 1
         /\ Len(input) \in Nat /\ Len(output) \in Nat
         /\ at[codeIdx] \in 0 .. Len(input)
         /\ i = at[codeIdx] + code
<1>1. /\ codeIdx \in 1 .. Len(output) /\ code \in 1 .. MaxCode - 1
      /\ output \in Seq(Byte)
  BY DEF TypeOK
<1>2. Len(input) \in Nat /\ Len(output) \in Nat
  BY DEF TypeOK
<1>3. /\ Len(output) + 1 = codeIdx + code /\ i = at[codeIdx] + code
      /\ codeIdx \in DOMAIN at
  BY DEF Scanned, Chain
<1>4. at[codeIdx] \in 0 .. Len(input)
  BY <1>1, <1>3, MarkRange
<1> QED
  BY <1>1, <1>2, <1>3, <1>4

\* A zero, or the byte that fills the block: the chain grows.
LEMMA CloseScans ==
  ASSUME TypeOK, TypeOK', pc = "scan",
         NEW at \in Marks(codeIdx), Scanned(at), input' = input,
         \A j \in 1 .. Len(output) : j # codeIdx => output'[j] = output[j],
         NEW k \in {code, code + 1}, output'[codeIdx] = k,
         k = code => input[i] = 0,
         k = code + 1 => /\ k = MaxCode /\ input[i] # 0
                         /\ output'[codeIdx + code] = input[i],
         i <= Len(input), i' = i + 1, code' = 1,
         codeIdx' = codeIdx + k, Len(output') = codeIdx'
  PROVE  (\E a \in Marks(codeIdx) : Scanned(a))'
<1>1. PICK c, w, n, v : c = codeIdx /\ w = at[c] /\ n = code /\ v = i
  OBVIOUS
<1>2. /\ c \in 1 .. Len(output) /\ n \in 1 .. MaxCode - 1
      /\ Len(output) = c + n - 1 /\ Len(output) \in Nat
      /\ w \in 0 .. Len(input) /\ v = w + n /\ Len(input) \in Nat
  BY <1>1, OpenBlock
<1>3. Chain(at, c) /\ Copies(c, w, n) /\ at \in Marks(c)
  BY <1>1 DEF Scanned
<1>4. \A j \in 1 .. k - 1 :
        output'[c + j] = input'[w + j] /\ output'[c + j] # 0
  <2>1. ASSUME NEW j \in 1 .. n - 1 PROVE output'[c + j] = output[c + j]
    <3>1. c + j \in 1 .. Len(output) /\ c + j # c
      BY <1>2
    <3> QED
      BY <1>1, <3>1
  <2>2. k = n + 1 => output'[c + n] = input[w + n] /\ input[w + n] # 0
    BY <1>1, <1>2
  <2>3. k = n \/ k = n + 1
    BY <1>1
  <2>4. ASSUME NEW j \in 1 .. k - 1
        PROVE  output'[c + j] = input'[w + j] /\ output'[c + j] # 0
    <3>1. CASE j \in 1 .. n - 1
      BY <1>3, <2>1, <3>1 DEF Copies
    <3>2. CASE j = n /\ k = n + 1
      BY <2>2, <3>2
    <3> QED
      BY <1>2, <2>3, <3>1, <3>2
  <2> QED
    BY <2>4
<1>5. PICK p : p = c + k
  OBVIOUS
<1>6. /\ output'[c] = k /\ k \in 1 .. MaxCode /\ p \in Nat /\ c \in Nat
      /\ k = n \/ (k = n + 1 /\ k = MaxCode)
  BY <1>1, <1>2, <1>5
<1>7. k = MaxCode => v = w + k - 1
  BY <1>2, <1>6
<1>8. k < MaxCode => v = w + k /\ input[v] = 0
  BY <1>1, <1>2, <1>6
<1>9. \A j \in 1 .. c - 1 : output'[j] = output[j]
  BY <1>1, <1>2
<1>10. v \in 0 .. Len(input)
  BY <1>1, <1>2
<1>11. PICK a \in Marks(p)' : Chain(a, p)' /\ a[p] = v
  <2>1. Complete(at, c, k, p, v)'
    BY <1>1, <1>4, <1>5, <1>6, <1>7, <1>8, <1>10 DEF Complete
  <2> QED
    BY <1>3, <1>6, <1>9, <2>1, ChainGrows
<1>12. codeIdx' = p
  BY <1>1, <1>5
<1>13. Scanned(a)'
  <2>1. Copies(codeIdx, a[codeIdx], code)'
    BY DEF Copies
  <2>2. Chain(a, codeIdx)' /\ a[codeIdx'] = v
    BY <1>11, <1>12
  <2>3. Len(output') + 1 = codeIdx' + code'
    BY <1>6, <1>12
  <2>4. i' = a[codeIdx'] + code' /\ i' <= Len(input') + 1
    BY <1>1, <1>2, <1>10, <2>2
  <2> QED
    BY <2>1, <2>2, <2>3, <2>4 DEF Scanned
<1> QED
  BY <1>11, <1>12, <1>13

\* Any other byte goes to the open block.
LEMMA CopyScans ==
  ASSUME TypeOK, TypeOK', pc = "scan",
         NEW at \in Marks(codeIdx), Scanned(at), EncodeByte, ~BlockFull
  PROVE  (\E a \in Marks(codeIdx) : Scanned(a))'
<1>1. PICK c, w, n : c = codeIdx /\ w = at[c] /\ n = code
  OBVIOUS
<1>2. /\ c \in 1 .. Len(output) /\ n \in 1 .. MaxCode - 1
      /\ Len(output) = c + n - 1 /\ Len(output) \in Nat
      /\ w \in 0 .. Len(input) /\ i = w + n /\ Len(input) \in Nat
      /\ output \in Seq(Byte)
  BY <1>1, OpenBlock
<1>3. Chain(at, c) /\ Copies(c, w, n) /\ at \in Marks(c)
  BY <1>1 DEF Scanned
<1>4. /\ i <= Len(input) /\ input[i] # 0 /\ input' = input
      /\ output' = Append(output, input[i]) /\ i' = i + 1
      /\ codeIdx' = c /\ code' = n + 1
  BY <1>1, NextCodeInRange DEF EncodeByte, TypeOK
<1>5. input[i] \in Byte
  BY <1>2, <1>4 DEF TypeOK
<1>6. /\ Len(output') = Len(output) + 1
      /\ \A j \in 1 .. Len(output) : output'[j] = output[j]
      /\ output'[Len(output) + 1] = input[i]
  BY <1>2, <1>4, <1>5, AppendProperties
<1>7. Chain(at, c)'
  <2>1. \A j \in 1 .. c - 1 : output'[j] = output[j]
    BY <1>2, <1>6
  <2>2. c \in Nat
    BY <1>2
  <2> QED
    BY <1>3, <1>4, <2>1, <2>2, ChainKept
<1>8. \A j \in 1 .. n : output'[c + j] = input'[w + j] /\ output'[c + j] # 0
  <2>1. \A j \in 1 .. n - 1 : output'[c + j] = output[c + j]
    BY <1>2, <1>6
  <2>2. output'[c + n] = input[w + n] /\ input[w + n] # 0
    BY <1>2, <1>4, <1>6
  <2>3. ASSUME NEW j \in 1 .. n
        PROVE  output'[c + j] = input'[w + j] /\ output'[c + j] # 0
    <3>1. CASE j \in 1 .. n - 1
      BY <1>3, <1>4, <2>1, <3>1 DEF Copies
    <3>2. CASE j = n
      BY <1>4, <2>2, <3>2
    <3> QED
      BY <1>2, <3>1, <3>2
  <2> QED
    BY <2>3
<1>9. Scanned(at)'
  <2>1. Copies(codeIdx, at[codeIdx], code)'
    <3>1. \A j \in 1 .. code' - 1 :
            output'[c + j] = input'[w + j] /\ output'[c + j] # 0
      <4>1. code' - 1 = n
        BY <1>2, <1>4
      <4> QED
        BY <1>8, <4>1
    <3> QED
      BY <1>1, <1>4, <3>1 DEF Copies
  <2>2. Chain(at, codeIdx)'
    BY <1>4, <1>7
  <2>3. Len(output') + 1 = codeIdx' + code'
    BY <1>2, <1>4, <1>6
  <2>4. i' = at[codeIdx'] + code' /\ i' <= Len(input') + 1
    <3>1. at[codeIdx'] = w
      BY <1>1, <1>4
    <3> QED
      BY <1>2, <1>4, <3>1
  <2> QED
    BY <2>1, <2>2, <2>3, <2>4 DEF Scanned
<1>10. at \in Marks(codeIdx)'
  BY <1>1, <1>4 DEF Marks
<1> QED
  BY <1>9, <1>10

LEMMA ScanStep ==
  ASSUME TypeOK, TypeOK', ScanInv, [Next]_vars
  PROVE  ScanInv'
<1>1. CASE Begin
  <2>1. decoded' = decoded /\ decoded = <<>> /\ pc' # "encode"
    BY <1>1 DEF Begin, dec, ScanInv
  <2> QED
    BY <1>1, <2>1, BeginScans DEF ScanInv
<1>2. CASE EncodeZero
  <2>1. PICK at \in Marks(codeIdx) : Scanned(at)
    BY <1>2 DEF EncodeZero, ScanInv
  <2>2. /\ pc = "scan" /\ pc' = "scan" /\ decoded' = decoded /\ decoded = <<>>
        /\ input' = input /\ i' = i + 1 /\ code' = 1 /\ i <= Len(input)
        /\ input[i] = 0 /\ codeIdx' = Len(output) + 1
        /\ output' = Append([output EXCEPT ![codeIdx] = code], 0)
    BY <1>2 DEF EncodeZero, dec, ScanInv
  <2>3. codeIdx \in 1 .. Len(output) /\ code \in Byte /\ output \in Seq(Byte)
    BY <2>2 DEF TypeOK, Byte
  <2>4. /\ Len(output') = Len(output) + 1
        /\ output'[codeIdx] = code
        /\ \A j \in 1 .. Len(output) : j # codeIdx => output'[j] = output[j]
    BY <2>2, <2>3, CloseBlock, CloseBlockBytes
  <2>5. PICK k : k = code
    OBVIOUS
  <2>6. /\ codeIdx' = codeIdx + k /\ Len(output') = codeIdx'
        /\ k \in {code, code + 1} /\ k # code + 1 /\ output'[codeIdx] = k
    <3>1. /\ codeIdx \in 1 .. Len(output) /\ code \in 1 .. MaxCode - 1
          /\ Len(output) \in Nat /\ Len(output) = codeIdx + code - 1
      BY <2>1, <2>2, OpenBlock
    <3>2. codeIdx' = codeIdx + k
      BY <2>2, <2>5, <3>1
    <3>3. Len(output') = codeIdx'
      BY <2>2, <2>4
    <3>4. k \in {code, code + 1} /\ k # code + 1
      BY <2>5, <3>1
    <3> QED
      BY <2>4, <2>5, <3>2, <3>3, <3>4
  <2>7. (\E a \in Marks(codeIdx) : Scanned(a))'
    BY <2>1, <2>2, <2>4, <2>5, <2>6, CloseScans
  <2> QED
    BY <2>2, <2>7 DEF ScanInv
<1>3. CASE EncodeByte
  <2>1. PICK at \in Marks(codeIdx) : Scanned(at)
    BY <1>3 DEF EncodeByte, ScanInv
  <2>2. /\ pc = "scan" /\ pc' = "scan" /\ decoded' = decoded /\ decoded = <<>>
        /\ input' = input /\ i' = i + 1 /\ i <= Len(input) /\ input[i] # 0
    BY <1>3 DEF EncodeByte, dec, ScanInv
  <2>3. (\E a \in Marks(codeIdx) : Scanned(a))'
    <3>1. CASE BlockFull
      <4>1. /\ code' = 1 /\ codeIdx' = Len(output) + 2
            /\ output' = [output EXCEPT ![codeIdx] = MaxCode] \o <<input[i], 0>>
        BY <1>3, <3>1 DEF EncodeByte
      <4>2. code + 1 = MaxCode
        BY <3>1, NextCodeInRange DEF BlockFull, TypeOK
      <4>3. /\ codeIdx \in 1 .. Len(output) /\ MaxCode \in Byte
            /\ output \in Seq(Byte) /\ input[i] \in Byte
        <5>1. codeIdx \in 1 .. Len(output) /\ output \in Seq(Byte)
          BY <2>2 DEF TypeOK
        <5>2. input[i] \in Byte
          <6>1. i \in 1 .. Len(input) /\ input \in Seq(Byte)
            BY <2>2 DEF TypeOK
          <6> QED
            BY <6>1, ElementOfSeq
        <5> QED
          BY <5>1, <5>2 DEF Byte
      <4>4. /\ Len(output') = Len(output) + 2
            /\ output'[codeIdx] = MaxCode /\ output'[Len(output) + 1] = input[i]
            /\ \A j \in 1 .. Len(output) : j # codeIdx => output'[j] = output[j]
        BY <4>1, <4>3, CloseFullBlock, CloseFullBlockBytes
      <4>5. /\ codeIdx' = codeIdx + MaxCode /\ Len(output') = codeIdx'
            /\ output'[codeIdx + code] = input[i]
            /\ MaxCode \in {code, code + 1} /\ MaxCode # code
        <5>1. /\ codeIdx \in 1 .. Len(output) /\ code \in 1 .. MaxCode - 1
              /\ Len(output) \in Nat /\ Len(output) = codeIdx + code - 1
          BY <2>1, <2>2, OpenBlock
        <5>2. codeIdx' = codeIdx + MaxCode /\ codeIdx + code = Len(output) + 1
          BY <4>1, <4>2, <5>1
        <5>3. Len(output') = codeIdx'
          BY <4>1, <4>4
        <5>4. MaxCode \in {code, code + 1} /\ MaxCode # code
          BY <4>2, <5>1
        <5> QED
          BY <4>4, <5>2, <5>3, <5>4
      <4> QED
        BY <2>1, <2>2, <4>1, <4>2, <4>4, <4>5, CloseScans
    <3>2. CASE ~BlockFull
      BY <1>3, <2>1, <2>2, <3>2, CopyScans
    <3> QED
      BY <3>1, <3>2
  <2> QED
    BY <2>2, <2>3 DEF ScanInv
<1>4. CASE Finish \/ Deliver \/ Decode
  BY <1>4 DEF Finish, Deliver, Decode, DecodeBegin, ReadCode, CopyByte,
              EndBlock, Accept, Return, Goes, ScanInv
<1>5. CASE UNCHANGED vars
  BY <1>5 DEF vars, enc, dec, ScanInv, Marks, Scanned, Chain, Block, Copies
<1> QED
  BY <1>1, <1>2, <1>3, <1>4, <1>5 DEF Next, Encode

-----------------------------------------------------------------------------
(* The round trip: the decoder                                             *)

\* From the end of the encoder on.
FrameInv ==
  pc \notin {"encode", "scan"} /\ output # <<>> =>
    \E top \in 1 .. Len(output) : \E at \in Marks(top) :
      Framed(at, top) /\ Decoded(at, top)

\* Finish turns the open block into the last one.
LEMMA FinishFrames ==
  ASSUME TypeOK, TypeOK', ScanInv, Finish
  PROVE  FrameInv'
<1>1. PICK at \in Marks(codeIdx) : Scanned(at)
  BY DEF Finish, ScanInv
<1>2. /\ pc = "scan" /\ pc' = "encoded" /\ input' = input /\ i > Len(input)
      /\ output' = Append([output EXCEPT ![codeIdx] = code], 0)
      /\ decoded' = decoded /\ decoded = <<>> /\ room' = room
  BY DEF Finish, FinalCode, dec, ScanInv
<1>3. PICK c, w, k : c = codeIdx /\ w = at[c] /\ k = code
  OBVIOUS
<1>4. /\ c \in 1 .. Len(output) /\ k \in 1 .. MaxCode - 1
      /\ Len(output) = c + k - 1 /\ Len(output) \in Nat
      /\ w \in 0 .. Len(input) /\ i = w + k /\ Len(input) \in Nat
      /\ output \in Seq(Byte)
  BY <1>1, <1>2, <1>3, OpenBlock
<1>5. Chain(at, c) /\ Copies(c, w, k) /\ at \in Marks(c) /\ i <= Len(input) + 1
  BY <1>1, <1>3 DEF Scanned
<1>6. k \in Byte
  BY <1>4 DEF Byte
<1>7. /\ Len(output') = Len(output) + 1 /\ output'[c] = k
      /\ output'[Len(output) + 1] = 0
      /\ \A j \in 1 .. Len(output) : j # c => output'[j] = output[j]
  BY <1>2, <1>3, <1>4, <1>6, CloseBlock, CloseBlockBytes
<1>8. Chain(at, c)'
  <2>1. \A j \in 1 .. c - 1 : output'[j] = output[j]
    BY <1>4, <1>7
  <2>2. c \in Nat
    BY <1>4
  <2> QED
    BY <1>2, <1>5, <2>1, <2>2, ChainKept
<1>9. Copies(c, at[c], output[c])'
  <2>1. ASSUME NEW j \in 1 .. k - 1
        PROVE  output'[c + j] = input'[w + j] /\ output'[c + j] # 0
    <3>1. c + j \in 1 .. Len(output) /\ c + j # c
      BY <1>4
    <3> QED
      BY <1>2, <1>5, <1>7, <3>1 DEF Copies
  <2> QED
    BY <1>3, <1>7, <2>1 DEF Copies
<1>10. Framed(at, c)'
  <2>1. Len(output') = c + k /\ output'[Len(output')] = 0
    BY <1>4, <1>7
  <2>2. Len(input') = at[c] + k - 1
    BY <1>2, <1>3, <1>4, <1>5
  <2> QED
    BY <1>4, <1>7, <1>8, <1>9, <2>1, <2>2 DEF Framed
<1>11. Decoded(at, c)'
  <2>1. Len(decoded') = 0 /\ room' \in Nat /\ Len(input') \in Nat
    <3>1. decoded' = <<>> /\ UNCHANGED <<room, input>>
      BY <1>2
    <3>2. room \in Nat /\ Len(input) \in Nat
      BY DEF TypeOK
    <3> QED
      BY <3>1, <3>2
  <2> QED
    BY <1>2, <2>1 DEF Decoded
<1>12. at \in Marks(c)' /\ c \in 1 .. Len(output')
  BY <1>2, <1>4, <1>5, <1>7 DEF Marks
<1> QED
  BY <1>10, <1>11, <1>12 DEF FrameInv

\* A block of a frame: its code, its bytes, and what comes behind it.
LEMMA FrameBlock ==
  ASSUME TypeOK, NEW top \in 1 .. Len(output), NEW at \in Marks(top),
         Framed(at, top), NEW c \in DOMAIN at
  PROVE  LET k == output[c]
         IN  /\ c \in 1 .. top /\ k \in 1 .. MaxCode
             /\ at[c] \in 0 .. Len(input) /\ at[c] + k - 1 <= Len(input)
             /\ c + k <= Len(output) /\ Copies(c, at[c], k)
             /\ \/ /\ c + k = Len(output) /\ at[c] + k - 1 = Len(input)
                   /\ k < MaxCode
                \/ /\ c + k \in DOMAIN at /\ c + k < Len(output)
                   /\ at[c + k] \in 0 .. Len(input)
                   /\ k = MaxCode => at[c + k] = at[c] + k - 1
                   /\ k < MaxCode => /\ at[c + k] = at[c] + k
                                     /\ input[at[c] + k] = 0
<1>1. PICK k : k = output[c]
  OBVIOUS
<1>2. Len(input) \in Nat /\ Len(output) \in Nat /\ top \in Nat
  BY DEF TypeOK
<1>3. c \in 1 .. top /\ at[c] \in 0 .. Len(input)
  BY <1>2, MarkRange
<1>4. CASE c = top
  <2>1. /\ k \in 1 .. MaxCode - 1 /\ Len(output) = c + k
        /\ Len(input) = at[c] + k - 1 /\ Copies(c, at[c], k)
    BY <1>1, <1>4 DEF Framed
  <2>2. k \in 1 .. MaxCode /\ k < MaxCode
    BY <2>1
  <2>3. at[c] + k - 1 <= Len(input) /\ c + k <= Len(output)
    BY <1>2, <2>1
  <2> QED
    BY <1>1, <1>3, <2>1, <2>2, <2>3
<1>5. CASE c # top
  <2>1. Block(at, c) /\ Len(output) > top
    BY <1>2, <1>5 DEF Framed, Chain
  <2>2. /\ k \in 1 .. MaxCode /\ c + k \in DOMAIN at /\ Copies(c, at[c], k)
        /\ at[c + k] = at[c] + IF k = MaxCode THEN k - 1 ELSE k
        /\ k < MaxCode => input[at[c + k]] = 0
    BY <1>1, <2>1 DEF Block
  <2>3. c + k \in 1 .. top /\ at[c + k] \in 0 .. Len(input)
    BY <1>2, <2>2, MarkRange
  <2>4. k = MaxCode => at[c + k] = at[c] + k - 1
    BY <2>2
  <2>5. k < MaxCode => at[c + k] = at[c] + k /\ input[at[c] + k] = 0
    BY <2>2
  <2>6. at[c] + k - 1 <= Len(input) /\ c + k < Len(output)
    BY <1>2, <1>3, <2>1, <2>2, <2>3, <2>4, <2>5
  <2> QED
    BY <1>1, <1>3, <2>2, <2>3, <2>4, <2>5, <2>6
<1> QED
  BY <1>4, <1>5

\* Whatever the decoder does, the frame stays a frame: what is left to show
\* of a step is where the decoder is in it afterwards.
LEMMA FrameStays ==
  ASSUME TypeOK, UNCHANGED <<input, output>>, pc \notin {"encode", "scan"},
         FrameInv,
         \A top \in 1 .. Len(output) : \A at \in Marks(top) :
           Framed(at, top) /\ Decoded(at, top) => Decoded(at, top)'
  PROVE  FrameInv'
<1> SUFFICES ASSUME output # <<>> PROVE FrameInv'
  BY DEF FrameInv
<1>0. PICK top \in 1 .. Len(output) : \E at \in Marks(top) :
        Framed(at, top) /\ Decoded(at, top)
  BY DEF FrameInv
<1>1. PICK at \in Marks(top) : Framed(at, top) /\ Decoded(at, top)
  BY <1>0
<1>2. Decoded(at, top)'
  BY <1>1
<1>3. Framed(at, top)'
  BY <1>1 DEF Framed, Chain, Block, Copies
<1>4. top \in 1 .. Len(output') /\ at \in Marks(top)'
  BY DEF Marks
<1> QED
  BY <1>2, <1>3, <1>4 DEF FrameInv

\* At a code byte the decoder has the payload bytes before its block.
LEMMA ReadCodeDecodes ==
  ASSUME TypeOK, TypeOK', ReadCode,
         NEW top \in 1 .. Len(output), NEW at \in Marks(top),
         Framed(at, top), Decoded(at, top)
  PROVE  Decoded(at, top)'
<1>1. /\ pc = "block" /\ readIdx < Len(frame) /\ frame = output
      /\ UNCHANGED <<input, output, frame, room, decoded>>
  BY DEF ReadCode, InBlocks, Decoded, enc
<1>2. PICK n : n = Len(decoded)
  OBVIOUS
<1>3. /\ n <= room /\ n <= Len(input) /\ \A j \in 1 .. n : decoded[j] = input[j]
      /\ readIdx \in DOMAIN at /\ n = at[readIdx]
  BY <1>1, <1>2 DEF Decoded
<1>4. output[readIdx] \in 1 .. MaxCode
  BY <1>3, FrameBlock
<1>5. /\ pc' = "copy" /\ left' = frame[readIdx] - 1 /\ readIdx' = readIdx + 1
      /\ short' = (frame[readIdx] < MaxCode)
  BY <1>1, <1>4 DEF ReadCode, Goes
<1>6. readIdx \in Nat /\ n \in Nat
  BY <1>2 DEF TypeOK
<1>7. PICK c, k : c = readIdx /\ k = frame[c]
  OBVIOUS
<1>8. /\ readIdx' > c /\ readIdx' + left' = c + frame'[c]
      /\ n + 1 = at[c] + readIdx' - c
  <2>1. c \in Nat /\ k \in 1 .. MaxCode /\ frame'[c] = k /\ at[c] = n
    BY <1>1, <1>3, <1>4, <1>6, <1>7
  <2>2. readIdx' = c + 1 /\ left' = k - 1
    BY <1>5, <1>7
  <2> QED
    BY <1>6, <2>1, <2>2
<1>9. short' = (frame'[c] < MaxCode)
  BY <1>1, <1>5, <1>7
<1> QED
  BY <1>1, <1>2, <1>3, <1>5, <1>7, <1>8, <1>9 DEF Decoded

\* Inside a block: the bytes are there, none of them is 0, and the buffer
\* is too small only if it is too small for the payload.
LEMMA CopyByteDecodes ==
  ASSUME TypeOK, TypeOK', CopyByte,
         NEW top \in 1 .. Len(output), NEW at \in Marks(top),
         Framed(at, top), Decoded(at, top)
  PROVE  Decoded(at, top)'
<1>1. /\ pc = "copy" /\ left > 0 /\ frame = output
      /\ UNCHANGED <<input, output, frame, room, short>>
  BY DEF CopyByte, Decoded, enc
<1>t. /\ readIdx \in Nat /\ left \in Nat /\ room \in Nat
      /\ Len(input) \in Nat /\ Len(output) \in Nat /\ Len(decoded) \in Nat
  <2>1. readIdx \in Nat /\ left \in Nat /\ room \in Nat
    BY DEF TypeOK
  <2>2. input \in Seq(Byte) /\ output \in Seq(Byte) /\ decoded \in Seq(Byte)
    BY DEF TypeOK
  <2> QED
    BY <2>1, <2>2
<1>2. PICK n : n = Len(decoded)
  OBVIOUS
<1>3. /\ n <= room /\ n <= Len(input) /\ \A j \in 1 .. n : decoded[j] = input[j]
  BY <1>1, <1>2 DEF Decoded
<1>4. PICK c \in DOMAIN at :
        /\ readIdx > c /\ readIdx + left = c + frame[c]
        /\ short = (frame[c] < MaxCode) /\ n + 1 = at[c] + readIdx - c
  BY <1>1, <1>2 DEF Decoded
<1>5. PICK k, w : k = output[c] /\ w = at[c]
  OBVIOUS
<1>6. /\ c \in 1 .. top /\ k \in 1 .. MaxCode /\ w \in 0 .. Len(input)
      /\ w + k - 1 <= Len(input) /\ c + k <= Len(output) /\ Copies(c, w, k)
  BY <1>5, FrameBlock
<1>7. /\ readIdx \in Nat /\ left \in Nat /\ n \in Nat /\ room \in Nat
      /\ Len(input) \in Nat /\ Len(output) \in Nat
      /\ c \in Nat /\ k \in Nat /\ w \in Nat
  BY <1>2, <1>6, <1>t
<1>8. PICK j \in 1 .. k - 1 :
         /\ readIdx = c + j /\ n + 1 = w + j
         /\ readIdx < Len(output) /\ n + 1 <= Len(input)
  <2>1. /\ readIdx > c /\ readIdx + left = c + k /\ left > 0
        /\ n + 1 = w + readIdx - c
    BY <1>1, <1>4, <1>5
  <2>2. PICK j : j = readIdx - c
    OBVIOUS
  <2>3. j \in 1 .. k - 1 /\ readIdx = c + j /\ n + 1 = w + j
    BY <1>7, <2>1, <2>2
  <2>4. readIdx < Len(output)
    BY <1>6, <1>7, <2>1
  <2>5. n + 1 <= Len(input)
    BY <1>6, <1>7, <2>3
  <2> QED
    BY <2>3, <2>4, <2>5
<1>9. frame[readIdx] = input[n + 1] /\ frame[readIdx] # 0 /\ InBlocks
  BY <1>1, <1>6, <1>8 DEF Copies, InBlocks
<1>10. CASE Full
  <2>1. pc' = "done" /\ result' = 0
    BY <1>9, <1>10 DEF CopyByte, Return
  <2>2. Len(input) > room
    BY <1>2, <1>7, <1>8, <1>10 DEF Full
  <2> QED
    BY <1>1, <1>7, <2>1, <2>2 DEF Decoded, RoundTrip
<1>11. CASE ~Full
  <2>1. /\ pc' = "copy" /\ readIdx' = readIdx + 1 /\ left' = left - 1
        /\ decoded' = Append(decoded, input[n + 1])
    BY <1>9, <1>11 DEF CopyByte, Goes, Put
  <2>2. input[n + 1] \in Byte
    <3>1. n + 1 \in 1 .. Len(input) /\ input \in Seq(Byte)
      BY <1>7, <1>8 DEF TypeOK
    <3> QED
      BY <3>1
  <2>d. decoded \in Seq(Byte)
    BY DEF TypeOK
  <2>3. /\ Len(decoded') = n + 1 /\ decoded'[n + 1] = input[n + 1]
        /\ \A m \in 1 .. n : decoded'[m] = decoded[m]
    BY <1>2, <1>7, <2>1, <2>2, <2>d, AppendProperties
  <2>4. ASSUME NEW m \in 1 .. n + 1 PROVE decoded'[m] = input[m]
    <3>1. m \in 1 .. n \/ m = n + 1
      BY <1>7
    <3> QED
      BY <1>3, <2>3, <3>1
  <2>5. n + 1 <= room
    BY <1>2, <1>7, <1>11 DEF Full
  <2>6. /\ readIdx' > c /\ readIdx' + left' = c + frame'[c]
        /\ (n + 1) + 1 = at[c] + readIdx' - c
    <3>1. frame'[c] = k /\ at[c] = w /\ k \in Nat /\ w \in Nat /\ c \in Nat
      <4>1. frame' = output
        BY <1>1
      <4> QED
        BY <1>5, <1>7, <4>1
    <3>2. readIdx + left = c + k
      BY <1>1, <1>4, <1>5
    <3>3. readIdx' + left' = c + k
      BY <1>7, <2>1, <3>1, <3>2
    <3>4. readIdx' > c /\ (n + 1) + 1 = w + readIdx' - c
      <4>1. j \in Nat \ {0} /\ readIdx' = (c + j) + 1 /\ n + 1 = w + j
        BY <1>7, <1>8, <2>1
      <4> QED
        BY <1>7, <4>1
    <3> QED
      BY <3>1, <3>3, <3>4
  <2>7. short' = (frame'[c] < MaxCode)
    BY <1>1, <1>4
  <2> QED
    BY <1>1, <1>8, <2>1, <2>3, <2>4, <2>5, <2>6, <2>7 DEF Decoded
<1> QED
  BY <1>10, <1>11

\* Behind a block: the next code byte, or the delimiter and the whole payload.
LEMMA EndBlockDecodes ==
  ASSUME TypeOK, TypeOK', EndBlock,
         NEW top \in 1 .. Len(output), NEW at \in Marks(top),
         Framed(at, top), Decoded(at, top)
  PROVE  Decoded(at, top)'
<1>1. /\ pc = "copy" /\ left = 0 /\ frame = output
      /\ UNCHANGED <<input, output, frame, room, readIdx>>
  BY DEF EndBlock, Decoded, enc
<1>t. /\ readIdx \in Nat /\ room \in Nat
      /\ Len(input) \in Nat /\ Len(output) \in Nat /\ Len(decoded) \in Nat
  <2>1. readIdx \in Nat /\ room \in Nat
    BY DEF TypeOK
  <2>2. input \in Seq(Byte) /\ output \in Seq(Byte) /\ decoded \in Seq(Byte)
    BY DEF TypeOK
  <2> QED
    BY <2>1, <2>2
<1>2. PICK n : n = Len(decoded)
  OBVIOUS
<1>3. /\ n <= room /\ n <= Len(input) /\ \A j \in 1 .. n : decoded[j] = input[j]
  BY <1>1, <1>2 DEF Decoded
<1>4. PICK c \in DOMAIN at :
        /\ readIdx > c /\ readIdx + left = c + frame[c]
        /\ short = (frame[c] < MaxCode) /\ n + 1 = at[c] + readIdx - c
  BY <1>1, <1>2 DEF Decoded
<1>5. PICK k, w : k = output[c] /\ w = at[c]
  OBVIOUS
<1>6. /\ c \in 1 .. top /\ k \in 1 .. MaxCode /\ w \in 0 .. Len(input)
      /\ \/ /\ c + k = Len(output) /\ w + k - 1 = Len(input) /\ k < MaxCode
         \/ /\ c + k \in DOMAIN at /\ c + k < Len(output)
            /\ at[c + k] \in 0 .. Len(input)
            /\ k = MaxCode => at[c + k] = w + k - 1
            /\ k < MaxCode => at[c + k] = w + k /\ input[w + k] = 0
  BY <1>5, FrameBlock
<1>7. /\ readIdx = c + k /\ n + 1 = w + k /\ short = (k < MaxCode)
      /\ n \in Nat /\ c \in Nat /\ k \in Nat /\ w \in Nat
  <2>1. /\ n \in Nat /\ c \in Nat /\ k \in Nat /\ w \in Nat
    BY <1>2, <1>6, <1>t
  <2>2. readIdx = c + k
    BY <1>1, <1>4, <1>5, <1>t, <2>1
  <2>3. n + 1 = w + k
    BY <1>4, <1>5, <2>1, <2>2
  <2> QED
    BY <1>1, <1>4, <1>5, <2>1, <2>2, <2>3
<1>8. CASE c + k = Len(output) /\ w + k - 1 = Len(input) /\ k < MaxCode
  <2>1. ~InBlocks /\ readIdx = Len(frame) /\ n = Len(input)
    BY <1>1, <1>7, <1>8, <1>t DEF InBlocks
  <2>2. pc' = "block" /\ decoded' = decoded
    BY <2>1 DEF EndBlock, ZeroDue, Goes
  <2> QED
    BY <1>1, <1>2, <1>3, <2>1, <2>2 DEF Decoded
<1>9. CASE /\ c + k \in DOMAIN at /\ c + k < Len(output)
           /\ at[c + k] \in 0 .. Len(input)
           /\ k = MaxCode => at[c + k] = w + k - 1
           /\ k < MaxCode => at[c + k] = w + k /\ input[w + k] = 0
  <2>1. InBlocks /\ readIdx \in DOMAIN at
    BY <1>1, <1>7, <1>9 DEF InBlocks
  <2>2. CASE k = MaxCode
    <3>1. n = at[readIdx] /\ ~short
      <4>1. n = at[readIdx]
        BY <1>7, <1>9, <2>2
      <4>2. ~(k < MaxCode)
        BY <2>2
      <4> QED
        BY <1>7, <4>1, <4>2
    <3>2. pc' = "block" /\ decoded' = decoded
      BY <3>1 DEF EndBlock, ZeroDue, Goes
    <3> QED
      BY <1>1, <1>2, <1>3, <2>1, <3>1, <3>2 DEF Decoded
  <2>3. CASE k < MaxCode
    <3>1. n + 1 = at[readIdx] /\ input[n + 1] = 0 /\ n + 1 <= Len(input) /\ short
      <4>1. n + 1 = at[readIdx] /\ input[n + 1] = 0
        BY <1>7, <1>9, <2>3
      <4>2. at[readIdx] <= Len(input)
        BY <1>7, <1>9, <1>t
      <4>3. short
        BY <1>7, <2>3
      <4> QED
        BY <4>1, <4>2, <4>3
    <3>2. CASE Full
      <4>1. pc' = "done" /\ result' = 0
        BY <2>1, <3>1, <3>2 DEF EndBlock, ZeroDue, Return
      <4>2. Len(input) > room
        BY <1>2, <1>7, <1>t, <3>1, <3>2 DEF Full
      <4> QED
        BY <1>1, <1>t, <4>1, <4>2 DEF Decoded, RoundTrip
    <3>3. CASE ~Full
      <4>1. pc' = "block" /\ decoded' = Append(decoded, 0)
        BY <2>1, <3>1, <3>3 DEF EndBlock, ZeroDue, Goes, Put
      <4>2. decoded \in Seq(Byte) /\ 0 \in Byte
        BY DEF TypeOK, Byte
      <4>3. /\ Len(decoded') = n + 1 /\ decoded'[n + 1] = 0
            /\ \A m \in 1 .. n : decoded'[m] = decoded[m]
        BY <1>2, <4>1, <4>2, AppendProperties
      <4>4. ASSUME NEW m \in 1 .. n + 1 PROVE decoded'[m] = input[m]
        <5>1. m \in 1 .. n \/ m = n + 1
          BY <1>7
        <5> QED
          BY <1>3, <3>1, <4>3, <5>1
      <4>5. n + 1 <= room
        BY <1>2, <1>7, <1>t, <3>3 DEF Full
      <4> QED
        BY <1>1, <2>1, <3>1, <4>1, <4>3, <4>4, <4>5 DEF Decoded
    <3> QED
      BY <3>2, <3>3
  <2> QED
    BY <1>6, <2>2, <2>3
<1> QED
  BY <1>6, <1>8, <1>9

\* At the delimiter it has all of the payload.
LEMMA AcceptDecodes ==
  ASSUME TypeOK, TypeOK', Accept,
         NEW top \in 1 .. Len(output), NEW at \in Marks(top),
         Framed(at, top), Decoded(at, top)
  PROVE  Decoded(at, top)'
<1>1. /\ pc = "block" /\ ~(readIdx < Len(frame)) /\ frame = output
      /\ UNCHANGED <<input, output, frame, room, decoded>>
      /\ pc' = "done" /\ result' = Len(decoded)
  BY DEF Accept, InBlocks, Return, Decoded, enc
<1>2. /\ input \in Seq(Byte) /\ decoded \in Seq(Byte) /\ output \in Seq(Byte)
  BY DEF TypeOK
<1>3. readIdx \notin DOMAIN at
  <2>1. ASSUME readIdx \in DOMAIN at PROVE FALSE
    <3>1. readIdx \in 1 .. top /\ output[readIdx] \in 1 .. MaxCode
          /\ readIdx + output[readIdx] <= Len(output)
      BY <2>1, FrameBlock
    <3> QED
      BY <1>1, <1>2, <3>1
  <2> QED
    BY <2>1
<1>4. /\ Len(decoded) = Len(input) /\ Len(decoded) <= room
      /\ \A j \in 1 .. Len(decoded) : decoded[j] = input[j]
  BY <1>1, <1>3 DEF Decoded
<1>5. decoded = input
  BY <1>2, <1>4, SeqEqual
<1> QED
  BY <1>1, <1>4, <1>5 DEF Decoded, RoundTrip

LEMMA FrameStep ==
  ASSUME TypeOK, TypeOK', ScanInv, FrameInv, [Next]_vars
  PROVE  FrameInv'
<1>1. CASE Begin \/ EncodeZero \/ EncodeByte
  BY <1>1 DEF Begin, EncodeZero, EncodeByte, ScanInv, FrameInv
<1>2. CASE Finish
  BY <1>2, FinishFrames
<1>3. CASE Deliver
  <2>1. /\ pc = "encoded" /\ pc' = "decode" /\ frame' = output
        /\ UNCHANGED <<input, output, room, decoded>>
    BY <1>3 DEF Deliver, enc
  <2>2. ASSUME NEW top \in 1 .. Len(output), NEW at \in Marks(top),
               Framed(at, top), Decoded(at, top)
        PROVE  Decoded(at, top)'
    BY <2>1, <2>2 DEF Decoded
  <2> QED
    BY <2>1, <2>2, FrameStays
<1>4. CASE DecodeBegin
  <2>1. /\ pc = "decode" /\ UNCHANGED <<input, output, frame, room, decoded>>
    BY <1>4 DEF DecodeBegin, enc
  <2>2. ASSUME NEW top \in 1 .. Len(output), NEW at \in Marks(top),
               Framed(at, top), Decoded(at, top)
        PROVE  Decoded(at, top)'
    <3>1. Len(output) >= 2 /\ output[Len(output)] = 0 /\ frame = output
          /\ 1 \in DOMAIN at /\ at[1] = 0 /\ Len(decoded) = 0
      <4>1. frame = output /\ Len(decoded) = 0
        BY <2>1, <2>2 DEF Decoded
      <4>2. Len(output) >= 2 /\ output[Len(output)] = 0
        <5>1. /\ Len(output) = top + output[top] /\ output[Len(output)] = 0
              /\ output[top] \in 1 .. MaxCode - 1
          BY <2>2 DEF Framed
        <5>2. Len(output) \in Nat
          BY DEF TypeOK
        <5> QED
          BY <5>1, <5>2
      <4> QED
        BY <2>2, <4>1, <4>2 DEF Framed, Chain
    <3>2. pc' = "block" /\ readIdx' = 1
      BY <1>4, <3>1 DEF DecodeBegin, Goes, Last, TypeOK
    <3> QED
      BY <2>1, <2>2, <3>1, <3>2 DEF Decoded
  <2> QED
    BY <2>1, <2>2, FrameStays
<1>5. CASE ReadCode
  BY <1>5, ReadCodeDecodes, FrameStays DEF ReadCode, enc
<1>6. CASE CopyByte
  BY <1>6, CopyByteDecodes, FrameStays DEF CopyByte, enc
<1>7. CASE EndBlock
  BY <1>7, EndBlockDecodes, FrameStays DEF EndBlock, enc
<1>8. CASE Accept
  BY <1>8, AcceptDecodes, FrameStays DEF Accept, enc
<1>9. CASE UNCHANGED vars
  <2>1. UNCHANGED <<pc, input, output, frame, room, readIdx, left, short,
                    decoded, result>>
    BY <1>9 DEF vars, enc, dec
  <2>2. ASSUME NEW top \in 1 .. Len(output), NEW at \in Marks(top),
               Framed(at, top), Decoded(at, top)
        PROVE  Decoded(at, top)'
    BY <2>1, <2>2 DEF Decoded, RoundTrip
  <2>3. CASE pc \in {"encode", "scan"}
    BY <2>1, <2>3 DEF FrameInv
  <2>4. CASE pc \notin {"encode", "scan"}
    BY <2>1, <2>2, <2>4, FrameStays
  <2> QED
    BY <2>3, <2>4
<1> QED
  BY <1>1, <1>2, <1>3, <1>4, <1>5, <1>6, <1>7, <1>8, <1>9
  DEF Next, Encode, Decode

\* What the blocks of a frame stand for, at every step of either loop.
THEOREM RoundInvariant == Spec => []RoundInv
<1>1. Init => ScanInv /\ FrameInv
  BY DEF Init, ScanInv, FrameInv
<1>2. TypeOK /\ TypeOK' /\ ScanInv /\ FrameInv /\ [Next]_vars
        => (ScanInv /\ FrameInv)'
  BY ScanStep, FrameStep
<1>3. ScanInv /\ FrameInv <=> RoundInv
  BY DEF ScanInv, FrameInv, RoundInv
<1> QED
  BY <1>1, <1>2, <1>3, CodecTypes, PTL DEF Spec

\* cobs_decode inverts cobs_encode: whatever payload was encoded, whatever
\* its length and wherever its zeros and full blocks are, decoding the frame
\* gives it back if the output buffer has room for it, and returns 0 if not.
THEOREM DecodeInvertsEncode == Spec => []RoundTrip
<1>1. TypeOK /\ RoundInv => RoundTrip
  BY DEF RoundInv, Decoded, RoundTrip
<1> QED
  BY <1>1, CodecTypes, RoundInvariant, PTL
=============================================================================
