-------------------------------- MODULE Cobs --------------------------------
(***************************************************************************)
(* util::cobs_encode and util::cobs_decode, one loop iteration per step,   *)
(* with the buffer sizes their callers pass in.  The encoder writes at     *)
(* write_idx or back at code_idx, so its output is a sequence whose length *)
(* is write_idx; the same holds for the decoder.  Positions start at 1.    *)
(***************************************************************************)
EXTENDS Integers, Sequences, SequencesExt

CONSTANTS
  MaxCode,       \* the code byte of a full block: 0xFF
  Value,         \* byte values of payloads, 0 among them
  MaxLen,        \* bound: payload and frame lengths
  MaxCap         \* bound: buffer sizes

ASSUME CobsAssumption ==
  /\ MaxCode \in Nat /\ MaxCode >= 2
  /\ Value \subseteq 0 .. MaxCode /\ 0 \in Value
  /\ MaxLen \in Nat /\ MaxCap \in Nat

VARIABLES
  pc,
  \* cobs_encode
  input, cap,        \* input, output_len
  i,                 \* next input byte
  codeIdx, code,
  output,            \* the first write_idx bytes; <<>> when 0 is returned
  \* cobs_decode
  frame, room,       \* input, output_len
  readIdx,
  left, short,       \* bytes of this block to come; its code was not 0xFF
  decoded,
  result             \* the value returned

enc  == <<input, cap, i, codeIdx, code, output>>
dec  == <<frame, room, readIdx, left, short, decoded, result>>
vars == <<pc, enc, dec>>

Byte == 0 .. MaxCode

-----------------------------------------------------------------------------
(* cobs_encode                                                             *)

\* The size the encoder asks for before it starts.
NeededFlat(n) == n + 2
Needed(n) == n + n \div (MaxCode - 1) + 2

Begin ==
  /\ pc = "encode"
  /\ IF cap < Needed(Len(input))
     THEN pc' = "done" /\ UNCHANGED <<i, codeIdx, code, output>>
     ELSE /\ pc' = "scan" /\ i' = 1
          /\ output' = <<0>> /\ codeIdx' = 1 /\ code' = 1
  /\ UNCHANGED <<input, cap, dec>>

EncodeZero ==
  /\ pc = "scan" /\ i <= Len(input) /\ input[i] = 0
  /\ output' = Append([output EXCEPT ![codeIdx] = code], 0)
  /\ codeIdx' = Len(output) + 1
  /\ code' = 1 /\ i' = i + 1
  /\ UNCHANGED <<pc, input, cap, dec>>

\* code++ on a uint8_t.
NextCode == (code + 1) % (MaxCode + 1)
BlockFullNever == FALSE
BlockFull == NextCode = MaxCode

EncodeByte ==
  /\ pc = "scan" /\ i <= Len(input) /\ input[i] # 0
  /\ IF BlockFull
     THEN /\ output' = [output EXCEPT ![codeIdx] = MaxCode] \o <<input[i], 0>>
          /\ codeIdx' = Len(output) + 2 /\ code' = 1
     ELSE /\ output' = Append(output, input[i])
          /\ code' = NextCode /\ UNCHANGED codeIdx
  /\ i' = i + 1
  /\ UNCHANGED <<pc, input, cap, dec>>

FinalCodeUnset == output[codeIdx]
FinalCode == code

\* The last code, and the delimiter.
Finish ==
  /\ pc = "scan" /\ i > Len(input)
  /\ output' = Append([output EXCEPT ![codeIdx] = FinalCode], 0)
  /\ pc' = "encoded"
  /\ UNCHANGED <<input, cap, i, codeIdx, code, dec>>

\* The frame goes over the link and is handed to cobs_decode.
Deliver ==
  /\ pc = "encoded"
  /\ pc' = "decode" /\ frame' = output
  /\ UNCHANGED <<enc, room, readIdx, left, short, decoded, result>>

-----------------------------------------------------------------------------
(* cobs_decode                                                             *)

Return(n) == pc' = "done" /\ result' = n
Goes(p)   == pc' = p /\ UNCHANGED result
Put(b)    == decoded' = Append(decoded, b)
FullTooLate == Len(decoded) > room
Full      == Len(decoded) >= room

DecodeBegin ==
  /\ pc = "decode"
  /\ IF Len(frame) < 2 \/ Last(frame) # 0
     THEN Return(0) /\ UNCHANGED readIdx
     ELSE Goes("block") /\ readIdx' = 1
  /\ UNCHANGED <<enc, frame, room, left, short, decoded>>

InBlocks == readIdx < Len(frame)     \* the delimiter is not processed

ReadCode ==
  /\ pc = "block" /\ InBlocks
  /\ IF frame[readIdx] = 0
     THEN Return(0) /\ UNCHANGED <<readIdx, left, short>>
     ELSE /\ Goes("copy")
          /\ left' = frame[readIdx] - 1
          /\ short' = (frame[readIdx] < MaxCode)
          /\ readIdx' = readIdx + 1
  /\ UNCHANGED <<enc, frame, room, decoded>>

CopyByte ==
  /\ pc = "copy" /\ left > 0
  /\ IF ~InBlocks \/ frame[readIdx] = 0 \/ Full
     THEN Return(0) /\ UNCHANGED <<readIdx, left, decoded>>
     ELSE /\ Goes("copy") /\ Put(frame[readIdx])
          /\ readIdx' = readIdx + 1 /\ left' = left - 1
  /\ UNCHANGED <<enc, frame, room, short>>

ZeroDueAlways == InBlocks
ZeroDue == short /\ InBlocks

EndBlock ==
  /\ pc = "copy" /\ left = 0
  /\ IF ~ZeroDue THEN Goes("block") /\ UNCHANGED decoded
     ELSE IF Full THEN Return(0) /\ UNCHANGED decoded
     ELSE Goes("block") /\ Put(0)
  /\ UNCHANGED <<enc, frame, room, readIdx, left, short>>

Accept ==
  /\ pc = "block" /\ ~InBlocks
  /\ Return(Len(decoded))
  /\ UNCHANGED <<enc, frame, room, readIdx, left, short, decoded>>

-----------------------------------------------------------------------------
\* A payload to encode, or any bytes up to a delimiter to decode.
Init ==
  /\ \/ pc = "encode" /\ input \in BoundedSeq(Value, MaxLen)
                      /\ cap \in 0 .. MaxCap /\ frame = <<>>
     \/ pc = "decode" /\ input = <<>>
                      /\ cap = 0 /\ frame \in BoundedSeq(Byte, MaxLen)
  /\ room \in 0 .. MaxCap
  /\ i = 1 /\ codeIdx = 1 /\ code = 1 /\ output = <<>>
  /\ readIdx = 1 /\ left = 0 /\ short = FALSE /\ decoded = <<>> /\ result = 0

Encode == Begin \/ EncodeZero \/ EncodeByte \/ Finish
Decode == DecodeBegin \/ ReadCode \/ CopyByte \/ EndBlock \/ Accept

Next == Encode \/ Deliver \/ Decode
Spec == Init /\ [][Next]_vars

-----------------------------------------------------------------------------
(* Properties                                                              *)

Pcs == {"encode", "scan", "encoded", "decode", "block", "copy", "done"}

TypeOK ==
  /\ pc \in Pcs
  /\ input \in Seq(Byte) /\ output \in Seq(Byte)
  /\ frame \in Seq(Byte) /\ decoded \in Seq(Byte)
  /\ cap \in Nat /\ room \in Nat
  /\ i \in Nat /\ i >= 1 /\ readIdx \in Nat /\ readIdx >= 1
  /\ code \in 1 .. MaxCode - 1
  /\ codeIdx \in Nat /\ (pc = "scan" => codeIdx \in 1 .. Len(output))
  /\ left \in Nat /\ short \in BOOLEAN /\ result \in Nat

\* The one size check up front covers every write of the encoder: it never
\* writes past the buffer, whatever the payload.
EncodeFits == Len(output) <= cap

ZeroOnlyAt(s, k) == \A j \in 1 .. Len(s) : s[j] = 0 <=> j = k

\* A frame has its delimiter at its end and nowhere else: no code byte is
\* left at 0 and none wraps to 0.
DelimiterLast == pc = "encoded" => ZeroOnlyAt(output, Len(output))

\* The decoder never writes past the room it was given, on a frame that was
\* encoded or on any other bytes.
DecodeFits == Len(decoded) <= room

\* The decoder gives back what the encoder was given, provided it fits.
RoundTrip ==
  pc = "done" /\ output # <<>> =>
    IF Len(input) <= room
    THEN result = Len(input) /\ decoded = input
    ELSE result = 0

-----------------------------------------------------------------------------
(* The inductive invariant behind EncodeFits and DelimiterLast             *)

\* The full blocks so far: the bytes the encoder added, its first included.
Blocks == Len(output) - i
Filled == Blocks * (MaxCode - 1)     \* payload bytes in them

EncodeInv ==
  /\ pc = "encode" => output = <<>>
  /\ pc = "scan" => /\ i <= Len(input) + 1
                    /\ Needed(Len(input)) <= cap
                    /\ Blocks >= 0
                    /\ Filled + code <= i
                    /\ ZeroOnlyAt(output, codeIdx)

DecodeInv ==
  LET n == Len(decoded) IN
  /\ pc \in {"encode", "scan", "encoded", "decode"} => n = 0
  /\ pc \in {"block", "copy"} => readIdx <= Len(frame)
  /\ pc = "block" => n < readIdx /\ (~InBlocks => n + 2 <= readIdx)
  /\ pc = "copy" => n + 2 <= readIdx

\* What was decoded is at least two bytes shorter than its frame, valid or
\* not, so a room of the frame's size is never the reason to refuse it.
DecodedShorter == Len(decoded) > 0 => Len(decoded) + 2 <= Len(frame)

CodecInv ==
  EncodeInv /\ DecodeInv /\ EncodeFits /\ DelimiterLast /\ DecodedShorter

-----------------------------------------------------------------------------
(* The inductive invariant behind RoundTrip: what the blocks of a frame    *)
(* stand for, without a recursive definition of the encoding.              *)

\* The code bytes of a frame up to the one at top, each with the number of
\* payload bytes before its block.
Marks(top) == UNION {[D -> 0 .. Len(input)] : D \in SUBSET (1 .. top)}

\* The k - 1 bytes behind a code byte at c are payload bytes and not zero.
Copies(c, from, k) ==
  \A j \in 1 .. k - 1 : output[c + j] = input[from + j] /\ output[c + j] # 0

\* A block that is not full stands for a zero behind its bytes as well.
Block(at, c) ==
  LET k == output[c]  next == c + k IN
  /\ k \in 1 .. MaxCode /\ next \in DOMAIN at
  /\ Copies(c, at[c], k)
  /\ at[next] = at[c] + IF k = MaxCode THEN k - 1 ELSE k
  /\ k < MaxCode => input[at[next]] = 0

Chain(at, top) ==
  /\ {1, top} \subseteq DOMAIN at /\ at[1] = 0
  /\ \A c \in DOMAIN at \ {top} : Block(at, c)

\* The encoder: closed blocks, and the one that is open.
Scanned(at) ==
  /\ Chain(at, codeIdx)
  /\ Len(output) + 1 = codeIdx + code
  /\ i = at[codeIdx] + code /\ i <= Len(input) + 1
  /\ Copies(codeIdx, at[codeIdx], code)

\* A whole frame: the last block ends at the delimiter.
Framed(at, top) ==
  LET k == output[top] IN
  /\ Chain(at, top)
  /\ k \in 1 .. MaxCode - 1 /\ Len(output) = top + k
  /\ output[Len(output)] = 0
  /\ Len(input) = at[top] + k - 1
  /\ Copies(top, at[top], k)

\* The decoder: where it is in the frame says how much of the payload it has.
Decoded(at, top) ==
  LET n == Len(decoded) IN
  /\ pc # "encoded" => frame = output
  /\ pc # "done" => /\ n <= room /\ n <= Len(input)
                    /\ \A j \in 1 .. n : decoded[j] = input[j]
  /\ pc \in {"encoded", "decode"} => n = 0
  /\ pc = "block" => \/ readIdx \in DOMAIN at /\ n = at[readIdx]
                     \/ readIdx = Len(frame) /\ n = Len(input)
  /\ pc = "copy" =>
       \E c \in DOMAIN at :
         /\ readIdx > c /\ readIdx + left = c + frame[c]
         /\ short = (frame[c] < MaxCode)
         /\ n + 1 = at[c] + readIdx - c
  /\ pc = "done" => RoundTrip

RoundInv ==
  /\ pc = "encode" => output = <<>> /\ decoded = <<>>
  /\ pc = "scan" => (\E at \in Marks(codeIdx) : Scanned(at)) /\ decoded = <<>>
  /\ pc \notin {"encode", "scan"} /\ output # <<>> =>
       \E top \in 1 .. Len(output) : \E at \in Marks(top) :
         Framed(at, top) /\ Decoded(at, top)
=============================================================================
