---------------------------- MODULE SpiHalProofs ----------------------------
(***************************************************************************)
(* TLAPS proofs about SpiHal, for bytes of any width, transfers of any     *)
(* length, any timeout and any clock.                                      *)
(***************************************************************************)
EXTENDS SpiHal, SequenceTheorems, TLAPS

USE SpiAssumption DEF SpiAssumption

-----------------------------------------------------------------------------
(* Type correctness                                                        *)

LEMMA Bounds ==
  /\ Width \in Nat /\ Width > 0 /\ MaxLen \in Nat /\ Polls \in Nat
  /\ Calls \in Nat
OBVIOUS

LEMMA Products ==
  ASSUME NEW v \in Nat, NEW w \in Nat
  PROVE  /\ v * Width \in Nat
         /\ v * Width + Width = (v + 1) * Width
         /\ v * Width < w * Width => v * Width + Width <= w * Width
<1>1. Width \in Nat /\ Width > 0
  BY Bounds
<1>2. v * Width \in Nat /\ w * Width \in Nat
  BY <1>1
<1>3. v * Width + Width = (v + 1) * Width
  BY <1>1
<1>4. CASE v < w
  <2>1. v + 1 <= w
    BY <1>4
  <2>2. (v + 1) * Width <= w * Width
    BY <1>1, <2>1
  <2> QED
    BY <1>2, <1>3, <2>2
<1>5. CASE w <= v
  <2>1. w * Width <= v * Width
    BY <1>1, <1>5
  <2> QED
    BY <1>2, <1>3, <2>1
<1> QED
  BY <1>4, <1>5

\* A message is a whole number of bytes.
LEMMA BitsAre ==
  ASSUME NEW n \in Nat, NEW m \in Bits(n)
  PROVE  m \in Seq(Bit) /\ Len(m) = n * Width
<1>1. n * Width \in Nat
  BY Bounds, Products
<1>2. PICK j \in Nat : j = n * Width
  BY <1>1
<1>3. m \in [1 .. j -> Bit]
  BY <1>2 DEF Bits
<1>4. m \in Seq(Bit)
  BY <1>3, SeqDef
<1>5. Len(m) = j
  BY <1>3, <1>4
<1> QED
  BY <1>2, <1>4, <1>5

LEMMA AnswerBits ==
  ASSUME TypeOK, NEW i \in Nat \ {0}
  PROVE  AnswerBit(i) \in Bit
<1>1. ans \in Seq(Bit)
  BY DEF TypeOK
<1>2. CASE i <= Len(ans)
  <2>1. i \in 1 .. Len(ans)
    BY <1>1, <1>2
  <2> QED
    BY <1>1, <1>2, <2>1, ElementOfSeq DEF AnswerBit
<1>3. CASE ~(i <= Len(ans))
  BY <1>3 DEF AnswerBit, Bit
<1> QED
  BY <1>2, <1>3

\* Whatever is done to its pins, the slave's counters keep their types.
LEMMA SlaveTypes ==
  ASSUME TypeOK, NEW out, NEW c, NEW s, SlaveSees(out, c, s)
  PROVE  got' \in Seq(Bit) /\ k' \in Nat /\ due' \in BOOLEAN
<1>1. got \in Seq(Bit) /\ mosi \in Bit /\ k \in Nat
  BY DEF TypeOK
<1>2. due \in BOOLEAN
  BY DEF TypeOK
<1>3. Append(got, mosi) \in Seq(Bit) /\ <<>> \in Seq(Bit)
  BY <1>1, AppendProperties
<1>4. got' \in {<<>>, got, Append(got, mosi)} /\ k' \in {0, k}
  BY DEF SlaveSees
<1>5. due' = TRUE \/ due' = due \/ due' = (Cpha = 0)
  BY DEF SlaveSees
<1>6. due' \in BOOLEAN
  BY <1>2, <1>5
<1>7. got' \in Seq(Bit)
  BY <1>1, <1>3, <1>4
<1>8. k' \in Nat
  BY <1>1, <1>4
<1> QED
  BY <1>6, <1>7, <1>8

LEMMA SetupLength ==
  ASSUME TypeOK
  PROVE  Len(Setup) \in {3, 4}
<1>1. hal \in AllHals
  BY DEF TypeOK
<1> QED
  BY <1>1 DEF AllHals, Setup, SetupBitbangLpc1768, SetupBitbangRp2040,
              SetupSpiLpc1768, SetupSpiRp2040

\* The levels and arguments, the buffers, and the rest of TypeOK.
LevelTypes ==
  /\ hal \in Hals /\ <<mode, clock>> \in InitArgs
  /\ csOut \in BOOLEAN /\ cs \in Bit /\ sck \in Bit /\ mosi \in Bit
  /\ so \in Bit /\ due \in BOOLEAN /\ late \in BOOLEAN /\ spif \in BOOLEAN
  /\ pc \in {"init", "refused", "free", "call", "bits", "byte", "poll",
             "block", "returned"}
  /\ status \in {"none", "OK", "TIMEOUT", "HW_ERROR"}
BufferTypes ==
  /\ tx \in Seq(Bit) /\ rx \in Seq(Bit) /\ Len(rx) <= Len(tx)
  /\ shifter \in Seq(Bit) /\ dr \in Seq(Bit) /\ ans \in Seq(Bit)
  /\ got \in Seq(Bit)
CountTypes ==
  /\ step \in 1 .. 6 /\ elapsed \in 0 .. Polls /\ calls \in 0 .. Calls
  /\ k \in Nat

LEMMA TypesSplit == TypeOK <=> LevelTypes /\ BufferTypes /\ CountTypes
BY DEF TypeOK, LevelTypes, BufferTypes, CountTypes

LEMMA ParityBit ==
  ASSUME NEW n \in Nat
  PROVE  n % 2 \in Bit /\ (n \div 2) % 2 \in Bit /\ 1 - ((n \div 2) % 2) \in Bit
BY DEF Bit

LEMMA Polarity ==
  ASSUME TypeOK
  PROVE  Cpol \in Bit /\ Cpha \in Bit /\ 1 - Cpol \in Bit
<1>1. <<mode, clock>> \in (0 .. 255) \X Nat
  BY DEF TypeOK
<1>2. mode \in Nat
  BY <1>1
<1> QED
  BY <1>2, ParityBit DEF Cpol, Cpha

\* Where the program is stays one of its places.
LEMMA PlaceStep ==
  ASSUME LevelTypes, [Next]_vars
  PROVE  /\ hal' \in Hals /\ <<mode', clock'>> \in InitArgs
         /\ pc' \in {"init", "refused", "free", "call", "bits", "byte", "poll",
                     "block", "returned"}
         /\ status' \in {"none", "OK", "TIMEOUT", "HW_ERROR"}
<1>0. \/ InitRefuses \/ InitStep \/ SelectSlave \/ TransferNull \/ TransferEnd
      \/ TransferBegin \/ SetMosi \/ HalfPeriod \/ SetSck \/ GetMiso \/ WriteSpdr
      \/ Poll \/ PollTimeout \/ ReadSpdr \/ WriteReadBlocking \/ DeselectSlave
      \/ SlaveDrives \/ Shift \/ BoundReached \/ UNCHANGED vars
  BY DEF Next, Program
<1> USE DEF LevelTypes, InitRefuses, InitStep, SelectSlave,
         TransferNull, TransferBegin, TransferEnd, SetMosi, HalfPeriod, SetSck,
         GetMiso, BitStep, WriteSpdr, Poll, PollTimeout, ReadSpdr,
         WriteReadBlocking, DeselectSlave, SlaveDrives, Shift, BoundReached,
         Return, vars, config, call
<1>1. hal' = hal /\ mode' = mode /\ clock' = clock
  BY <1>0
<1>2. pc' \in {"init", "refused", "free", "call", "bits", "byte", "poll",
               "block", "returned"}
  <2>1. TransferBegin => pc' \in {"bits", "byte", "block"}
    BY Bounds DEF AllHals
  <2>2. InitRefuses \/ InitStep \/ SelectSlave \/ TransferNull \/ TransferEnd =>
          pc' \in {"init", "refused", "free", "call", "returned"}
    OBVIOUS
  <2>3. SetMosi \/ HalfPeriod \/ SetSck \/ GetMiso \/ WriteSpdr \/ Poll \/ PollTimeout
           \/ ReadSpdr \/ WriteReadBlocking \/ DeselectSlave =>
          pc' \in {"free", "bits", "byte", "poll", "returned"}
    OBVIOUS
  <2>4. SlaveDrives \/ Shift \/ BoundReached \/ UNCHANGED vars => pc' = pc
    OBVIOUS
  <2>5. pc \in {"init", "refused", "free", "call", "bits", "byte", "poll", "block",
                "returned"}
    OBVIOUS
  <2> HIDE DEF InitRefuses, InitStep, SelectSlave,
         TransferNull, TransferBegin, TransferEnd, SetMosi, HalfPeriod, SetSck,
         GetMiso, BitStep, WriteSpdr, Poll, PollTimeout, ReadSpdr,
         WriteReadBlocking, DeselectSlave, SlaveDrives, Shift, BoundReached, vars, LevelTypes
  <2> QED
    BY <1>0, <2>1, <2>2, <2>3, <2>4, <2>5
<1>3. status' \in {"none", "OK", "TIMEOUT", "HW_ERROR"}
  BY <1>0
<1> QED
  BY <1>1, <1>2, <1>3

\* Which step of a bit does what.
LEMMA BitStepsAre ==
  ASSUME step \in 1 .. 6, Cpha \in Bit
  PROVE  /\ BitSteps[step] = "mosi" => step = 1
         /\ BitSteps[step] = "wait" => step \in IF Cpha = 0 THEN {2, 5} ELSE {3, 6}
         /\ BitSteps[step] = "lead" => step = IF Cpha = 0 THEN 3 ELSE 2
         /\ BitSteps[step] = "trail" => step = IF Cpha = 0 THEN 6 ELSE 4
         /\ BitSteps[step] = "sample" => step = IF Cpha = 0 THEN 4 ELSE 5
<1>1. CASE Cpha = 0
  BY <1>1 DEF BitSteps
<1>2. CASE Cpha # 0
  BY <1>2 DEF BitSteps
<1> QED
  BY <1>1, <1>2

LEMMA NextBitExists ==
  ASSUME TypeOK, SetMosi
  PROVE  Len(rx) < Len(tx) /\ Len(rx) + 1 \in 1 .. Len(tx)
<1>1. step = 1
  <2>1. step \in 1 .. 6 /\ BitSteps[step] = "mosi"
    BY DEF TypeOK, SetMosi, BitStep
  <2> QED
    BY <2>1, BitStepsAre, Polarity
<1>2. Len(rx) < Len(tx)
  BY <1>1 DEF SetMosi, BitStep
<1>3. tx \in Seq(Bit) /\ rx \in Seq(Bit)
  BY DEF TypeOK
<1> QED
  BY <1>2, <1>3

LEMMA LevelStep ==
  ASSUME TypeOK, [Next]_vars
  PROVE  LevelTypes'
<1>0. LevelTypes
  BY TypesSplit
<1> SUFFICES /\ csOut' \in BOOLEAN /\ cs' \in Bit /\ sck' \in Bit /\ mosi' \in Bit
             /\ so' \in Bit /\ due' \in BOOLEAN /\ late' \in BOOLEAN
             /\ spif' \in BOOLEAN
  BY <1>0, PlaceStep DEF LevelTypes
<1>k. /\ csOut \in BOOLEAN /\ due \in BOOLEAN /\ late \in BOOLEAN
      /\ spif \in BOOLEAN
  BY DEF TypeOK
<1>l. cs \in Bit /\ sck \in Bit /\ mosi \in Bit /\ so \in Bit
  BY DEF TypeOK
<1>b. 0 \in Bit /\ 1 \in Bit
  BY DEF Bit
<1> USE DEF config, call, spi0, slave, wires
<1>1. CASE InitStep
  <2>1. PICK s : Put(csOut \/ s = "out", IF s \in {"preset", "high"} THEN 1 ELSE cs,
                     IF s = "clock" THEN Cpol ELSE sck)
    BY <1>1 DEF InitStep
  <2>2. due' \in BOOLEAN
    BY <2>1, SlaveTypes DEF Put
  <2>3. csOut' \in BOOLEAN
    BY <1>k, <2>1 DEF Put
  <2>4. cs' \in Bit /\ sck' \in Bit
    BY <1>l, <1>b, <2>1, Polarity DEF Put
  <2>5. UNCHANGED <<mosi, so, late, spif>>
    BY <1>1 DEF InitStep
  <2> QED
    BY <1>k, <1>l, <2>2, <2>3, <2>4, <2>5
<1>2. CASE SelectSlave
  <2>1. Put(csOut, 0, sck) /\ UNCHANGED <<mosi, so, late, spif>>
    BY <1>2 DEF SelectSlave
  <2>2. due' \in BOOLEAN
    BY <2>1, SlaveTypes DEF Put
  <2> QED
    BY <1>k, <1>l, <1>b, <2>1, <2>2 DEF Put
<1>3. CASE DeselectSlave
  <2>1. Put(csOut, 1, sck) /\ UNCHANGED <<mosi, so, late, spif>>
    BY <1>3 DEF DeselectSlave
  <2>2. due' \in BOOLEAN
    BY <2>1, SlaveTypes DEF Put
  <2> QED
    BY <1>k, <1>l, <1>b, <2>1, <2>2 DEF Put
<1>4. CASE SetSck
  <2>1. /\ Put(csOut, cs, 1 - Cpol) \/ Put(csOut, cs, Cpol)
        /\ UNCHANGED <<mosi, so, late, spif>>
    BY <1>4 DEF SetSck, BitStep
  <2>2. due' \in BOOLEAN
    BY <2>1, SlaveTypes DEF Put
  <2> QED
    BY <1>k, <1>l, <2>1, <2>2, Polarity DEF Put
<1>5. CASE SetMosi
  <2>1. mosi' = tx[Len(rx) + 1] /\ UNCHANGED <<csOut, cs, sck, so, due, late, spif>>
    BY <1>5 DEF SetMosi, BitStep
  <2>2. tx \in Seq(Bit)
    BY DEF TypeOK
  <2>3. mosi' \in Bit
    BY <1>5, <2>1, <2>2, NextBitExists, ElementOfSeq
  <2> QED
    BY <1>k, <1>l, <2>1, <2>3
<1>6. CASE SlaveDrives
  <2>1. k + 1 \in Nat \ {0}
    BY DEF TypeOK
  <2>2. so' \in Bit
    BY <1>6, <2>1, AnswerBits DEF SlaveDrives
  <2> QED
    BY <1>6, <1>k, <1>l, <2>2 DEF SlaveDrives
<1>7. CASE InitRefuses \/ TransferNull \/ TransferBegin \/ TransferEnd
           \/ HalfPeriod \/ GetMiso
  BY <1>7, <1>k, <1>l DEF InitRefuses, TransferNull, TransferBegin, TransferEnd,
     HalfPeriod, GetMiso, BitStep
<1>8. CASE WriteSpdr \/ Poll \/ PollTimeout \/ ReadSpdr
  <2>1. UNCHANGED <<csOut, cs, sck, mosi, so, due>>
    BY <1>8 DEF WriteSpdr, Poll, PollTimeout, ReadSpdr
  <2>2. late' \in BOOLEAN
    BY <1>8, <1>k DEF WriteSpdr, Poll, PollTimeout, ReadSpdr
  <2>3. spif' \in BOOLEAN
    BY <1>8, <1>k DEF WriteSpdr, Poll, PollTimeout, ReadSpdr
  <2> QED
    BY <1>k, <1>l, <2>1, <2>2, <2>3
<1>9. CASE WriteReadBlocking \/ Shift \/ BoundReached \/ UNCHANGED vars
  BY <1>9, <1>k, <1>l DEF WriteReadBlocking, Shift, BoundReached, vars
<1> QED
  BY <1>1, <1>2, <1>3, <1>4, <1>5, <1>6, <1>7, <1>8, <1>9 DEF Next, Program

LEMMA CountStep ==
  ASSUME TypeOK, StageInv, [Next]_vars
  PROVE  CountTypes'
<1>0. /\ step \in 1 .. 6 /\ elapsed \in 0 .. Polls /\ calls \in 0 .. Calls
      /\ k \in Nat
  BY DEF TypeOK
<1> USE DEF config, call, spi0, slave, wires, CountTypes
<1>1. CASE InitStep
  <2>1. PICK s : Put(csOut \/ s = "out", IF s \in {"preset", "high"} THEN 1 ELSE cs,
                     IF s = "clock" THEN Cpol ELSE sck)
    BY <1>1 DEF InitStep
  <2>2. k' \in Nat
    BY <2>1, SlaveTypes DEF Put
  <2>3. step' \in 1 .. 6
    BY <1>1, <1>0, SetupLength DEF InitStep
  <2> QED
    BY <1>0, <1>1, <2>2, <2>3 DEF InitStep
<1>2. CASE SelectSlave \/ DeselectSlave \/ SetSck
  <2>1. PICK c, s : SlaveSees(csOut, c, s)
    BY <1>2 DEF SelectSlave, DeselectSlave, SetSck, Put
  <2>2. k' \in Nat
    BY <2>1, SlaveTypes
  <2>3. step' \in 1 .. 6
    BY <1>0, <1>2 DEF SelectSlave, DeselectSlave, SetSck, BitStep
  <2>4. elapsed' = elapsed
    BY <1>2 DEF SelectSlave, DeselectSlave, SetSck, BitStep
  <2>5. calls' \in 0 .. Calls
    BY <1>0, <1>2, Bounds DEF SelectSlave, DeselectSlave, SetSck, BitStep,
                              StageInv, InCall
  <2> QED
    BY <1>0, <2>2, <2>3, <2>4, <2>5
<1>3. CASE SlaveDrives
  BY <1>0, <1>3 DEF SlaveDrives
<1>4. CASE InitRefuses \/ TransferNull \/ TransferBegin \/ TransferEnd
           \/ SetMosi \/ HalfPeriod \/ GetMiso
  BY <1>4, <1>0 DEF InitRefuses, TransferNull, TransferBegin, TransferEnd,
     SetMosi, HalfPeriod, GetMiso, BitStep
<1>5. CASE WriteSpdr \/ Poll \/ PollTimeout \/ ReadSpdr
  BY <1>5, <1>0, Bounds DEF WriteSpdr, Poll, PollTimeout, ReadSpdr, GivesUp,
     NextElapsed
<1>6. CASE WriteReadBlocking \/ Shift \/ BoundReached \/ UNCHANGED vars
  BY <1>6, <1>0 DEF WriteReadBlocking, Shift, BoundReached, vars
<1> QED
  BY <1>1, <1>2, <1>3, <1>4, <1>5, <1>6 DEF Next, Program

\* A function on 1 .. n is a sequence of length n.
LEMMA FunctionIsSeq ==
  ASSUME NEW n \in Nat, NEW S, NEW f \in [1 .. n -> S]
  PROVE  f \in Seq(S) /\ Len(f) = n
<1>1. f \in Seq(S)
  BY SeqDef
<1> QED
  BY <1>1, LenProperties

\* SPI0 has room for the byte it is at.
LEMMA ByteFits ==
  ASSUME TypeOK, FillInv, pc \in {"byte", "poll"}, Len(rx) < Len(tx)
  PROVE  /\ Len(rx) + Width <= Len(tx)
         /\ \E w \in Nat : Len(rx) + Width = w * Width
<1>1. PICK v \in Nat, w \in Nat : Len(rx) = v * Width /\ Len(tx) = w * Width
  BY DEF FillInv
<1>2. /\ v * Width + Width = (v + 1) * Width
      /\ v * Width + Width <= w * Width
  BY <1>1, Products
<1>3. v + 1 \in Nat
  OBVIOUS
<1> QED
  BY <1>1, <1>2, <1>3

LEMMA NextByte ==
  ASSUME TypeOK, FillInv, pc \in {"byte", "poll"}, Len(rx) < Len(tx)
  PROVE  LET b == SubSeq(tx, Len(rx) + 1, Len(rx) + Width)
         IN  /\ b \in Seq(Bit) /\ Len(b) = Width
             /\ \A i \in 1 .. Width : b[i] = tx[Len(rx) + i]
<1>1. tx \in Seq(Bit) /\ rx \in Seq(Bit)
  BY DEF TypeOK
<1>3. Len(rx) + Width <= Len(tx)
  BY ByteFits
<1>4. PICK m, n : m = Len(rx) + 1 /\ n = Len(rx) + Width
  OBVIOUS
<1>5. m \in Int /\ n \in Int /\ m <= n /\ n - m + 1 = Width /\ Len(rx) \in Nat
  BY <1>1, <1>4, Bounds
<1>6. \A i \in m .. n : tx[i] \in Bit
  BY <1>1, <1>3, <1>4, <1>5, ElementOfSeq
<1>7. /\ SubSeq(tx, m, n) \in Seq(Bit)
      /\ Len(SubSeq(tx, m, n)) = IF m <= n THEN n - m + 1 ELSE 0
      /\ \A i \in 1 .. n - m + 1 : SubSeq(tx, m, n)[i] = tx[m + i - 1]
  BY <1>5, <1>6, SubSeqProperties
<1>8. ASSUME NEW i \in 1 .. Width
      PROVE  SubSeq(tx, m, n)[i] = tx[Len(rx) + i]
  <2>1. m + i - 1 = Len(rx) + i
    BY <1>4, <1>5
  <2> QED
    BY <1>5, <1>7, <2>1
<1> QED
  BY <1>4, <1>5, <1>7, <1>8

\* The word SPI0 has received when it is through.
LEMMA ReceivedWord ==
  ASSUME TypeOK, Shift
  PROVE  /\ dr' \in Seq(Bit) /\ Len(dr') = Width
         /\ \A i \in 1 .. Width :
              dr'[i] = IF Selected THEN AnswerBit(Len(got) + i) ELSE 1
<1>1. got \in Seq(Bit) /\ Width \in Nat
  BY Bounds DEF TypeOK
<1>2. ASSUME NEW i \in 1 .. Width
      PROVE  (IF Selected THEN AnswerBit(Len(got) + i) ELSE 1) \in Bit
  <2>1. Len(got) + i \in Nat \ {0}
    BY <1>1
  <2>2. AnswerBit(Len(got) + i) \in Bit
    BY <2>1, AnswerBits
  <2> QED
    BY <2>2 DEF Bit
<1>3. dr' = [i \in 1 .. Width |->
               IF Selected THEN AnswerBit(Len(got) + i) ELSE 1]
  BY DEF Shift
<1>4. dr' \in [1 .. Width -> Bit]
  BY <1>2, <1>3
<1> QED
  BY <1>1, <1>3, <1>4, FunctionIsSeq

LEMMA BlockRead ==
  ASSUME TypeOK, WriteReadBlocking
  PROVE  /\ rx' \in Seq(Bit) /\ Len(rx') = Len(tx)
         /\ \A i \in 1 .. Len(tx) : rx'[i] = AnswerBit(i)
<1>1. tx \in Seq(Bit) /\ Len(tx) \in Nat
  BY DEF TypeOK
<1>2. \A i \in 1 .. Len(tx) : AnswerBit(i) \in Bit
  BY <1>1, AnswerBits
<1>3. rx' = [i \in 1 .. Len(tx) |-> AnswerBit(i)]
  BY DEF WriteReadBlocking
<1>4. rx' \in [1 .. Len(tx) -> Bit]
  BY <1>2, <1>3
<1> QED
  BY <1>1, <1>3, <1>4, FunctionIsSeq

LEMMA ReadFits ==
  ASSUME TypeOK, FillInv, ReadSpdr
  PROVE  /\ rx' \in Seq(Bit) /\ Len(rx') = Len(rx) + Width
         /\ Len(rx') <= Len(tx)
         /\ \A i \in 1 .. Len(rx) + Width :
              rx'[i] = IF i <= Len(rx) THEN rx[i] ELSE dr[i - Len(rx)]
<1>1. rx \in Seq(Bit) /\ dr \in Seq(Bit)
  BY DEF TypeOK
<1>2. pc \in {"byte", "poll"} /\ Len(rx) < Len(tx) /\ Len(dr) = Width
  BY DEF ReadSpdr, FillInv
<1>3. Len(rx) + Width <= Len(tx)
  BY <1>2, ByteFits
<1>4. rx' = rx \o dr
  BY DEF ReadSpdr
<1>5. /\ rx \o dr \in Seq(Bit) /\ Len(rx \o dr) = Len(rx) + Len(dr)
      /\ \A i \in 1 .. Len(rx) + Len(dr) :
           (rx \o dr)[i] = IF i <= Len(rx) THEN rx[i] ELSE dr[i - Len(rx)]
  BY <1>1, ConcatProperties
<1> QED
  BY <1>2, <1>3, <1>4, <1>5

LEMMA SampleFits ==
  ASSUME TypeOK, FillInv, StageInv, GetMiso
  PROVE  /\ Sampled /\ Len(rx) < Len(tx)
         /\ rx' \in Seq(Bit) /\ Len(rx') = Len(rx) + 1
         /\ rx'[Len(rx) + 1] = so
         /\ \A i \in 1 .. Len(rx) : rx'[i] = rx[i]
<1>1. pc = "bits" /\ step \in 1 .. 6 /\ BitSteps[step] = "sample"
  BY DEF GetMiso, BitStep, TypeOK
<1>2. Sampled
  BY <1>1, BitStepsAre, Polarity DEF Sampled
<1>3. rx \in Seq(Bit) /\ so \in Bit /\ rx' = Append(rx, so)
  BY DEF TypeOK, GetMiso
<1> QED
  BY <1>1, <1>2, <1>3, AppendProperties DEF FillInv

LEMMA BufferStep ==
  ASSUME TypeOK, StageInv, FillInv, [Next]_vars
  PROVE  BufferTypes'
<1>0. BufferTypes
  BY TypesSplit
<1> USE DEF config, call, spi0, slave, wires, BufferTypes
<1>1. CASE InitStep \/ SetSck
  <2>1. PICK o, c, s : SlaveSees(o, c, s)
    BY <1>1 DEF InitStep, SetSck, Put
  <2>2. got' \in Seq(Bit)
    BY <2>1, SlaveTypes
  <2> QED
    BY <1>0, <1>1, <2>2 DEF InitStep, SetSck, BitStep
<1>2. CASE SelectSlave
  <2>1. got' \in Seq(Bit)
    BY <1>2, SlaveTypes DEF SelectSlave, Put
  <2>2. tx' \in Seq(Bit) /\ ans' \in Seq(Bit) /\ rx' = <<>>
    BY <1>2, Bounds, BitsAre DEF SelectSlave, Messages
  <2> QED
    BY <1>0, <1>2, <2>1, <2>2 DEF SelectSlave
<1>3. CASE DeselectSlave
  <2>1. got' \in Seq(Bit)
    BY <1>3, SlaveTypes DEF DeselectSlave, Put
  <2> QED
    BY <1>0, <1>3, <2>1 DEF DeselectSlave
<1>4. CASE GetMiso
  <2>1. Len(tx) \in Nat /\ Len(rx) \in Nat
    BY <1>0
  <2>2. Len(rx') <= Len(tx)
    BY <1>4, <2>1, SampleFits
  <2> QED
    BY <1>0, <1>4, <2>2, SampleFits DEF GetMiso, BitStep
<1>5. CASE WriteSpdr
  <2>1. pc \in {"byte", "poll"} /\ Len(rx) < Len(tx)
    BY <1>5 DEF WriteSpdr
  <2> QED
    BY <1>0, <1>5, <2>1, NextByte DEF WriteSpdr
<1>6. CASE ReadSpdr
  BY <1>0, <1>6, ReadFits DEF ReadSpdr
<1>7. CASE Shift
  <2>1. got \o shifter \in Seq(Bit)
    BY <1>0, ConcatProperties
  <2> QED
    BY <1>0, <1>7, <2>1, ReceivedWord DEF Shift
<1>8. CASE WriteReadBlocking
  <2>1. Len(tx) \in Nat
    BY <1>0
  <2> QED
    BY <1>0, <1>8, <2>1, BlockRead DEF WriteReadBlocking
<1>9. CASE InitRefuses \/ TransferNull \/ TransferBegin \/ TransferEnd
           \/ SetMosi \/ HalfPeriod
  BY <1>9, <1>0 DEF InitRefuses, TransferNull, TransferBegin, TransferEnd,
     SetMosi, HalfPeriod, BitStep
<1>10. CASE Poll \/ PollTimeout \/ SlaveDrives \/ BoundReached \/ UNCHANGED vars
  BY <1>10, <1>0 DEF Poll, PollTimeout, SlaveDrives, BoundReached, vars
<1> QED
  BY <1>1, <1>2, <1>3, <1>4, <1>5, <1>6, <1>7, <1>8, <1>9, <1>10
  DEF Next, Program

\* Nothing but init sets the configuration.
LEMMA ConfigKept ==
  ASSUME [Next]_vars
  PROVE  /\ hal' = hal /\ mode' = mode /\ clock' = clock
         /\ Setup' = Setup /\ (Refuses' <=> Refuses) /\ (Bitbang' <=> Bitbang)
         /\ Cpol' = Cpol /\ Cpha' = Cpha
<1>1. hal' = hal /\ mode' = mode /\ clock' = clock
  BY DEF Next, Program, InitRefuses, InitStep, SelectSlave, TransferNull,
         TransferBegin, TransferEnd, SetMosi, HalfPeriod, SetSck, GetMiso,
         BitStep, WriteSpdr, Poll, PollTimeout, ReadSpdr, WriteReadBlocking,
         DeselectSlave, SlaveDrives, Shift, BoundReached, vars, config
<1>2. Setup' = Setup
  BY <1>1 DEF Setup, SetupBitbangLpc1768, SetupBitbangRp2040, SetupSpiLpc1768,
              SetupSpiRp2040
<1>3. Refuses' <=> Refuses
  BY <1>1 DEF Refuses, PclkHz
<1>4. Bitbang' <=> Bitbang
  BY <1>1 DEF Bitbang
<1>5. Cpol' = Cpol /\ Cpha' = Cpha
  BY <1>1 DEF Cpol, Cpha
<1> QED
  BY <1>1, <1>2, <1>3, <1>4, <1>5

LEMMA StageStep ==
  ASSUME TypeOK, StageInv, [Next]_vars
  PROVE  StageInv'
<1> USE ConfigKept DEF StageInv, InCall
<1>1. CASE InitStep
  <2>1. pc = "init" /\ ~Refuses /\ UNCHANGED <<calls, status>>
    BY <1>1 DEF InitStep, call
  <2>2. \/ step < Len(Setup) /\ step' = step + 1 /\ pc' = pc
        \/ step' = 1 /\ pc' = "free"
    BY <1>1 DEF InitStep
  <2>3. Len(Setup) \in Nat /\ (pc = "init" => step \in 1 .. Len(Setup))
    BY SetupLength
  <2>4. pc' = "init" => step' \in 1 .. Len(Setup')
    BY <2>1, <2>2, <2>3
  <2> QED
    BY <2>1, <2>2, <2>4
<1>2. CASE InitRefuses
  <2>1. pc' = "refused" /\ status' = "HW_ERROR"
    BY <1>2 DEF InitRefuses
  <2> QED
    BY <2>1
<1>3. CASE SelectSlave
  <2>1. /\ pc = "free" /\ pc' = "call" /\ step' = step /\ calls' = calls
        /\ calls < Calls /\ status' = "none"
    BY <1>3 DEF SelectSlave
  <2> QED
    BY <2>1
<1>4. CASE TransferBegin
  <2>1. hal \in AllHals
    BY DEF TypeOK
  <2>2. /\ pc = "call" /\ step' = step /\ calls' = calls /\ status' = status
        /\ \/ pc' = "bits" /\ Bitbang
           \/ pc' = "byte" /\ hal = "hw_lpc"
           \/ pc' = "block"
    BY <1>4, <2>1 DEF TransferBegin, AllHals, Bitbang, call
  <2> QED
    BY <2>2
<1>5. CASE TransferNull \/ TransferEnd \/ PollTimeout \/ WriteReadBlocking
  <2>1. /\ pc \in {"call", "bits", "byte", "poll", "block"} /\ pc' = "returned"
        /\ step' = step /\ calls' = calls /\ step = 1
    BY <1>5 DEF TransferNull, TransferEnd, PollTimeout, WriteReadBlocking, Return
  <2> QED
    BY <2>1
<1>6. CASE DeselectSlave
  <2>1. pc = "returned" /\ pc' = "free" /\ step' = step /\ status' = "none"
    BY <1>6 DEF DeselectSlave
  <2> QED
    BY <2>1
<1>7. CASE SetMosi \/ HalfPeriod \/ SetSck \/ GetMiso
  <2>1. pc = "bits" /\ UNCHANGED <<pc, calls, status>>
    BY <1>7 DEF SetMosi, HalfPeriod, SetSck, GetMiso, BitStep
  <2> QED
    BY <2>1
<1>8. CASE WriteSpdr \/ Poll \/ ReadSpdr
  <2>1. /\ pc \in {"byte", "poll"} /\ pc' \in {"byte", "poll"}
        /\ UNCHANGED <<step, calls, status>>
    BY <1>8 DEF WriteSpdr, Poll, ReadSpdr, call
  <2> QED
    BY <2>1
<1>9. CASE SlaveDrives \/ Shift \/ BoundReached \/ UNCHANGED vars
  <2>1. UNCHANGED <<pc, step, calls, status>>
    BY <1>9 DEF SlaveDrives, Shift, BoundReached, vars, call
  <2> QED
    BY <2>1
<1> QED
  BY <1>1, <1>2, <1>3, <1>4, <1>5, <1>6, <1>7, <1>8, <1>9 DEF Next, Program

\* From one step of a bit to the next.
LEMMA BitFlow ==
  ASSUME TypeOK, NEW s, BitStep(s)
  PROVE  /\ pc = "bits" /\ pc' = "bits" /\ tx' = tx /\ ans' = ans
         /\ late' = late /\ status' = status /\ spif' = spif /\ dr' = dr
         /\ shifter' = shifter /\ so' = so
         /\ step \in 1 .. 6 /\ Cpha \in Bit /\ Cpol \in Bit
         /\ step' = (step % 6) + 1 /\ BitSteps[step] = s
BY Polarity DEF BitStep, TypeOK, config, spi0

LEMMA FillStep ==
  ASSUME TypeOK, StageInv, FillInv, [Next]_vars
  PROVE  FillInv'
<1> USE DEF FillInv
<1>1. CASE InitStep \/ InitRefuses
  <2>1. /\ pc' \in {"init", "refused", "free"}
        /\ UNCHANGED <<tx, spif, dr>>
    BY <1>1 DEF InitStep, InitRefuses, call, spi0
  <2> QED
    BY <2>1
<1>2. CASE SelectSlave
  <2>1. /\ pc' = "call" /\ rx' = <<>> /\ UNCHANGED <<spif, dr>>
        /\ tx' \in Messages
    BY <1>2 DEF SelectSlave, spi0
  <2>2. \E w \in Nat : Len(tx') = w * Width
    BY <2>1, BitsAre, Bounds DEF Messages
  <2> QED
    BY <2>1, <2>2
<1>3. CASE TransferBegin
  <2>1. /\ pc = "call" /\ pc' \in {"bits", "byte", "block"}
        /\ UNCHANGED <<tx, rx, step, spif, dr>> /\ step = 1
    <3>1. hal \in AllHals
      BY DEF TypeOK
    <3> QED
      BY <1>3, <3>1 DEF TransferBegin, AllHals, call, spi0, StageInv
  <2>2. rx = <<>> /\ Len(rx) = 0 /\ 0 = 0 * Width
    BY <2>1, Bounds
  <2>3. ~Sending' /\ ~Sampled'
    BY <2>1 DEF Sending, Sampled
  <2> QED
    BY <2>1, <2>2, <2>3
<1>4. CASE TransferNull \/ TransferEnd \/ PollTimeout \/ WriteReadBlocking
  <2>1. pc' = "returned" /\ UNCHANGED <<tx, spif, dr>>
    BY <1>4 DEF TransferNull, TransferEnd, PollTimeout, WriteReadBlocking,
                Return, spi0
  <2> QED
    BY <2>1
<1>5. CASE DeselectSlave
  <2>1. pc' = "free" /\ tx' = <<>> /\ UNCHANGED <<spif, dr>>
    BY <1>5 DEF DeselectSlave, spi0
  <2>2. Len(tx') = 0 * Width
    BY <2>1, Bounds
  <2> QED
    BY <2>1, <2>2
<1>6. CASE SetMosi
  <2>1. BitStep("mosi") /\ rx' = rx
    BY <1>6 DEF SetMosi
  <2> QED
    BY <1>6, <2>1, BitFlow, NextBitExists
<1>7. CASE HalfPeriod \/ SetSck
  <2>1. rx' = rx /\ \E s \in {"wait", "lead", "trail"} : BitStep(s)
    BY <1>7 DEF HalfPeriod, SetSck
  <2>2. /\ UNCHANGED <<pc, tx, rx, spif, dr>> /\ pc = "bits"
        /\ Cpha \in Bit /\ Cpha' = Cpha /\ step \in 1 .. 6
        /\ step' = (step % 6) + 1
        /\ BitSteps[step] \in {"wait", "lead", "trail"}
    BY <2>1, BitFlow, ConfigKept
  <2>3. /\ Sending' \/ Sampled' => Sending
    BY <2>2, BitStepsAre DEF Sending, Sampled
  <2> QED
    BY <2>2, <2>3
<1>8. CASE GetMiso
  <2>1. BitStep("sample")
    BY <1>8 DEF GetMiso
  <2>2. /\ UNCHANGED <<pc, tx, spif, dr>> /\ pc = "bits"
        /\ Cpha \in Bit /\ Cpha' = Cpha /\ step \in 1 .. 6
        /\ step' = (step % 6) + 1 /\ BitSteps[step] = "sample"
    BY <2>1, BitFlow, ConfigKept
  <2>3. ~Sending' /\ ~Sampled'
    BY <2>2, BitStepsAre DEF Sending, Sampled
  <2> QED
    BY <2>2, <2>3
<1>9. CASE WriteSpdr \/ Poll
  <2>1. /\ pc \in {"byte", "poll"} /\ pc' = "poll"
        /\ UNCHANGED <<tx, rx, spif, dr>> /\ Len(rx) < Len(tx)
    BY <1>9 DEF WriteSpdr, Poll, call, spi0
  <2> QED
    BY <2>1
<1>10. CASE ReadSpdr
  <2>1. /\ pc = "poll" /\ pc' = "byte" /\ tx' = tx /\ spif' = FALSE
    BY <1>10 DEF ReadSpdr
  <2>2. \E w \in Nat : Len(rx) + Width = w * Width
    BY <2>1, ByteFits
  <2>3. \E w \in Nat : Len(rx') = w * Width
    BY <1>10, <2>2, ReadFits
  <2> QED
    BY <2>1, <2>3
<1>11. CASE Shift
  <2>1. UNCHANGED <<pc, step, tx, rx>>
    BY <1>11 DEF Shift, call
  <2>2. (Sending' <=> Sending) /\ (Sampled' <=> Sampled)
    BY <2>1, ConfigKept DEF Sending, Sampled
  <2> QED
    BY <1>11, <2>1, <2>2, ReceivedWord
<1>12. CASE SlaveDrives \/ BoundReached \/ UNCHANGED vars
  <2>1. UNCHANGED <<pc, step, tx, rx, spif, dr>>
    BY <1>12 DEF SlaveDrives, BoundReached, vars, call, spi0
  <2>2. (Sending' <=> Sending) /\ (Sampled' <=> Sampled)
    BY <2>1, ConfigKept DEF Sending, Sampled
  <2> QED
    BY <2>1, <2>2
<1> QED
  BY <1>1, <1>2, <1>3, <1>4, <1>5, <1>6, <1>7, <1>8, <1>9, <1>10, <1>11, <1>12
  DEF Next, Program

\* Levels, counters and buffers stay in their ranges: the polls stay within
\* the timeout, and rx is never filled beyond the length of tx.
THEOREM SpiTypes == Spec => [](TypeOK /\ StageInv /\ FillInv)
<1>1. Init => TypeOK /\ StageInv /\ FillInv
  <2> SUFFICES ASSUME Init PROVE TypeOK /\ StageInv /\ FillInv
    OBVIOUS
  <2>1. LevelTypes
    <3>1. PICK a \in InitArgs : mode = a[1] /\ clock = a[2]
      BY DEF Init
    <3>2. a \in (0 .. 255) \X Nat
      BY <3>1
    <3>3. <<mode, clock>> \in InitArgs
      BY <3>1, <3>2
    <3> QED
      BY <3>3 DEF Init, LevelTypes, Bit
  <2>2. BufferTypes
    BY EmptySeq DEF Init, BufferTypes
  <2>3. CountTypes
    BY Bounds DEF Init, CountTypes
  <2>4. TypeOK
    BY <2>1, <2>2, <2>3, TypesSplit
  <2>5. StageInv
    <3>1. pc = "init" /\ step = 1 /\ status = "none"
      BY DEF Init
    <3>2. step \in 1 .. Len(Setup)
      BY <2>4, <3>1, SetupLength
    <3> QED
      BY <3>1, <3>2 DEF StageInv, InCall
  <2>6. FillInv
    <3>1. tx = <<>> /\ pc = "init" /\ spif = FALSE /\ 0 = 0 * Width
      BY Bounds DEF Init
    <3> QED
      BY <3>1 DEF FillInv
  <2> QED
    BY <2>4, <2>5, <2>6
<1>2. TypeOK /\ StageInv /\ FillInv /\ [Next]_vars
        => TypeOK' /\ StageInv' /\ FillInv'
  <2>1. LevelTypes' /\ BufferTypes' /\ CountTypes' => TypeOK'
    BY DEF TypeOK, LevelTypes, BufferTypes, CountTypes
  <2> QED
    BY <2>1, LevelStep, BufferStep, CountStep, StageStep, FillStep
<1> QED
  BY <1>1, <1>2, PTL DEF Spec

-----------------------------------------------------------------------------
(* The pins                                                                *)

\* Each HAL makes CS an output, raises it and puts SCK to its idle level, and
\* sets SCK once.
LEMMA SetupDoes ==
  ASSUME hal \in AllHals
  PROVE  /\ \E j \in 1 .. Len(Setup) : Setup[j] = "out"
         /\ \E j \in 1 .. Len(Setup) : Setup[j] = "high"
         /\ \E j \in 1 .. Len(Setup) : Setup[j] = "clock"
<1> USE DEF AllHals, Setup, SetupBitbangLpc1768, SetupBitbangRp2040,
            SetupSpiLpc1768, SetupSpiRp2040
<1>1. CASE hal = "bb_lpc"
  <2>1. /\ Len(Setup) = 3 /\ Setup[1] = "out" /\ Setup[2] = "clock"
        /\ Setup[3] = "high"
    BY <1>1
  <2> HIDE DEF Setup
  <2> QED
    BY <2>1
<1>2. CASE hal = "bb_rp"
  <2>1. /\ Len(Setup) = 4 /\ Setup[2] = "out" /\ Setup[3] = "clock"
        /\ Setup[4] = "high"
    BY <1>2
  <2> HIDE DEF Setup
  <2> QED
    BY <2>1
<1>3. CASE hal = "hw_lpc"
  <2>1. /\ Len(Setup) = 3 /\ Setup[1] = "out" /\ Setup[2] = "high"
        /\ Setup[3] = "clock"
    BY <1>3
  <2> HIDE DEF Setup
  <2> QED
    BY <2>1
<1>4. CASE hal = "hw_rp"
  <2>1. /\ Len(Setup) = 3 /\ Setup[1] = "clock" /\ Setup[2] = "out"
        /\ Setup[3] = "high"
    BY <1>4
  <2> HIDE DEF Setup
  <2> QED
    BY <2>1
<1> QED
  BY <1>1, <1>2, <1>3, <1>4

\* What has been done when the step at hand is done too.
DoneBy(s) == Did(s) \/ Setup[step] = s

LEMMA InitDoes ==
  ASSUME TypeOK, StageInv, WireInv, InitStep
  PROVE  /\ csOut' <=> DoneBy("out")
         /\ cs' = 1 <=> DoneBy("preset") \/ DoneBy("high")
         /\ ~DoneBy("clock") => sck' = 0
         /\ DoneBy("clock") => sck' = Cpol
<1>1. pc = "init"
  BY DEF InitStep
<1>2. PICK s : s = Setup[step]
  OBVIOUS
<1>3. /\ csOut' = (csOut \/ s = "out")
      /\ cs' = IF s \in {"preset", "high"} THEN 1 ELSE cs
      /\ sck' = IF s = "clock" THEN Cpol ELSE sck
  BY <1>2 DEF InitStep, Put
<1>4. /\ csOut <=> Did("out")
      /\ cs = 1 <=> Did("preset") \/ Did("high")
      /\ ~Did("clock") => sck = 0
      /\ Did("clock") => sck = Cpol
  BY <1>1 DEF WireInv
<1>5. csOut' <=> DoneBy("out")
  BY <1>2, <1>3, <1>4 DEF DoneBy
<1>6. cs' = 1 <=> DoneBy("preset") \/ DoneBy("high")
  BY <1>2, <1>3, <1>4 DEF DoneBy
<1>7. (~DoneBy("clock") => sck' = 0) /\ (DoneBy("clock") => sck' = Cpol)
  BY <1>2, <1>3, <1>4 DEF DoneBy
<1> QED
  BY <1>5, <1>6, <1>7

LEMMA WireStep ==
  ASSUME TypeOK, StageInv, WireInv, [Next]_vars
  PROVE  WireInv'
<1>1. CASE InitStep
  <2>1. pc = "init" /\ step \in 1 .. Len(Setup) /\ Len(Setup) \in Nat
    BY <1>1, SetupLength DEF InitStep, StageInv
  <2>2. CASE step < Len(Setup)
    <3>1. step' = step + 1 /\ pc' = "init"
      BY <1>1, <2>2 DEF InitStep
    <3>2. ASSUME NEW s PROVE Did(s)' <=> DoneBy(s)
      <4>1. Did(s)' <=> \E j \in 1 .. step : Setup[j] = s
        BY <2>1, <3>1, ConfigKept DEF Did
      <4>2. 1 .. step = (1 .. step - 1) \cup {step}
        BY <2>1
      <4> QED
        BY <4>1, <4>2 DEF Did, DoneBy
    <3> QED
      BY <1>1, <3>1, <3>2, InitDoes, ConfigKept DEF WireInv, InCall
  <2>3. CASE step = Len(Setup)
    <3>1. step' = 1 /\ pc' = "free"
      BY <1>1, <2>3 DEF InitStep
    <3>2. ASSUME NEW s, \E j \in 1 .. Len(Setup) : Setup[j] = s PROVE DoneBy(s)
      <4>1. PICK j \in 1 .. Len(Setup) : Setup[j] = s
        BY <3>2
      <4>2. j = step \/ j \in 1 .. step - 1
        BY <2>1, <2>3
      <4> QED
        BY <4>1, <4>2 DEF Did, DoneBy
    <3>3. hal \in AllHals
      BY DEF TypeOK
    <3>4. DoneBy("out") /\ DoneBy("high") /\ DoneBy("clock")
      BY <3>2, <3>3, SetupDoes
    <3> QED
      BY <1>1, <3>1, <3>4, InitDoes, ConfigKept DEF WireInv, InCall
  <2> QED
    BY <2>1, <2>2, <2>3
<1>2. CASE InitRefuses
  BY <1>2 DEF InitRefuses, WireInv, InCall
<1>3. CASE SelectSlave
  <2>1. /\ pc = "free" /\ pc' = "call" /\ csOut' = csOut /\ cs' = 0
        /\ sck' = sck
    BY <1>3 DEF SelectSlave, Put
  <2> QED
    BY <2>1, ConfigKept DEF WireInv, InCall
<1>4. CASE DeselectSlave
  <2>1. /\ pc = "returned" /\ pc' = "free" /\ csOut' = csOut /\ cs' = 1
        /\ sck' = sck
    BY <1>4 DEF DeselectSlave, Put
  <2> QED
    BY <2>1, ConfigKept DEF WireInv, InCall
<1>5. CASE SetMosi \/ HalfPeriod \/ SetSck \/ GetMiso
  <2>1. /\ csOut' = csOut /\ cs' = cs
        /\ \/ BitStep("lead") /\ sck' = 1 - Cpol
           \/ BitStep("trail") /\ sck' = Cpol
           \/ /\ sck' = sck
              /\ BitStep("mosi") \/ BitStep("wait") \/ BitStep("sample")
    BY <1>5 DEF SetMosi, HalfPeriod, SetSck, GetMiso, Put, wires
  <2>2. PICK s : /\ BitStep(s)
                 /\ \/ s = "lead" /\ sck' = 1 - Cpol
                    \/ s = "trail" /\ sck' = Cpol
                    \/ s \in {"mosi", "wait", "sample"} /\ sck' = sck
    BY <2>1
  <2>3. /\ pc = "bits" /\ pc' = "bits" /\ step \in 1 .. 6 /\ Cpha \in Bit
        /\ step' = (step % 6) + 1 /\ BitSteps[step] = s
        /\ Cpha' = Cpha /\ Cpol' = Cpol
    BY <2>2, BitFlow, ConfigKept
  <2>4. /\ s = "lead" => Active'
        /\ s = "trail" => ~Active'
        /\ s \in {"mosi", "wait", "sample"} => (Active' <=> Active)
    BY <2>3, BitStepsAre DEF Active
  <2>5. sck' = IF Active' THEN 1 - Cpol' ELSE Cpol'
    BY <2>2, <2>3, <2>4 DEF WireInv
  <2> QED
    BY <2>1, <2>3, <2>5 DEF WireInv, InCall
<1>6. CASE TransferBegin
  <2>1. /\ pc = "call" /\ pc' \in {"bits", "byte", "block"} /\ step = 1
        /\ UNCHANGED <<step, csOut, cs, sck>>
    <3>1. hal \in AllHals
      BY DEF TypeOK
    <3> QED
      BY <1>6, <3>1 DEF TransferBegin, AllHals, wires, StageInv
  <2>2. ~Active'
    BY <2>1 DEF Active
  <2> QED
    BY <2>1, <2>2, ConfigKept DEF WireInv, InCall
<1>7. CASE WriteSpdr \/ Poll \/ ReadSpdr \/ TransferNull \/ PollTimeout
           \/ WriteReadBlocking
  <2>1. /\ pc \in {"call", "byte", "poll", "block"}
        /\ pc' \in {"byte", "poll", "returned"}
        /\ UNCHANGED <<csOut, cs, sck>>
    BY <1>7 DEF WriteSpdr, Poll, ReadSpdr, TransferNull, PollTimeout,
                WriteReadBlocking, Return, wires
  <2> QED
    BY <2>1, ConfigKept DEF WireInv, InCall
<1>8. CASE SlaveDrives \/ Shift \/ BoundReached \/ UNCHANGED vars
  <2>1. UNCHANGED <<pc, step, csOut, cs, sck>>
    BY <1>8 DEF SlaveDrives, Shift, BoundReached, vars, wires
  <2>2. ASSUME NEW s PROVE Did(s)' <=> Did(s)
    BY <2>1, ConfigKept DEF Did
  <2>3. Active' <=> Active
    BY <2>1, ConfigKept DEF Active
  <2> QED
    BY <2>1, <2>2, <2>3, ConfigKept DEF WireInv, InCall
<1>9. CASE TransferEnd
  <2>1. /\ pc \in {"bits", "byte"} /\ pc' = "returned" /\ step = 1
        /\ UNCHANGED <<csOut, cs, sck>>
    BY <1>9 DEF TransferEnd, Return, wires
  <2>2. ~Active
    BY <2>1 DEF Active
  <2> QED
    BY <2>1, <2>2, ConfigKept DEF WireInv, InCall
<1> QED
  BY <1>1, <1>2, <1>3, <1>4, <1>5, <1>6, <1>7, <1>8, <1>9 DEF Next, Program

LEMMA WireInvariant == Spec => []WireInv
<1>1. Init => WireInv
  <2> SUFFICES ASSUME Init PROVE WireInv
    OBVIOUS
  <2>1. /\ pc = "init" /\ step = 1 /\ csOut = FALSE /\ cs = 0 /\ sck = 0
    BY DEF Init
  <2>2. ASSUME NEW s PROVE ~Did(s)
    BY <2>1 DEF Did
  <2> QED
    BY <2>1, <2>2 DEF WireInv, InCall
<1> QED
  BY <1>1, SpiTypes, WireStep, PTL DEF Spec

\* A selected slave sees SCK move in a transfer only. BitbangSpiLpc1768 with
\* CPOL = 1 is the exception: its init makes CS an output while the latch is
\* low.
THEOREM BusIsQuiet == Spec => QuietBus
<1> DEFINE Quiet == Selected /\ sck' # sck =>
                      pc = "bits" \/ (pc = "init" /\ hal = "bb_lpc" /\ Cpol = 1)
<1>1. TypeOK /\ StageInv /\ WireInv /\ [Next]_vars => [Quiet]_vars
  <2> SUFFICES ASSUME TypeOK, StageInv, WireInv, [Next]_vars, Selected, sck' # sck
               PROVE  pc = "bits" \/ (pc = "init" /\ hal = "bb_lpc" /\ Cpol = 1)
    OBVIOUS
  <2>1. InitStep \/ SetSck
    BY DEF Next, Program, InitRefuses, SelectSlave, TransferNull, TransferBegin,
       TransferEnd, SetMosi, HalfPeriod, GetMiso, BitStep, WriteSpdr, Poll,
       PollTimeout, ReadSpdr, WriteReadBlocking, DeselectSlave, SlaveDrives,
       Shift, BoundReached, Put, vars, wires
  <2>2. CASE SetSck
    BY <2>2 DEF SetSck, BitStep
  <2>3. CASE InitStep
    <3>1. /\ pc = "init" /\ step \in 1 .. Len(Setup) /\ hal \in AllHals
          /\ Cpol \in Bit
      BY <2>3, Polarity DEF InitStep, StageInv, TypeOK
    <3>2. Setup[step] = "clock" /\ sck' = Cpol
      BY <2>3 DEF InitStep, Put
    <3>3. Did("out") /\ ~Did("preset") /\ ~Did("high")
      BY <3>1 DEF WireInv, Selected
    <3>4. hal = "bb_lpc" /\ step = 2 /\ Setup[1] = "out"
      <4>1. CASE hal = "bb_lpc"
        <5>1. /\ Len(Setup) = 3 /\ Setup[1] = "out" /\ Setup[2] = "clock"
              /\ Setup[3] = "high"
          BY <4>1 DEF Setup, SetupBitbangLpc1768
        <5> QED
          BY <3>1, <3>2, <4>1, <5>1
      <4>2. CASE hal = "bb_rp"
        <5>1. /\ Len(Setup) = 4 /\ Setup[1] = "preset" /\ Setup[2] = "out"
              /\ Setup[3] = "clock" /\ Setup[4] = "high"
          BY <4>2 DEF Setup, SetupBitbangRp2040
        <5>2. step = 3
          BY <3>1, <3>2, <5>1
        <5> QED
          BY <3>3, <5>1, <5>2 DEF Did
      <4>3. CASE hal = "hw_lpc"
        <5>1. /\ Len(Setup) = 3 /\ Setup[1] = "out" /\ Setup[2] = "high"
              /\ Setup[3] = "clock"
          BY <4>3 DEF Setup, SetupSpiLpc1768
        <5>2. step = 3
          BY <3>1, <3>2, <5>1
        <5> QED
          BY <3>3, <5>1, <5>2 DEF Did
      <4>4. CASE hal = "hw_rp"
        <5>1. /\ Len(Setup) = 3 /\ Setup[1] = "clock" /\ Setup[2] = "out"
              /\ Setup[3] = "high"
          BY <4>4 DEF Setup, SetupSpiRp2040
        <5>2. step = 1
          BY <3>1, <3>2, <5>1
        <5> QED
          BY <3>3, <5>2 DEF Did
      <4> QED
        BY <3>1, <4>1, <4>2, <4>3, <4>4 DEF AllHals
    <3>5. sck = 0
      BY <3>1, <3>4 DEF Did, WireInv
    <3> QED
      BY <3>1, <3>2, <3>4, <3>5 DEF Bit
  <2> QED
    BY <2>1, <2>2, <2>3
<1> QED
  BY <1>1, SpiTypes, WireInvariant, PTL DEF Spec, QuietBus

-----------------------------------------------------------------------------
(* The bits of a bit-banged transfer                                       *)

\* The edge the slave samples at, and the edge it changes MISO after.
LEMMA SamplingEdge ==
  ASSUME Selected, NEW s, SlaveSees(csOut, cs, s), s # sck,
         (s # Cpol) <=> (Cpha = 0)
  PROVE  got' = Append(got, mosi) /\ k' = k /\ due' = due
BY DEF Selected, SlaveSees

LEMMA ChangingEdge ==
  ASSUME Selected, NEW s, SlaveSees(csOut, cs, s), s # sck,
         ~((s # Cpol) <=> (Cpha = 0))
  PROVE  got' = got /\ k' = k /\ due' = TRUE
BY DEF Selected, SlaveSees

LEMMA HeardMore ==
  ASSUME TypeOK, NEW n \in Nat, Heard(n), mosi = tx[n + 1],
         got' = Append(got, mosi), tx' = tx
  PROVE  Heard(n + 1)'
<1>1. got \in Seq(Bit) /\ mosi \in Bit
  BY DEF TypeOK
<1>2. /\ Len(got) = n /\ Len(got') = n + 1 /\ got'[n + 1] = mosi
      /\ \A i \in 1 .. n : got[i] = tx[i] /\ got'[i] = got[i]
  BY <1>1, AppendProperties DEF Heard
<1>3. ASSUME NEW i \in 1 .. n + 1 PROVE got'[i] = tx'[i]
  <2>1. i \in 1 .. n \/ i = n + 1
    OBVIOUS
  <2> QED
    BY <1>2, <2>1
<1> QED
  BY <1>2, <1>3 DEF Heard

LEMMA HeardKept ==
  ASSUME NEW n, Heard(n), UNCHANGED <<got, tx>>
  PROVE  Heard(n)'
BY DEF Heard

\* What BitInv says at each step.
LEMMA BitIs ==
  ASSUME TypeOK, BitInv, NEW n, n = Len(rx)
  PROVE  /\ n \in Nat /\ k \in Nat /\ due \in BOOLEAN
         /\ Heard(IF Sampled THEN n + 1 ELSE n)
         /\ Sending => mosi = tx[n + 1]
         /\ Settled => ~due
         /\ Settled /\ Asked => k = n + 1
         /\ Settled /\ ~Asked => k = n
         /\ ~Settled => k = (IF Asked THEN n + 1 ELSE n) - (IF due THEN 1 ELSE 0)
<1>1. n \in Nat /\ k \in Nat
  BY DEF TypeOK
<1>2. due \in BOOLEAN
  BY DEF TypeOK
<1>3. /\ Heard(IF Sampled THEN n + 1 ELSE n)
      /\ Sending => mosi = tx[n + 1]
      /\ Settled => ~due
  BY DEF BitInv
<1>4. (IF due THEN k + 1 ELSE k) = IF Asked THEN n + 1 ELSE n
  BY DEF BitInv, Driven
<1>5. Settled /\ Asked => k = n + 1
  BY <1>3, <1>4
<1>6. Settled /\ ~Asked => k = n
  BY <1>3, <1>4
<1>7. ~Settled => k = (IF Asked THEN n + 1 ELSE n) - (IF due THEN 1 ELSE 0)
  BY <1>1, <1>2, <1>4
<1> QED
  BY <1>1, <1>2, <1>3, <1>5, <1>6, <1>7

LEMMA BitMoves ==
  ASSUME TypeOK, TypeOK', StageInv, FillInv, WireInv, BitInv, [Next]_vars,
         SetMosi \/ HalfPeriod \/ SetSck \/ GetMiso
  PROVE  BitInv'
<1>1. PICK n : n = Len(rx)
  OBVIOUS
<1>2. /\ pc = "bits" /\ tx' = tx /\ step \in 1 .. 6 /\ Cpha \in Bit
      /\ Cpol \in Bit /\ Cpha' = Cpha /\ Cpol' = Cpol
      /\ step' = (step % 6) + 1
  BY BitFlow, ConfigKept DEF SetMosi, HalfPeriod, SetSck, GetMiso
<1>3. Selected /\ sck = IF Active THEN 1 - Cpol ELSE Cpol
  BY <1>2 DEF WireInv, InCall, Selected
<1>4. /\ n \in Nat /\ k \in Nat /\ due \in BOOLEAN
      /\ Heard(IF Sampled THEN n + 1 ELSE n)
      /\ Sending => mosi = tx[n + 1]
      /\ Settled => ~due
      /\ Settled /\ Asked => k = n + 1
      /\ Settled /\ ~Asked => k = n
      /\ ~Settled => k = (IF Asked THEN n + 1 ELSE n) - (IF due THEN 1 ELSE 0)
  <2>1. n \in Nat /\ k \in Nat /\ due \in BOOLEAN
    BY <1>1, BitIs
  <2>2. /\ Heard(IF Sampled THEN n + 1 ELSE n)
        /\ Sending => mosi = tx[n + 1]
        /\ Settled => ~due
    BY <1>1 DEF BitInv
  <2>3. Settled /\ Asked => k = n + 1
    BY <1>1, BitIs
  <2>4. Settled /\ ~Asked => k = n
    BY <1>1, BitIs
  <2>5. ~Settled => k = (IF Asked THEN n + 1 ELSE n) - (IF due THEN 1 ELSE 0)
    BY <1>1, BitIs
  <2> QED
    BY <2>1, <2>2, <2>3, <2>4, <2>5
<1>5. Driven = IF Asked THEN n + 1 ELSE n
  BY <1>1 DEF BitInv
<1>6. CASE SetMosi
  <2>1. /\ step = 1 /\ step' = 2 /\ rx' = rx /\ mosi' = tx[n + 1]
        /\ UNCHANGED <<k, due, got>>
    BY <1>1, <1>2, <1>6, BitStepsAre DEF SetMosi, BitStep
  <2>2. Heard(n)'
    BY <1>2, <1>4, <2>1, HeardKept DEF Sampled
  <2>3. ~Sampled' /\ (Asked' <=> Asked)
    BY <1>2, <2>1 DEF Sampled, Asked
  <2>4. Settled' => ~due'
    BY <1>2, <1>4, <2>1 DEF Settled
  <2>5. Driven' = IF Asked' THEN n + 1 ELSE n
    BY <1>5, <2>1, <2>3 DEF Driven
  <2> QED
    BY <1>1, <1>2, <2>1, <2>2, <2>3, <2>4, <2>5 DEF BitInv
<1>7. CASE HalfPeriod
  <2>1. /\ rx' = rx /\ UNCHANGED <<mosi, k, due, got>> /\ ~due
        /\ step \in IF Cpha = 0 THEN {2, 5} ELSE {3, 6}
    BY <1>2, <1>7, BitStepsAre DEF HalfPeriod, BitStep, wires
  <2>2. ~Sampled' /\ ~Sampled /\ (Asked' <=> Asked) /\ (Sending' => Sending)
    BY <1>2, <2>1 DEF Sampled, Asked, Sending
  <2>3. Heard(n)'
    BY <1>2, <1>4, <2>1, <2>2, HeardKept
  <2>4. Driven' = IF Asked' THEN n + 1 ELSE n
    BY <1>5, <2>1, <2>2 DEF Driven
  <2> QED
    BY <1>1, <1>2, <1>4, <2>1, <2>2, <2>3, <2>4 DEF BitInv
<1>8. CASE SetSck
  <2>0. UNCHANGED <<mosi, rx>>
    BY <1>8 DEF SetSck
  <2>1. \/ BitStep("lead") /\ SlaveSees(csOut, cs, 1 - Cpol)
        \/ BitStep("trail") /\ SlaveSees(csOut, cs, Cpol)
    BY <1>8 DEF SetSck, Put
  <2>2. PICK s : /\ SlaveSees(csOut, cs, s)
                 /\ \/ BitStep("lead") /\ s = 1 - Cpol
                    \/ BitStep("trail") /\ s = Cpol
    BY <2>1
  <2>3. \/ s = 1 - Cpol /\ step = IF Cpha = 0 THEN 3 ELSE 2
        \/ s = Cpol /\ step = IF Cpha = 0 THEN 6 ELSE 4
    BY <1>2, <2>2, BitStepsAre DEF BitStep
  <2>4. s # sck
    BY <1>2, <1>3, <2>3 DEF Active, Bit
  <2>5. CASE Asked
    <3>0. \/ Cpha = 0 /\ s = 1 - Cpol
          \/ Cpha # 0 /\ s = Cpol
      BY <1>2, <2>3, <2>5 DEF Asked
    <3>1. (s # Cpol) <=> (Cpha = 0)
      <4>1. 1 - Cpol # Cpol
        BY <1>2 DEF Bit
      <4> QED
        BY <3>0, <4>1
    <3>2. got' = Append(got, mosi) /\ k' = k /\ due' = due
      BY <1>3, <2>2, <2>4, <3>1, SamplingEdge
    <3>3. /\ ~Sampled /\ Sampled' /\ Sending /\ ~Sending' /\ Settled /\ Asked'
      BY <1>2, <2>3, <2>5 DEF Sending, Settled, Asked, Sampled
    <3>4. Heard(n + 1)'
      BY <1>2, <1>4, <2>5, <3>2, <3>3, HeardMore
    <3>5. Driven' = n + 1 /\ ~due'
      BY <1>4, <2>5, <3>2, <3>3 DEF Driven
    <3> QED
      BY <1>1, <2>0, <3>3, <3>4, <3>5 DEF BitInv
  <2>6. CASE ~Asked
    <3>0. \/ step = 6 /\ Cpha = 0 /\ s = Cpol
          \/ step = 2 /\ Cpha # 0 /\ s = 1 - Cpol
      BY <1>2, <2>3, <2>6 DEF Asked
    <3>1. ~((s # Cpol) <=> (Cpha = 0))
      <4>1. 1 - Cpol # Cpol
        BY <1>2 DEF Bit
      <4> QED
        BY <3>0, <4>1
    <3>2. got' = got /\ k' = k /\ due' = TRUE
      BY <1>3, <2>2, <2>4, <3>1, ChangingEdge
    <3>3. /\ ~Sampled /\ ~Sampled' /\ Settled /\ ~Settled' /\ ~Asked /\ Asked'
          /\ Sending' => Sending
      BY <1>2, <2>3, <3>0 DEF Sending, Settled, Asked, Sampled
    <3>4. Heard(n)'
      BY <1>2, <1>4, <3>2, <3>3, HeardKept
    <3>5. Driven' = n + 1
      BY <1>4, <3>2, <3>3 DEF Driven
    <3> QED
      BY <1>1, <1>2, <1>4, <2>0, <3>3, <3>4, <3>5 DEF BitInv
  <2> QED
    BY <2>5, <2>6
<1>9. CASE GetMiso
  <2>1. /\ step = (IF Cpha = 0 THEN 4 ELSE 5) /\ UNCHANGED <<mosi, k, due, got>>
    BY <1>2, <1>9, BitStepsAre DEF GetMiso, BitStep, wires
  <2>2. /\ Sampled /\ ~Sampled' /\ Settled /\ Asked /\ ~Asked' /\ ~Sending'
    BY <1>2, <2>1 DEF Sampled, Settled, Asked, Sending
  <2>3. Heard(n + 1)'
    BY <1>2, <1>4, <2>1, <2>2, HeardKept
  <2>4. Len(rx') = n + 1
    BY <1>1, <1>9, SampleFits
  <2>5. Driven' = n + 1 /\ ~due'
    BY <1>4, <2>1, <2>2 DEF Driven
  <2> QED
    BY <2>2, <2>3, <2>4, <2>5 DEF BitInv
<1> QED
  BY <1>6, <1>7, <1>8, <1>9
\* A call begins with a slave that has been asked for its first bit when it
\* shows it at once, and has not heard anything.
LEMMA BitsBegin ==
  ASSUME TypeOK, StageInv, WireInv, SelectSlave, [Next]_vars
  PROVE  BitInv'
<1>1. /\ pc = "free" /\ step' = step /\ step = 1 /\ rx' = <<>> /\ ~Selected
      /\ csOut' /\ csOut /\ SlaveSees(csOut, 0, sck)
  <2>1. /\ pc = "free" /\ step' = step /\ rx' = <<>> /\ csOut' = csOut
        /\ SlaveSees(csOut, 0, sck)
    BY DEF SelectSlave, Put
  <2>2. step = 1
    BY <2>1 DEF StageInv
  <2>3. csOut /\ cs = 1
    BY <2>1 DEF WireInv
  <2>4. ~Selected
    BY <2>3 DEF Selected
  <2> QED
    BY <2>1, <2>2, <2>3, <2>4
<1>2. got' = <<>> /\ k' = 0 /\ due' = (Cpha = 0)
  BY <1>1 DEF SlaveSees
<1>3. Cpha \in Bit /\ Cpha' = Cpha
  BY ConfigKept, Polarity DEF TypeOK
<1>4. /\ ~Sampled' /\ ~Sending' /\ (Asked' <=> Cpha = 0)
      /\ Settled' <=> Cpha # 0
  BY <1>1, <1>3 DEF Sampled, Sending, Asked, Settled
<1>5. Heard(0)'
  BY <1>2 DEF Heard
<1>6. Driven' = IF Cpha = 0 THEN 1 ELSE 0
  <2>1. CASE Cpha = 0
    <3>1. due'
      BY <1>2, <2>1
    <3>2. Driven' = k' + 1
      BY <3>1 DEF Driven
    <3> QED
      BY <1>2, <2>1, <3>2
  <2>2. CASE Cpha # 0
    BY <1>2, <2>2 DEF Driven
  <2> QED
    BY <2>1, <2>2
<1>7. Len(rx') = 0
  BY <1>1
<1>8. Settled' => ~due'
  BY <1>2, <1>4
<1>9. Driven' = IF Asked' THEN Len(rx') + 1 ELSE Len(rx')
  BY <1>4, <1>6, <1>7
<1>10. Heard(IF Sampled THEN Len(rx) + 1 ELSE Len(rx))'
  BY <1>4, <1>5, <1>7
<1> QED
  BY <1>4, <1>8, <1>9, <1>10 DEF BitInv

\* The slave answers: the bit it was asked for is on MISO.
LEMMA BitAnswered ==
  ASSUME TypeOK, BitInv, [Next]_vars, SlaveDrives
  PROVE  BitInv'
<1>1. /\ UNCHANGED <<step, rx, tx, got, mosi>> /\ due /\ ~due' /\ k' = k + 1
  BY DEF SlaveDrives, call, wires
<1>2. Cpha' = Cpha
  BY ConfigKept
<1>3. /\ Sampled' <=> Sampled
      /\ Sending' <=> Sending
      /\ Settled' <=> Settled
      /\ Asked' <=> Asked
  BY <1>1, <1>2 DEF Sampled, Sending, Settled, Asked
<1>4. Driven' = Driven
  BY <1>1 DEF Driven
<1>5. ASSUME NEW n, Heard(n) PROVE Heard(n)'
  BY <1>1, <1>5, HeardKept
<1> QED
  BY <1>1, <1>3, <1>4, <1>5 DEF BitInv

LEMMA BitStepInv ==
  ASSUME TypeOK, TypeOK', StageInv, FillInv, WireInv, ExchangeInv, [Next]_vars,
         pc' \in {"call", "bits"}, ~late'
  PROVE  BitInv'
<1>1. CASE SelectSlave
  BY <1>1, BitsBegin
<1>2. CASE SlaveDrives
  <2>1. pc \in {"call", "bits"} /\ ~late
    BY <1>2 DEF SlaveDrives
  <2> QED
    BY <1>2, <2>1, BitAnswered DEF ExchangeInv
<1>3. CASE SetMosi \/ HalfPeriod \/ SetSck \/ GetMiso
  <2>1. pc = "bits" /\ ~late
    BY <1>3 DEF SetMosi, HalfPeriod, SetSck, GetMiso, BitStep
  <2> QED
    BY <1>3, <2>1, BitMoves DEF ExchangeInv
<1>4. CASE TransferBegin \/ BoundReached \/ UNCHANGED vars
  <2>1. /\ UNCHANGED <<step, rx, tx, got, mosi, due, k>> /\ ~late
        /\ pc \in {"call", "bits"}
    BY <1>4 DEF TransferBegin, BoundReached, vars, call, wires, slave
  <2>2. Cpha' = Cpha
    BY ConfigKept
  <2>3. BitInv
    BY <2>1 DEF ExchangeInv
  <2> QED
    BY <2>1, <2>2, <2>3
    DEF BitInv, Heard, Driven, Sampled, Sending, Settled, Asked
<1>5. ~Shift
  <2> SUFFICES ASSUME Shift PROVE FALSE
    OBVIOUS
  <2>1. pc \in {"call", "bits"} /\ ~late /\ shifter # <<>>
    BY DEF Shift
  <2> QED
    BY <2>1 DEF ExchangeInv, WordInv
<1>6. ASSUME InitStep PROVE FALSE
  <2>1. pc = "init" /\ pc' \in {"init", "free"}
    BY <1>6 DEF InitStep
  <2> QED
    BY <2>1
<1>7. ASSUME InitRefuses \/ TransferNull \/ TransferEnd \/ WriteSpdr \/ Poll
             \/ PollTimeout \/ ReadSpdr \/ WriteReadBlocking \/ DeselectSlave
      PROVE  FALSE
  <2>1. pc' \in {"refused", "returned", "poll", "byte", "free"}
    BY <1>7 DEF InitRefuses, TransferNull, TransferEnd, WriteSpdr, Poll,
       PollTimeout, ReadSpdr, WriteReadBlocking, DeselectSlave, Return
  <2> QED
    BY <2>1
<1> QED
  BY <1>1, <1>2, <1>3, <1>4, <1>5, <1>6, <1>7 DEF Next, Program

-----------------------------------------------------------------------------
(* The words of SPI0                                                       *)

\* A word that is through has been heard and has been answered.
LEMMA WordThrough ==
  ASSUME TypeOK, FillInv, WireInv, WordInv, Shift
  PROVE  WordInv'
<1>1. PICK n : n = Len(rx)
  OBVIOUS
<1>2. n \in Nat /\ Width \in Nat
  BY <1>1, Bounds DEF TypeOK
<1>3. /\ pc = "poll" /\ pc' = "poll" /\ shifter = SubSeq(tx, n + 1, n + Width)
      /\ Heard(n) /\ shifter' = <<>> /\ spif' /\ UNCHANGED <<tx, rx, ans>>
  BY <1>1 DEF Shift, WordInv, call
<1>4. Selected
  BY <1>3 DEF WireInv, InCall, Selected
<1>5. got' = got \o shifter /\ got \in Seq(Bit) /\ shifter \in Seq(Bit)
  BY <1>4 DEF Shift, TypeOK
<1>6. /\ Len(shifter) = Width
      /\ \A i \in 1 .. Width : shifter[i] = tx[n + i]
  BY <1>1, <1>3, NextByte DEF FillInv
<1>7. Len(got) = n /\ \A i \in 1 .. n : got[i] = tx[i]
  BY <1>3 DEF Heard
<1>8. /\ Len(got') = n + Width
      /\ \A i \in 1 .. n + Width :
           got'[i] = IF i <= n THEN got[i] ELSE shifter[i - n]
  <2>1. PICK g, h : g = got /\ h = shifter
    OBVIOUS
  <2>2. /\ Len(g \o h) = Len(g) + Len(h)
        /\ \A i \in 1 .. Len(g) + Len(h) :
             (g \o h)[i] = IF i <= Len(g) THEN g[i] ELSE h[i - Len(g)]
    BY <1>5, <2>1, ConcatProperties
  <2>3. got' = g \o h /\ Len(g) = n /\ Len(h) = Width
    BY <1>5, <1>6, <1>7, <2>1
  <2> QED
    BY <2>1, <2>2, <2>3
<1>9. ASSUME NEW i \in 1 .. n + Width PROVE got'[i] = tx'[i]
  <2>1. CASE i <= n
    BY <1>2, <1>3, <1>7, <1>8, <2>1
  <2>2. CASE ~(i <= n)
    <3>1. i - n \in 1 .. Width /\ n + (i - n) = i
      BY <1>2, <2>2
    <3>2. shifter[i - n] = tx[n + (i - n)]
      BY <1>6, <3>1
    <3>3. got'[i] = shifter[i - n]
      BY <1>8, <2>2
    <3> QED
      BY <1>3, <3>1, <3>2, <3>3
  <2> QED
    BY <2>1, <2>2
<1>10. Heard(n + Width)'
  BY <1>8, <1>9 DEF Heard
<1>11. \A i \in 1 .. Width : dr'[i] = AnswerBit(n + i)'
  BY <1>3, <1>4, <1>7, ReceivedWord DEF AnswerBit
<1> QED
  BY <1>1, <1>3, <1>10, <1>11 DEF WordInv

LEMMA WordStep ==
  ASSUME TypeOK, TypeOK', StageInv, FillInv, WireInv, ExchangeInv, [Next]_vars,
         ~late'
  PROVE  WordInv'
<1>0. ~late
  BY DEF Next, Program, InitRefuses, InitStep, SelectSlave, TransferNull,
         TransferBegin, TransferEnd, SetMosi, HalfPeriod, SetSck, GetMiso,
         BitStep, WriteSpdr, Poll, PollTimeout, ReadSpdr, WriteReadBlocking,
         DeselectSlave, SlaveDrives, Shift, BoundReached, vars
<1>a. WordInv
  BY <1>0 DEF ExchangeInv
<1>1. CASE InitStep \/ InitRefuses \/ SelectSlave \/ TransferNull \/ TransferEnd
           \/ WriteReadBlocking \/ DeselectSlave
  <2>1. /\ pc \notin {"poll"} /\ pc' \notin {"byte", "poll"}
        /\ UNCHANGED <<shifter, spif>>
    BY <1>1 DEF InitStep, InitRefuses, SelectSlave, TransferNull, TransferEnd,
                WriteReadBlocking, DeselectSlave, Return, spi0
  <2> QED
    BY <1>a, <2>1 DEF WordInv
<1>2. CASE SetMosi \/ HalfPeriod \/ SetSck \/ GetMiso
  <2>1. pc = "bits" /\ pc' = "bits" /\ UNCHANGED <<shifter, spif>>
    BY <1>2 DEF SetMosi, HalfPeriod, SetSck, GetMiso, BitStep, spi0
  <2> QED
    BY <1>a, <2>1 DEF WordInv
<1>3. CASE TransferBegin
  <2>1. /\ pc = "call" /\ pc' \in {"bits", "byte", "block"}
        /\ UNCHANGED <<step, shifter, spif, tx, rx, got>> /\ step = 1
    <3>1. hal \in AllHals
      BY DEF TypeOK
    <3> QED
      BY <1>3, <3>1
      DEF TransferBegin, AllHals, call, slave, spi0, StageInv
  <2>2. BitInv /\ ~Sampled
    BY <1>0, <2>1 DEF ExchangeInv, Sampled
  <2>3. PICK n : n = Len(rx)
    OBVIOUS
  <2>4. Heard(n)'
    BY <2>1, <2>2, <2>3, HeardKept DEF BitInv
  <2> QED
    BY <1>a, <2>1, <2>3, <2>4 DEF WordInv
<1>4. CASE WriteSpdr
  <2>1. /\ pc = "byte" /\ pc' = "poll" /\ shifter = <<>> /\ ~spif
        /\ shifter' = SubSeq(tx, Len(rx) + 1, Len(rx) + Width)
        /\ UNCHANGED <<tx, rx, spif, got>> /\ Heard(Len(rx))
    BY <1>4, <1>a DEF WriteSpdr, WordInv, call, slave
  <2>2. PICK n : n = Len(rx)
    OBVIOUS
  <2>3. Heard(n)'
    BY <2>1, <2>2, HeardKept
  <2> QED
    BY <2>1, <2>2, <2>3 DEF WordInv
<1>5. CASE ReadSpdr
  <2>1. /\ pc = "poll" /\ pc' = "byte" /\ spif /\ ~spif' /\ shifter = <<>>
        /\ UNCHANGED <<shifter, tx, got>> /\ Heard(Len(rx) + Width)
    BY <1>5, <1>a DEF ReadSpdr, WordInv, slave, TypeOK
  <2>2. PICK n : n = Len(rx) + Width
    OBVIOUS
  <2>3. Heard(n)'
    BY <2>1, <2>2, HeardKept
  <2>4. Len(rx') = n
    BY <1>5, <2>2, ReadFits
  <2> QED
    BY <2>1, <2>3, <2>4 DEF WordInv
<1>6. CASE Poll \/ SlaveDrives \/ BoundReached \/ UNCHANGED vars
  <2>1. UNCHANGED <<pc, tx, rx, got, ans, shifter, spif, dr>>
    BY <1>6 DEF Poll, SlaveDrives, BoundReached, vars, call, spi0, slave
  <2> QED
    BY <1>a, <2>1 DEF WordInv, Heard, AnswerBit
<1>7. CASE Shift
  BY <1>7, <1>a, WordThrough
<1>8. ~PollTimeout
  BY DEF PollTimeout
<1> QED
  BY <1>1, <1>2, <1>3, <1>4, <1>5, <1>6, <1>7, <1>8 DEF Next, Program
-----------------------------------------------------------------------------
(* The exchange                                                            *)

LEMMA LateStep ==
  ASSUME TypeOK, StageInv, ExchangeInv, [Next]_vars
  PROVE  (late => late') /\ (late' => hal' = "hw_lpc")
<1>1. CASE PollTimeout
  <2>1. pc = "poll" /\ late'
    BY <1>1 DEF PollTimeout
  <2> QED
    BY <2>1, ConfigKept DEF StageInv
<1>2. CASE ~PollTimeout
  <2>1. late' = late
    BY <1>2 DEF Next, Program, InitRefuses, InitStep, SelectSlave, TransferNull,
       TransferBegin, TransferEnd, SetMosi, HalfPeriod, SetSck, GetMiso,
       BitStep, WriteSpdr, Poll, ReadSpdr, WriteReadBlocking, DeselectSlave,
       SlaveDrives, Shift, BoundReached, vars
  <2> QED
    BY <2>1, ConfigKept DEF ExchangeInv
<1> QED
  BY <1>1, <1>2

\* MISO shows the bit of the answer the slave is at.
LEMMA MisoStep ==
  ASSUME TypeOK, StageInv, WireInv, ExchangeInv, [Next]_vars, InCall', k' > 0
  PROVE  so' = AnswerBit(k)'
<1>1. CASE SlaveDrives
  BY <1>1 DEF SlaveDrives, call, AnswerBit
<1>2. CASE SelectSlave
  <2>1. ~Selected /\ csOut
    BY <1>2 DEF SelectSlave, WireInv, Selected
  <2>2. k' = 0
    BY <1>2, <2>1 DEF SelectSlave, Put, SlaveSees
  <2> QED
    BY <2>2
<1>3. CASE SetSck
  <2>1. pc = "bits" /\ UNCHANGED <<so, ans>>
    BY <1>3 DEF SetSck, BitStep
  <2>2. csOut /\ cs = 0
    BY <2>1 DEF WireInv, InCall
  <2>3. PICK s : SlaveSees(csOut, cs, s)
    BY <1>3 DEF SetSck, Put
  <2>4. k' = k
    BY <2>2, <2>3 DEF SlaveSees, Selected
  <2> QED
    BY <2>1, <2>4 DEF ExchangeInv, InCall, AnswerBit
<1>4. CASE InitStep \/ InitRefuses \/ DeselectSlave
  <2>1. pc' \in {"init", "free", "refused"}
    BY <1>4 DEF InitStep, InitRefuses, DeselectSlave
  <2> QED
    BY <2>1 DEF InCall
<1>5. CASE TransferNull \/ TransferBegin \/ TransferEnd \/ SetMosi \/ HalfPeriod
           \/ GetMiso \/ WriteSpdr \/ Poll \/ PollTimeout \/ ReadSpdr
           \/ WriteReadBlocking
  <2>1. InCall /\ UNCHANGED <<k, so, ans>>
    BY <1>5 DEF TransferNull, TransferBegin, TransferEnd, SetMosi, HalfPeriod,
       GetMiso, BitStep, WriteSpdr, Poll, PollTimeout, ReadSpdr,
       WriteReadBlocking, InCall, call, slave
  <2> QED
    BY <2>1 DEF ExchangeInv, AnswerBit
<1>6. CASE Shift \/ BoundReached \/ UNCHANGED vars
  <2>1. UNCHANGED <<pc, k, so, ans>>
    BY <1>6 DEF Shift, BoundReached, vars, call, slave
  <2> QED
    BY <2>1 DEF ExchangeInv, AnswerBit, InCall
<1> QED
  BY <1>1, <1>2, <1>3, <1>4, <1>5, <1>6 DEF Next, Program

\* What is read back into rx is what the slave answered.
LEMMA ReadBackStep ==
  ASSUME TypeOK, TypeOK', StageInv, FillInv, WireInv, ExchangeInv, [Next]_vars,
         ~late'
  PROVE  ReadBack'
<1>1. ~late /\ ReadBack
  BY LateStep DEF ExchangeInv
<1>2. PICK n : n = Len(rx)
  OBVIOUS
<1>3. n \in Nat /\ rx \in Seq(Bit) /\ DOMAIN rx = 1 .. n
  BY <1>2 DEF TypeOK
<1>4. \A i \in 1 .. n : rx[i] = AnswerBit(i)
  BY <1>1, <1>3 DEF ReadBack
<1>5. rx' \in Seq(Bit) /\ DOMAIN rx' = 1 .. Len(rx')
  BY DEF TypeOK
<1>6. CASE GetMiso
  <2>1. /\ Sampled /\ Len(rx') = n + 1 /\ rx'[n + 1] = so
        /\ \A i \in 1 .. n : rx'[i] = rx[i]
    BY <1>2, <1>6, SampleFits
  <2>2. pc = "bits" /\ step \in 1 .. 6 /\ ans' = ans
    BY <1>6, BitFlow DEF GetMiso
  <2>3. Settled /\ Asked
    BY <2>1, <2>2 DEF Sampled, Settled, Asked
  <2>4. BitInv
    BY <1>1, <2>2 DEF ExchangeInv
  <2>5. k = n + 1
    BY <1>2, <2>3, <2>4, BitIs
  <2>6. so = AnswerBit(n + 1)
    <3>1. InCall /\ k > 0
      BY <1>3, <2>2, <2>5 DEF InCall
    <3> QED
      BY <2>5, <3>1 DEF ExchangeInv
  <2>7. ASSUME NEW i \in 1 .. n + 1 PROVE rx'[i] = AnswerBit(i)
    <3>1. i \in 1 .. n \/ i = n + 1
      BY <1>3
    <3> QED
      BY <1>4, <2>1, <2>6, <3>1
  <2> QED
    BY <1>5, <2>1, <2>2, <2>7 DEF ReadBack, AnswerBit
<1>7. CASE ReadSpdr
  <2>1. /\ pc = "poll" /\ spif /\ ans' = ans
        /\ \A i \in 1 .. Width : dr[i] = AnswerBit(n + i)
    BY <1>1, <1>2, <1>7 DEF ReadSpdr, ExchangeInv, WordInv
  <2>2. /\ Len(rx') = n + Width /\ Width \in Nat
        /\ \A i \in 1 .. n + Width :
             rx'[i] = IF i <= n THEN rx[i] ELSE dr[i - n]
    BY <1>2, <1>7, ReadFits, Bounds
  <2>3. ASSUME NEW i \in 1 .. n + Width PROVE rx'[i] = AnswerBit(i)
    <3>1. CASE i <= n
      BY <1>3, <1>4, <2>2, <3>1
    <3>2. CASE ~(i <= n)
      <4>1. i - n \in 1 .. Width /\ n + (i - n) = i
        BY <1>3, <2>2, <3>2
      <4>2. dr[i - n] = AnswerBit(n + (i - n))
        BY <2>1, <4>1
      <4> QED
        BY <2>2, <3>2, <4>1, <4>2
    <3> QED
      BY <3>1, <3>2
  <2> QED
    BY <1>5, <2>1, <2>2, <2>3 DEF ReadBack, AnswerBit
<1>8. CASE WriteReadBlocking
  <2>1. /\ Len(rx') = Len(tx) /\ ans' = ans
        /\ \A i \in 1 .. Len(tx) : rx'[i] = AnswerBit(i)
    BY <1>8, BlockRead DEF WriteReadBlocking
  <2> QED
    BY <1>5, <2>1 DEF ReadBack, AnswerBit
<1>9. CASE SelectSlave \/ DeselectSlave
  <2>1. Len(rx') = 0
    BY <1>9 DEF SelectSlave, DeselectSlave
  <2> QED
    BY <1>5, <2>1 DEF ReadBack
<1>10. CASE InitStep \/ InitRefuses \/ TransferNull \/ TransferBegin
            \/ TransferEnd \/ SetMosi \/ HalfPeriod \/ SetSck
  <2>1. UNCHANGED <<rx, ans>>
    BY <1>10 DEF InitStep, InitRefuses, TransferNull, TransferBegin,
       TransferEnd, SetMosi, HalfPeriod, SetSck, BitStep, call
  <2> QED
    BY <1>1, <2>1 DEF ReadBack, AnswerBit
<1>11. CASE WriteSpdr \/ Poll \/ PollTimeout \/ SlaveDrives \/ Shift
            \/ BoundReached \/ UNCHANGED vars
  <2>1. UNCHANGED <<rx, ans>>
    BY <1>11 DEF WriteSpdr, Poll, PollTimeout, SlaveDrives, Shift,
       BoundReached, call, vars
  <2> QED
    BY <1>1, <2>1 DEF ReadBack, AnswerBit
<1> QED
  BY <1>6, <1>7, <1>8, <1>9, <1>10, <1>11 DEF Next, Program

\* A transfer that returns OK has sent and received every bit of tx.
LEMMA ReturnStep ==
  ASSUME TypeOK, TypeOK', StageInv, FillInv, ExchangeInv, [Next]_vars,
         pc' = "returned", status' = "OK", ~late'
  PROVE  Len(rx') = Len(tx') /\ Heard(Len(tx))'
<1>1. ~late
  BY LateStep
<1>2. CASE TransferEnd
  <2>1. /\ pc \in {"bits", "byte"} /\ step = 1 /\ Len(rx) = Len(tx)
        /\ UNCHANGED <<tx, rx, got>>
    BY <1>2 DEF TransferEnd, slave
  <2>2. Heard(Len(tx))
    <3>1. CASE pc = "bits"
      <4>1. BitInv /\ ~Sampled
        BY <1>1, <2>1, <3>1 DEF ExchangeInv, Sampled
      <4> QED
        BY <2>1, <4>1 DEF BitInv
    <3>2. CASE pc = "byte"
      BY <1>1, <2>1, <3>2 DEF ExchangeInv, WordInv
    <3> QED
      BY <2>1, <3>1, <3>2
  <2> QED
    BY <2>1, <2>2 DEF Heard
<1>3. CASE WriteReadBlocking
  BY <1>3, BlockRead DEF WriteReadBlocking, Heard
<1>4. CASE BoundReached \/ SlaveDrives \/ UNCHANGED vars
  <2>1. UNCHANGED <<pc, status, tx, rx, got>>
    BY <1>4 DEF BoundReached, SlaveDrives, vars, call, slave
  <2> QED
    BY <1>1, <2>1 DEF ExchangeInv, Heard
<1>5. ASSUME Shift PROVE FALSE
  <2>1. pc' = pc /\ shifter # <<>>
    BY <1>5 DEF Shift
  <2> QED
    BY <1>1, <2>1 DEF ExchangeInv, WordInv
<1>6. ASSUME TransferNull \/ PollTimeout PROVE FALSE
  BY <1>6 DEF TransferNull, PollTimeout, Return
<1>7. ASSUME InitRefuses \/ InitStep \/ SelectSlave \/ TransferBegin \/ WriteSpdr
             \/ Poll \/ ReadSpdr \/ DeselectSlave
      PROVE  FALSE
  <2>1. hal \in AllHals
    BY DEF TypeOK
  <2>2. pc' # "returned"
    BY <1>7, <2>1 DEF InitRefuses, InitStep, SelectSlave, TransferBegin,
       WriteSpdr, Poll, ReadSpdr, DeselectSlave, AllHals
  <2> QED
    BY <2>2
<1>8. ASSUME SetMosi \/ HalfPeriod \/ SetSck \/ GetMiso PROVE FALSE
  <2>1. pc = "bits" /\ pc' = pc
    BY <1>8 DEF SetMosi, HalfPeriod, SetSck, GetMiso, BitStep
  <2> QED
    BY <2>1
<1> QED
  BY <1>2, <1>3, <1>4, <1>5, <1>6, <1>7, <1>8 DEF Next, Program

\* The inductive invariant of the exchange, in every mode and on every HAL.
THEOREM ExchangeInvariant == Spec => []ExchangeInv
<1>1. Init => ExchangeInv
  <2> SUFFICES ASSUME Init PROVE ExchangeInv
    OBVIOUS
  <2>1. /\ pc = "init" /\ late = FALSE /\ shifter = <<>> /\ spif = FALSE
        /\ rx = <<>> /\ k = 0
    BY DEF Init
  <2>2. WordInv
    BY <2>1 DEF WordInv
  <2>3. ReadBack
    BY <2>1 DEF ReadBack
  <2> QED
    BY <2>1, <2>2, <2>3 DEF ExchangeInv, InCall
<1>2. TypeOK /\ TypeOK' /\ StageInv /\ FillInv /\ WireInv /\ ExchangeInv
      /\ [Next]_vars => ExchangeInv'
  <2> SUFFICES ASSUME TypeOK, TypeOK', StageInv, FillInv, WireInv, ExchangeInv,
                      [Next]_vars
               PROVE  ExchangeInv'
    OBVIOUS
  <2>1. late' => hal' = "hw_lpc"
    BY LateStep
  <2>2. ~late' => WordInv'
    BY WordStep
  <2>3. pc' \in {"call", "bits"} /\ ~late' => BitInv'
    BY BitStepInv
  <2>4. InCall' /\ k' > 0 => so' = AnswerBit(k)'
    BY MisoStep
  <2>5. ~late' => ReadBack'
    BY ReadBackStep
  <2>6. pc' = "returned" /\ status' = "OK" /\ ~late' =>
          Len(rx') = Len(tx') /\ Heard(Len(tx))'
    BY ReturnStep
  <2> QED
    BY <2>1, <2>2, <2>3, <2>4, <2>5, <2>6 DEF ExchangeInv
<1> QED
  BY <1>1, <1>2, SpiTypes, WireInvariant, PTL DEF Spec

\* A transfer that returns OK, in any of the four modes and on any of the four
\* HALs, has exchanged exactly its bits; SpiLpc1768 only until it times out.
THEOREM TransferExact == Spec => []ExchangeExact
<1>1. TypeOK /\ StageInv /\ ExchangeInv => ExchangeExact
  <2> SUFFICES ASSUME TypeOK, StageInv, ExchangeInv, status = "OK", ~late
               PROVE  /\ got = tx
                      /\ Len(rx) = Len(tx)
                      /\ \A i \in DOMAIN rx : rx[i] = AnswerBit(i)
    BY DEF ExchangeExact
  <2>1. pc = "returned"
    BY DEF StageInv
  <2>2. Len(rx) = Len(tx) /\ Heard(Len(tx)) /\ ReadBack
    BY <2>1 DEF ExchangeInv
  <2>3. got \in Seq(Bit) /\ tx \in Seq(Bit)
    BY DEF TypeOK
  <2>4. Len(got) = Len(tx) /\ \A i \in 1 .. Len(tx) : got[i] = tx[i]
    BY <2>2 DEF Heard
  <2>5. got = tx
    BY <2>3, <2>4, SeqEqual
  <2> QED
    BY <2>2, <2>5 DEF ReadBack
<1> QED
  BY <1>1, SpiTypes, ExchangeInvariant, PTL
-----------------------------------------------------------------------------
(* The clock                                                               *)

LEMMA Division ==
  ASSUME NEW a \in Nat, NEW c \in Nat \ {0}
  PROVE  /\ a \div c \in Nat
         /\ (a \div c) * c <= a
         /\ a < (a \div c) * c + c
OBVIOUS

\* S0SPCCR holds eight bits: the divisor of any clock above 94.4 kHz fits.
SlowestClock == PclkHz \div 254 + 1

LEMMA DivisorHolds ==
  ASSUME clock \in Nat, clock >= SlowestClock
  PROVE  Divisor * clock >= PclkHz
<1>1. PICK p, a : p = PclkHz /\ a = p + clock - 1
  OBVIOUS
<1>2. p = 24000000
  BY <1>1, SMT DEF PclkHz
<1>3. clock > 0 /\ p < 254 * clock
  BY <1>1, <1>2, SMT DEF SlowestClock
<1>4. PICK d : d = a \div clock
  OBVIOUS
<1>5. /\ d \in Nat /\ d * clock <= a /\ a < d * clock + clock
  <2>1. a \in Nat /\ clock \in Nat \ {0}
    BY <1>1, <1>2, <1>3, SMT
  <2> QED
    BY <1>4, <2>1, Division, SMT
<1>6. d * clock >= p
  BY <1>1, <1>2, <1>3, <1>5, SMT
<1>7. d <= 254
  <2>1. d * clock < 255 * clock
    BY <1>1, <1>2, <1>3, <1>5, SMT
  <2> QED
    BY <1>3, <1>5, <2>1, SMT
<1>8. PICK m : m = IF d < 8 THEN 8 ELSE d
  OBVIOUS
<1>9. PICK e : e = m + (m % 2)
  OBVIOUS
<1>10. e \in d .. 254 /\ e \in Nat
  BY <1>5, <1>7, <1>8, <1>9, SMT
<1>11. Divisor = e
  <2>1. Divisor = e % 256
    BY <1>1, <1>4, <1>8, <1>9, SMT DEF Divisor
  <2> QED
    BY <1>10, <2>1, SMT
<1>12. e * clock >= d * clock
  BY <1>3, <1>5, <1>10, SMT
<1>13. e * clock \in Nat /\ d * clock \in Nat /\ p \in Nat
  BY <1>2, <1>5, <1>10, SMT
<1>14. e * clock >= p
  BY <1>6, <1>12, <1>13, SMT
<1> QED
  BY <1>1, <1>11, <1>14, SMT

\* Below, the register keeps the low bits: asked for 50 kHz, SPI0 runs at
\* twice that.
LEMMA DivisorTruncates ==
  ASSUME clock = 50000
  PROVE  Divisor * clock < PclkHz
BY SMT DEF Divisor, PclkHz

LEMMA HalfPeriodHolds ==
  ASSUME clock \in Nat \ {0}
  PROVE  2 * HalfPeriodUs * clock >= 1000000
<1>1. PICK n : n = 500000000 \div clock
  OBVIOUS
<1>2. n \in Nat /\ 500000000 < n * clock + clock
  BY <1>1, Division, SMT
<1>3. PICK h : h = (IF n < 1000 THEN 1000 ELSE n) \div 1000
  OBVIOUS
<1>4. h \in Nat /\ n < 1000 * h + 1000
  BY <1>2, <1>3, SMT
<1>5. n + 1 <= 1000 * (h + 1)
  BY <1>2, <1>4, SMT
<1>6. (n + 1) * clock <= 1000 * ((h + 1) * clock)
  BY <1>2, <1>4, <1>5, SMT
<1>7. HalfPeriodUs = h + 1
  BY <1>1, <1>3, SMT DEF HalfPeriodUs
<1> QED
  BY <1>2, <1>4, <1>6, <1>7, SMT

\* SCK is never faster than init was asked for, provided that SpiLpc1768 is
\* asked for a clock its divisor register can hold, or refuses.
THEOREM ClockIsHeld ==
  ASSUME \A a \in InitArgs :
           "hw_lpc" \in Hals => a[2] = 0 \/ a[2] >= SlowestClock
  PROVE  Spec => []ClockHeld
<1>1. TypeOK /\ StageInv => ClockHeld
  <2> SUFFICES ASSUME TypeOK, StageInv, pc \notin {"init", "refused"}
               PROVE  /\ hal = "hw_lpc" => Divisor * clock >= PclkHz
                      /\ hal = "bb_rp"  => 2 * HalfPeriodUs * clock >= 1000000
    BY SMT DEF ClockHeld
  <2>1. /\ <<mode, clock>> \in InitArgs /\ hal \in Hals
        /\ <<mode, clock>>[2] = clock
    BY DEF TypeOK
  <2>2. clock \in Nat /\ clock # 0
    BY <2>1, SMT DEF StageInv, Refuses
  <2>3. hal = "hw_lpc" => clock >= SlowestClock
    BY <2>1, <2>2, SMT
  <2> QED
    BY <2>2, <2>3, DivisorHolds, HalfPeriodHolds, SMT
<1> QED
  BY <1>1, SpiTypes, PTL
=============================================================================
