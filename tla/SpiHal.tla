------------------------------- MODULE SpiHal -------------------------------
(***************************************************************************)
(* The four implementations of ISpi, wired to one slave: BitbangSpiLpc1768 *)
(* and BitbangSpiRp2040 line change by line change, SpiLpc1768 register    *)
(* access by register access, SpiRp2040 around the SDK's blocking call.    *)
(* A program initialises one of them and runs transactions: select,        *)
(* transfer, deselect.  A byte has Width bits, the first bit first.        *)
(*                                                                         *)
(* The slave is a shift register of the same SPI mode.  It samples MOSI on *)
(* one edge of SCK and changes MISO some time after the other, or after it *)
(* is selected; half a clock period is long enough for that change.        *)
(***************************************************************************)
EXTENDS Integers, Sequences

CONSTANTS
  Hals,       \* the implementations to run: a subset of AllHals
  InitArgs,   \* arguments of init: pairs of mode and clock_hz
  Width,      \* bits of a byte: 8
  MaxLen,     \* bound: bytes of a transfer
  Polls,      \* reads of S0SPSR before TIMEOUT: timeout_ms * 2000; the
              \* callers pass no timeout of 0, which would wait for ever
  Calls       \* bound: transactions of the program

AllHals == {"bb_lpc", "bb_rp", "hw_lpc", "hw_rp"}

ASSUME SpiAssumption ==
  /\ Hals \subseteq AllHals
  /\ InitArgs \subseteq (0 .. 255) \X Nat
  /\ Width \in Nat \ {0} /\ MaxLen \in Nat /\ Polls \in Nat /\ Calls \in Nat

VARIABLES
  hal, mode, clock,        \* what is initialised, and how
  pc, step,                \* where the program is
  csOut, cs, sck, mosi,    \* CS is an output; output levels
  tx, rx, status,          \* arguments and result of transfer
  elapsed, late, calls,    \* polls; a transfer has timed out; transactions
  shifter, dr, spif,       \* SPI0: word being shifted, word received, SPIF
  ans, k, so, due, got     \* slave: answer, bits of it given, MISO, a
                           \* change of MISO is due, bits it sampled

config == <<hal, mode, clock>>
call   == <<tx, rx, status, ans>>
spi0   == <<shifter, dr, spif>>
slave  == <<k, so, due, got>>
wires  == <<csOut, cs, sck, mosi>>
vars   == <<config, pc, step, wires, call, elapsed, late, calls, spi0, slave>>

Bit  == {0, 1}
Cpol == (mode \div 2) % 2
Cpha == mode % 2
Selected == csOut /\ cs = 0

-----------------------------------------------------------------------------
(* The slave                                                               *)

SlaveSees(out, c, s) ==
  LET on      == out /\ c = 0
      samples == (s # Cpol) <=> (Cpha = 0)
  IN  \/ /\ on /\ ~Selected
         /\ got' = <<>> /\ k' = 0 /\ due' = (Cpha = 0)
      \/ /\ on /\ Selected /\ s # sck /\ samples
         /\ got' = Append(got, mosi) /\ UNCHANGED <<k, due>>
      \/ /\ on /\ Selected /\ s # sck /\ ~samples
         /\ due' = TRUE /\ UNCHANGED <<k, got>>
      \/ /\ ~on \/ (Selected /\ s = sck)
         /\ UNCHANGED <<k, due, got>>

AnswerBit(i) == IF i <= Len(ans) THEN ans[i] ELSE 1

SlaveDrives ==
  /\ due /\ due' = FALSE
  /\ k' = k + 1 /\ so' = AnswerBit(k + 1)
  /\ UNCHANGED <<config, pc, step, wires, call, elapsed, late, calls, spi0, got>>

\* One write to the output latches or to the direction of the pins.
Put(out, c, s) ==
  /\ csOut' = out /\ cs' = c /\ sck' = s
  /\ SlaveSees(out, c, s)

-----------------------------------------------------------------------------
(* init                                                                    *)

PclkHz == 24000000

Refuses ==
  \/ clock = 0 \/ mode > 3
  \/ hal = "bb_lpc" /\ clock > 4000000
  \/ hal = "hw_lpc" /\ clock > PclkHz \div 8

\* The order in which the pins are set up: CS becomes an output, SCK is set
\* to its idle level, CS is raised.  The latches are low before.
SetupBitbangLpc1768 == <<"out", "clock", "high">>
SetupNoPreset       == <<"out", "clock", "high">>
SetupBitbangRp2040  == <<"preset", "out", "clock", "high">>
SetupSpiLpc1768     == <<"out", "high", "clock">>
SetupSpiRp2040      == <<"clock", "out", "high">>

Setup ==
  CASE hal = "bb_lpc" -> SetupBitbangLpc1768
    [] hal = "bb_rp"  -> SetupBitbangRp2040
    [] hal = "hw_lpc" -> SetupSpiLpc1768
    [] hal = "hw_rp"  -> SetupSpiRp2040

InitRefuses ==
  /\ pc = "init" /\ step = 1 /\ Refuses
  /\ pc' = "refused" /\ status' = "HW_ERROR"
  /\ UNCHANGED <<config, step, wires, tx, rx, ans, elapsed, late, calls,
                 spi0, slave>>

InitStep ==
  /\ pc = "init" /\ ~Refuses
  /\ LET s == Setup[step]
     IN  Put(csOut \/ s = "out",
             IF s \in {"preset", "high"} THEN 1 ELSE cs,
             IF s = "clock" THEN Cpol ELSE sck)
  /\ IF step < Len(Setup)
     THEN step' = step + 1 /\ UNCHANGED pc
     ELSE step' = 1 /\ pc' = "free"
  /\ UNCHANGED <<config, mosi, call, elapsed, late, calls, spi0, so>>

DivisorTruncated == PclkHz \div clock

\* S0SPCCR: rounded up, at least 8, even; the register has eight bits.
Divisor ==
  LET d == (PclkHz + clock - 1) \div clock
      m == IF d < 8 THEN 8 ELSE d
  IN  (m + (m % 2)) % 256

\* What sleep_us is given for half a period.
HalfPeriodUs ==
  LET ns == 500000000 \div clock
  IN  (IF ns < 1000 THEN 1000 ELSE ns) \div 1000 + 1

-----------------------------------------------------------------------------
(* Transactions                                                            *)

Bits(n)  == [1 .. n * Width -> Bit]
Messages == UNION {Bits(n) : n \in 0 .. MaxLen}

SelectSlave ==
  /\ pc = "free" /\ calls < Calls
  /\ tx' \in Messages /\ ans' \in Bits(MaxLen)
  /\ rx' = <<>> /\ status' = "none"
  /\ Put(csOut, 0, sck)
  /\ pc' = "call"
  /\ UNCHANGED <<config, step, mosi, elapsed, late, calls, spi0, so>>

Return(s) == status' = s /\ pc' = "returned"

TransferNull ==
  /\ pc = "call" /\ Return("HW_ERROR")
  /\ UNCHANGED <<config, step, wires, tx, rx, ans, elapsed, late, calls,
                 spi0, slave>>

TransferBegin ==
  /\ pc = "call"
  /\ pc' = CASE hal \in {"bb_lpc", "bb_rp"} -> "bits"
             [] hal = "hw_lpc"              -> "byte"
             [] hal = "hw_rp"               -> "block"
  /\ UNCHANGED <<config, step, wires, call, elapsed, late, calls, spi0, slave>>

\* All bytes are through.
TransferEnd ==
  /\ pc \in {"bits", "byte"} /\ step = 1 /\ Len(rx) = Len(tx)
  /\ Return("OK")
  /\ UNCHANGED <<config, step, wires, tx, rx, ans, elapsed, late, calls,
                 spi0, slave>>

DeselectSlave ==
  /\ pc = "returned"
  /\ Put(csOut, 1, sck)
  /\ pc' = "free" /\ calls' = calls + 1
  /\ tx' = <<>> /\ rx' = <<>> /\ ans' = <<>> /\ status' = "none"
  /\ UNCHANGED <<config, step, mosi, elapsed, late, spi0, so>>

-----------------------------------------------------------------------------
(* transfer, bit-banged                                                    *)

BitStepsEarly ==
  IF Cpha = 0
  THEN <<"mosi", "wait", "lead", "sample", "wait", "trail">>
  ELSE <<"mosi", "lead", "sample", "wait", "trail", "wait">>

BitSteps ==
  IF Cpha = 0
  THEN <<"mosi", "wait", "lead", "sample", "wait", "trail">>
  ELSE <<"mosi", "lead", "wait", "trail", "sample", "wait">>

BitStep(s) ==
  /\ pc = "bits" /\ (step > 1 \/ Len(rx) < Len(tx))
  /\ BitSteps[step] = s
  /\ step' = (step % 6) + 1
  /\ UNCHANGED <<config, pc, tx, ans, status, elapsed, late, calls, spi0, so>>

SetMosi ==
  /\ BitStep("mosi") /\ mosi' = tx[Len(rx) + 1]
  /\ UNCHANGED <<csOut, cs, sck, rx, k, due, got>>

HalfPeriod ==
  /\ BitStep("wait") /\ ~due
  /\ UNCHANGED <<wires, rx, k, due, got>>

SetSck ==
  /\ \/ BitStep("lead")  /\ Put(csOut, cs, 1 - Cpol)
     \/ BitStep("trail") /\ Put(csOut, cs, Cpol)
  /\ UNCHANGED <<mosi, rx>>

GetMiso ==
  /\ BitStep("sample") /\ rx' = Append(rx, so)
  /\ UNCHANGED <<wires, k, due, got>>

-----------------------------------------------------------------------------
(* transfer, SPI0 of the LPC1768                                           *)

\* A write while a word is being shifted is a write collision and is lost.
WriteSpdr ==
  /\ pc = "byte" /\ Len(rx) < Len(tx)
  /\ shifter' = IF shifter = <<>>
                THEN SubSeq(tx, Len(rx) + 1, Len(rx) + Width) ELSE shifter
  /\ elapsed' = 0 /\ pc' = "poll"
  /\ UNCHANGED <<config, step, wires, call, late, calls, dr, spif, slave>>

Shift ==
  /\ shifter # <<>> /\ shifter' = <<>> /\ spif' = TRUE
  /\ dr' = [i \in 1 .. Width |-> IF Selected THEN AnswerBit(Len(got) + i) ELSE 1]
  /\ got' = IF Selected THEN got \o shifter ELSE got
  /\ UNCHANGED <<config, pc, step, wires, call, elapsed, late, calls,
                 k, so, due>>

GivesUpLate == elapsed > Polls
GivesUp == elapsed >= Polls
ElapsedKept == elapsed
NextElapsed == elapsed + 1

Poll ==
  /\ pc = "poll" /\ ~spif /\ ~GivesUp
  /\ elapsed' = NextElapsed
  /\ UNCHANGED <<config, pc, step, wires, call, late, calls, spi0, slave>>

PollTimeout ==
  /\ pc = "poll" /\ ~spif /\ GivesUp
  /\ Return("TIMEOUT") /\ late' = TRUE /\ elapsed' = 0
  /\ UNCHANGED <<config, step, wires, tx, rx, ans, calls, spi0, slave>>

ReadSpdr ==
  /\ pc = "poll" /\ spif
  /\ rx' = rx \o dr /\ spif' = FALSE
  /\ pc' = "byte" /\ elapsed' = 0
  /\ UNCHANGED <<config, step, wires, tx, ans, status, late, calls,
                 shifter, dr, slave>>

-----------------------------------------------------------------------------
(* transfer, SPI0 of the RP2040                                            *)

WriteReadBlocking ==
  /\ pc = "block"
  /\ rx' = [i \in 1 .. Len(tx) |-> AnswerBit(i)]
  /\ got' = tx
  /\ Return("OK")
  /\ UNCHANGED <<config, step, wires, tx, ans, elapsed, late, calls, spi0,
                 k, so, due>>

-----------------------------------------------------------------------------
Init ==
  /\ hal \in Hals /\ \E a \in InitArgs : mode = a[1] /\ clock = a[2]
  /\ pc = "init" /\ step = 1
  /\ csOut = FALSE /\ cs = 0 /\ sck = 0 /\ mosi = 0
  /\ tx = <<>> /\ rx = <<>> /\ status = "none" /\ ans = <<>>
  /\ elapsed = 0 /\ late = FALSE /\ calls = 0
  /\ shifter = <<>> /\ dr = <<>> /\ spif = FALSE
  /\ k = 0 /\ so = 1 /\ due = FALSE /\ got = <<>>

Program ==
  \/ InitRefuses \/ InitStep
  \/ SelectSlave \/ TransferNull \/ TransferBegin \/ TransferEnd
  \/ SetMosi \/ HalfPeriod \/ SetSck \/ GetMiso
  \/ WriteSpdr \/ Poll \/ PollTimeout \/ ReadSpdr \/ WriteReadBlocking
  \/ DeselectSlave

\* The program has made its transactions, or halts with its error LED on.
BoundReached ==
  /\ pc = "refused" \/ (pc = "free" /\ calls = Calls)
  /\ UNCHANGED vars

Next == Program \/ SlaveDrives \/ Shift \/ BoundReached

Spec == Init /\ [][Next]_vars
\* The program runs and the slave answers an edge; SPI0 may stall for ever.
FairSpec == Spec /\ WF_vars(Program) /\ WF_vars(SlaveDrives)

-----------------------------------------------------------------------------
\* Levels, counters and buffers stay in their ranges; the poll counter stays
\* within the timeout and no transfer fills more of rx than it was given.
TypeOK ==
  /\ hal \in Hals /\ <<mode, clock>> \in InitArgs
  /\ pc \in {"init", "refused", "free", "call", "bits", "byte", "poll",
             "block", "returned"}
  /\ step \in 1 .. 6
  /\ csOut \in BOOLEAN /\ cs \in Bit /\ sck \in Bit /\ mosi \in Bit
  /\ tx \in Seq(Bit) /\ rx \in Seq(Bit) /\ Len(rx) <= Len(tx)
  /\ status \in {"none", "OK", "TIMEOUT", "HW_ERROR"}
  /\ elapsed \in 0 .. Polls /\ late \in BOOLEAN /\ calls \in 0 .. Calls
  /\ shifter \in Seq(Bit) /\ dr \in Seq(Bit) /\ spif \in BOOLEAN
  /\ ans \in Seq(Bit) /\ k \in Nat /\ so \in Bit /\ due \in BOOLEAN
  /\ got \in Seq(Bit)

\* In all four modes a transfer that returns OK has exchanged exactly its
\* bits: the slave heard tx and rx is what the slave answered.  For
\* SpiLpc1768 this ends with its first TIMEOUT: the word that was given up
\* is still in SPI0 and what follows may be one word behind.
ExchangeExact ==
  status = "OK" /\ ~late =>
    /\ got = tx
    /\ Len(rx) = Len(tx) /\ \A i \in DOMAIN rx : rx[i] = AnswerBit(i)

\* A selected slave sees SCK move in a transfer only.  The exception is the
\* init of BitbangSpiLpc1768 with CPOL = 1, which makes CS an output while
\* its latch is still low; BitbangSpiRp2040 sets the latch first.
QuietBus ==
  [][Selected /\ sck' # sck =>
       pc = "bits" \/ (pc = "init" /\ hal = "bb_lpc" /\ Cpol = 1)]_vars

\* SCK is not faster than init was asked for, which needs a divisor rounded
\* up and not to the nearest even value as the comment on it has it.  Below
\* 94489 Hz the divisor does not fit its eight bits and SpiLpc1768 promises
\* nothing.  The delay loop of BitbangSpiLpc1768 is an estimate of cycles and
\* is not judged.
ClockHeld ==
  pc \notin {"init", "refused"} =>
    /\ hal = "hw_lpc" => Divisor * clock >= PclkHz
    /\ hal = "bb_rp"  => 2 * HalfPeriodUs * clock >= 1000000

\* Every transaction ends, also when SPI0 never raises SPIF.
CallsReturn == <>(pc = "refused" \/ (pc = "free" /\ calls = Calls))

-----------------------------------------------------------------------------
(* The inductive invariant behind ExchangeExact and QuietBus               *)

InCall == pc \in {"call", "bits", "byte", "poll", "block", "returned"}
Bitbang == hal \in {"bb_lpc", "bb_rp"}

\* Where a call is: each HAL has its own loop, and a loop that is not between
\* the line changes of a bit is at step 1.
StageInv ==
  /\ pc = "init" => step \in 1 .. Len(Setup)
  /\ pc \notin {"init", "refused"} => ~Refuses
  /\ pc \notin {"init", "refused", "bits"} => step = 1
  /\ InCall => calls < Calls
  /\ pc = "bits" => Bitbang
  /\ pc \in {"byte", "poll"} => hal = "hw_lpc"
  /\ pc \in {"call", "bits"} => status = "none"
  /\ status = "OK" => pc = "returned"

\* The bit at hand, by the step it is at: SCK is away from its idle level,
\* MOSI holds the bit, the slave has been asked for its bit, has had time to
\* answer, and has sampled a bit that is not read back yet.
Active  == step \in IF Cpha = 0 THEN {4, 5, 6}    ELSE {3, 4}
Sending == step \in IF Cpha = 0 THEN {2, 3}       ELSE {2, 3, 4}
Asked   == step \in IF Cpha = 0 THEN {1, 2, 3, 4} ELSE {3, 4, 5}
Settled == step \in IF Cpha = 0 THEN {3, 4, 5, 6} ELSE {1, 2, 4, 5, 6}
Sampled == step = IF Cpha = 0 THEN 4 ELSE 5

\* What the pins have been through when init is at a step, and where a
\* transaction finds them.
Did(s) == \E j \in 1 .. step - 1 : Setup[j] = s
WireInv ==
  /\ pc = "init" => /\ csOut <=> Did("out")
                    /\ cs = 1 <=> Did("preset") \/ Did("high")
                    /\ ~Did("clock") => sck = 0
                    /\ Did("clock") => sck = Cpol
  /\ pc = "free" => csOut /\ cs = 1
  /\ InCall => csOut /\ cs = 0
  /\ pc \notin {"init", "refused", "bits"} => sck = Cpol
  /\ pc = "bits" => sck = IF Active THEN 1 - Cpol ELSE Cpol

Heard(n) == Len(got) = n /\ \A i \in 1 .. n : got[i] = tx[i]
ReadBack == \A i \in DOMAIN rx : rx[i] = AnswerBit(i)
Driven   == IF due THEN k + 1 ELSE k      \* MISO changes, made or due

\* SPI0 moves whole bytes, and a bit is begun only if there is one.
FillInv ==
  /\ \E w \in Nat : Len(tx) = w * Width
  /\ pc \in {"byte", "poll"} => \E w \in Nat : Len(rx) = w * Width
  /\ pc = "poll" => Len(rx) < Len(tx)
  /\ pc = "bits" /\ (Sending \/ Sampled) => Len(rx) < Len(tx)
  /\ pc \in {"call", "block"} => rx = <<>>
  /\ spif => Len(dr) = Width

BitInv ==
  LET n == Len(rx) IN
  /\ Heard(IF Sampled THEN n + 1 ELSE n)
  /\ Sending => mosi = tx[n + 1]
  /\ Settled => ~due
  /\ Driven = IF Asked THEN n + 1 ELSE n

\* SPI0 while no transfer has timed out: idle outside a word, and in a word
\* either still shifting it or done with it.
WordInv ==
  LET n == Len(rx) IN
  /\ pc # "poll" => shifter = <<>> /\ ~spif
  /\ pc = "byte" => Heard(n)
  /\ pc = "poll" =>
       \/ /\ shifter = SubSeq(tx, n + 1, n + Width) /\ ~spif
          /\ Heard(n)
       \/ /\ shifter = <<>> /\ spif
          /\ Heard(n + Width)
          /\ \A i \in 1 .. Width : dr[i] = AnswerBit(n + i)

ExchangeInv ==
  /\ late => hal = "hw_lpc"
  /\ ~late => WordInv
  /\ pc \in {"call", "bits"} /\ ~late => BitInv
  /\ InCall /\ k > 0 => so = AnswerBit(k)
  /\ ~late => ReadBack
  /\ pc = "returned" /\ status = "OK" /\ ~late =>
       Len(rx) = Len(tx) /\ Heard(Len(tx))
=============================================================================
