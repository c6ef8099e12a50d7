----------------------------- MODULE BitbangI2c -----------------------------
(***************************************************************************)
(* BitbangI2cLpc1768: init, then one call of write or write_read, one      *)
(* change of a line per step, against a slave on the same two open-drain   *)
(* lines.  A line is high when nobody drives it low.  The slave follows    *)
(* the lines: it samples SDA when SCL rises, moves SDA when SCL falls, and *)
(* may then hold SCL low for as long as it likes.  A slave that moves SDA  *)
(* some time after the fall cannot be told from this one: neither end      *)
(* looks at SDA before SCL has risen again.  It refuses a byte whenever it *)
(* wants to, which covers an address nobody answers.                       *)
(***************************************************************************)
EXTENDS Integers, Sequences, SequencesExt

CONSTANTS
  Bits,          \* bits of a byte: 8
  MaxWrite,      \* bound: bytes written after the address
  MaxRead        \* bound: bytes read

ASSUME I2cAssumption ==
  /\ Bits \in Nat \ {0}
  /\ MaxWrite \in Nat /\ MaxRead \in Nat

VARIABLES
  \* master
  pc,            \* next line change
  waiting,       \* in the loop of scl_release_and_wait
  op,            \* "write" or "write_read"
  wlen, rlen,    \* bytes to write and to read
  dir,           \* "w" or "r": the direction of the last address byte
  bit, byte,     \* bits and bytes done since START
  ack,           \* what write_byte returns
  status,        \* OK or NACK
  sclLow, sdaLow,
  out, in,       \* bits put on the bus and read from it
  \* slave
  spc, cnt, sFirst, sSclLow, sSdaLow,
  sIn, sOut,     \* bits sampled and driven
  \* history
  expired        \* a stretch has outlasted STRETCH_TIMEOUT_LOOPS polls

lines  == <<sclLow, sdaLow>>
slave  == <<spc, cnt, sFirst, sSclLow, sSdaLow, sIn, sOut>>
call   == <<op, wlen, rlen, expired>>
vars   == <<pc, waiting, call, dir, bit, byte, ack, status, lines, out, in, slave>>

SclHigh == ~sclLow /\ ~sSclLow
SdaHigh == ~sdaLow /\ ~sSdaLow

-----------------------------------------------------------------------------
(* The slave                                                               *)

Drive(b) == sSdaLow' = ~b /\ sOut' = Append(sOut, b)
LetSda   == sSdaLow' = FALSE /\ UNCHANGED sOut

\* Bits of a byte that did not become complete are dropped.
DropBits == /\ sIn' = IF spc = "recv" THEN SubSeq(sIn, 1, Len(sIn) - cnt) ELSE sIn
            /\ cnt' = 0
OnStart  == spc' = "recv" /\ sFirst' = TRUE /\ LetSda /\ DropBits /\ UNCHANGED sSclLow
OnStop   == spc' = "off" /\ LetSda /\ DropBits /\ UNCHANGED <<sFirst, sSclLow>>

OnRise(sda) ==
  /\ IF spc = "recv" THEN sIn' = Append(sIn, sda) /\ cnt' = cnt + 1
     ELSE UNCHANGED <<sIn, cnt>>
  /\ spc' = IF spc = "answer" THEN IF sda THEN "off" ELSE "more" ELSE spc
  /\ UNCHANGED <<sFirst, sSdaLow, sOut>>

\* SCL fell: acknowledge or refuse a complete byte, drive the next bit, or
\* leave SDA to the master.
OnFall ==
  /\ \/ /\ spc = "recv" /\ cnt = Bits
        /\ \/ spc' = "ack" /\ sSdaLow' = TRUE
           \/ spc' = "off" /\ sSdaLow' = FALSE
        /\ cnt' = 0 /\ UNCHANGED <<sFirst, sOut>>
     \/ /\ spc = "ack" /\ sFirst /\ Last(sIn)
        /\ spc' = "send" /\ cnt' = 1 /\ sFirst' = FALSE
        /\ \E b \in BOOLEAN : Drive(b)
     \/ /\ spc = "ack" /\ ~(sFirst /\ Last(sIn))
        /\ spc' = "recv" /\ sFirst' = FALSE /\ LetSda /\ UNCHANGED cnt
     \/ /\ spc \in {"send", "more"} /\ (spc = "more" \/ cnt < Bits)
        /\ spc' = "send" /\ cnt' = IF spc = "more" THEN 1 ELSE cnt + 1
        /\ \E b \in BOOLEAN : Drive(b)
        /\ UNCHANGED sFirst
     \/ /\ spc = "send" /\ cnt = Bits
        /\ spc' = "answer" /\ LetSda /\ UNCHANGED <<cnt, sFirst>>
     \/ /\ spc \in {"off", "answer"} \/ (spc = "recv" /\ cnt < Bits)
        /\ UNCHANGED <<spc, cnt, sFirst, sSdaLow, sOut>>
  /\ sSclLow' \in BOOLEAN
  /\ spc' = "off" => ~sSclLow'
  /\ UNCHANGED sIn

\* What the slave makes of a line change of the master.
Bus(scl, sda) ==
  /\ sclLow' = scl /\ sdaLow' = sda
  /\ LET sclHigh == ~scl /\ ~sSclLow
         sdaHigh == ~sda /\ ~sSdaLow
     IN  CASE SclHigh /\ sclHigh /\ SdaHigh /\ ~sdaHigh -> OnStart
           [] SclHigh /\ sclHigh /\ ~SdaHigh /\ sdaHigh -> OnStop
           [] ~SclHigh /\ sclHigh -> OnRise(sdaHigh) /\ UNCHANGED sSclLow
           [] SclHigh /\ ~sclHigh -> OnFall
           [] OTHER -> UNCHANGED slave

\* The slave ends its stretch.
LetScl ==
  /\ sSclLow /\ sSclLow' = FALSE
  /\ IF sclLow THEN UNCHANGED <<spc, cnt, sFirst, sSdaLow, sIn, sOut>>
     ELSE OnRise(SdaHigh)
  /\ UNCHANGED <<pc, waiting, call, dir, bit, byte, ack, status, lines, out, in>>

-----------------------------------------------------------------------------
(* The master                                                              *)

Sda(from, to, low) == pc = from /\ pc' = to /\ Bus(sclLow, low) /\ UNCHANGED waiting
SclDown(from)      == pc = from /\ Bus(TRUE, sdaLow) /\ UNCHANGED waiting

\* scl_release_and_wait, and where its callers go on.
HighPhases == [startHigh |-> "startFall", stopHigh |-> "stopRise",
               bitHigh |-> "bitLow", ackHigh |-> "ackRead",
               readHigh |-> "readBit", answerHigh |-> "answerLow"]

SclRelease ==
  /\ pc \in DOMAIN HighPhases /\ ~waiting
  /\ Bus(FALSE, sdaLow) /\ waiting' = TRUE
  /\ UNCHANGED <<pc, call, dir, bit, byte, ack, status, out, in>>

GivesUpNever == FALSE
GivesUp == ~SclHigh

\* The return value, false after a timeout, is not looked at.
SclWait ==
  /\ waiting
  /\ SclHigh \/ GivesUp
  /\ waiting' = FALSE /\ pc' = HighPhases[pc]
  /\ expired' = (expired \/ ~SclHigh)
  /\ UNCHANGED <<op, wlen, rlen, dir, bit, byte, ack, status, lines, out, in, slave>>

\* init: an impossible clock is refused; both lines are inputs already.
InitCall ==
  /\ pc = "init"
  /\ \/ pc' = "call" /\ UNCHANGED status
     \/ pc' = "done" /\ status' = "HW_ERROR"
  /\ UNCHANGED <<waiting, call, dir, bit, byte, ack, lines, out, in, slave>>

\* A null pointer for bytes to be written or read is refused.
Enter ==
  /\ pc = "call"
  /\ \/ pc' = "start" /\ UNCHANGED status
     \/ wlen + rlen > 0 /\ pc' = "done" /\ status' = "HW_ERROR"
  /\ UNCHANGED <<waiting, call, dir, bit, byte, ack, lines, out, in, slave>>

StartRelease ==
  /\ Sda("start", "startHigh", FALSE)
  /\ UNCHANGED <<call, dir, bit, byte, ack, status, out, in>>
StartFall ==
  /\ Sda("startFall", "startLow", TRUE)
  /\ UNCHANGED <<call, dir, bit, byte, ack, status, out, in>>
StartLow ==
  /\ SclDown("startLow") /\ pc' = "bit"
  /\ bit' = 0 /\ byte' = 0
  /\ UNCHANGED <<call, dir, ack, status, out, in>>

\* Both byte loops run their body once for each bit.
MoreBitsOneMore == bit < Bits
MoreBits == bit + 1 < Bits

\* write_byte: the last bit of the first byte is the direction.
BitSet ==
  /\ \E b \in BOOLEAN :
       /\ byte = 0 /\ bit = Bits - 1 => b = (dir = "r")
       /\ Sda("bit", "bitHigh", ~b)
       /\ out' = Append(out, b)
  /\ UNCHANGED <<call, dir, bit, byte, ack, status, in>>
BitLow ==
  /\ SclDown("bitLow")
  /\ IF MoreBits THEN bit' = bit + 1 /\ pc' = "bit"
     ELSE bit' = 0 /\ pc' = "ack"
  /\ UNCHANGED <<call, dir, byte, ack, status, out, in>>

AckSdaKept == sdaLow
AckSda == FALSE                      \* sda_release before the 9th clock
AckRelease ==
  /\ Sda("ack", "ackHigh", AckSda)
  /\ UNCHANGED <<call, dir, bit, byte, ack, status, out, in>>
AckRead ==
  /\ pc = "ackRead" /\ pc' = "ackLow"
  /\ ack' = ~SdaHigh
  /\ UNCHANGED <<waiting, call, dir, bit, byte, status, lines, out, in, slave>>

\* The byte is out: stop on a NACK, else the next byte, the repeated START,
\* the first read, or the end.
AckLow ==
  /\ SclDown("ackLow")
  /\ \/ /\ ~ack
        /\ pc' = "stop" /\ status' = "NACK" /\ UNCHANGED <<dir, byte>>
     \/ /\ ack /\ dir = "w" /\ byte < wlen
        /\ pc' = "bit" /\ byte' = byte + 1 /\ UNCHANGED <<dir, status>>
     \/ /\ ack /\ dir = "w" /\ byte = wlen /\ op = "write_read"
        /\ pc' = "start" /\ dir' = "r" /\ byte' = 0 /\ UNCHANGED status
     \/ /\ ack /\ dir = "r" /\ rlen > 0
        /\ pc' = "read" /\ byte' = 0 /\ UNCHANGED <<dir, status>>
     \/ /\ ack
        /\ IF dir = "r" THEN rlen = 0 ELSE byte = wlen /\ op = "write"
        /\ pc' = "stop" /\ status' = "OK" /\ UNCHANGED <<dir, byte>>
  /\ UNCHANGED <<call, bit, ack, out, in>>

\* read_byte: byte counts the bytes read so far.
ReadRelease ==
  /\ Sda("read", "readHigh", FALSE)
  /\ UNCHANGED <<call, dir, bit, byte, ack, status, out, in>>
ReadBit ==
  /\ pc = "readBit" /\ pc' = "readLow"
  /\ in' = Append(in, SdaHigh)
  /\ UNCHANGED <<waiting, call, dir, bit, byte, ack, status, lines, out, slave>>
ReadLow ==
  /\ SclDown("readLow")
  /\ IF MoreBits THEN bit' = bit + 1 /\ pc' = "readHigh"
     ELSE bit' = 0 /\ pc' = "answer"
  /\ UNCHANGED <<call, dir, byte, ack, status, out, in>>

SendAckAlways == TRUE
SendAck == byte < rlen - 1           \* ACK all but the final byte
Answer ==
  /\ Sda("answer", "answerHigh", SendAck)
  /\ UNCHANGED <<call, dir, bit, byte, ack, status, out, in>>
AnswerLow ==
  /\ SclDown("answerLow") /\ pc' = "answerRelease"
  /\ UNCHANGED <<call, dir, bit, byte, ack, status, out, in>>
AnswerRelease ==
  /\ Sda("answerRelease", IF byte < rlen - 1 THEN "read" ELSE "stop", FALSE)
  /\ byte' = byte + 1
  /\ status' = "OK"
  /\ UNCHANGED <<call, dir, bit, ack, out, in>>

StopLow ==
  /\ Sda("stop", "stopHigh", TRUE)
  /\ UNCHANGED <<call, dir, bit, byte, ack, status, out, in>>
StopRise ==
  /\ Sda("stopRise", "done", FALSE)
  /\ UNCHANGED <<call, dir, bit, byte, ack, status, out, in>>

-----------------------------------------------------------------------------
\* After reset: both lines are inputs, the slave is off the bus.
Init ==
  /\ pc = "init" /\ waiting = FALSE
  /\ op \in {"write", "write_read"} /\ wlen \in 0 .. MaxWrite
  /\ rlen \in IF op = "write" THEN {0} ELSE 0 .. MaxRead
  /\ dir = "w" /\ bit = 0 /\ byte = 0 /\ ack = FALSE /\ status = "OK"
  /\ sclLow = FALSE /\ sdaLow = FALSE /\ out = <<>> /\ in = <<>>
  /\ spc = "off" /\ cnt = 0 /\ sFirst = FALSE
  /\ sSclLow = FALSE /\ sSdaLow = FALSE /\ sIn = <<>> /\ sOut = <<>>
  /\ expired = FALSE

Master == \/ InitCall \/ Enter
          \/ SclRelease \/ SclWait
          \/ StartRelease \/ StartFall \/ StartLow
          \/ BitSet \/ BitLow \/ AckRelease \/ AckRead \/ AckLow
          \/ ReadRelease \/ ReadBit \/ ReadLow
          \/ Answer \/ AnswerLow \/ AnswerRelease
          \/ StopLow \/ StopRise

Next == Master \/ LetScl
Spec == Init /\ [][Next]_vars
\* The core keeps running; the slave may hold SCL for ever.
FairSpec == Spec /\ WF_vars(Master)

-----------------------------------------------------------------------------
(* Properties                                                              *)

TypeOK ==
  /\ pc \in DOMAIN HighPhases \cup
       {"init", "call", "start", "startFall", "startLow", "bit", "bitLow", "ack", "ackRead",
        "ackLow", "read", "readBit", "readLow", "answer", "answerLow",
        "answerRelease", "stop", "stopRise", "done"}
  /\ waiting \in BOOLEAN /\ (waiting => pc \in DOMAIN HighPhases)
  /\ op \in {"write", "write_read"}
  /\ wlen \in 0 .. MaxWrite /\ rlen \in 0 .. MaxRead
  /\ dir \in {"w", "r"} /\ bit \in 0 .. Bits - 1
  /\ byte \in 0 .. IF dir = "w" THEN wlen ELSE rlen
  /\ ack \in BOOLEAN /\ status \in {"OK", "NACK", "HW_ERROR"}
  /\ {sclLow, sdaLow, sSclLow, sSdaLow, sFirst, expired} \subseteq BOOLEAN
  /\ out \in Seq(BOOLEAN) /\ in \in Seq(BOOLEAN)
  /\ spc \in {"off", "recv", "ack", "send", "answer", "more"} /\ cnt \in 0 .. Bits
  /\ sIn \in Seq(BOOLEAN) /\ sOut \in Seq(BOOLEAN)

\* What a slave drove beyond the bytes that are read: write_read with no
\* byte to read releases SDA to a slave that has begun to answer.
Surplus == SubSeq(sOut, Len(in) + 1, Len(sOut))

\* OK means that the slave sampled and acknowledged exactly the bits that
\* were written and that the bits handed back are the ones it drove,
\* however it stretched the clock in between, up to the timeout.
OkMeansDone ==
  pc = "done" /\ status = "OK" /\ ~expired =>
    /\ sIn = out /\ in = SubSeq(sOut, 1, Len(in))
    /\ Surplus # <<>> => dir = "r" /\ rlen = 0

\* Every return, after OK and after a NACK at any byte, leaves the bus free:
\* both lines high, and the slave saw the STOP; up to the timeout, again.
\* The exception is write_read with no byte to read: if the slave's first
\* bit is a zero, it holds SDA and there is no STOP.
BusFree ==
  pc = "done" /\ ~expired =>
    \/ SclHigh /\ SdaHigh /\ spc = "off"
    \/ dir = "r" /\ rlen = 0 /\ Surplus = <<FALSE>>

\* A call returns even if the slave never lets go of the clock.
CallReturns == <>(pc = "done")

-----------------------------------------------------------------------------
(* The inductive invariant behind OkMeansDone and BusFree                  *)

Starting  == {"start", "startHigh", "startFall"}
Writing   == {"bit", "bitHigh", "bitLow"}
Acking    == {"ack", "ackHigh", "ackRead", "ackLow"}
Reading   == {"read", "readHigh", "readBit", "readLow"}
Answering == {"answer", "answerHigh", "answerLow", "answerRelease"}
Stopping  == {"stop", "stopHigh", "stopRise"}

\* Where SCL is low, where it has been waited for, where SDA is released.
Clocked  == {"bit", "ack", "read", "answer", "answerRelease", "stop"}
Awaited  == {"init", "call", "startFall", "startLow", "bitLow", "ackRead",
             "ackLow", "readBit", "readLow", "answerLow", "stopRise", "done"}
Released == Starting \cup Reading
            \cup {"init", "call", "ackHigh", "ackRead", "ackLow", "answer", "done"}

\* The loops of the master.
LoopInv ==
  /\ pc \in {"init", "call"} => dir = "w"
  /\ pc \in Writing \cup Acking /\ dir = "r" => byte = 0
  /\ pc \in Reading \cup Answering => dir = "r" /\ byte < rlen
  /\ pc \notin Writing \cup (Reading \ {"read"}) => bit = 0
  /\ pc \notin Reading \cup Answering \cup Stopping \cup {"done"} => in = <<>>

\* The lines as the master drives them.
LineInv ==
  /\ pc \in Awaited => ~sclLow
  /\ pc \in Clocked => sclLow
  /\ pc \in DOMAIN HighPhases => IF waiting THEN ~sclLow
                                 ELSE sclLow \/ (pc = "startHigh" /\ dir = "w")
  /\ pc \in {"start", "startHigh"} /\ dir = "w" => ~sclLow
  /\ pc = "start" /\ dir = "r" => sclLow
  /\ pc \in Released => ~sdaLow
  /\ pc \in {"startLow", "stopHigh", "stopRise"} => sdaLow

\* A byte is complete only until the clock falls.
CountInv ==
  /\ spc = "recv" /\ cnt = Bits => SclHigh
  /\ spc = "ack" => cnt = 0

\* The slave has sampled what was written, but for the bit that SCL has not
\* risen for; a rise before START or STOP is taken for one more bit.
WroteInv ==
  /\ pc \in Starting \cup Stopping /\ spc = "recv" =>
       /\ cnt = IF SclHigh THEN 1 ELSE 0
       /\ sIn = IF SclHigh THEN Append(out, SdaHigh) ELSE out
  /\ pc \in Starting \cup Stopping /\ spc # "recv" => sIn = out
  /\ pc \in {"startLow"} \cup Writing =>
       /\ spc = "recv" /\ (sFirst <=> byte = 0 \/ pc = "startLow")
       /\ cnt = IF pc # "startLow" /\ SclHigh THEN bit + 1 ELSE bit
  /\ pc = "bitHigh" /\ ~SclHigh => out = Append(sIn, ~sdaLow)
  /\ pc \in {"startLow", "bit", "bitLow", "done"} \cup Acking \cup Reading \cup Answering
       \/ (pc = "bitHigh" /\ SclHigh) => sIn = out
  /\ pc \in {"bitHigh", "bitLow"} /\ byte = 0 /\ bit = Bits - 1
       => (Last(out) <=> dir = "r")
  /\ pc \in Acking => /\ spc \in {"ack", "off"} /\ (sFirst <=> byte = 0)
                      /\ byte = 0 => (Last(out) <=> dir = "r")
  /\ pc = "ackLow" => (ack <=> spc = "ack")

\* The bits read are the ones the slave has driven, but for the one at hand.
Pending == sOut = Append(in, ~sSdaLow)
Even    == ~sSdaLow /\ in = sOut
Unread  == dir = "r" /\ rlen = 0 /\ in = <<>>
ReadInv ==
  /\ pc \in {"init", "call", "startLow"} \cup Writing => Even
  /\ pc \in Starting => Even /\ spc = IF dir = "w" THEN "off" ELSE "recv"
  /\ pc \in Acking => in = sOut /\ (sSdaLow <=> spc = "ack")
  /\ pc \in Reading => spc = "send" /\ cnt = bit + 1
  /\ pc \in Reading \ {"readLow"} => Pending
  /\ pc = "readLow" => in = sOut
  /\ pc \in Answering \ {"answerRelease"} =>
       /\ Even
       /\ spc = IF ~SclHigh THEN "answer" ELSE IF sdaLow THEN "more" ELSE "off"
  /\ pc \in {"answerHigh", "answerLow", "answerRelease"} => (sdaLow <=> SendAck)
  /\ pc = "answerRelease" => IF sdaLow THEN spc = "send" /\ cnt = 1 /\ Pending
                             ELSE spc = "off" /\ Even
  /\ pc \in Stopping => \/ spc \in {"recv", "off"} /\ Even
                        \/ spc = "send" /\ Unread /\ Pending

RestInv ==
  /\ pc \in {"init", "call"} => spc = "off" /\ sIn = out
  /\ pc = "done" => \/ spc = "off" /\ Even
                    \/ spc = "off" /\ Unread /\ ~sSdaLow /\ sOut = <<TRUE>>
                    \/ Unread /\ sSdaLow /\ sOut = <<FALSE>>
  /\ pc \in Awaited => ~sSclLow
  /\ pc \in {"start", "startHigh"} /\ dir = "w" => ~sSclLow

SyncInv == WroteInv /\ ReadInv /\ RestInv
I2cInv  == LoopInv /\ LineInv /\ CountInv /\ (~expired => SyncInv)
=============================================================================
