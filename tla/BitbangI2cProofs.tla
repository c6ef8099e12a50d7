-------------------------- MODULE BitbangI2cProofs --------------------------
(***************************************************************************)
(* TLAPS proofs about BitbangI2c, for bytes of any width and calls of any  *)
(* length.                                                                 *)
(***************************************************************************)
EXTENDS BitbangI2c, SequenceTheorems, TLAPS

USE I2cAssumption DEF I2cAssumption

-----------------------------------------------------------------------------
(* What the slave makes of a line change                                   *)

SlaveTypes ==
  /\ spc \in {"off", "recv", "ack", "send", "answer", "more"}
  /\ cnt \in 0 .. Bits
  /\ sFirst \in BOOLEAN /\ sSclLow \in BOOLEAN /\ sSdaLow \in BOOLEAN
  /\ sIn \in Seq(BOOLEAN) /\ sOut \in Seq(BOOLEAN)

LineTypes == sclLow \in BOOLEAN /\ sdaLow \in BOOLEAN /\ expired \in BOOLEAN

MasterTypes ==
  /\ pc \in DOMAIN HighPhases \cup
       {"init", "call", "start", "startFall", "startLow", "bit", "bitLow", "ack", "ackRead",
        "ackLow", "read", "readBit", "readLow", "answer", "answerLow",
        "answerRelease", "stop", "stopRise", "done"}
  /\ waiting \in BOOLEAN /\ (waiting => pc \in DOMAIN HighPhases)
  /\ op \in {"write", "write_read"}
  /\ wlen \in 0 .. MaxWrite /\ rlen \in 0 .. MaxRead
  /\ dir \in {"w", "r"} /\ bit \in 0 .. Bits - 1
  /\ byte \in 0 .. IF dir = "w" THEN wlen ELSE rlen
  /\ ack \in BOOLEAN /\ status \in {"OK", "NACK", "HW_ERROR"}
  /\ out \in Seq(BOOLEAN) /\ in \in Seq(BOOLEAN)

LEMMA TypesSplit == TypeOK <=> MasterTypes /\ LineTypes /\ SlaveTypes
<1>1. {sclLow, sdaLow, sSclLow, sSdaLow, sFirst, expired} \subseteq BOOLEAN
      <=> LineTypes /\ sFirst \in BOOLEAN /\ sSclLow \in BOOLEAN
          /\ sSdaLow \in BOOLEAN
  BY DEF LineTypes
<1> QED
  BY <1>1 DEF TypeOK, MasterTypes, SlaveTypes

LEMMA Phases ==
  DOMAIN HighPhases = {"startHigh", "stopHigh", "bitHigh", "ackHigh", "readHigh",
                       "answerHigh"}
BY DEF HighPhases

LEMMA Prefix ==
  ASSUME NEW S, NEW q \in Seq(S), NEW c \in Nat
  PROVE  SubSeq(q, 1, Len(q) - c) \in Seq(S)
<1>1. PICK n : n = Len(q) - c
  OBVIOUS
<1>2. n \in Int /\ n <= Len(q)
  BY <1>1
<1>3. \A i \in 1 .. n : q[i] \in S
  BY <1>2, ElementOfSeq
<1> QED
  BY <1>1, <1>2, <1>3, SubSeqProperties

\* Each change of the lines is one of these, or nothing to the slave.
LEMMA BusMoves ==
  ASSUME NEW scl \in BOOLEAN, NEW sda \in BOOLEAN, Bus(scl, sda), LineTypes,
         SlaveTypes
  PROVE  /\ sclLow' = scl /\ sdaLow' = sda
         /\ \/ OnStart /\ SclHigh /\ ~scl
            \/ OnStop /\ SclHigh /\ ~scl
            \/ /\ OnRise(~sda /\ ~sSdaLow) /\ UNCHANGED sSclLow
               /\ ~scl /\ ~sSclLow /\ ~SclHigh
            \/ OnFall
            \/ UNCHANGED slave /\ (SclHigh => ~scl /\ ~sSclLow)
BY DEF Bus, SclHigh, LineTypes, SlaveTypes

LEMMA RiseTypes ==
  ASSUME SlaveTypes, CountInv, NEW b \in BOOLEAN, OnRise(b), ~SclHigh,
         sSclLow' \in BOOLEAN
  PROVE  SlaveTypes'
<1>1. Append(sIn, b) \in Seq(BOOLEAN)
  BY AppendProperties DEF SlaveTypes
<1>2. sIn' \in Seq(BOOLEAN)
  BY <1>1 DEF OnRise, SlaveTypes
<1>3. cnt' \in 0 .. Bits
  BY DEF OnRise, SlaveTypes, CountInv
<1>4. spc' \in {"off", "recv", "ack", "send", "answer", "more"}
  BY DEF OnRise, SlaveTypes
<1> QED
  BY <1>2, <1>3, <1>4 DEF OnRise, SlaveTypes

LEMMA DropTypes ==
  ASSUME SlaveTypes, DropBits
  PROVE  sIn' \in Seq(BOOLEAN) /\ cnt' = 0
<1>1. sIn \in Seq(BOOLEAN) /\ cnt \in Nat
  BY DEF SlaveTypes
<1>2. SubSeq(sIn, 1, Len(sIn) - cnt) \in Seq(BOOLEAN)
  BY <1>1, Prefix
<1> QED
  BY <1>1, <1>2 DEF DropBits

LEMMA DriveTypes ==
  ASSUME SlaveTypes, NEW b \in BOOLEAN, Drive(b)
  PROVE  sOut' \in Seq(BOOLEAN) /\ sSdaLow' \in BOOLEAN
<1>1. Append(sOut, b) \in Seq(BOOLEAN)
  BY AppendProperties DEF SlaveTypes
<1> QED
  BY <1>1 DEF Drive

LEMMA FallTypes ==
  ASSUME SlaveTypes, CountInv, OnFall
  PROVE  /\ SlaveTypes'
         /\ ~(spc' = "recv" /\ cnt' = Bits) /\ (spc' = "ack" => cnt' = 0)
<1>1. /\ sIn' \in Seq(BOOLEAN) /\ sSclLow' \in BOOLEAN
      /\ spc \in {"off", "recv", "ack", "send", "answer", "more"}
      /\ sFirst \in BOOLEAN /\ sSdaLow \in BOOLEAN /\ sOut \in Seq(BOOLEAN)
  BY DEF OnFall, SlaveTypes
<1>2. cnt \in 0 .. Bits /\ Bits \in Nat /\ Bits > 0
  BY DEF SlaveTypes
<1>3. CASE /\ spc = "recv" /\ cnt = Bits
           /\ \/ spc' = "ack" /\ sSdaLow' = TRUE
              \/ spc' = "off" /\ sSdaLow' = FALSE
           /\ cnt' = 0 /\ UNCHANGED <<sFirst, sOut>>
  <2>1. spc' \in {"ack", "off"} /\ sSdaLow' \in BOOLEAN
    BY <1>3
  <2>2. cnt' \in 0 .. Bits
    BY <1>2, <1>3
  <2> QED
    BY <1>1, <1>3, <2>1, <2>2 DEF SlaveTypes
<1>4. CASE /\ spc = "ack" /\ sFirst /\ Last(sIn)
           /\ spc' = "send" /\ cnt' = 1 /\ sFirst' = FALSE
           /\ \E b \in BOOLEAN : Drive(b)
  <2>1. cnt' \in 0 .. Bits
    BY <1>2, <1>4
  <2>2. sOut' \in Seq(BOOLEAN) /\ sSdaLow' \in BOOLEAN
    BY <1>4, DriveTypes
  <2> QED
    BY <1>1, <1>4, <2>1, <2>2 DEF SlaveTypes
<1>5. CASE /\ spc = "ack" /\ ~(sFirst /\ Last(sIn))
           /\ spc' = "recv" /\ sFirst' = FALSE /\ LetSda /\ UNCHANGED cnt
  <2>1. cnt' = 0
    BY <1>5 DEF CountInv
  <2> QED
    BY <1>1, <1>2, <1>5, <2>1 DEF SlaveTypes, LetSda
<1>6. CASE /\ spc \in {"send", "more"} /\ (spc = "more" \/ cnt < Bits)
           /\ spc' = "send" /\ cnt' = IF spc = "more" THEN 1 ELSE cnt + 1
           /\ \E b \in BOOLEAN : Drive(b)
           /\ UNCHANGED sFirst
  <2>1. cnt' \in 0 .. Bits
    BY <1>2, <1>6
  <2> QED
    BY <1>1, <1>6, <2>1, DriveTypes DEF SlaveTypes
<1>7. CASE /\ spc = "send" /\ cnt = Bits
           /\ spc' = "answer" /\ LetSda /\ UNCHANGED <<cnt, sFirst>>
  BY <1>1, <1>2, <1>7 DEF SlaveTypes, LetSda
<1>8. CASE /\ spc \in {"off", "answer"} \/ (spc = "recv" /\ cnt < Bits)
           /\ UNCHANGED <<spc, cnt, sFirst, sSdaLow, sOut>>
  <2>1. SlaveTypes'
    BY <1>1, <1>2, <1>8 DEF SlaveTypes
  <2>2. spc' # "ack" /\ ~(spc' = "recv" /\ cnt' = Bits)
    BY <1>2, <1>8
  <2> QED
    BY <2>1, <2>2
<1>9. \/ /\ spc = "recv" /\ cnt = Bits
         /\ \/ spc' = "ack" /\ sSdaLow' = TRUE
            \/ spc' = "off" /\ sSdaLow' = FALSE
         /\ cnt' = 0 /\ UNCHANGED <<sFirst, sOut>>
      \/ /\ spc = "ack" /\ sFirst /\ Last(sIn)
         /\ spc' = "send" /\ cnt' = 1 /\ sFirst' = FALSE
         /\ \E b \in BOOLEAN : Drive(b)
      \/ /\ spc = "ack" /\ ~(sFirst /\ Last(sIn))
         /\ spc' = "recv" /\ sFirst' = FALSE /\ LetSda /\ UNCHANGED cnt
      \/ /\ spc \in {"send", "more"} /\ (spc = "more" \/ cnt < Bits)
         /\ spc' = "send" /\ cnt' = IF spc = "more" THEN 1 ELSE cnt + 1
         /\ \E b \in BOOLEAN : Drive(b)
         /\ UNCHANGED sFirst
      \/ /\ spc = "send" /\ cnt = Bits
         /\ spc' = "answer" /\ LetSda /\ UNCHANGED <<cnt, sFirst>>
      \/ /\ spc \in {"off", "answer"} \/ (spc = "recv" /\ cnt < Bits)
         /\ UNCHANGED <<spc, cnt, sFirst, sSdaLow, sOut>>
  BY Zenon DEF OnFall
<1> QED
  BY <1>3, <1>4, <1>5, <1>6, <1>7, <1>8, <1>9

\* Whatever the master does to the lines, the slave keeps its count of bits.
LEMMA SlaveStep ==
  ASSUME NEW scl \in BOOLEAN, NEW sda \in BOOLEAN, Bus(scl, sda), LineTypes,
         SlaveTypes, CountInv
  PROVE  SlaveTypes' /\ CountInv'
<1>1. /\ sclLow' = scl /\ sdaLow' = sda
      /\ \/ OnStart /\ SclHigh /\ ~scl
         \/ OnStop /\ SclHigh /\ ~scl
         \/ /\ OnRise(~sda /\ ~sSdaLow) /\ UNCHANGED sSclLow
            /\ ~scl /\ ~sSclLow /\ ~SclHigh
         \/ OnFall
         \/ UNCHANGED slave /\ (SclHigh => ~scl /\ ~sSclLow)
  BY BusMoves
<1>2. CASE OnStart \/ OnStop
  <2>1. /\ spc' \in {"recv", "off"} /\ sSclLow' = sSclLow
        /\ sSdaLow' = FALSE /\ sOut' = sOut /\ DropBits
        /\ sFirst' = TRUE \/ sFirst' = sFirst
    BY <1>2 DEF OnStart, OnStop, LetSda
  <2>2. sIn' \in Seq(BOOLEAN) /\ cnt' = 0
    BY <2>1, DropTypes
  <2>3. SlaveTypes'
    <3>1. cnt' \in 0 .. Bits
      BY <2>2
    <3>2. sFirst' \in BOOLEAN
      BY <2>1 DEF SlaveTypes
    <3> QED
      BY <2>1, <2>2, <3>1, <3>2 DEF SlaveTypes
  <2>4. CountInv'
    BY <2>1, <2>2 DEF CountInv
  <2> QED
    BY <2>3, <2>4
<1>3. CASE /\ OnRise(~sda /\ ~sSdaLow) /\ UNCHANGED sSclLow
           /\ ~scl /\ ~sSclLow /\ ~SclHigh
  <2>1. SclHigh'
    BY <1>1, <1>3 DEF SclHigh
  <2>2. CountInv'
    BY <1>3, <2>1 DEF CountInv, OnRise
  <2>3. (~sda /\ ~sSdaLow) \in BOOLEAN /\ sSclLow' \in BOOLEAN
    BY <1>3 DEF SlaveTypes
  <2> QED
    BY <1>3, <2>2, <2>3, RiseTypes
<1>4. CASE OnFall
  BY <1>4, FallTypes DEF CountInv
<1>5. CASE UNCHANGED slave /\ (SclHigh => ~scl /\ ~sSclLow)
  BY <1>1, <1>5 DEF slave, SlaveTypes, CountInv, SclHigh
<1> QED
  BY <1>1, <1>2, <1>3, <1>4, <1>5

LEMMA LetSclTypes ==
  ASSUME LetScl, LineTypes, SlaveTypes, CountInv
  PROVE  SlaveTypes' /\ CountInv'
<1>1. ~SclHigh /\ sSclLow' = FALSE /\ sclLow' = sclLow
  BY DEF LetScl, SclHigh, lines
<1>2. CASE sclLow
  BY <1>1, <1>2 DEF LetScl, SlaveTypes, CountInv, SclHigh
<1>3. CASE ~sclLow
  <2>1. OnRise(SdaHigh) /\ SclHigh' /\ SdaHigh \in BOOLEAN
    BY <1>1, <1>3 DEF LetScl, SclHigh, SdaHigh
  <2>2. SlaveTypes'
    BY <1>1, <2>1, RiseTypes
  <2> QED
    BY <2>1, <2>2 DEF CountInv, OnRise
<1> QED
  BY <1>2, <1>3 DEF LineTypes

-----------------------------------------------------------------------------
(* The loops of the master and the lines it drives                         *)

LEMMA BusLines ==
  ASSUME NEW scl, NEW sda, Bus(scl, sda)
  PROVE  sclLow' = scl /\ sdaLow' = sda
BY DEF Bus

LEMMA SdaMoves ==
  ASSUME NEW from, NEW to, NEW low, Sda(from, to, low)
  PROVE  /\ pc = from /\ pc' = to /\ waiting' = waiting
         /\ sclLow' = sclLow /\ sdaLow' = low
BY BusLines DEF Sda

LEMMA SclFalls ==
  ASSUME NEW from, SclDown(from)
  PROVE  /\ pc = from /\ waiting' = waiting
         /\ sclLow' = TRUE /\ sdaLow' = sdaLow
BY BusLines DEF SclDown

\* The line changes leave the slave to Bus.
LEMMA LinesStep ==
  ASSUME TypeOK, CountInv, [Next]_vars
  PROVE  LineTypes' /\ SlaveTypes' /\ CountInv'
<1>0. LineTypes /\ SlaveTypes
  BY TypesSplit
<1>1. CASE \E scl, sda \in BOOLEAN : Bus(scl, sda) /\ expired' = expired
  <2>1. PICK scl \in BOOLEAN, sda \in BOOLEAN : Bus(scl, sda) /\ expired' = expired
    BY <1>1
  <2>2. SlaveTypes' /\ CountInv'
    BY <1>0, <2>1, SlaveStep
  <2>3. LineTypes'
    BY <1>0, <2>1, BusLines DEF LineTypes
  <2> QED
    BY <2>2, <2>3
<1>2. CASE LetScl
  BY <1>0, <1>2, LetSclTypes DEF LetScl, lines, call, LineTypes
<1>3. CASE InitCall \/ Enter \/ AckRead \/ ReadBit \/ SclWait \/ UNCHANGED vars
  <2>1. UNCHANGED <<lines, slave>> /\ expired' \in BOOLEAN
    BY <1>0, <1>3 DEF InitCall, Enter, AckRead, ReadBit, SclWait, vars, call,
                      LineTypes
  <2>2. LineTypes'
    BY <1>0, <2>1 DEF LineTypes, lines
  <2>3. SlaveTypes' /\ CountInv'
    BY <1>0, <2>1 DEF SlaveTypes, CountInv, slave, lines, SclHigh
  <2> QED
    BY <2>2, <2>3
<1>4. CASE SclRelease \/ StartRelease \/ StartFall \/ StartLow \/ BitLow
           \/ AckRelease \/ AckLow
  <2>1. /\ Bus(FALSE, sdaLow) \/ Bus(sclLow, FALSE) \/ Bus(sclLow, TRUE)
           \/ Bus(TRUE, sdaLow)
        /\ expired' = expired
    BY <1>4 DEF SclRelease, StartRelease, StartFall, StartLow, BitLow,
       AckRelease, AckLow, Sda, SclDown, AckSda, call
  <2> QED
    BY <1>0, <1>1, <2>1 DEF LineTypes
<1>5. CASE ReadRelease \/ ReadLow \/ AnswerLow \/ AnswerRelease \/ StopLow
           \/ StopRise
  <2>1. /\ Bus(sclLow, FALSE) \/ Bus(sclLow, TRUE) \/ Bus(TRUE, sdaLow)
        /\ expired' = expired
    BY <1>5 DEF ReadRelease, ReadLow, AnswerLow, AnswerRelease, StopLow,
       StopRise, Sda, SclDown, call
  <2> QED
    BY <1>0, <1>1, <2>1 DEF LineTypes
<1>6. CASE BitSet
  <2>1. PICK b \in BOOLEAN : Bus(sclLow, ~b) /\ expired' = expired
    BY <1>6 DEF BitSet, Sda, call
  <2>2. (~b) \in BOOLEAN
    OBVIOUS
  <2> QED
    BY <1>0, <1>1, <2>1, <2>2 DEF LineTypes
<1>7. CASE Answer
  <2>1. Bus(sclLow, SendAck) /\ expired' = expired
    BY <1>7 DEF Answer, Sda, call
  <2>2. SendAck \in BOOLEAN
    BY DEF SendAck
  <2> QED
    BY <1>0, <1>1, <2>1, <2>2 DEF LineTypes
<1> QED
  BY <1>2, <1>3, <1>4, <1>5, <1>6, <1>7 DEF Next, Master

\* Where the master goes from each place, and the bits it counts.
LEMMA LoopStep ==
  ASSUME TypeOK, LoopInv, [Next]_vars
  PROVE  MasterTypes' /\ LoopInv'
<1>0. MasterTypes /\ Bits \in Nat /\ Bits > 0
  BY TypesSplit
<1> USE Phases
    DEF MasterTypes, LoopInv, call, Starting, Writing, Acking, Reading, Answering,
        Stopping
<1>1. CASE InitCall \/ Enter
  BY <1>0, <1>1 DEF InitCall, Enter
<1>2. CASE SclRelease
  BY <1>0, <1>2 DEF SclRelease
<1>3. CASE SclWait
  <2>1. /\ pc' = HighPhases[pc] /\ pc \in DOMAIN HighPhases /\ waiting' = FALSE
        /\ UNCHANGED <<op, wlen, rlen, dir, bit, byte, ack, status, out, in>>
    BY <1>0, <1>3 DEF SclWait
  <2>2. \/ pc = "startHigh" /\ pc' = "startFall"
        \/ pc = "stopHigh" /\ pc' = "stopRise"
        \/ pc = "bitHigh" /\ pc' = "bitLow"
        \/ pc = "ackHigh" /\ pc' = "ackRead"
        \/ pc = "readHigh" /\ pc' = "readBit"
        \/ pc = "answerHigh" /\ pc' = "answerLow"
    BY <2>1 DEF HighPhases
  <2> QED
    BY <1>0, <2>1, <2>2
<1>4. CASE StartRelease \/ StartFall \/ StopLow \/ StopRise
  <2>1. /\ \/ pc = "start" /\ pc' = "startHigh"
           \/ pc = "startFall" /\ pc' = "startLow"
           \/ pc = "stop" /\ pc' = "stopHigh"
           \/ pc = "stopRise" /\ pc' = "done"
        /\ UNCHANGED <<waiting, op, wlen, rlen, dir, bit, byte, ack, status, out, in>>
    BY <1>4 DEF StartRelease, StartFall, StopLow, StopRise, Sda
  <2> QED
    BY <1>0, <2>1
<1>5. CASE StartLow
  <2>1. /\ pc = "startLow" /\ pc' = "bit" /\ bit' = 0 /\ byte' = 0
        /\ UNCHANGED <<waiting, op, wlen, rlen, dir, ack, status, out, in>>
    BY <1>5 DEF StartLow, SclDown
  <2>2. bit' \in 0 .. Bits - 1 /\ byte' \in 0 .. IF dir' = "w" THEN wlen' ELSE rlen'
    BY <1>0, <2>1
  <2> QED
    BY <1>0, <2>1, <2>2
<1>6. CASE BitSet
  <2>1. /\ pc = "bit" /\ pc' = "bitHigh"
        /\ UNCHANGED <<waiting, op, wlen, rlen, dir, bit, byte, ack, status, in>>
        /\ \E b \in BOOLEAN : out' = Append(out, b)
    BY <1>6 DEF BitSet, Sda
  <2>2. out' \in Seq(BOOLEAN)
    BY <1>0, <2>1, AppendProperties
  <2> QED
    BY <1>0, <2>1, <2>2
<1>7. CASE BitLow
  <2>1. /\ pc = "bitLow"
        /\ UNCHANGED <<waiting, op, wlen, rlen, dir, byte, ack, status, out, in>>
        /\ \/ bit + 1 < Bits /\ bit' = bit + 1 /\ pc' = "bit"
           \/ bit' = 0 /\ pc' = "ack"
    BY <1>7 DEF BitLow, SclDown, MoreBits
  <2>2. bit' \in 0 .. Bits - 1
    BY <1>0, <2>1
  <2> QED
    BY <1>0, <2>1, <2>2
<1>8. CASE AckRelease \/ AckRead
  <2>1. /\ \/ pc = "ack" /\ pc' = "ackHigh" /\ ack' = ack
           \/ pc = "ackRead" /\ pc' = "ackLow" /\ ack' = ~SdaHigh
        /\ UNCHANGED <<waiting, op, wlen, rlen, dir, bit, byte, status, out, in>>
    BY <1>8 DEF AckRelease, AckRead, Sda
  <2>2. ack' \in BOOLEAN
    BY <1>0, <2>1
  <2> QED
    BY <1>0, <2>1, <2>2
<1>9. CASE AckLow
  <2>1. /\ pc = "ackLow" /\ bit = 0
        /\ UNCHANGED <<waiting, op, wlen, rlen, bit, ack, out, in>>
    BY <1>0, <1>9 DEF AckLow, SclDown
  <2>2. \/ pc' = "stop" /\ status' = "NACK" /\ UNCHANGED <<dir, byte>>
        \/ /\ dir = "w" /\ byte < wlen
           /\ pc' = "bit" /\ byte' = byte + 1 /\ UNCHANGED <<dir, status>>
        \/ dir = "w" /\ pc' = "start" /\ dir' = "r" /\ byte' = 0 /\ UNCHANGED status
        \/ /\ dir = "r" /\ rlen > 0
           /\ pc' = "read" /\ byte' = 0 /\ UNCHANGED <<dir, status>>
        \/ pc' = "stop" /\ status' = "OK" /\ UNCHANGED <<dir, byte>>
    BY <1>9 DEF AckLow
  <2>3. byte' \in 0 .. IF dir' = "w" THEN wlen' ELSE rlen'
    BY <1>0, <2>1, <2>2
  <2> QED
    BY <1>0, <2>1, <2>2, <2>3
<1>10. CASE ReadRelease \/ Answer
  BY <1>0, <1>10 DEF ReadRelease, Answer, Sda
<1>11. CASE ReadBit
  <2>1. /\ pc = "readBit" /\ pc' = "readLow" /\ in' = Append(in, SdaHigh)
        /\ UNCHANGED <<waiting, op, wlen, rlen, dir, bit, byte, ack, status, out>>
    BY <1>11 DEF ReadBit
  <2>2. SdaHigh \in BOOLEAN
    BY DEF SdaHigh
  <2>3. in' \in Seq(BOOLEAN)
    BY <1>0, <2>1, <2>2, AppendProperties
  <2> QED
    BY <1>0, <2>1, <2>3
<1>12. CASE ReadLow
  BY <1>0, <1>12 DEF ReadLow, SclDown, MoreBits
<1>13. CASE AnswerLow
  BY <1>0, <1>13 DEF AnswerLow, SclDown
<1>14. CASE AnswerRelease
  <2>1. /\ pc = "answerRelease" /\ pc' = IF byte < rlen - 1 THEN "read" ELSE "stop"
        /\ UNCHANGED <<waiting, op, wlen, rlen, dir, bit, ack, out, in>>
        /\ byte' = byte + 1 /\ status' = "OK"
    BY <1>14 DEF AnswerRelease, Sda
  <2>2. dir = "r" /\ byte < rlen /\ byte \in Nat /\ rlen \in Nat /\ bit = 0
    BY <1>0, <2>1
  <2>3. byte' \in 0 .. rlen /\ (pc' = "read" => byte' < rlen)
    BY <2>1, <2>2
  <2> QED
    BY <1>0, <2>1, <2>2, <2>3
<1>15. CASE LetScl \/ UNCHANGED vars
  BY <1>0, <1>15 DEF LetScl, vars
<1> QED
  BY <1>1, <1>2, <1>3, <1>4, <1>5, <1>6, <1>7, <1>8, <1>9, <1>10, <1>11, <1>12,
     <1>13, <1>14, <1>15 DEF Next, Master

LEMMA LineStep ==
  ASSUME TypeOK, LoopInv, LineInv, [Next]_vars
  PROVE  LineInv'
<1>0. /\ waiting \in BOOLEAN /\ (waiting => pc \in DOMAIN HighPhases)
      /\ dir \in {"w", "r"} /\ sclLow \in BOOLEAN
  BY DEF TypeOK
<1> USE Phases DEF LineInv, Starting, Reading, Clocked, Awaited, Released, call, lines
<1>1. CASE InitCall \/ Enter \/ AckRead \/ ReadBit
  BY <1>0, <1>1 DEF InitCall, Enter, AckRead, ReadBit, LoopInv
<1>2. CASE SclRelease
  <2>1. /\ sclLow' = FALSE /\ sdaLow' = sdaLow /\ waiting' = TRUE
        /\ UNCHANGED <<pc, dir>> /\ pc \in DOMAIN HighPhases
    BY <1>2, BusLines DEF SclRelease
  <2> QED
    BY <1>0, <2>1
<1>3. CASE SclWait
  <2>1. /\ pc' = HighPhases[pc] /\ pc \in DOMAIN HighPhases /\ waiting
        /\ waiting' = FALSE /\ UNCHANGED <<dir, sclLow, sdaLow>>
    BY <1>0, <1>3 DEF SclWait
  <2>2. \/ pc = "startHigh" /\ pc' = "startFall"
        \/ pc = "stopHigh" /\ pc' = "stopRise"
        \/ pc = "bitHigh" /\ pc' = "bitLow"
        \/ pc = "ackHigh" /\ pc' = "ackRead"
        \/ pc = "readHigh" /\ pc' = "readBit"
        \/ pc = "answerHigh" /\ pc' = "answerLow"
    BY <2>1 DEF HighPhases
  <2> QED
    BY <1>0, <2>1, <2>2
<1>4. CASE StartRelease \/ StartFall \/ StopLow \/ StopRise
  <2>1. /\ \/ pc = "start" /\ pc' = "startHigh" /\ sdaLow' = FALSE
           \/ pc = "startFall" /\ pc' = "startLow" /\ sdaLow' = TRUE
           \/ pc = "stop" /\ pc' = "stopHigh" /\ sdaLow' = TRUE
           \/ pc = "stopRise" /\ pc' = "done" /\ sdaLow' = FALSE
        /\ UNCHANGED <<waiting, sclLow, dir>>
    BY <1>4, SdaMoves DEF StartRelease, StartFall, StopLow, StopRise
  <2> QED
    BY <1>0, <2>1
<1>5. CASE StartLow
  <2>1. pc' = "bit" /\ sclLow' = TRUE /\ waiting' = waiting
    BY <1>5, SclFalls DEF StartLow
  <2> QED
    BY <1>0, <2>1
<1>6. CASE BitSet
  <2>1. /\ pc = "bit" /\ pc' = "bitHigh" /\ UNCHANGED <<waiting, dir, sclLow>>
    BY <1>6, SdaMoves DEF BitSet
  <2> QED
    BY <1>0, <2>1
<1>7. CASE BitLow
  <2>1. pc' \in {"bit", "ack"} /\ sclLow' = TRUE /\ waiting' = waiting
    BY <1>7, SclFalls DEF BitLow
  <2> QED
    BY <1>0, <2>1
<1>8. CASE AckRelease
  <2>1. /\ pc = "ack" /\ pc' = "ackHigh" /\ sdaLow' = FALSE
        /\ UNCHANGED <<waiting, sclLow, dir>>
    BY <1>8, SdaMoves DEF AckRelease, AckSda
  <2> QED
    BY <1>0, <2>1
<1>9. CASE AckLow
  <2>1. /\ pc = "ackLow" /\ pc' \in {"stop", "bit", "start", "read"}
        /\ UNCHANGED <<waiting, sdaLow>> /\ sclLow' = TRUE
        /\ pc' = "start" => dir' = "r"
    BY <1>9, SclFalls DEF AckLow
  <2> QED
    BY <1>0, <2>1
<1>10. CASE ReadRelease \/ Answer
  <2>1. /\ \/ pc = "read" /\ pc' = "readHigh" /\ sdaLow' = FALSE
           \/ pc = "answer" /\ pc' = "answerHigh"
        /\ UNCHANGED <<waiting, sclLow, dir>>
    BY <1>10, SdaMoves DEF ReadRelease, Answer
  <2> QED
    BY <1>0, <2>1
<1>11. CASE ReadLow
  <2>1. /\ pc = "readLow" /\ pc' \in {"readHigh", "answer"}
        /\ sclLow' = TRUE /\ UNCHANGED <<waiting, sdaLow>>
    BY <1>11, SclFalls DEF ReadLow
  <2> QED
    BY <1>0, <2>1
<1>12. CASE AnswerLow
  <2>1. pc' = "answerRelease" /\ sclLow' = TRUE /\ waiting' = waiting
    BY <1>12, SclFalls DEF AnswerLow
  <2> QED
    BY <1>0, <2>1
<1>13. CASE AnswerRelease
  <2>1. /\ pc = "answerRelease" /\ pc' \in {"read", "stop"} /\ sdaLow' = FALSE
        /\ UNCHANGED <<waiting, sclLow, dir>>
    <3>1. PICK to \in {"read", "stop"} : Sda("answerRelease", to, FALSE)
      BY <1>13 DEF AnswerRelease
    <3> QED
      BY <1>13, <3>1, SdaMoves DEF AnswerRelease
  <2> QED
    BY <1>0, <2>1
<1>14. CASE LetScl \/ UNCHANGED vars
  BY <1>0, <1>14 DEF LetScl, vars
<1> QED
  BY <1>1, <1>2, <1>3, <1>4, <1>5, <1>6, <1>7, <1>8, <1>9, <1>10, <1>11, <1>12,
     <1>13, <1>14 DEF Next, Master

\* Counters and buffers stay in their ranges: no byte has a bit too many, and
\* no more bytes are moved than the call was given, whatever the slave does.
THEOREM CallTypes == Spec => [](TypeOK /\ LoopInv /\ LineInv /\ CountInv)
<1>1. Init => TypeOK /\ LoopInv /\ LineInv /\ CountInv
  <2> SUFFICES ASSUME Init PROVE TypeOK /\ LoopInv /\ LineInv /\ CountInv
    OBVIOUS
  <2>1. MasterTypes
    <3>1. /\ wlen \in 0 .. MaxWrite /\ rlen \in 0 .. MaxRead
          /\ bit \in 0 .. Bits - 1 /\ byte \in 0 .. wlen
      BY DEF Init
    <3>2. out \in Seq(BOOLEAN) /\ in \in Seq(BOOLEAN)
      BY DEF Init
    <3> QED
      BY <3>1, <3>2 DEF Init, MasterTypes
  <2>2. LineTypes /\ SlaveTypes
    <3>1. sIn \in Seq(BOOLEAN) /\ sOut \in Seq(BOOLEAN) /\ cnt \in 0 .. Bits
      BY DEF Init
    <3> QED
      BY <3>1 DEF Init, LineTypes, SlaveTypes
  <2>3. LoopInv /\ LineInv /\ CountInv
    BY Phases DEF Init, LoopInv, LineInv, CountInv, Starting, Writing, Acking,
       Reading, Answering, Stopping, Awaited, Clocked, Released
  <2> QED
    BY <2>1, <2>2, <2>3, TypesSplit
<1>2. TypeOK /\ LoopInv /\ LineInv /\ CountInv /\ [Next]_vars
      => (TypeOK /\ LoopInv /\ LineInv /\ CountInv)'
  <2> SUFFICES ASSUME TypeOK, LoopInv, LineInv, CountInv, [Next]_vars
               PROVE  (TypeOK /\ LoopInv /\ LineInv /\ CountInv)'
    OBVIOUS
  <2>1. MasterTypes' /\ LineTypes' /\ SlaveTypes' /\ LoopInv' /\ LineInv' /\ CountInv'
    BY LoopStep, LineStep, LinesStep
  <2> QED
    BY <2>1, TypesSplit, PTL
<1> QED
  BY <1>1, <1>2, PTL DEF Spec

-----------------------------------------------------------------------------
(* Master and slave in step                                                *)

LEMMA Booleans ==
  ASSUME TypeOK
  PROVE  /\ sclLow \in BOOLEAN /\ sdaLow \in BOOLEAN /\ sSclLow \in BOOLEAN
         /\ sSdaLow \in BOOLEAN /\ SclHigh \in BOOLEAN /\ SdaHigh \in BOOLEAN
         /\ expired \in BOOLEAN /\ waiting \in BOOLEAN /\ dir \in {"w", "r"}
BY DEF TypeOK, SclHigh, SdaHigh

\* While SCL is low the slave does not look at SDA.
LEMMA SdaWhileLow ==
  ASSUME sclLow, NEW low \in BOOLEAN, NEW from, NEW to, Sda(from, to, low)
  PROVE  /\ UNCHANGED slave /\ pc = from /\ pc' = to /\ sdaLow' = low
         /\ UNCHANGED <<waiting, sclLow>> /\ ~SclHigh /\ ~SclHigh'
BY DEF Sda, Bus, SclHigh

\* Releasing SCL is a rise, or nothing as long as the slave stretches.
LEMMA ReleaseOf ==
  ASSUME TypeOK, Bus(FALSE, sdaLow)
  PROVE  /\ ~sclLow' /\ sdaLow' = sdaLow /\ sSclLow' = sSclLow
         /\ \/ ~SclHigh /\ SclHigh' /\ OnRise(SdaHigh)
            \/ (SclHigh' <=> SclHigh) /\ UNCHANGED slave
<1>1. CASE sSclLow
  BY <1>1 DEF Bus, SclHigh, SdaHigh, slave
<1>2. CASE ~sSclLow /\ sclLow
  BY <1>2 DEF Bus, SclHigh, SdaHigh, slave
<1>3. CASE ~sSclLow /\ ~sclLow
  BY <1>3 DEF Bus, SclHigh, SdaHigh, slave
<1> QED
  BY <1>1, <1>2, <1>3, Booleans

LEMMA FallOf ==
  ASSUME SclHigh, Bus(TRUE, sdaLow)
  PROVE  OnFall /\ sclLow' = TRUE /\ sdaLow' = sdaLow /\ ~SclHigh'
BY DEF Bus, SclHigh

LEMMA StartOf ==
  ASSUME SclHigh, SdaHigh, ~sclLow, Bus(sclLow, TRUE)
  PROVE  OnStart /\ ~sclLow' /\ sdaLow' = TRUE
BY DEF Bus, SclHigh, SdaHigh

LEMMA StopOf ==
  ASSUME SclHigh, sdaLow, ~sclLow, Bus(sclLow, FALSE)
  PROVE  /\ ~sclLow' /\ sdaLow' = FALSE
         /\ IF sSdaLow THEN UNCHANGED slave ELSE OnStop
BY DEF Bus, SclHigh, SdaHigh, slave

\* The bit of a START or STOP is dropped again.
LEMMA DropsOne ==
  ASSUME NEW q \in Seq(BOOLEAN), NEW b \in BOOLEAN, sIn = Append(q, b), cnt = 1,
         spc = "recv", DropBits
  PROVE  sIn' = q /\ cnt' = 0
<1>1. PICK s : s = Append(q, b)
  OBVIOUS
<1>2. /\ s \in Seq(BOOLEAN) /\ Len(s) = Len(q) + 1
      /\ \A i \in 1 .. Len(q) : s[i] = q[i]
  BY <1>1, AppendProperties
<1>3. SubSeq(s, 1, Len(s) - 1) = q
  <2>1. PICK n : n = Len(q)
    OBVIOUS
  <2>2. n \in Nat /\ Len(s) - 1 = n /\ n \in Int /\ 1 \in Int /\ n - 1 + 1 = n
    BY <1>2, <2>1
  <2>3. \A i \in 1 .. n : s[i] \in BOOLEAN
    BY <1>2, <2>1, ElementOfSeq
  <2>4. /\ SubSeq(s, 1, n) \in Seq(BOOLEAN)
        /\ Len(SubSeq(s, 1, n)) = n
        /\ \A i \in 1 .. n : SubSeq(s, 1, n)[i] = s[1 + i - 1]
    BY <2>2, <2>3, SubSeqProperties
  <2>5. \A i \in 1 .. n : SubSeq(s, 1, n)[i] = q[i]
    BY <1>2, <2>1, <2>2, <2>4
  <2> QED
    BY <2>1, <2>2, <2>4, <2>5, SeqEqual
<1> QED
  BY <1>1, <1>3 DEF DropBits

\* While the master waits at one place.
Still == UNCHANGED <<pc, op, wlen, rlen, dir, bit, byte, ack, out, in, sdaLow>>

LEMMA StillKeeps ==
  ASSUME TypeOK, SyncInv, Still, SclHigh' <=> SclHigh, sSclLow' => sSclLow,
         UNCHANGED <<spc, cnt, sFirst, sSdaLow, sIn, sOut>>
  PROVE  SyncInv'
<1>1. (SdaHigh' <=> SdaHigh) /\ SdaHigh' = SdaHigh /\ Append(out', SdaHigh') = Append(out, SdaHigh)
  BY DEF SdaHigh, Still
<1>2. WroteInv'
  BY <1>1 DEF SyncInv, WroteInv, Still, Starting, Writing, Acking, Reading,
     Answering, Stopping
<1>3. ReadInv'
  BY DEF SyncInv, ReadInv, Still, Even, Pending, Unread, Starting, Writing,
     Acking, Reading, Answering, Stopping, SendAck
<1>4. RestInv'
  BY DEF SyncInv, RestInv, Still, Even, Unread, Awaited
<1> QED
  BY <1>2, <1>3, <1>4 DEF SyncInv

\* A rise that is waited for: the slave samples the bit, or the answer.
LEMMA RiseKeeps ==
  ASSUME TypeOK, LoopInv, LineInv, CountInv, SyncInv, Still, pc \in DOMAIN HighPhases,
         ~SclHigh, SclHigh', OnRise(SdaHigh)
  PROVE  SyncInv'
<1>1. /\ UNCHANGED <<sFirst, sSdaLow, sOut>> /\ ~sSclLow' /\ ~sclLow'
      /\ SdaHigh' = SdaHigh
  BY DEF OnRise, Still, SdaHigh, SclHigh
<1> USE Phases DEF Still, Starting, Writing, Acking, Reading, Answering, Stopping
<1>2. CASE pc = "startHigh"
  <2>1. /\ Even /\ ~sdaLow /\ (dir = "w" => ~sclLow /\ ~sSclLow)
    BY <1>2 DEF SyncInv, ReadInv, RestInv, LineInv, Released
  <2>2. dir = "r" /\ spc = "recv" /\ cnt = 0 /\ sIn = out
    BY <1>2, <2>1, Booleans DEF SyncInv, ReadInv, WroteInv, SclHigh
  <2>3. spc' = "recv" /\ cnt' = 1 /\ sIn' = Append(out', SdaHigh')
    BY <1>1, <2>2 DEF OnRise
  <2>4. Even'
    BY <1>1, <2>1 DEF Even
  <2> QED
    BY <1>1, <1>2, <2>2, <2>3, <2>4 DEF SyncInv, WroteInv, ReadInv, RestInv, Awaited
<1>3. CASE pc = "stopHigh"
  <2>1. \/ spc \in {"recv", "off"} /\ Even
        \/ spc = "send" /\ Unread /\ Pending
    BY <1>3 DEF SyncInv, ReadInv
  <2>2. (Even => Even') /\ (Pending => Pending') /\ (Unread => Unread')
    BY <1>1 DEF Even, Pending, Unread
  <2>3. spc' = spc
    BY <2>1 DEF OnRise
  <2>4. ReadInv'
    BY <1>3, <2>1, <2>2, <2>3 DEF ReadInv
  <2>5. WroteInv'
    <3>1. CASE spc = "recv"
      <4>1. cnt = 0 /\ sIn = out
        BY <1>3, <3>1 DEF SyncInv, WroteInv
      <4>2. cnt' = 1 /\ sIn' = Append(out', SdaHigh')
        BY <1>1, <3>1, <4>1 DEF OnRise
      <4> QED
        BY <1>3, <2>3, <3>1, <4>2 DEF WroteInv
    <3>2. CASE spc # "recv"
      BY <1>3, <2>3, <3>2 DEF WroteInv, SyncInv, OnRise
    <3> QED
      BY <3>1, <3>2
  <2> QED
    BY <1>1, <1>3, <2>4, <2>5 DEF SyncInv, RestInv, Awaited
<1>4. CASE pc = "bitHigh"
  <2>1. /\ spc = "recv" /\ (sFirst <=> byte = 0) /\ cnt = bit
        /\ out = Append(sIn, ~sdaLow) /\ Even
        /\ byte = 0 /\ bit = Bits - 1 => (Last(out) <=> dir = "r")
    BY <1>4 DEF SyncInv, WroteInv, ReadInv
  <2>2. SdaHigh = ~sdaLow
    BY <2>1 DEF SdaHigh, Even
  <2>3. spc' = "recv" /\ cnt' = bit + 1 /\ sIn' = out
    BY <2>1, <2>2 DEF OnRise
  <2>4. Even'
    BY <1>1, <2>1 DEF Even
  <2>5. WroteInv'
    BY <1>1, <1>4, <2>1, <2>3 DEF WroteInv
  <2> QED
    BY <1>1, <1>4, <2>4, <2>5 DEF SyncInv, ReadInv, RestInv, Awaited
<1>5. CASE pc = "ackHigh"
  <2>1. spc \in {"ack", "off"}
    BY <1>5 DEF SyncInv, WroteInv
  <2>2. UNCHANGED <<spc, cnt, sIn>>
    BY <2>1 DEF OnRise
  <2>3. WroteInv'
    BY <1>1, <1>5, <2>2 DEF SyncInv, WroteInv
  <2>4. ReadInv'
    BY <1>1, <1>5, <2>2 DEF SyncInv, ReadInv
  <2> QED
    BY <1>1, <1>5, <2>3, <2>4 DEF SyncInv, RestInv, Awaited
<1>6. CASE pc = "readHigh"
  <2>1. spc = "send"
    BY <1>6 DEF SyncInv, ReadInv
  <2>2. UNCHANGED <<spc, cnt, sIn>>
    BY <2>1 DEF OnRise
  <2>3. WroteInv'
    BY <1>1, <1>6, <2>2 DEF SyncInv, WroteInv
  <2>4. ReadInv'
    BY <1>1, <1>6, <2>2 DEF SyncInv, ReadInv, Pending
  <2> QED
    BY <1>1, <1>6, <2>3, <2>4 DEF SyncInv, RestInv, Awaited
<1>7. CASE pc = "answerHigh"
  <2>1. Even /\ spc = "answer" /\ sIn = out /\ (sdaLow <=> SendAck)
    BY <1>7 DEF SyncInv, ReadInv, WroteInv
  <2>2. SdaHigh <=> ~sdaLow
    BY <2>1 DEF SdaHigh, Even
  <2>3. /\ spc' = IF sdaLow THEN "more" ELSE "off"
        /\ sIn' = sIn
    BY <2>1, <2>2 DEF OnRise
  <2>4. Even' /\ (SendAck' <=> SendAck)
    BY <1>1, <2>1 DEF Even, SendAck
  <2>5. WroteInv'
    BY <1>1, <1>7, <2>1, <2>3 DEF WroteInv
  <2>6. ReadInv'
    BY <1>1, <1>7, <2>1, <2>3, <2>4 DEF ReadInv
  <2> QED
    BY <1>1, <1>7, <2>5, <2>6 DEF SyncInv, RestInv, Awaited
<1> QED
  BY <1>2, <1>3, <1>4, <1>5, <1>6, <1>7

\* What a falling clock does, by what the slave is at.
LEMMA FallInByte ==
  ASSUME OnFall, spc = "recv", cnt < Bits, TypeOK
  PROVE  UNCHANGED <<spc, cnt, sFirst, sSdaLow, sIn, sOut>>
BY DEF OnFall, TypeOK

LEMMA FallAfterByte ==
  ASSUME OnFall, spc = "recv", cnt = Bits, TypeOK
  PROVE  /\ cnt' = 0 /\ UNCHANGED <<sFirst, sIn, sOut>>
         /\ \/ spc' = "ack" /\ sSdaLow' = TRUE
            \/ spc' = "off" /\ sSdaLow' = FALSE
BY DEF OnFall, TypeOK

LEMMA FallAfterAck ==
  ASSUME OnFall, spc = "ack"
  PROVE  /\ sFirst' = FALSE /\ sIn' = sIn
         /\ IF sFirst /\ Last(sIn)
            THEN spc' = "send" /\ cnt' = 1 /\ \E b \in BOOLEAN : Drive(b)
            ELSE spc' = "recv" /\ cnt' = cnt /\ LetSda
BY DEF OnFall

LEMMA FallOff ==
  ASSUME OnFall, spc = "off"
  PROVE  UNCHANGED <<spc, cnt, sFirst, sSdaLow, sIn, sOut>>
BY DEF OnFall

LEMMA FallSending ==
  ASSUME OnFall, spc = "send", cnt \in 1 .. Bits, TypeOK
  PROVE  /\ sIn' = sIn /\ sFirst' = sFirst
         /\ IF cnt < Bits
            THEN spc' = "send" /\ cnt' = cnt + 1 /\ \E b \in BOOLEAN : Drive(b)
            ELSE spc' = "answer" /\ LetSda
BY DEF OnFall, TypeOK

LEMMA FallMore ==
  ASSUME OnFall, spc = "more"
  PROVE  /\ sIn' = sIn /\ sFirst' = sFirst
         /\ spc' = "send" /\ cnt' = 1 /\ \E b \in BOOLEAN : Drive(b)
BY DEF OnFall

\* A bit driven is the one the master has not read yet.
LEMMA DrivenPending ==
  ASSUME TypeOK, in = sOut, in' = in, \E b \in BOOLEAN : Drive(b)
  PROVE  Pending'
<1>1. PICK b \in BOOLEAN : Drive(b)
  OBVIOUS
<1>2. sOut' = Append(in', b) /\ sSdaLow' = ~b
  BY <1>1 DEF Drive
<1>3. (~sSdaLow') = b
  BY <1>2
<1> QED
  BY <1>2, <1>3 DEF Pending

LEMMA InStep ==
  ASSUME TypeOK, LineInv, pc \in Awaited, RestInv
  PROVE  SclHigh
BY DEF LineInv, RestInv, SclHigh

LEMMA StartLowKeeps ==
  ASSUME TypeOK, LoopInv, LineInv, SyncInv, StartLow
  PROVE  SyncInv'
<1>1. /\ pc = "startLow" /\ pc' = "bit" /\ bit' = 0 /\ byte' = 0 /\ bit = 0
      /\ UNCHANGED <<op, wlen, rlen, dir, out, in>>
  BY DEF StartLow, SclDown, LoopInv, Writing, Reading, call
<1>2. SclHigh /\ Bus(TRUE, sdaLow)
  BY <1>1, InStep DEF SyncInv, Awaited, StartLow, SclDown
<1>3. OnFall /\ ~SclHigh'
  BY <1>2, FallOf
<1>4. spc = "recv" /\ sFirst /\ cnt = 0 /\ sIn = out /\ Even
  BY <1>1 DEF SyncInv, WroteInv, ReadInv
<1>5. UNCHANGED <<spc, cnt, sFirst, sSdaLow, sIn, sOut>>
  <2>1. cnt < Bits
    BY <1>4
  <2> QED
    BY <1>3, <1>4, <2>1, FallInByte
<1>6. WroteInv'
  BY <1>1, <1>3, <1>4, <1>5
  DEF WroteInv, Starting, Writing, Acking, Reading, Answering, Stopping
<1>7. ReadInv'
  BY <1>1, <1>4, <1>5
  DEF ReadInv, Even, Starting, Writing, Acking, Reading, Answering, Stopping
<1> QED
  BY <1>1, <1>6, <1>7 DEF SyncInv, RestInv, Awaited

LEMMA BitLowKeeps ==
  ASSUME TypeOK, LoopInv, LineInv, SyncInv, BitLow
  PROVE  SyncInv'
<1>1. /\ pc = "bitLow" /\ UNCHANGED <<op, wlen, rlen, dir, byte, ack, out, in>>
      /\ IF bit + 1 < Bits THEN bit' = bit + 1 /\ pc' = "bit"
                           ELSE bit' = 0 /\ pc' = "ack"
  BY DEF BitLow, SclDown, MoreBits, call
<1>2. SclHigh /\ Bus(TRUE, sdaLow)
  BY <1>1, InStep DEF SyncInv, Awaited, BitLow, SclDown
<1>3. OnFall /\ ~SclHigh'
  BY <1>2, FallOf
<1>4. /\ spc = "recv" /\ (sFirst <=> byte = 0) /\ cnt = bit + 1 /\ sIn = out /\ Even
      /\ byte = 0 /\ bit = Bits - 1 => (Last(out) <=> dir = "r")
  BY <1>1, <1>2 DEF SyncInv, WroteInv, ReadInv, Writing
<1>5. bit \in 0 .. Bits - 1
  BY DEF TypeOK
<1>6. CASE bit + 1 < Bits
  <2>1. UNCHANGED <<spc, cnt, sFirst, sSdaLow, sIn, sOut>>
    BY <1>3, <1>4, <1>6, FallInByte
  <2>2. WroteInv'
    BY <1>1, <1>3, <1>4, <1>6, <2>1
    DEF WroteInv, Starting, Writing, Acking, Reading, Answering, Stopping
  <2>3. ReadInv'
    BY <1>1, <1>4, <1>6, <2>1
    DEF ReadInv, Even, Starting, Writing, Acking, Reading, Answering, Stopping
  <2> QED
    BY <1>1, <1>6, <2>2, <2>3 DEF SyncInv, RestInv, Awaited
<1>7. CASE ~(bit + 1 < Bits)
  <2>1. cnt = Bits /\ bit = Bits - 1
    BY <1>4, <1>5, <1>7
  <2>2. /\ cnt' = 0 /\ UNCHANGED <<sFirst, sIn, sOut>>
        /\ \/ spc' = "ack" /\ sSdaLow' = TRUE
           \/ spc' = "off" /\ sSdaLow' = FALSE
    BY <1>3, <1>4, <2>1, FallAfterByte
  <2>3. WroteInv'
    BY <1>1, <1>4, <1>7, <2>1, <2>2
    DEF WroteInv, Starting, Writing, Acking, Reading, Answering, Stopping
  <2>4. ReadInv'
    BY <1>1, <1>4, <1>7, <2>2
    DEF ReadInv, Even, Starting, Writing, Acking, Reading, Answering, Stopping
  <2> QED
    BY <1>1, <1>7, <2>3, <2>4 DEF SyncInv, RestInv, Awaited
<1> QED
  BY <1>6, <1>7

LEMMA AckLowKeeps ==
  ASSUME TypeOK, LoopInv, LineInv, CountInv, SyncInv, AckLow
  PROVE  SyncInv'
<1>1. /\ pc = "ackLow" /\ UNCHANGED <<op, wlen, rlen, bit, ack, out, in>> /\ bit = 0
      /\ \/ ~ack /\ pc' = "stop" /\ UNCHANGED <<dir, byte>>
         \/ ack /\ dir = "w" /\ pc' = "bit" /\ byte' = byte + 1 /\ dir' = dir
         \/ ack /\ dir = "w" /\ pc' = "start" /\ dir' = "r" /\ byte' = 0
         \/ ack /\ dir = "r" /\ pc' = "read" /\ byte' = 0 /\ dir' = dir
         \/ /\ ack /\ (dir = "r" => rlen = 0)
            /\ pc' = "stop" /\ UNCHANGED <<dir, byte>>
  BY DEF AckLow, SclDown, LoopInv, Writing, Reading, call
<1>2. SclHigh /\ Bus(TRUE, sdaLow)
  BY <1>1, InStep DEF SyncInv, Awaited, AckLow, SclDown
<1>3. OnFall /\ ~SclHigh'
  BY <1>2, FallOf
<1>4. /\ spc \in {"ack", "off"} /\ (sFirst <=> byte = 0) /\ sIn = out
      /\ byte = 0 => (Last(out) <=> dir = "r")
      /\ ack <=> spc = "ack"
      /\ in = sOut /\ (sSdaLow <=> spc = "ack")
  BY <1>1 DEF SyncInv, WroteInv, ReadInv, Acking
<1>5. (dir = "r" => byte = 0) /\ dir \in {"w", "r"} /\ byte \in Nat
  BY <1>1 DEF LoopInv, Acking, TypeOK
<1>6. in = <<>>
  BY <1>1 DEF LoopInv, Reading, Answering, Stopping
<1> USE DEF Starting, Writing, Acking, Reading, Answering, Stopping
<1>7. CASE ~ack
  <2>1. spc = "off" /\ UNCHANGED <<spc, cnt, sFirst, sSdaLow, sIn, sOut>>
    BY <1>3, <1>4, <1>7, FallOff
  <2>2. WroteInv'
    BY <1>1, <1>4, <1>7, <2>1 DEF WroteInv
  <2>3. ReadInv'
    BY <1>1, <1>4, <1>7, <2>1 DEF ReadInv, Even
  <2> QED
    BY <1>1, <1>7, <2>2, <2>3 DEF SyncInv, RestInv, Awaited
<1>8. CASE ack /\ dir = "w"
  <2>1. spc = "ack" /\ cnt = 0 /\ ~(sFirst /\ Last(sIn))
    BY <1>4, <1>8 DEF CountInv
  <2>2. /\ spc' = "recv" /\ cnt' = 0 /\ sFirst' = FALSE
        /\ sIn' = sIn /\ sSdaLow' = FALSE /\ sOut' = sOut
    BY <1>3, <2>1, FallAfterAck DEF LetSda
  <2>3. Even'
    BY <1>1, <1>4, <2>2 DEF Even
  <2>4. WroteInv'
    BY <1>1, <1>3, <1>4, <1>5, <1>8, <2>2 DEF WroteInv
  <2>5. ReadInv'
    BY <1>1, <1>8, <2>2, <2>3 DEF ReadInv
  <2> QED
    BY <1>1, <1>8, <2>4, <2>5 DEF SyncInv, RestInv, Awaited
<1>9. CASE ack /\ dir = "r"
  <2>1. spc = "ack" /\ sFirst /\ Last(sIn)
    BY <1>4, <1>5, <1>9
  <2>2. /\ spc' = "send" /\ cnt' = 1 /\ sIn' = sIn
        /\ \E b \in BOOLEAN : Drive(b)
    BY <1>3, <2>1, FallAfterAck
  <2>3. Pending'
    BY <1>1, <1>4, <2>2, DrivenPending
  <2>4. WroteInv'
    BY <1>1, <1>4, <1>9, <2>2 DEF WroteInv
  <2>5. ReadInv'
    BY <1>1, <1>6, <1>9, <2>2, <2>3 DEF ReadInv, Unread
  <2> QED
    BY <1>1, <1>9, <2>4, <2>5 DEF SyncInv, RestInv, Awaited
<1> QED
  BY <1>5, <1>7, <1>8, <1>9

LEMMA ReadLowKeeps ==
  ASSUME TypeOK, LineInv, SyncInv, ReadLow
  PROVE  SyncInv'
<1>1. /\ pc = "readLow" /\ UNCHANGED <<op, wlen, rlen, dir, byte, ack, out, in>>
      /\ IF bit + 1 < Bits THEN bit' = bit + 1 /\ pc' = "readHigh"
                           ELSE bit' = 0 /\ pc' = "answer"
  BY DEF ReadLow, SclDown, MoreBits, call
<1>2. SclHigh /\ Bus(TRUE, sdaLow)
  BY <1>1, InStep DEF SyncInv, Awaited, ReadLow, SclDown
<1>3. OnFall /\ ~SclHigh'
  BY <1>2, FallOf
<1>4. spc = "send" /\ cnt = bit + 1 /\ in = sOut /\ sIn = out
  BY <1>1 DEF SyncInv, WroteInv, ReadInv, Reading
<1>5. bit \in 0 .. Bits - 1 /\ Bits \in Nat
  BY DEF TypeOK
<1>6. cnt \in 1 .. Bits
  BY <1>4, <1>5
<1> USE DEF Starting, Writing, Acking, Reading, Answering, Stopping
<1>7. CASE bit + 1 < Bits
  <2>1. /\ spc' = "send" /\ cnt' = cnt + 1 /\ sIn' = sIn
        /\ \E b \in BOOLEAN : Drive(b)
    BY <1>3, <1>4, <1>6, <1>7, FallSending
  <2>2. Pending'
    BY <1>1, <1>4, <2>1, DrivenPending
  <2>3. WroteInv'
    BY <1>1, <1>4, <1>7, <2>1 DEF WroteInv
  <2>4. ReadInv'
    BY <1>1, <1>4, <1>7, <2>1, <2>2 DEF ReadInv
  <2> QED
    BY <1>1, <1>7, <2>3, <2>4 DEF SyncInv, RestInv, Awaited
<1>8. CASE ~(bit + 1 < Bits)
  <2>1. spc' = "answer" /\ sIn' = sIn /\ sSdaLow' = FALSE /\ sOut' = sOut
    BY <1>3, <1>4, <1>6, <1>8, FallSending DEF LetSda
  <2>2. WroteInv'
    BY <1>1, <1>4, <1>8, <2>1 DEF WroteInv
  <2>3. ReadInv'
    BY <1>1, <1>3, <1>4, <1>8, <2>1 DEF ReadInv, Even
  <2> QED
    BY <1>1, <1>8, <2>2, <2>3 DEF SyncInv, RestInv, Awaited
<1> QED
  BY <1>7, <1>8

LEMMA AnswerLowKeeps ==
  ASSUME TypeOK, LineInv, SyncInv, AnswerLow
  PROVE  SyncInv'
<1>1. /\ pc = "answerLow" /\ pc' = "answerRelease"
      /\ UNCHANGED <<op, wlen, rlen, dir, bit, byte, ack, out, in>>
  BY DEF AnswerLow, SclDown, call
<1>2. SclHigh /\ Bus(TRUE, sdaLow)
  BY <1>1, InStep DEF SyncInv, Awaited, AnswerLow, SclDown
<1>3. OnFall /\ ~SclHigh' /\ sdaLow' = sdaLow
  BY <1>2, FallOf
<1>4. /\ spc = (IF sdaLow THEN "more" ELSE "off") /\ Even /\ sIn = out
      /\ sdaLow <=> SendAck
  BY <1>1, <1>2 DEF SyncInv, WroteInv, ReadInv, Answering
<1>5. SendAck' <=> SendAck
  BY <1>1 DEF SendAck
<1> USE DEF Starting, Writing, Acking, Reading, Answering, Stopping
<1>6. CASE sdaLow
  <2>1. spc' = "send" /\ cnt' = 1 /\ sIn' = sIn /\ \E b \in BOOLEAN : Drive(b)
    BY <1>3, <1>4, <1>6, FallMore
  <2>2. Pending'
    BY <1>1, <1>4, <2>1, DrivenPending DEF Even
  <2>3. WroteInv'
    BY <1>1, <1>4, <2>1 DEF WroteInv
  <2>4. ReadInv'
    BY <1>1, <1>3, <1>4, <1>5, <1>6, <2>1, <2>2 DEF ReadInv
  <2> QED
    BY <1>1, <2>3, <2>4 DEF SyncInv, RestInv, Awaited
<1>7. CASE ~sdaLow
  <2>1. UNCHANGED <<spc, cnt, sFirst, sSdaLow, sIn, sOut>> /\ spc = "off"
    BY <1>3, <1>4, <1>7, FallOff
  <2>2. WroteInv'
    BY <1>1, <1>4, <2>1 DEF WroteInv
  <2>3. ReadInv'
    BY <1>1, <1>3, <1>4, <1>5, <1>7, <2>1 DEF ReadInv, Even
  <2> QED
    BY <1>1, <2>2, <2>3 DEF SyncInv, RestInv, Awaited
<1> QED
  BY <1>6, <1>7

\* SDA falls while SCL is high: the slave starts over.
LEMMA StartKeeps ==
  ASSUME TypeOK, LoopInv, LineInv, SyncInv, StartFall
  PROVE  SyncInv'
<1>1. /\ pc = "startFall" /\ pc' = "startLow" /\ bit = 0
      /\ UNCHANGED <<op, wlen, rlen, dir, bit, byte, ack, out, in>>
  BY DEF StartFall, Sda, call, LoopInv, Writing, Reading
<1>2. Even /\ SclHigh /\ ~sclLow /\ ~sdaLow
  BY <1>1, InStep
  DEF SyncInv, ReadInv, LineInv, Starting, Awaited, Released
<1>3. SdaHigh
  BY <1>2 DEF Even, SdaHigh
<1>4. OnStart
  BY <1>2, <1>3, StartOf DEF StartFall, Sda
<1>5. /\ spc' = "recv" /\ sFirst' = TRUE /\ LetSda /\ DropBits /\ cnt' = 0
      /\ sSclLow' = sSclLow
  BY <1>4 DEF OnStart, DropBits
<1>6. sIn' = out
  <2>1. CASE spc = "recv"
    <3>1. cnt = 1 /\ sIn = Append(out, SdaHigh)
      BY <1>1, <1>2, <2>1 DEF SyncInv, WroteInv, Starting
    <3>2. out \in Seq(BOOLEAN) /\ SdaHigh \in BOOLEAN
      BY DEF TypeOK, SdaHigh
    <3> QED
      BY <1>5, <2>1, <3>1, <3>2, DropsOne
  <2>2. CASE spc # "recv"
    BY <1>1, <1>5, <2>2 DEF SyncInv, WroteInv, Starting, DropBits
  <2> QED
    BY <2>1, <2>2
<1>7. Even'
  BY <1>1, <1>2, <1>5 DEF Even, LetSda
<1>8. ~sSclLow'
  BY <1>2, <1>5 DEF SclHigh
<1> USE DEF Starting, Writing, Acking, Reading, Answering, Stopping
<1>9. WroteInv'
  BY <1>1, <1>5, <1>6 DEF WroteInv
<1>10. ReadInv'
  BY <1>1, <1>7 DEF ReadInv
<1> QED
  BY <1>1, <1>8, <1>9, <1>10 DEF SyncInv, RestInv, Awaited

\* SDA rises while SCL is high: the slave is off the bus, unless it holds
\* SDA itself.
LEMMA StopKeeps ==
  ASSUME TypeOK, LineInv, SyncInv, StopRise
  PROVE  SyncInv'
<1>1. /\ pc = "stopRise" /\ pc' = "done"
      /\ UNCHANGED <<op, wlen, rlen, dir, bit, byte, ack, out, in>>
  BY DEF StopRise, Sda, call
<1>2. SclHigh /\ ~sclLow /\ sdaLow
  BY <1>1, InStep DEF SyncInv, LineInv, Awaited
<1>3. IF sSdaLow THEN UNCHANGED slave ELSE OnStop
  BY <1>2, StopOf DEF StopRise, Sda
<1>4. \/ spc \in {"recv", "off"} /\ Even
      \/ spc = "send" /\ Unread /\ Pending
  BY <1>1 DEF SyncInv, ReadInv, Stopping
<1>5. Unread' <=> Unread
  BY <1>1 DEF Unread
<1>6. sSclLow' = FALSE
  <2>1. sSclLow' = sSclLow
    BY <1>3 DEF slave, OnStop
  <2> QED
    BY <1>2, <2>1, Booleans DEF SclHigh
<1> USE DEF Starting, Writing, Acking, Reading, Answering, Stopping
<1>7. CASE sSdaLow
  <2>1. spc = "send" /\ Unread /\ Pending /\ UNCHANGED slave
    BY <1>3, <1>4, <1>7 DEF Even
  <2>2. sOut' = <<FALSE>> /\ sSdaLow' /\ sIn' = out
    <3>1. sOut = Append(<<>>, FALSE)
      <4>1. sOut = Append(<<>>, ~sSdaLow) /\ (~sSdaLow) = FALSE
        BY <1>7, <2>1 DEF Pending, Unread
      <4> QED
        BY <4>1
    <3>2. sIn = out
      BY <1>1, <2>1 DEF SyncInv, WroteInv
    <3> QED
      BY <1>7, <2>1, <3>1, <3>2 DEF slave
  <2>3. WroteInv'
    BY <1>1, <2>2 DEF WroteInv
  <2>4. ReadInv'
    BY <1>1 DEF ReadInv
  <2> QED
    BY <1>1, <1>5, <1>6, <2>1, <2>2, <2>3, <2>4 DEF SyncInv, RestInv
<1>8. CASE ~sSdaLow
  <2>1. spc' = "off" /\ sSdaLow' = FALSE /\ sOut' = sOut /\ DropBits
    BY <1>3, <1>8 DEF OnStop, LetSda
  <2>2. sIn' = out
    <3>1. CASE spc = "recv"
      <4>1. cnt = 1 /\ sIn = Append(out, SdaHigh)
        BY <1>1, <1>2, <3>1 DEF SyncInv, WroteInv
      <4>2. out \in Seq(BOOLEAN) /\ SdaHigh \in BOOLEAN
        BY DEF TypeOK, SdaHigh
      <4> QED
        BY <1>1, <2>1, <3>1, <4>1, <4>2, DropsOne
    <3>2. CASE spc # "recv"
      BY <1>1, <2>1, <3>2 DEF SyncInv, WroteInv, DropBits
    <3> QED
      BY <3>1, <3>2
  <2>3. Even' \/ (Unread' /\ sOut' = <<TRUE>>)
    <3>1. CASE Even
      BY <1>1, <2>1, <3>1 DEF Even
    <3>2. CASE Unread /\ Pending
      <4>1. sOut = Append(<<>>, ~sSdaLow) /\ (~sSdaLow) = TRUE
        BY <1>8, <3>2 DEF Pending, Unread
      <4>2. sOut = Append(<<>>, TRUE)
        BY <4>1
      <4> QED
        BY <1>5, <2>1, <3>2, <4>2
    <3> QED
      BY <1>4, <3>1, <3>2
  <2>4. WroteInv'
    BY <1>1, <2>2 DEF WroteInv
  <2>5. ReadInv'
    BY <1>1 DEF ReadInv
  <2> QED
    BY <1>1, <1>6, <2>1, <2>2, <2>3, <2>4, <2>5 DEF SyncInv, RestInv
<1> QED
  BY <1>7, <1>8

\* The master changes SDA while SCL is low.
LEMMA BitSetKeeps ==
  ASSUME TypeOK, LineInv, SyncInv, BitSet
  PROVE  SyncInv'
<1>1. PICK b \in BOOLEAN : /\ byte = 0 /\ bit = Bits - 1 => b = (dir = "r")
                           /\ Sda("bit", "bitHigh", ~b)
                           /\ out' = Append(out, b)
  BY DEF BitSet
<1>2. UNCHANGED <<op, wlen, rlen, dir, bit, byte, ack, in>>
  BY DEF BitSet, call
<1>3. pc = "bit" /\ sclLow
  BY <1>1 DEF Sda, LineInv, Clocked
<1>4. /\ UNCHANGED slave /\ pc' = "bitHigh" /\ sdaLow' = ~b
      /\ ~SclHigh /\ ~SclHigh'
  <2>1. (~b) \in BOOLEAN
    OBVIOUS
  <2> QED
    BY <1>1, <1>3, <2>1, SdaWhileLow
<1>5. /\ spc = "recv" /\ (sFirst <=> byte = 0) /\ cnt = bit /\ sIn = out /\ Even
  BY <1>3, <1>4 DEF SyncInv, WroteInv, ReadInv, Writing
<1>6. out' = Append(sIn', ~sdaLow') /\ Last(out') = b
  <2>1. (~sdaLow') = b /\ sIn' = sIn
    BY <1>4 DEF slave
  <2>2. Len(Append(out, b)) = Len(out) + 1 /\ Append(out, b)[Len(out) + 1] = b
    BY AppendProperties DEF TypeOK
  <2>3. Last(Append(out, b)) = b
    BY <2>2 DEF Last
  <2>4. out' = Append(sIn', ~sdaLow')
    <3>1. Append(sIn', ~sdaLow') = Append(out, b)
      BY <1>5, <2>1
    <3> QED
      BY <1>1, <3>1
  <2> QED
    BY <1>1, <2>3, <2>4
<1> USE DEF Starting, Writing, Acking, Reading, Answering, Stopping
<1>7. WroteInv'
  BY <1>1, <1>2, <1>4, <1>5, <1>6 DEF WroteInv, slave
<1>8. ReadInv'
  BY <1>2, <1>4, <1>5 DEF ReadInv, Even, slave
<1> QED
  BY <1>4, <1>7, <1>8 DEF SyncInv, RestInv, Awaited

LEMMA AckReleaseKeeps ==
  ASSUME TypeOK, LineInv, SyncInv, AckRelease
  PROVE  SyncInv'
<1>1. /\ Sda("ack", "ackHigh", FALSE)
      /\ UNCHANGED <<op, wlen, rlen, dir, bit, byte, ack, out, in>>
  BY DEF AckRelease, AckSda, call
<1>2. pc = "ack" /\ sclLow
  BY <1>1 DEF Sda, LineInv, Clocked
<1>3. UNCHANGED slave /\ pc' = "ackHigh" /\ ~SclHigh'
  BY <1>1, <1>2, SdaWhileLow
<1> USE DEF Starting, Writing, Acking, Reading, Answering, Stopping
<1>4. WroteInv'
  BY <1>1, <1>2, <1>3 DEF SyncInv, WroteInv, slave
<1>5. ReadInv'
  BY <1>1, <1>2, <1>3 DEF SyncInv, ReadInv, slave
<1> QED
  BY <1>3, <1>4, <1>5 DEF SyncInv, RestInv, Awaited

LEMMA ReadReleaseKeeps ==
  ASSUME TypeOK, LineInv, SyncInv, ReadRelease
  PROVE  SyncInv'
<1>1. /\ Sda("read", "readHigh", FALSE)
      /\ UNCHANGED <<op, wlen, rlen, dir, bit, byte, ack, out, in>>
  BY DEF ReadRelease, call
<1>2. pc = "read" /\ sclLow
  BY <1>1 DEF Sda, LineInv, Clocked
<1>3. UNCHANGED slave /\ pc' = "readHigh"
  BY <1>1, <1>2, SdaWhileLow
<1> USE DEF Starting, Writing, Acking, Reading, Answering, Stopping
<1>4. WroteInv'
  BY <1>1, <1>2, <1>3 DEF SyncInv, WroteInv, slave
<1>5. ReadInv'
  BY <1>1, <1>2, <1>3 DEF SyncInv, ReadInv, Pending, slave
<1> QED
  BY <1>3, <1>4, <1>5 DEF SyncInv, RestInv, Awaited

LEMMA AnswerKeeps ==
  ASSUME TypeOK, LineInv, SyncInv, Answer
  PROVE  SyncInv'
<1>1. /\ Sda("answer", "answerHigh", SendAck) /\ SendAck \in BOOLEAN
      /\ UNCHANGED <<op, wlen, rlen, dir, bit, byte, ack, out, in>>
      /\ (SendAck' <=> SendAck)
  BY DEF Answer, call, SendAck
<1>2. pc = "answer" /\ sclLow
  BY <1>1 DEF Sda, LineInv, Clocked
<1>3. /\ UNCHANGED slave /\ pc' = "answerHigh" /\ (sdaLow' <=> SendAck)
      /\ ~SclHigh /\ ~SclHigh'
  BY <1>1, <1>2, SdaWhileLow
<1> USE DEF Starting, Writing, Acking, Reading, Answering, Stopping
<1>4. WroteInv'
  BY <1>1, <1>2, <1>3 DEF SyncInv, WroteInv, slave
<1>5. ReadInv'
  BY <1>1, <1>2, <1>3 DEF SyncInv, ReadInv, Even, slave
<1> QED
  BY <1>3, <1>4, <1>5 DEF SyncInv, RestInv, Awaited

LEMMA AnswerReleaseKeeps ==
  ASSUME TypeOK, LoopInv, LineInv, SyncInv, AnswerRelease
  PROVE  SyncInv'
<1>1. PICK to \in {"read", "stop"} :
        /\ Sda("answerRelease", to, FALSE)
        /\ to = IF SendAck THEN "read" ELSE "stop"
  BY DEF AnswerRelease, SendAck
<1>2. UNCHANGED <<op, wlen, rlen, dir, bit, ack, out, in>>
  BY DEF AnswerRelease, call
<1>3. pc = "answerRelease" /\ sclLow
  BY <1>1 DEF Sda, LineInv, Clocked
<1>4. UNCHANGED slave /\ pc' = to /\ ~SclHigh'
  BY <1>1, <1>3, SdaWhileLow
<1> USE DEF Starting, Writing, Acking, Reading, Answering, Stopping
<1>5. /\ sIn = out /\ (sdaLow <=> SendAck)
      /\ IF sdaLow THEN spc = "send" /\ cnt = 1 /\ Pending
                   ELSE spc = "off" /\ Even
  BY <1>3 DEF SyncInv, WroteInv, ReadInv
<1>6. WroteInv'
  BY <1>1, <1>2, <1>4, <1>5 DEF WroteInv, slave
<1>7. CASE SendAck
  <2>1. bit' = 0
    BY <1>2, <1>3 DEF LoopInv
  <2>2. Pending'
    BY <1>2, <1>4, <1>5, <1>7 DEF Pending, slave
  <2>3. ReadInv'
    BY <1>1, <1>4, <1>5, <1>7, <2>1, <2>2 DEF ReadInv, slave
  <2> QED
    BY <1>1, <1>4, <1>6, <1>7, <2>3 DEF SyncInv, RestInv, Awaited
<1>8. CASE ~SendAck
  <2>1. Even'
    BY <1>2, <1>4, <1>5, <1>8 DEF Even, slave
  <2>2. ReadInv'
    BY <1>1, <1>4, <1>5, <1>8, <2>1 DEF ReadInv, slave
  <2> QED
    BY <1>1, <1>4, <1>6, <1>8, <2>2 DEF SyncInv, RestInv, Awaited
<1> QED
  BY <1>7, <1>8

LEMMA StopLowKeeps ==
  ASSUME TypeOK, LineInv, SyncInv, StopLow
  PROVE  SyncInv'
<1>1. /\ Sda("stop", "stopHigh", TRUE)
      /\ UNCHANGED <<op, wlen, rlen, dir, bit, byte, ack, out, in>>
  BY DEF StopLow, call
<1>2. pc = "stop" /\ sclLow
  BY <1>1 DEF Sda, LineInv, Clocked
<1>3. UNCHANGED slave /\ pc' = "stopHigh" /\ ~SclHigh /\ ~SclHigh'
  BY <1>1, <1>2, SdaWhileLow
<1> USE DEF Starting, Writing, Acking, Reading, Answering, Stopping
<1>4. WroteInv'
  BY <1>1, <1>2, <1>3 DEF SyncInv, WroteInv, slave
<1>5. ReadInv'
  BY <1>1, <1>2, <1>3 DEF SyncInv, ReadInv, Even, Pending, Unread, slave
<1> QED
  BY <1>3, <1>4, <1>5 DEF SyncInv, RestInv, Awaited

\* The idle lines before START stay as they are; before a repeated START
\* SCL is still low.
LEMMA StartReleaseKeeps ==
  ASSUME TypeOK, LineInv, SyncInv, StartRelease
  PROVE  SyncInv'
<1>1. /\ pc = "start" /\ pc' = "startHigh" /\ Bus(sclLow, FALSE)
      /\ UNCHANGED <<op, wlen, rlen, dir, bit, byte, ack, out, in>>
  BY DEF StartRelease, Sda, call
<1>2. ~sdaLow /\ IF dir = "w" THEN ~sclLow /\ ~sSclLow ELSE sclLow
  BY <1>1, Booleans DEF LineInv, SyncInv, RestInv, Released, Starting
<1>3. UNCHANGED slave /\ sclLow' = sclLow /\ sdaLow' = sdaLow
  BY <1>1, <1>2, Booleans DEF Bus, SclHigh, SdaHigh, slave
<1>4. (SclHigh' <=> SclHigh) /\ SdaHigh' = SdaHigh
  BY <1>3 DEF SclHigh, SdaHigh, slave
<1> USE DEF Starting, Writing, Acking, Reading, Answering, Stopping
<1>5. WroteInv'
  BY <1>1, <1>3, <1>4 DEF SyncInv, WroteInv, slave
<1>6. ReadInv'
  BY <1>1, <1>3 DEF SyncInv, ReadInv, Even, slave
<1> QED
  BY <1>1, <1>2, <1>3, <1>5, <1>6 DEF SyncInv, RestInv, Awaited, slave

\* The clock is seen high in time.
LEMMA WaitKeeps ==
  ASSUME TypeOK, SyncInv, SclWait, SclHigh
  PROVE  SyncInv'
<1>1. /\ pc' = HighPhases[pc] /\ pc \in DOMAIN HighPhases
      /\ UNCHANGED <<op, wlen, rlen, dir, bit, byte, ack, lines, out, in, slave>>
  BY DEF SclWait, TypeOK
<1>2. \/ pc = "startHigh" /\ pc' = "startFall"
      \/ pc = "stopHigh" /\ pc' = "stopRise"
      \/ pc = "bitHigh" /\ pc' = "bitLow"
      \/ pc = "ackHigh" /\ pc' = "ackRead"
      \/ pc = "readHigh" /\ pc' = "readBit"
      \/ pc = "answerHigh" /\ pc' = "answerLow"
  BY <1>1 DEF HighPhases
<1>3. SclHigh' /\ SdaHigh' = SdaHigh /\ ~sSclLow'
  BY <1>1 DEF lines, slave, SclHigh, SdaHigh
<1> USE DEF Starting, Writing, Acking, Reading, Answering, Stopping
<1>4. WroteInv'
  BY <1>1, <1>2, <1>3 DEF SyncInv, WroteInv, lines, slave
<1>5. ReadInv'
  BY <1>1, <1>2, <1>3
  DEF SyncInv, ReadInv, Even, Pending, Unread, SendAck, lines, slave
<1> QED
  BY <1>2, <1>3, <1>4, <1>5 DEF SyncInv, RestInv, Awaited

LEMMA AckReadKeeps ==
  ASSUME TypeOK, LineInv, SyncInv, AckRead
  PROVE  SyncInv'
<1>1. /\ pc = "ackRead" /\ pc' = "ackLow" /\ ack' = ~SdaHigh
      /\ UNCHANGED <<op, wlen, rlen, dir, bit, byte, lines, out, in, slave>>
  BY DEF AckRead, call
<1>2. ~sdaLow /\ (sSdaLow <=> spc = "ack") /\ ~sSclLow
  BY <1>1 DEF LineInv, SyncInv, ReadInv, RestInv, Released, Awaited, Acking
<1>3. ack' <=> spc' = "ack"
  BY <1>1, <1>2 DEF SdaHigh, slave
<1> USE DEF Starting, Writing, Acking, Reading, Answering, Stopping
<1>4. WroteInv'
  BY <1>1, <1>3 DEF SyncInv, WroteInv, slave
<1>5. ReadInv'
  BY <1>1 DEF SyncInv, ReadInv, slave
<1> QED
  BY <1>1, <1>2, <1>4, <1>5 DEF SyncInv, RestInv, Awaited, slave

\* The bit read is the one the slave drives.
LEMMA ReadBitKeeps ==
  ASSUME TypeOK, LineInv, SyncInv, ReadBit
  PROVE  SyncInv'
<1>1. /\ pc = "readBit" /\ pc' = "readLow" /\ in' = Append(in, SdaHigh)
      /\ UNCHANGED <<op, wlen, rlen, dir, bit, byte, ack, lines, out, slave>>
  BY DEF ReadBit, call
<1>2. ~sdaLow /\ Pending /\ ~sSclLow
  BY <1>1 DEF LineInv, SyncInv, ReadInv, RestInv, Released, Awaited, Reading
<1>3. in' = sOut'
  <2>1. SdaHigh = ~sSdaLow
    BY <1>2 DEF SdaHigh
  <2> QED
    BY <1>1, <1>2, <2>1 DEF Pending, slave
<1> USE DEF Starting, Writing, Acking, Reading, Answering, Stopping
<1>4. WroteInv'
  BY <1>1 DEF SyncInv, WroteInv, slave
<1>5. ReadInv'
  BY <1>1, <1>3 DEF SyncInv, ReadInv, slave
<1> QED
  BY <1>1, <1>2, <1>4, <1>5 DEF SyncInv, RestInv, Awaited, slave

LEMMA EntryKeeps ==
  ASSUME TypeOK, LoopInv, SyncInv, InitCall \/ Enter
  PROVE  SyncInv'
<1>1. /\ pc \in {"init", "call"} /\ pc' \in {"call", "start", "done"}
      /\ UNCHANGED <<op, wlen, rlen, dir, bit, byte, ack, lines, out, in, slave>>
  BY DEF InitCall, Enter, call
<1>2. dir = "w" /\ spc = "off" /\ sIn = out /\ Even /\ ~sSclLow
  BY <1>1 DEF LoopInv, SyncInv, ReadInv, RestInv, Awaited
<1>3. Even'
  BY <1>1, <1>2 DEF Even, slave
<1> USE DEF Starting, Writing, Acking, Reading, Answering, Stopping
<1>4. WroteInv'
  BY <1>1, <1>2 DEF WroteInv, slave
<1>5. ReadInv'
  BY <1>1, <1>2, <1>3 DEF ReadInv, slave
<1> QED
  BY <1>1, <1>2, <1>3, <1>4, <1>5 DEF SyncInv, RestInv, Awaited, slave

LEMMA ReleaseKeeps ==
  ASSUME TypeOK, LoopInv, LineInv, CountInv, SyncInv, SclRelease
  PROVE  SyncInv'
<1>1. Bus(FALSE, sdaLow) /\ pc \in DOMAIN HighPhases
  BY DEF SclRelease
<1>2. /\ sdaLow' = sdaLow /\ sSclLow' = sSclLow
      /\ \/ ~SclHigh /\ SclHigh' /\ OnRise(SdaHigh)
         \/ (SclHigh' <=> SclHigh) /\ UNCHANGED slave
  BY <1>1, ReleaseOf
<1>3. Still
  BY <1>2 DEF SclRelease, Still, call
<1>4. CASE ~SclHigh /\ SclHigh' /\ OnRise(SdaHigh)
  BY <1>1, <1>3, <1>4, RiseKeeps
<1>5. CASE (SclHigh' <=> SclHigh) /\ UNCHANGED slave
  BY <1>2, <1>3, <1>5, StillKeeps DEF slave
<1> QED
  BY <1>2, <1>4, <1>5

\* The slave stretches only where the master waits for SCL.
LEMMA LetSclKeeps ==
  ASSUME TypeOK, LoopInv, LineInv, CountInv, SyncInv, LetScl
  PROVE  SyncInv'
<1>1. Still /\ sSclLow /\ ~sSclLow' /\ sclLow' = sclLow /\ ~SclHigh
  BY DEF LetScl, Still, lines, call, SclHigh
<1>2. CASE sclLow
  <2>1. (SclHigh' <=> SclHigh) /\ UNCHANGED <<spc, cnt, sFirst, sSdaLow, sIn, sOut>>
    BY <1>1, <1>2 DEF LetScl, SclHigh
  <2> QED
    BY <1>1, <2>1, StillKeeps
<1>3. CASE ~sclLow
  <2>1. OnRise(SdaHigh) /\ SclHigh'
    BY <1>1, <1>3 DEF LetScl, SclHigh
  <2>2. pc \in DOMAIN HighPhases
    BY <1>1, <1>3 DEF TypeOK, LineInv, SyncInv, RestInv, Awaited, Clocked
  <2> QED
    BY <1>1, <2>1, <2>2, RiseKeeps
<1> QED
  BY <1>2, <1>3

LEMMA SyncStep ==
  ASSUME TypeOK, LoopInv, LineInv, CountInv, ~expired => SyncInv, [Next]_vars
  PROVE  ~expired' => SyncInv'
<1> SUFFICES ASSUME ~expired' PROVE SyncInv'
  OBVIOUS
<1>1. CASE SclWait
  <2>1. SyncInv /\ SclHigh
    BY <1>1 DEF SclWait
  <2> QED
    BY <1>1, <2>1, WaitKeeps
<1>2. CASE UNCHANGED vars
  <2>1. /\ Still /\ UNCHANGED <<spc, cnt, sFirst, sSdaLow, sIn, sOut>>
        /\ sSclLow' = sSclLow /\ sclLow' = sclLow /\ expired' = expired
    BY <1>2 DEF vars, Still, slave, lines, call
  <2>2. SclHigh' <=> SclHigh
    BY <2>1 DEF SclHigh
  <2> QED
    BY <2>1, <2>2, StillKeeps
<1>3. CASE (Master \/ LetScl) /\ ~SclWait
  <2>1. expired' = expired
    BY <1>3 DEF Master, InitCall, Enter, SclRelease, StartRelease, StartFall,
       StartLow, BitSet, BitLow, AckRelease, AckRead, AckLow, ReadRelease, ReadBit,
       ReadLow, Answer, AnswerLow, AnswerRelease, StopLow, StopRise, LetScl, call
  <2>2. SyncInv
    BY <2>1
  <2> QED
    BY <1>3, <2>2, EntryKeeps, ReleaseKeeps, StartReleaseKeeps, StartKeeps,
       StartLowKeeps, BitSetKeeps, BitLowKeeps, AckReleaseKeeps, AckReadKeeps,
       AckLowKeeps, ReadReleaseKeeps, ReadBitKeeps, ReadLowKeeps, AnswerKeeps,
       AnswerLowKeeps, AnswerReleaseKeeps, StopLowKeeps, StopKeeps, LetSclKeeps
    DEF Master
<1> QED
  BY <1>1, <1>2, <1>3 DEF Next

\* Up to the first stretch that outlasts the timeout, master and slave stay
\* in step bit by bit, whenever the slave stretches and whatever it refuses.
THEOREM SyncInvariant == Spec => []I2cInv
<1>1. Init => SyncInv
  BY DEF Init, SyncInv, WroteInv, ReadInv, RestInv, Even, Starting, Writing,
     Acking, Reading, Answering, Stopping
<1>2. TypeOK /\ LoopInv /\ LineInv /\ CountInv /\ (~expired => SyncInv) /\ [Next]_vars
      => (~expired => SyncInv)'
  BY SyncStep
<1> QED
  BY <1>1, <1>2, CallTypes, PTL DEF Spec, I2cInv

LEMMA WholeSubSeq ==
  ASSUME NEW q \in Seq(BOOLEAN)
  PROVE  SubSeq(q, 1, Len(q)) = q /\ SubSeq(q, Len(q) + 1, Len(q)) = <<>>
<1>1. PICK n : n = Len(q)
  OBVIOUS
<1>2. n \in Nat /\ n \in Int /\ n + 1 \in Int /\ 1 \in Int
  BY <1>1, LenProperties
<1>3. SubSeq(q, 1, n) = q
  BY <1>1, <1>2, SubSeqFull
<1>4. SubSeq(q, n + 1, n) = <<>>
  BY <1>1, <1>2, SubSeqEmpty
<1> QED
  BY <1>1, <1>3, <1>4

\* OK is returned for exactly what went over the bus.
THEOREM OkIsTrue == Spec => []OkMeansDone
<1>1. TypeOK /\ I2cInv => OkMeansDone
  <2> SUFFICES ASSUME TypeOK, I2cInv, pc = "done", status = "OK", ~expired
               PROVE  /\ sIn = out /\ in = SubSeq(sOut, 1, Len(in))
                      /\ Surplus # <<>> => dir = "r" /\ rlen = 0
    BY DEF OkMeansDone
  <2>1. SyncInv
    BY DEF I2cInv
  <2>2. sIn = out
    BY <2>1 DEF SyncInv, WroteInv
  <2>3. sOut \in Seq(BOOLEAN)
    BY DEF TypeOK
  <2>4. CASE Even
    <3>1. SubSeq(sOut, 1, Len(in)) = in /\ Surplus = <<>>
      BY <2>3, <2>4, WholeSubSeq DEF Even, Surplus
    <3> QED
      BY <2>2, <3>1
  <2>5. CASE Unread
    <3>1. in = <<>> /\ SubSeq(sOut, 1, 0) = <<>>
      BY <2>3, <2>5, SubSeqEmpty DEF Unread
    <3> QED
      BY <2>2, <2>5, <3>1 DEF Unread
  <2> QED
    BY <2>1, <2>4, <2>5 DEF SyncInv, RestInv
<1> QED
  BY <1>1, CallTypes, SyncInvariant, PTL

\* Whatever is returned, the bus is given back.
THEOREM BusIsFree == Spec => []BusFree
<1>1. TypeOK /\ I2cInv => BusFree
  <2> SUFFICES ASSUME TypeOK, I2cInv, pc = "done", ~expired
               PROVE  \/ SclHigh /\ SdaHigh /\ spc = "off"
                      \/ dir = "r" /\ rlen = 0 /\ Surplus = <<FALSE>>
    BY DEF BusFree
  <2>1. RestInv /\ ~sclLow /\ ~sdaLow /\ ~sSclLow
    BY DEF I2cInv, SyncInv, RestInv, LineInv, Awaited, Released
  <2>2. CASE spc = "off" /\ ~sSdaLow
    BY <2>1, <2>2 DEF SclHigh, SdaHigh
  <2>3. CASE Unread /\ sOut = <<FALSE>>
    <3>1. in = <<>> /\ Len(sOut) = 1 /\ sOut \in Seq(BOOLEAN)
      BY <2>3 DEF Unread, TypeOK
    <3>2. SubSeq(sOut, 1, Len(sOut)) = <<FALSE>>
      BY <2>3, <3>1, WholeSubSeq
    <3>3. Surplus = <<FALSE>>
      <4>1. Len(in) + 1 = 1
        BY <3>1
      <4> QED
        BY <3>2, <4>1 DEF Surplus
    <3> QED
      BY <2>3, <3>3 DEF Unread
  <2> QED
    BY <2>1, <2>2, <2>3 DEF RestInv, Even
<1> QED
  BY <1>1, CallTypes, SyncInvariant, PTL
=============================================================================
