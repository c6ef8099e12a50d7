------------------------------ MODULE CanNodes ------------------------------
(***************************************************************************)
(* Two CAN nodes, the LPC1768 and the RP2040, each running the same loop   *)
(* over drivers::Mcp2515 against an MCP2515 of its own, and the bus that   *)
(* joins the two chips.  The LPC1768 may run the loopback test instead,    *)
(* which sends to itself and takes no part in the traffic.                 *)
(*                                                                         *)
(* One SPI transaction (select, transfer, deselect) is one step, except    *)
(* READ RX BUFFER: the chip may store a frame while it is being clocked    *)
(* out.  Frames are told apart by the send that produced them: 1, 2, ...;  *)
(* 0 stands for contents that do not match the other node's ID.            *)
(* The chip and the bus are modelled from the way the driver uses them.    *)
(***************************************************************************)
EXTENDS Integers, Sequences, FiniteSets

CONSTANTS
  Lpc, Pico,     \* the nodes; the frames of Pico win the arbitration
  VerifyPolls,   \* CANSTAT reads in set_mode: 1000
  WaitPolls,     \* has_message calls of the loopback test: 1000
  Polls,         \* receive calls of a round: 100 on the LPC, 200 on the RP2040
  MaxSends,      \* bound: rounds of a node
  MaxErrors,     \* bound: frames spoilt on the bus
  MaxSpiFaults   \* bound: SPI transactions that do not return OK

ASSUME NodesAssumption == Lpc # Pico
ASSUME BoundsAssumption ==
  /\ {VerifyPolls, WaitPolls, Polls} \subseteq Nat \ {0}
  /\ MaxSends \in Nat \ {0} /\ MaxErrors \in Nat /\ MaxSpiFaults \in Nat

VARIABLES
  \* per node, the program
  pc,        \* next SPI transaction of init, send or the polling loop
  idx,       \* progress within it: CNF written, CANSTAT reads, polls
  rmw,       \* the OSM bit set_mode has read and will write back
  snap,      \* the header receive has clocked in so far
  sent,      \* counter: sends so far
  heard,     \* heard_lpc, heard_rp2040; pass of the loopback test
  \* per node, the chip
  mode, reqop, cnf, osm,
  txb, txreq,
  rxb, rx0if,
  \* environment and history
  bench,     \* the nodes that run the loopback test
  errors, spiFaults,
  arrived,   \* a frame reached RXB0 since the last green report
  last       \* the newest frame that reached RXB0

prog == <<pc, idx, rmw, snap, sent, heard>>
ctl  == <<mode, reqop, cnf, osm>>
bufs == <<txb, txreq, rxb, rx0if>>
hist == <<arrived, last>>
vars == <<prog, ctl, bufs, errors, bench, spiFaults, hist>>

Nodes    == {Lpc, Pico}
Other(n) == IF n = Lpc THEN Pico ELSE Lpc
CnfOrder == <<"CNF3", "CNF2", "CNF1">>
AllCnf   == {"CNF1", "CNF2", "CNF3"}
Looping  == {"load", "rts", "has", "confirm", "poll", "reading", "report", "done"}
Target(n) == IF n \in bench THEN "loopback" ELSE "normal"

Go(n, p)   == pc' = [pc EXCEPT ![n] = p] /\ idx' = [idx EXCEPT ![n] = 0]
Again(n)   == pc' = pc /\ idx' = [idx EXCEPT ![n] = @ + 1]
SpiOk      == UNCHANGED spiFaults
SpiFails   == spiFaults < MaxSpiFaults /\ spiFaults' = spiFaults + 1
InitFails(n) == Go(n, "halt")        \* main parks in its blinking loop

-----------------------------------------------------------------------------
(* Mcp2515::init                                                           *)

ChipReset(n) ==
  /\ mode' = [mode EXCEPT ![n] = "reset"]
  /\ reqop' = [reqop EXCEPT ![n] = "config"]
  /\ cnf' = [cnf EXCEPT ![n] = {}]
  /\ osm' = [osm EXCEPT ![n] = FALSE]
  /\ txreq' = [txreq EXCEPT ![n] = FALSE]
  /\ rx0if' = [rx0if EXCEPT ![n] = FALSE]

Reset(n) ==
  /\ pc[n] = "reset"
  /\ \/ SpiOk /\ ChipReset(n) /\ Go(n, "ost")
     \/ SpiFails /\ InitFails(n) /\ UNCHANGED <<ctl, txreq, rx0if>>
  /\ UNCHANGED <<rmw, snap, sent, heard, txb, rxb, errors, bench, hist>>

OstWaitNone(n) == TRUE
\* delay_us(ost_us): the chip has left its oscillator start-up.
OstWait(n) == mode[n] # "reset"

Delay(n) ==
  /\ pc[n] = "ost"
  /\ OstWait(n)
  /\ Go(n, "cnf")
  /\ UNCHANGED <<rmw, snap, sent, heard, ctl, bufs, errors, bench, spiFaults, hist>>

\* The chip takes a CNF value in Configuration mode only.
WriteCnf(n) ==
  /\ pc[n] = "cnf"
  /\ \/ /\ SpiOk
        /\ cnf' = [cnf EXCEPT ![n] = IF mode[n] = "config"
                                     THEN @ \cup {CnfOrder[idx[n] + 1]} ELSE @]
        /\ IF idx[n] < 2 THEN Again(n) ELSE Go(n, "mode")
     \/ SpiFails /\ InitFails(n) /\ UNCHANGED cnf
  /\ UNCHANGED <<rmw, snap, sent, heard, mode, reqop, osm, bufs, errors, bench, hist>>

\* set_mode reads CANCTRL ...
ReadCanctrl(n) ==
  /\ pc[n] = "mode"
  /\ \/ SpiOk /\ rmw' = [rmw EXCEPT ![n] = osm[n]] /\ Go(n, "request")
     \/ SpiFails /\ InitFails(n) /\ UNCHANGED rmw
  /\ UNCHANGED <<snap, sent, heard, ctl, bufs, errors, bench, hist>>

\* ... writes it back with REQOP = Normal or Loopback ...
WriteCanctrl(n) ==
  /\ pc[n] = "request"
  /\ \/ /\ SpiOk
        /\ reqop' = [reqop EXCEPT ![n] = Target(n)]
        /\ osm' = [osm EXCEPT ![n] = rmw[n]]
        /\ Go(n, "verify")
     \/ SpiFails /\ InitFails(n) /\ UNCHANGED <<reqop, osm>>
  /\ UNCHANGED <<rmw, snap, sent, heard, mode, cnf, bufs, errors, bench, hist>>

VerifyFailsNoLimit(n) == Again(n)
VerifyFailsNoCount(n) == UNCHANGED <<pc, idx>>
VerifyFails(n) == IF idx[n] + 1 < VerifyPolls THEN Again(n) ELSE InitFails(n)

VerifiedUnread(n) == TRUE
Verified(n) == mode[n] = Target(n)

\* ... and reads CANSTAT until OPMOD follows, VerifyPolls times at most.
ReadCanstat(n) ==
  /\ pc[n] = "verify"
  /\ \/ SpiOk /\ IF ~Verified(n) THEN VerifyFails(n)
                 ELSE Go(n, IF n \in bench THEN "load" ELSE "oneshot")
     \/ SpiFails /\ InitFails(n)
  /\ UNCHANGED <<rmw, snap, sent, heard, ctl, bufs, errors, bench, hist>>

OneShotBitUnset(n) == UNCHANGED osm
OneShotBit(n) == osm' = [osm EXCEPT ![n] = TRUE]

\* main sets OSM by BIT MODIFY and does not look at the status.
SetOneShot(n) ==
  /\ pc[n] = "oneshot"
  /\ \/ SpiOk /\ OneShotBit(n)
     \/ SpiFails /\ UNCHANGED osm
  /\ Go(n, "load")
  /\ UNCHANGED <<rmw, snap, sent, heard, mode, reqop, cnf, bufs, errors, bench, hist>>

-----------------------------------------------------------------------------
(* The loop of main: send, then receive over and over; the loopback test   *)
(* gives a round up when send fails.                                       *)

\* The half second or more of a round outlasts the one attempt of One-Shot
\* mode, and a loopback; without them a frame nobody acknowledges stays pending.
RoundOver(n) == osm[n] \/ n \in bench => ~txreq[n]

SendFailed(n) == Go(n, IF n \in bench THEN "report" ELSE "poll")

\* LOAD TX BUFFER.  TXREQ is not looked at: with a frame still pending the
\* chip may keep the old contents.
Load(n) ==
  /\ pc[n] = "load" /\ sent[n] < MaxSends
  /\ RoundOver(n)
  /\ sent' = [sent EXCEPT ![n] = @ + 1]
  /\ heard' = [heard EXCEPT ![n] = FALSE]
  /\ \/ /\ SpiOk /\ Go(n, "rts")
        /\ \/ txb' = [txb EXCEPT ![n] = sent[n] + 1]
           \/ txreq[n] /\ UNCHANGED txb
     \/ SpiFails /\ SendFailed(n) /\ UNCHANGED txb
  /\ UNCHANGED <<rmw, snap, ctl, txreq, rxb, rx0if, errors, bench, hist>>

Rts(n) ==
  /\ pc[n] = "rts"
  /\ \/ /\ SpiOk /\ Go(n, IF n \in bench THEN "has" ELSE "poll")
        /\ txreq' = [txreq EXCEPT ![n] = TRUE]
     \/ /\ SpiFails /\ SendFailed(n)
        /\ txreq' \in {txreq, [txreq EXCEPT ![n] = TRUE]}
  /\ UNCHANGED <<rmw, snap, sent, heard, ctl, txb, rxb, rx0if, errors, bench, hist>>

MessageAlways(n) == TRUE
Message(n) == rx0if[n]               \* has_message, if SPI works

\* The loopback test waits for has_message; WaitPolls calls outlast a frame.
HasMessage(n) ==
  /\ pc[n] = "has"
  /\ \/ SpiOk /\ Message(n) /\ Go(n, "confirm")
     \/ /\ (SpiOk /\ ~Message(n)) \/ SpiFails
        /\ IF idx[n] + 1 < WaitPolls THEN Again(n)
           ELSE ~txreq[n] /\ Go(n, "confirm")
  /\ UNCHANGED <<rmw, snap, sent, heard, ctl, bufs, errors, bench, hist>>

\* It asks once more and then reads.
Confirm(n) ==
  /\ pc[n] = "confirm"
  /\ \/ SpiOk /\ Go(n, IF Message(n) THEN "poll" ELSE "report")
     \/ SpiFails /\ Go(n, "report")
  /\ UNCHANGED <<rmw, snap, sent, heard, ctl, bufs, errors, bench, hist>>

NextPoll(n) ==
  IF n \notin bench /\ idx[n] + 1 < Polls
  THEN pc' = [pc EXCEPT ![n] = "poll"] /\ idx' = [idx EXCEPT ![n] = @ + 1]
  ELSE Go(n, "report")

\* receive reads RXB0 whether or not RX0IF is set: the header first ...
\* A transfer that fails is still followed by a rising CS, which clears RX0IF
\* if the instruction got through.
ReadHeader(n) ==
  /\ pc[n] = "poll"
  /\ \/ /\ SpiOk
        /\ snap' = [snap EXCEPT ![n] = rxb[n]]
        /\ pc' = [pc EXCEPT ![n] = "reading"] /\ UNCHANGED <<idx, rx0if>>
     \/ /\ SpiFails /\ NextPoll(n) /\ UNCHANGED snap
        /\ rx0if' \in {rx0if, [rx0if EXCEPT ![n] = FALSE]}
  /\ UNCHANGED <<rmw, sent, heard, ctl, txb, txreq, rxb, errors, bench, hist>>

\* ... then the data; CS rises and clears RX0IF.
ReadData(n) ==
  /\ pc[n] = "reading"
  /\ heard' = [heard EXCEPT ![n] = IF n \in bench THEN snap[n] = sent[n]
                                 ELSE @ \/ snap[n] # 0]
  /\ snap' = [snap EXCEPT ![n] = 0]
  /\ rx0if' = [rx0if EXCEPT ![n] = FALSE]
  /\ NextPoll(n)
  /\ UNCHANGED <<rmw, sent, ctl, txb, txreq, rxb, errors, bench, spiFaults, hist>>

\* The pixel or the LEDs show heard; the next round begins.
Report(n) ==
  /\ pc[n] = "report"
  /\ Go(n, IF sent[n] < MaxSends THEN "load" ELSE "done")
  /\ arrived' = [arrived EXCEPT ![n] = IF heard[n] THEN rx0if[n] ELSE @]
  /\ UNCHANGED <<rmw, snap, sent, heard, ctl, bufs, errors, bench, spiFaults, last>>

-----------------------------------------------------------------------------
(* The chips and the bus                                                   *)

OstExpires(n) ==
  /\ mode[n] = "reset"
  /\ mode' = [mode EXCEPT ![n] = "config"]
  /\ UNCHANGED <<prog, reqop, cnf, osm, bufs, errors, bench, spiFaults, hist>>

ModeFollows(n) ==
  /\ mode[n] = "config" /\ reqop[n] # "config"
  /\ mode' = [mode EXCEPT ![n] = reqop[n]]
  /\ UNCHANGED <<prog, reqop, cnf, osm, bufs, errors, bench, spiFaults, hist>>

OnBus(n) == mode[n] = "normal" /\ cnf[n] = AllCnf

\* RXB0 of m takes frame f unless it still holds one that was not read.
Store(m, f) ==
  IF rx0if[m] THEN UNCHANGED <<rxb, rx0if, hist>>
  ELSE /\ rxb' = [rxb EXCEPT ![m] = f]
       /\ rx0if' = [rx0if EXCEPT ![m] = TRUE]
       /\ arrived' = [arrived EXCEPT ![m] = TRUE]
       /\ last' = [last EXCEPT ![m] = f]

\* TXREQ after this attempt of n; the other node may have lost the same
\* arbitration.  In One-Shot mode an attempt that fails is the last one.
Attempted(n, ok) ==
  \E lost \in BOOLEAN :
    /\ lost => txreq[Other(n)] /\ osm[Other(n)] /\ OnBus(Other(n))
    /\ txreq' = [m \in Nodes |-> IF m = n THEN ~ok /\ ~osm[n]
                                 ELSE txreq[m] /\ ~lost]

\* A frame is on the bus: it arrives and is acknowledged, or it is spoilt,
\* or it arrives and the sender still sees an error in the last bit.
Transmit(n) ==
  /\ txreq[n] /\ mode[n] = "normal"
  /\ n = Lpc => ~(txreq[Pico] /\ OnBus(Pico))
  /\ \/ /\ OnBus(n) /\ OnBus(Other(n))
        /\ Store(Other(n), txb[n]) /\ Attempted(n, TRUE) /\ UNCHANGED errors
     \/ /\ errors < MaxErrors \/ ~OnBus(Other(n))
        /\ errors' = IF OnBus(Other(n)) THEN errors + 1 ELSE errors
        /\ Attempted(n, FALSE) /\ UNCHANGED <<rxb, rx0if, hist>>
     \/ /\ OnBus(n) /\ OnBus(Other(n)) /\ errors < MaxErrors
        /\ errors' = errors + 1
        /\ Store(Other(n), txb[n]) /\ Attempted(n, FALSE)
  /\ UNCHANGED <<prog, ctl, txb, bench, spiFaults>>

\* In Loopback mode the chip hands its frame to itself, without the bus.
LoopBack(n) ==
  /\ txreq[n] /\ mode[n] = "loopback" /\ cnf[n] = AllCnf
  /\ Store(n, txb[n])
  /\ txreq' = [txreq EXCEPT ![n] = FALSE]
  /\ UNCHANGED <<prog, ctl, txb, errors, bench, spiFaults>>

-----------------------------------------------------------------------------
\* Power-up: what RXB0 holds does not match the other node's ID.
Init ==
  /\ pc = [n \in Nodes |-> "reset"] /\ idx = [n \in Nodes |-> 0]
  /\ rmw = [n \in Nodes |-> FALSE] /\ snap = [n \in Nodes |-> 0]
  /\ sent = [n \in Nodes |-> 0] /\ heard = [n \in Nodes |-> FALSE]
  /\ mode = [n \in Nodes |-> "config"] /\ reqop = [n \in Nodes |-> "config"]
  /\ cnf = [n \in Nodes |-> {}] /\ osm = [n \in Nodes |-> FALSE]
  /\ txb = [n \in Nodes |-> 0] /\ txreq = [n \in Nodes |-> FALSE]
  /\ rxb = [n \in Nodes |-> 0] /\ rx0if = [n \in Nodes |-> FALSE]
  /\ bench \in SUBSET {Lpc} /\ errors = 0 /\ spiFaults = 0
  /\ arrived = [n \in Nodes |-> FALSE] /\ last = [n \in Nodes |-> 0]

Program(n) == \/ Reset(n) \/ Delay(n) \/ WriteCnf(n) \/ ReadCanctrl(n)
              \/ WriteCanctrl(n) \/ ReadCanstat(n) \/ SetOneShot(n)
              \/ Load(n) \/ Rts(n) \/ HasMessage(n) \/ Confirm(n)
              \/ ReadHeader(n) \/ ReadData(n) \/ Report(n)
Chip(n) == OstExpires(n) \/ ModeFollows(n) \/ Transmit(n) \/ LoopBack(n)

\* The bound on rounds is reached, or a node has parked.
BoundReached ==
  /\ \A n \in Nodes : pc[n] \in {"done", "halt"}
  /\ UNCHANGED vars

Next == (\E n \in Nodes : Program(n) \/ Chip(n)) \/ BoundReached

Spec == Init /\ [][Next]_vars
\* Main never stops executing and the chip leaves its start-up; whether it
\* ever enters Normal mode is left open.
FairSpec == Spec /\ \A n \in Nodes : WF_vars(Program(n)) /\ WF_vars(OstExpires(n))

-----------------------------------------------------------------------------
(* Properties                                                              *)

TypeOK ==
  /\ pc \in [Nodes -> {"reset", "ost", "cnf", "mode", "request", "verify",
                       "oneshot", "halt"} \cup Looping]
  /\ idx \in [Nodes -> Nat]
  /\ \A n \in Nodes : /\ pc[n] = "verify" => idx[n] < VerifyPolls
                      /\ pc[n] = "cnf" => idx[n] < 3
  /\ rmw \in [Nodes -> BOOLEAN] /\ heard \in [Nodes -> BOOLEAN]
  /\ snap \in [Nodes -> 0 .. MaxSends] /\ sent \in [Nodes -> 0 .. MaxSends]
  /\ mode \in [Nodes -> {"reset", "config", "normal", "loopback"}]
  /\ reqop \in [Nodes -> {"config", "normal", "loopback"}]
  /\ cnf \in [Nodes -> SUBSET AllCnf] /\ osm \in [Nodes -> BOOLEAN]
  /\ txb \in [Nodes -> 0 .. MaxSends] /\ txreq \in [Nodes -> BOOLEAN]
  /\ rxb \in [Nodes -> 0 .. MaxSends] /\ rx0if \in [Nodes -> BOOLEAN]
  /\ bench \subseteq Nodes /\ errors \in 0 .. MaxErrors /\ spiFaults \in 0 .. MaxSpiFaults
  /\ arrived \in [Nodes -> BOOLEAN] /\ last \in [Nodes -> 0 .. MaxSends]

\* A node that came out of init talks on the bus at the right bit rate: its
\* chip is in the mode asked for and took all three CNF registers, whichever SPI
\* transactions failed on the way.
LoopingConfigured ==
  \A n \in Nodes : pc[n] \in Looping => mode[n] = Target(n) /\ cnf[n] = AllCnf

\* No frame arrives behind a newer one, also when it was still pending at the
\* next load; and in One-Shot mode none arrives twice.  A failed BIT MODIFY
\* goes unnoticed and leaves retransmission on, so the latter is promised as
\* long as SPI works.
AtMostOnce ==
  [][\A n \in Nodes : rx0if'[n] /\ ~rx0if[n] =>
       last'[n] >= last[n] /\ (spiFaults = 0 => last'[n] # last[n])]_vars

\* What the header of can_node says: the pixel reports whether the node heard
\* the other one since its last send, so one frame does not turn two rounds green.
GreenMeansHeard ==
  \A n \in Nodes \ bench : pc[n] = "report" /\ heard[n] => arrived[n]

\* The loopback test passes in every round as long as SPI works: the wait
\* covers the frame and each round reads its own.  One failed transaction
\* can leave a frame unread, and every later round then reads the one before.
BenchPasses ==
  spiFaults = 0 => \A n \in bench : pc[n] = "report" => heard[n]

\* What LoopingConfigured rests on: how far init has brought the chip.  The
\* delay ends the oscillator start-up, so every CNF register is written in
\* Configuration mode, and the mode changes only when it was asked for.
InitProgress(n) ==
  /\ pc[n] \in {"reset", "ost", "cnf", "mode", "request"} =>
       reqop[n] = "config" /\ mode[n] \in {"reset", "config"}
  /\ pc[n] \notin {"reset", "ost", "halt"} => mode[n] # "reset"
  /\ pc[n] = "cnf" => \A i \in 1 .. 3 : i <= idx[n] => CnfOrder[i] \in cnf[n]
  /\ pc[n] \notin {"reset", "ost", "cnf", "halt"} => cnf[n] = AllCnf
  /\ reqop[n] \in {"config", Target(n)}
  /\ mode[n] \in {"reset", "config", Target(n)}
  /\ pc[n] \in Looping \cup {"oneshot"} => mode[n] = Target(n)

ConfigInv == \A n \in Nodes : InitProgress(n)

\* What AtMostOnce rests on: the frame of n in TXB0 is not older than what
\* arrived from n and, while SPI works, strictly newer as long as it may still
\* be sent.
From(n) == IF n \in bench THEN n ELSE Other(n)

LoadedInOrder(n) ==
  /\ txb[n] <= sent[n]
  /\ \A m \in Nodes : From(m) = n => last[m] <= txb[n]

SendProgress(n) ==
  /\ txreq[n] => pc[n] \in Looping
  /\ pc[n] \in Looping => osm[n] \/ n \in bench
  /\ pc[n] = "rts" => ~txreq[n]
  /\ txreq[n] \/ pc[n] = "rts" => \A m \in Nodes : From(m) = n => last[m] < txb[n]

SendInv == \A n \in Nodes : LoadedInOrder(n) /\ (spiFaults = 0 => SendProgress(n))

\* What BenchPasses rests on, while SPI works: in each round of the loopback
\* test exactly one frame is on its way, in TXB0, in RXB0 or read.
BenchProgress(n) ==
  LET back == ~txreq[n] /\ rx0if[n] /\ rxb[n] = sent[n] IN
  /\ pc[n] \in {"rts", "has"} => txb[n] = sent[n]
  /\ pc[n] \notin {"has", "confirm", "poll", "reading", "halt"} =>
       ~txreq[n] /\ ~rx0if[n]
  /\ pc[n] = "has" => back \/ (txreq[n] /\ ~rx0if[n])
  /\ pc[n] \in {"confirm", "poll"} => back
  /\ pc[n] = "reading" => back /\ snap[n] = sent[n]
  /\ pc[n] = "report" => heard[n]

BenchInv == spiFaults = 0 => \A n \in bench : BenchProgress(n)

\* init returns on every node, even if the chip never changes its mode.
InitSettles == \A n \in Nodes : <>(pc[n] \in Looping \cup {"halt"})
=============================================================================
