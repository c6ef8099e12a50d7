----------------------------- MODULE Rs485Link -----------------------------
(***************************************************************************)
(* The RS-485 link between the LPC1768 (rs485_task on top of Rs485Protocol *)
(* on top of Rs485Lpc1768) and the RP2040 protocol responder: one bus, one *)
(* DE line and one receive FIFO at each end.                               *)
(*                                                                         *)
(* The unit of the model is a frame.  A frame leaves its transmitter in    *)
(* two steps, DE going up and DE going down; when DE goes down it enters   *)
(* the receive FIFO of the other side whole, damaged or not at all.  What  *)
(* a FIFO holds are records:                                               *)
(*   DATA, ACK, NACK  a frame whose CRC is right                           *)
(*   bad              a delimited frame that decodes or checks wrong       *)
(*   open             a frame whose 0x00 delimiter is gone: the reader     *)
(*                    runs on into the frame behind it                     *)
(* A frame without its SOF is skipped by every reader and is "lost"; that  *)
(* its other bytes take room in a FIFO nobody reads is left out.  A reader *)
(* takes everything up to the delimiter: wait_for_ack stops at 16 bytes,   *)
(* but what it leaves of the frame has no SOF and is skipped by the next   *)
(* reader, without a verdict of its own.                                   *)
(* Payloads are told apart by the round of rs485_task that built them; the *)
(* pay field of an ACK is not on the wire, it names the payload that       *)
(* provoked the ACK and is used by the properties only.                    *)
(***************************************************************************)
EXTENDS Integers, Sequences, FiniteSetsExt

CONSTANTS
  MaxRetries,    \* Rs485Protocol::MAX_RETRIES
  SeqMod,        \* number of values of the sequence byte: 256
  DataLen,       \* bytes of a DATA frame of rs485_task on the wire: 11
  CtrlLen,       \* bytes of an ACK or NACK on the wire: 7
  LpcFifo,       \* receive FIFO of the LPC1768 UART, in bytes: 16
  PeerFifo,      \* receive FIFO of the RP2040 UART, in bytes: 32
  Timely,        \* TRUE: timeouts and delays keep their nominal durations
  MaxRounds,     \* bound: rounds of rs485_task
  MaxFaults      \* bound: frames damaged by the line

ASSUME ParamAssumption ==
  /\ MaxRetries \in Nat
  /\ SeqMod \in Nat /\ SeqMod >= 2
  /\ DataLen \in Nat \ {0} /\ CtrlLen \in Nat \ {0}
  /\ LpcFifo \in Nat /\ PeerFifo \in Nat
  /\ Timely \in BOOLEAN
  /\ MaxRounds \in Nat \ {0} /\ MaxFaults \in Nat

VARIABLES
  \* LPC1768
  seq_,       \* Rs485Protocol::seq_
  round,      \* which payload rs485_task is sending
  attempt,    \* loop variable of send_frame
  pc,         \* where rs485_task is
  tx,         \* the frame being shifted out
  lpcHit,     \* the other side drove the bus during this transmission
  toLpc,      \* receive FIFO
  \* RP2040
  ppc,        \* where the responder's main loop is
  cur,        \* the DATA frame being answered
  peerHit,
  toPeer,
  \* environment and history
  faults,     \* frames damaged by the line so far
  base,       \* the first round sent under the present value of seq_
  got,        \* payloads the responder took from valid DATA frames
  echo        \* the last echo recv_frame handed to rs485_task, 0 for none

lpc  == <<seq_, round, attempt, pc, tx, lpcHit>>
peer == <<ppc, cur>>
vars == <<seq_, round, attempt, pc, tx, lpcHit, toLpc,
          ppc, cur, peerHit, toPeer, faults, base, got, echo>>

-----------------------------------------------------------------------------
(* Frames and the FIFOs                                                    *)

Rounds == 1 .. MaxRounds
Frame(type, s, p, n) == [type |-> type, seq |-> s, pay |-> p, n |-> n]
Data(s, p) == Frame("DATA", s, p, DataLen)
Ack(s, p)  == Frame("ACK", s, p, CtrlLen)
Nack       == Frame("NACK", 0, 0, CtrlLen)  \* no reader looks at its seq
Bad(n)     == Frame("bad", 0, 0, n)
Open(n)    == Frame("open", 0, 0, n)
NoFrame    == Frame("none", 0, 0, 0)

NextSeqKept(s) == s

\* seq_++ on a uint8_t.
NextSeq(s) == IF s = SeqMod - 1 THEN 0 ELSE s + 1

Bytes(q)     == MapThenSumSet(LAMBDA i : q[i].n, DOMAIN q)
Room(q, cap) == IF Bytes(q) \in 0 .. cap THEN cap - Bytes(q) ELSE 0

\* Positions of q at which a reader meets a 0x00 delimiter.
Delims(q)   == {i \in DOMAIN q : q[i].type # "open"}
Complete(q) == Delims(q) # {}
First(q)    == CHOOSE i \in Delims(q) : \A j \in Delims(q) : i <= j

\* What one run of the SOF hunt and the collect loop takes out of q, and
\* what it leaves.  A frame collected behind an open one is not valid.
Taken(q) == IF First(q) = 1 THEN q[1] ELSE Bad(0)
Rest(q)  == SubSeq(q, First(q) + 1, Len(q))

Outcomes == {"ok", "bad", "open", "lost"}

\* q once frame f has been sent to it with outcome w.  A reader that is
\* polling takes the bytes as they come; otherwise they must fit the FIFO
\* and the hardware drops what does not.
Arrive(q, cap, polling, f, w) ==
  LET free == Room(q, cap)
      fits == (polling /\ ~Complete(q)) \/ f.n <= free
  IN  IF w = "lost" \/ (~fits /\ free = 0) THEN q
      ELSE IF ~fits   THEN Append(q, Open(free))
      ELSE IF w = "ok"  THEN Append(q, f)
      ELSE IF w = "bad" THEN Append(q, Bad(f.n))
      ELSE Append(q, Open(f.n - 1))

-----------------------------------------------------------------------------
(* Direction control and time                                              *)

LpcDE   == pc \in {"txdata", "txctrl"}
PeerDE  == ppc \in {"ack", "data", "nack"}
LpcPoll == pc \in {"await", "recv"}

\* A side whose next step takes microseconds, against a millisecond for a
\* frame: a timely wire does not complete a frame before that step.
LpcReady  == pc = "send" \/ (LpcPoll /\ Complete(toLpc))
PeerReady == ppc = "idle" /\ Complete(toPeer)
WireSlow  == Timely => ~LpcReady /\ ~PeerReady

AckDeadlineNone == TRUE
\* ACK_TIMEOUT_MS (100) outlasts a frame and the responder's sleep (30 ms).
AckDeadline == Timely => ~PeerDE /\ ~Complete(toPeer)
RecvDeadlineNone == TRUE
\* The 10 ms of recv_frame outlast a frame, not the responder's sleep.
RecvDeadline == Timely => ~PeerDE /\ ~PeerReady
RoundDeadlineNone == TRUE
\* The 1000 ms of rs485_task outlast everything the responder still has.
RoundDeadline == Timely => ppc = "idle" /\ ~Complete(toPeer)

\* The line damages a frame within its budget; two drivers at once may
\* damage it any way at no charge.
Damage(w, hit) ==
  /\ w = "ok" \/ hit \/ faults < MaxFaults
  /\ faults' = IF w = "ok" \/ hit THEN faults ELSE faults + 1

-----------------------------------------------------------------------------
(* LPC1768: rs485_task, Rs485Protocol                                      *)

LpcUp(f) ==                          \* set_tx_mode and the first byte
  /\ tx' = f
  /\ lpcHit' = PeerDE
  /\ peerHit' = (peerHit \/ PeerDE)

LpcDown(w) ==                        \* TEMT seen, set_rx_mode
  /\ WireSlow
  /\ Damage(w, lpcHit)
  /\ toPeer' = Arrive(toPeer, PeerFifo, ppc = "idle", tx, w)
  /\ tx' = NoFrame /\ lpcHit' = FALSE

NextAttemptOneMore ==
  IF attempt <= MaxRetries
  THEN pc' = "send" /\ attempt' = attempt + 1
  ELSE pc' = "recv" /\ attempt' = 0

NextAttemptForever == pc' = "send" /\ attempt' = attempt

\* send_frame has tried and failed: next attempt, or give up with seq_ kept.
NextAttempt ==
  IF attempt < MaxRetries
  THEN pc' = "send" /\ attempt' = attempt + 1
  ELSE pc' = "recv" /\ attempt' = 0

SendRaw ==
  /\ pc = "send"
  /\ pc' = "txdata"
  /\ LpcUp(Data(seq_, round))
  /\ UNCHANGED <<seq_, round, attempt, toLpc, peer, toPeer,
                 faults, base, got, echo>>

SendRawDone ==
  /\ pc = "txdata"
  /\ \E w \in Outcomes : LpcDown(w)
  /\ pc' = "await"
  /\ UNCHANGED <<seq_, round, attempt, toLpc, peer, peerHit,
                 base, got, echo>>

\* THRE stays low: send returns TIMEOUT with part of the frame sent and
\* send_frame continues without waiting for an ACK.
SendRawTimeout ==
  /\ pc = "txdata"
  /\ faults < MaxFaults
  /\ \E w \in {"open", "lost"} : LpcDown(w)
  /\ NextAttempt
  /\ UNCHANGED <<seq_, round, toLpc, peer, peerHit, base, got, echo>>

AcknowledgesAnySeq(f) == f.type = "ACK"
Acknowledges(f) == f.type = "ACK" /\ f.seq = seq_

\* wait_for_ack returns after one frame, whatever it is.
WaitForAck ==
  /\ pc = "await" /\ Complete(toLpc)
  /\ toLpc' = Rest(toLpc)
  /\ IF Acknowledges(Taken(toLpc))
     THEN /\ pc' = "recv" /\ attempt' = 0
          /\ seq_' = NextSeq(seq_)
          /\ base' = round + 1
     ELSE NextAttempt /\ UNCHANGED <<seq_, base>>
  /\ UNCHANGED <<round, tx, lpcHit, peer, peerHit, toPeer,
                 faults, got, echo>>

AckTimeout ==
  /\ pc = "await" /\ ~Complete(toLpc)
  /\ AckDeadline
  /\ toLpc' = <<>>                   \* bytes of an open frame are used up
  /\ NextAttempt
  /\ UNCHANGED <<seq_, round, tx, lpcHit, peer, peerHit, toPeer,
                 faults, base, got, echo>>

\* recv_frame on a valid DATA frame: ACK it, then copy it out.
RecvData ==
  /\ pc = "recv" /\ Complete(toLpc)
  /\ Taken(toLpc).type = "DATA"
  /\ toLpc' = Rest(toLpc)
  /\ LpcUp(Ack(Taken(toLpc).seq, Taken(toLpc).pay))
  /\ pc' = "txctrl"
  /\ UNCHANGED <<seq_, round, attempt, peer, toPeer,
                 faults, base, got, echo>>

\* ... on a frame with a wrong CRC: NACK it.
RecvCorrupt ==
  /\ pc = "recv" /\ Complete(toLpc)
  /\ Taken(toLpc).type = "bad"
  /\ toLpc' = Rest(toLpc)
  /\ LpcUp(Nack)
  /\ pc' = "txctrl"
  /\ UNCHANGED <<seq_, round, attempt, peer, toPeer,
                 faults, base, got, echo>>

\* ... on an ACK, a NACK or a frame that does not decode: return false.
RecvOther ==
  /\ pc = "recv" /\ Complete(toLpc)
  /\ Taken(toLpc).type # "DATA"
  /\ toLpc' = Rest(toLpc)
  /\ pc' = "sleep"
  /\ UNCHANGED <<seq_, round, attempt, tx, lpcHit, peer, peerHit, toPeer,
                 faults, base, got, echo>>

RecvTimeout ==
  /\ pc = "recv" /\ ~Complete(toLpc)
  /\ RecvDeadline
  /\ toLpc' = <<>>
  /\ pc' = "sleep"
  /\ UNCHANGED <<seq_, round, attempt, tx, lpcHit, peer, peerHit, toPeer,
                 faults, base, got, echo>>

\* The status of this send_raw is not looked at.
CtrlDone ==
  /\ pc = "txctrl"
  /\ \E w \in Outcomes : LpcDown(w)
  /\ echo' = IF tx.type = "ACK" THEN tx.pay ELSE echo
  /\ pc' = "sleep"
  /\ UNCHANGED <<seq_, round, attempt, toLpc, peer, peerHit, base, got>>

NextRound ==
  /\ pc = "sleep" /\ round < MaxRounds
  /\ RoundDeadline
  /\ round' = round + 1
  /\ pc' = "send"
  /\ UNCHANGED <<seq_, attempt, tx, lpcHit, toLpc, peer, peerHit, toPeer,
                 faults, base, got, echo>>

-----------------------------------------------------------------------------
(* RP2040: protocol_responder                                              *)

PeerUp(p, f) ==                      \* DE_PIN up, at p in the main loop
  /\ ppc' = p
  /\ cur' = f
  /\ peerHit' = LpcDE
  /\ lpcHit' = (lpcHit \/ LpcDE)

PeerDown(f, w) ==                    \* uart_tx_wait_blocking, DE_PIN down
  /\ WireSlow
  /\ Damage(w, peerHit)
  /\ toLpc' = Arrive(toLpc, LpcFifo, LpcPoll, f, w)

PeerData ==
  /\ ppc = "idle" /\ Complete(toPeer)
  /\ Taken(toPeer).type = "DATA"
  /\ toPeer' = Rest(toPeer)
  /\ got' = got \cup {Taken(toPeer).pay}
  /\ PeerUp("ack", Taken(toPeer))
  /\ UNCHANGED <<seq_, round, attempt, pc, tx, toLpc, faults, base, echo>>

PeerCorrupt ==
  /\ ppc = "idle" /\ Complete(toPeer)
  /\ Taken(toPeer).type = "bad"
  /\ toPeer' = Rest(toPeer)
  /\ PeerUp("nack", NoFrame)
  /\ UNCHANGED <<seq_, round, attempt, pc, tx, toLpc, faults, base, got, echo>>

\* ACK, NACK and what does not decode to four bytes.
PeerIgnore ==
  /\ ppc = "idle" /\ Complete(toPeer)
  /\ Taken(toPeer).type # "DATA"
  /\ toPeer' = Rest(toPeer)
  /\ UNCHANGED <<lpc, toLpc, peer, peerHit, faults, base, got, echo>>

\* The ACK is out; send_data raises DE again for the echo at once.
PeerAckDone ==
  /\ ppc = "ack"
  /\ \E w \in Outcomes : PeerDown(Ack(cur.seq, cur.pay), w)
  /\ PeerUp("data", cur)
  /\ UNCHANGED <<seq_, round, attempt, pc, tx, toPeer, base, got, echo>>

PeerReplyDone ==
  /\ ppc \in {"data", "nack"}
  /\ \E w \in Outcomes : PeerDown(IF ppc = "data" THEN cur ELSE Nack, w)
  /\ ppc' = "sleep" /\ cur' = NoFrame /\ peerHit' = FALSE
  /\ UNCHANGED <<lpc, toPeer, base, got, echo>>

PeerWake ==
  /\ ppc = "sleep"
  /\ ppc' = "idle"
  /\ UNCHANGED <<lpc, toLpc, cur, peerHit, toPeer, faults, base, got, echo>>

-----------------------------------------------------------------------------
Init ==
  /\ seq_ = 0 /\ round = 1 /\ attempt = 0
  /\ pc = "send" /\ tx = NoFrame /\ lpcHit = FALSE /\ toLpc = <<>>
  /\ ppc = "idle" /\ cur = NoFrame /\ peerHit = FALSE /\ toPeer = <<>>
  /\ faults = 0 /\ base = 1 /\ got = {} /\ echo = 0

LpcNext == \/ SendRaw \/ SendRawDone \/ SendRawTimeout
           \/ WaitForAck \/ AckTimeout
           \/ RecvData \/ RecvCorrupt \/ RecvOther \/ RecvTimeout \/ CtrlDone
           \/ NextRound

PeerNext == \/ PeerData \/ PeerCorrupt \/ PeerIgnore
            \/ PeerAckDone \/ PeerReplyDone \/ PeerWake

\* The bound on rounds is reached and both sides have come to rest.
BoundReached ==
  /\ pc = "sleep" /\ round = MaxRounds
  /\ ppc = "idle" /\ ~Complete(toPeer)
  /\ UNCHANGED vars

Next == LpcNext \/ PeerNext \/ BoundReached

Spec == Init /\ [][Next]_vars

\* The scheduler and the responder's loop keep running their code.
FairSpec == Spec /\ WF_vars(LpcNext) /\ WF_vars(PeerNext)

-----------------------------------------------------------------------------
(* Type invariant                                                          *)

FrameTypes == {"DATA", "ACK", "NACK", "bad", "open", "none"}
Frames == [type : FrameTypes, seq : 0 .. SeqMod - 1,
           pay : 0 .. MaxRounds, n : Int]

\* Every variable stays in its range; LPC frames and the peer's answers are
\* held only while they are on the bus.
TypeOK ==
  /\ seq_ \in 0 .. SeqMod - 1
  /\ round \in Rounds
  /\ attempt \in 0 .. MaxRetries
  /\ pc \in {"send", "txdata", "await", "recv", "txctrl", "sleep"}
  /\ tx \in Frames
  /\ lpcHit \in BOOLEAN /\ peerHit \in BOOLEAN
  /\ toLpc \in Seq(Frames) /\ toPeer \in Seq(Frames)
  /\ ppc \in {"idle", "ack", "data", "nack", "sleep"}
  /\ cur \in Frames
  /\ faults \in 0 .. MaxFaults
  /\ base \in 1 .. MaxRounds + 1
  /\ got \subseteq 0 .. MaxRounds
  /\ echo \in 0 .. MaxRounds

-----------------------------------------------------------------------------
(* Safety                                                                  *)

\* seq_ moves on only after the responder took at least one payload that was
\* sent under its old value: an ACK of an earlier sequence number, late or
\* repeated, never passes for an ACK of the present one.
AckSound == [][seq_' # seq_ => got \cap (base .. round) # {}]_vars

\* An echo handed to rs485_task is the echo of the payload of this round, as
\* long as delays are nominal.  What keeps stale echoes out is the size of
\* the FIFO, which does not hold a frame and an echo behind it, and the call
\* of wait_for_ack after each transmission, which removes what lies there.
\* If every transmission of a round times out, it is not called at all; that
\* takes the fault that left the echo behind and one for each attempt.
EchoFresh ==
  [][echo' # echo /\ faults <= MaxRetries + 1 => echo' = round]_vars

\* Until the first damage on the line every round is the four frames of the
\* captures: payload taken, acknowledged at the first attempt, echoed.
CleanRound ==
  faults = 0 /\ pc = "sleep" =>
                  /\ got = 1 .. round /\ echo = round
                  /\ base = round + 1
                  /\ toLpc = <<>>

\* The two ends never drive the bus at the same time.
HalfDuplex == ~(LpcDE /\ PeerDE)

\* Until the first damage on the line they do not: each end is silent until
\* the other has lowered its driver enable.
CleanHalfDuplex == faults = 0 => HalfDuplex

\* What the comment at seq_++ says: send_frame moves on to the next sequence
\* number when the message was delivered.
DeliveredMeansTaken == [][seq_' # seq_ => round \in got]_vars

-----------------------------------------------------------------------------
(* Liveness                                                                *)

\* Every call of send_frame and of recv_frame returns, whatever the line
\* does, and the responder works off all it was sent: no endless
\* retransmission and no endless exchange of NACKs.
ComesToRest == <>[](/\ pc = "sleep" /\ round = MaxRounds
                    /\ ppc = "idle" /\ ~Complete(toPeer))

-----------------------------------------------------------------------------
(* Refinement                                                              *)

Promise == INSTANCE Transfer WITH
  offered <- round, window <- base, taken <- got, returned <- echo

\* send_frame, recv_frame and the responder's loop together transfer payloads
\* in order: nothing is taken or echoed that was not sent, nothing older
\* after something newer, and a sequence number is given up for the next
\* one only on the word of the far end.
ImplementsTransfer == Promise!TransferSpec

-----------------------------------------------------------------------------
(* The inductive invariants behind AckSound and ImplementsTransfer         *)

\* Frame f belongs to a payload already sent; its sequence number is seq_ if
\* the payload went out under the present seq_, and the one before otherwise.
OnWay(f) ==
  /\ f.pay \in 1 .. round
  /\ f.pay >= base => f.seq = seq_
  /\ f.pay < base  => NextSeq(f.seq) = seq_

Live(q, types) == {i \in DOMAIN q : q[i].type \in types}
Replies  == Live(toLpc, {"ACK", "DATA"})
Requests == Live(toPeer, {"DATA"})
Answering == ppc \in {"ack", "data"}

TaskInv ==
  /\ base <= round + 1
  /\ pc \in {"send", "txdata", "await"} => base <= round
  /\ pc = "txdata" => tx = Data(seq_, round)
  /\ pc = "txctrl" => tx.type \in {"ACK", "NACK"}

StreamInv ==
  /\ \A i \in Replies : OnWay(toLpc[i]) /\ toLpc[i].pay \in got
  /\ Answering => cur.type = "DATA" /\ OnWay(cur) /\ cur.pay \in got
  /\ \A i \in Requests : OnWay(toPeer[i])

\* Replies, the frame being answered, requests: the payloads never decrease.
OrderInv ==
  /\ \A i, j \in Replies : i < j => toLpc[i].pay <= toLpc[j].pay
  /\ \A i, j \in Requests : i < j => toPeer[i].pay <= toPeer[j].pay
  /\ \A i \in Replies, j \in Requests : toLpc[i].pay <= toPeer[j].pay
  /\ Answering => \A i \in Replies : toLpc[i].pay <= cur.pay
  /\ Answering => \A j \in Requests : cur.pay <= toPeer[j].pay

\* Replies and requests on the bus are ordered by the payload they belong
\* to, and carry the present or the previous sequence number accordingly.
LinkInv == TaskInv /\ StreamInv /\ OrderInv

TakenInv ==
  /\ got \subseteq 1 .. round
  /\ \A g \in got, j \in Requests : g <= toPeer[j].pay
  /\ Answering => \A g \in got : g <= cur.pay

\* The payload recv_frame is about to hand over, once its ACK is out.
InHand == pc = "txctrl" /\ tx.type = "ACK"

EchoInv ==
  /\ echo \in got \cup {0}
  /\ \A i \in Replies : echo <= toLpc[i].pay
  /\ Answering => echo <= cur.pay
  /\ InHand => /\ tx.pay \in got /\ echo <= tx.pay
               /\ \A i \in Replies : tx.pay <= toLpc[i].pay
               /\ Answering => tx.pay <= cur.pay

\* Everything taken is as old as the requests still on the bus, and the last
\* echo is as old as the replies still on the bus.
TransferInv == TakenInv /\ EchoInv


-----------------------------------------------------------------------------
(* The inductive invariant behind CleanRound and CleanHalfDuplex           *)

Offered == base = round /\ got = 1 .. round - 1 /\ echo = round - 1
Served  == base = round /\ got = 1 .. round     /\ echo = round - 1
Moved   == base = round + 1 /\ got = 1 .. round /\ echo = round - 1
Closed  == base = round + 1 /\ got = 1 .. round /\ echo = round
Rests   == ppc \in {"sleep", "idle"}

\* The stages of a round without damage: each end waits for the other one's
\* frame, which is the only one on the bus.
CleanStage ==
  \/ /\ pc = "send" /\ ppc = "idle" /\ toLpc = <<>> /\ toPeer = <<>>
     /\ Offered
  \/ /\ pc = "txdata" /\ ppc = "idle" /\ toLpc = <<>> /\ toPeer = <<>>
     /\ tx = Data(seq_, round) /\ Offered
  \/ /\ pc = "await" /\ ppc = "idle" /\ toLpc = <<>>
     /\ toPeer = <<Data(seq_, round)>> /\ Offered
  \/ /\ pc = "await" /\ ppc = "ack" /\ toLpc = <<>> /\ toPeer = <<>>
     /\ cur = Data(seq_, round) /\ Served
  \/ /\ pc = "await" /\ ppc = "data" /\ toPeer = <<>>
     /\ toLpc = <<Ack(seq_, round)>> /\ cur = Data(seq_, round) /\ Served
  \/ /\ pc = "recv" /\ ppc = "data" /\ toLpc = <<>> /\ toPeer = <<>>
     /\ (\E s \in 0 .. SeqMod - 1 : cur = Data(s, round)) /\ Moved
  \/ /\ pc = "recv" /\ Rests /\ toPeer = <<>>
     /\ (\E s \in 0 .. SeqMod - 1 : toLpc = <<Data(s, round)>>) /\ Moved
  \/ /\ pc = "txctrl" /\ Rests /\ toLpc = <<>> /\ toPeer = <<>>
     /\ (\E s \in 0 .. SeqMod - 1 : tx = Ack(s, round)) /\ Moved
  \/ /\ pc = "sleep" /\ Rests /\ toLpc = <<>>
     /\ toPeer = <<>> \/ \E s \in 0 .. SeqMod - 1 : toPeer = <<Ack(s, round)>>
     /\ Closed

CleanInv == faults = 0 => ~lpcHit /\ ~peerHit /\ CleanStage

-----------------------------------------------------------------------------
(* The inductive invariant behind EchoFresh                                *)

\* An echo of an earlier round waits for the task.
Stale == \E i \in Live(toLpc, {"DATA"}) : toLpc[i].pay # round

\* An echo is the first frame of its FIFO: none fits behind another frame.
EchoFirst(q) ==
  /\ \A i \in DOMAIN q : q[i].n >= 0 /\ (q[i].type # "open" => q[i].n >= CtrlLen)
  /\ \A i \in Live(q, {"DATA"}), j \in Delims(q) : i <= j

\* What is under way to or at the responder is of this round.
OfRound ==
  /\ \A i \in Requests : toPeer[i].pay = round /\ toPeer[i].n = DataLen
  /\ Answering => cur.pay = round /\ cur.n = DataLen

\* So the first wait_for_ack of a round removes a stale echo; until then the
\* responder is idle and every attempt has cost a fault.
StaleInv ==
  /\ pc \in {"recv", "txctrl", "sleep"} => attempt = 0
  /\ pc \in {"txctrl", "sleep"} => ~Stale
  /\ Stale /\ pc \in {"send", "txdata"} =>
       /\ ppc = "idle" /\ ~Complete(toPeer) /\ attempt < faults
       /\ pc = "txdata" => ~lpcHit
  /\ Stale /\ pc = "recv" => MaxRetries + 1 < faults
  /\ InHand /\ faults <= MaxRetries + 1 => tx.pay = round

FreshInv == EchoFirst(toLpc) /\ OfRound /\ StaleInv
=============================================================================
