----------------------------- MODULE BoardTasks -----------------------------
(***************************************************************************)
(* The three FreeRTOS tasks of the LPC1768 application, one access to a    *)
(* shared register per step.  They share PINSEL0, which two of them read,  *)
(* modify and write, and UART0, which echo_task sets up and two of them    *)
(* write.  What rs485_task does on UART2 is Rs485Link; here it is a busy   *)
(* wait that lasts more than a tick and may last for ever.                 *)
(*                                                                         *)
(* The kernel is modelled from the way main configures and calls it:       *)
(* tasks of one priority take turns at every tick, a delayed task goes to  *)
(* the end of the queue, and the task created last runs first.             *)
(***************************************************************************)
EXTENDS Integers, Sequences, SequencesExt

CONSTANTS
  Slice,         \* steps between two ticks, at least: 96000 cycles
  FifoSize,      \* transmit FIFO of UART0: 16
  Banner,        \* characters of the boot message: 15
  EchoLen,       \* characters printed for an echo: 4 and a newline
  PutTicks, PollTicks, LedTicks, RoundTicks,  \* delays: 1, 10, 500, 1000
  MaxKeys        \* size of the receive FIFO: 16

ASSUME TaskAssumption ==
  /\ Slice \in Nat
  /\ FifoSize \in Nat \ {0} /\ MaxKeys \in Nat
  /\ Banner \in Nat \ {0} /\ EchoLen \in Nat \ {0}
  /\ {PutTicks, PollTicks, LedTicks, RoundTicks} \subseteq Nat \ {0}

VARIABLES
  \* per task
  pc,
  todo,        \* characters of this message still to write
  copy,        \* PINSEL0 as last read
  \* kernel
  ready,       \* ready tasks, in the order of their turns
  delay,       \* ticks until a delayed task is ready, 0 for a ready one
  ran,         \* steps since the last tick, Slice for more
  air,         \* ticks since the exchange on UART2 began, 2 for more
  \* registers
  pins,        \* functions selected in PINSEL0
  dlab, divisor, fifoOn,
  thr,         \* characters in the transmit FIFO of UART0
  due,         \* those of them that were there at the last tick
  rx,          \* characters in its receive FIFO
  led,
  lost         \* history: a character found the transmit FIFO full

kernel == <<ready, delay, air>>
uart0  == <<dlab, divisor, fifoOn, thr, due, rx, lost>>
vars   == <<pc, todo, copy, kernel, ran, pins, uart0, led>>

Tasks == {"led", "echo", "rs485"}

-----------------------------------------------------------------------------
(* The kernel                                                              *)

PriorityLedLow == [t \in Tasks |-> IF t = "led" THEN 0 ELSE 1]
Priority == [t \in Tasks |-> 1]

Eligible(i) == \A j \in DOMAIN ready : Priority[ready[j]] <= Priority[ready[i]]
Turn    == CHOOSE i \in DOMAIN ready : Eligible(i) /\ \A j \in 1 .. i - 1 : ~Eligible(j)
Running == ready[Turn]

\* Task t executes one step and goes on at p.
Run(t, p) ==
  /\ ready # <<>> /\ t = Running
  /\ ran' = IF ran < Slice THEN ran + 1 ELSE ran
  /\ pc' = [pc EXCEPT ![t] = p]

Continue == UNCHANGED kernel

vTaskDelay(t, ticks) ==
  /\ ready' = RemoveAt(ready, Turn)
  /\ delay' = [delay EXCEPT ![t] = ticks]
  /\ UNCHANGED air

\* At a tick the delays run down and the turn passes on.  What was in the
\* transmit FIFO at the tick before is out: two characters take 0.2 ms.
Tick ==
  /\ ran = Slice \/ ready = <<>>
  /\ due = 0 /\ due' = thr
  /\ LET woken == {t \in Tasks : delay[t] = 1} IN
     \E q \in SetToSeqs(woken) :
       ready' = IF ready = <<>> THEN q
                ELSE RemoveAt(ready, Turn) \o q \o <<Running>>
  /\ delay' = [t \in Tasks |-> IF delay[t] = 0 THEN 0 ELSE delay[t] - 1]
  /\ air' = IF pc["rs485"] = "exchange" /\ air < 2 THEN air + 1 ELSE air
  /\ ran' = 0
  /\ UNCHANGED <<pc, todo, copy, pins, dlab, divisor, fifoOn, thr, rx, lost, led>>

-----------------------------------------------------------------------------
(* led_task                                                                *)

LedSetup ==
  /\ pc["led"] = "setup" /\ Run("led", "on") /\ Continue
  /\ UNCHANGED <<todo, copy, pins, uart0, led>>

LedOn ==
  /\ pc["led"] = "on" /\ Run("led", "off") /\ vTaskDelay("led", LedTicks)
  /\ led' = TRUE
  /\ UNCHANGED <<todo, copy, pins, uart0>>

LedOff ==
  /\ pc["led"] = "off" /\ Run("led", "on") /\ vTaskDelay("led", LedTicks)
  /\ led' = FALSE
  /\ UNCHANGED <<todo, copy, pins, uart0>>

-----------------------------------------------------------------------------
(* PINSEL0 = (PINSEL0 & ~mask) | bits, in two accesses                     *)

ReadPins(t, from, to) ==
  /\ pc[t] = from /\ Run(t, to) /\ Continue
  /\ copy' = [copy EXCEPT ![t] = pins]
  /\ UNCHANGED <<todo, pins, uart0, led>>

WritePins(t, from, to, value) ==
  /\ pc[t] = from /\ Run(t, to) /\ Continue
  /\ pins' = value
  /\ UNCHANGED <<todo, copy, uart0, led>>

-----------------------------------------------------------------------------
(* uart_init                                                               *)

Uart0PinsOnly == {"uart0"}
Uart0Pins == copy["echo"] \cup {"uart0"}

EchoReadPins  == ReadPins("echo", "setup", "pins")
EchoWritePins == WritePins("echo", "pins", "lcr", Uart0Pins)

OpenLatch ==
  /\ pc["echo"] = "lcr" /\ Run("echo", "dll") /\ Continue
  /\ dlab' = TRUE
  /\ UNCHANGED <<todo, copy, pins, divisor, fifoOn, thr, due, rx, led, lost>>

SetDivisor ==
  /\ pc["echo"] = "dll" /\ Run("echo", "close") /\ Continue
  /\ divisor' = "115200"
  /\ UNCHANGED <<todo, copy, pins, dlab, fifoOn, thr, due, rx, led, lost>>

CloseLatch ==
  /\ pc["echo"] = "close" /\ Run("echo", "fcr") /\ Continue
  /\ dlab' = FALSE
  /\ UNCHANGED <<todo, copy, pins, divisor, fifoOn, thr, due, rx, led, lost>>

FcrZero == FALSE
Fcr == TRUE
\* A change of FCR bit 0 clears both FIFOs.
EnableFifo ==
  /\ pc["echo"] = "fcr" /\ Run("echo", "put") /\ Continue
  /\ fifoOn' = Fcr
  /\ thr' = 0 /\ due' = 0 /\ rx' = 0
  /\ lost' = (lost \/ thr > 0)
  /\ todo' = [todo EXCEPT !["echo"] = Banner]
  /\ UNCHANGED <<copy, pins, dlab, divisor, led>>

-----------------------------------------------------------------------------
(* uart_putchar                                                            *)

ThreInverted == thr > 0
Thre == thr = 0
PutWait(t) ==
  /\ pc[t] = "put"
  /\ IF Thre THEN Run(t, "store") /\ Continue
     ELSE Run(t, "put") /\ vTaskDelay(t, PutTicks)
  /\ UNCHANGED <<todo, copy, pins, uart0, led>>

MoreOneMore(t) == todo[t] > 0
More(t) == todo[t] > 1

\* After the last character echo_task polls and rs485_task ends its round.
Put(t) ==
  /\ pc[t] = "store" /\ Continue
  /\ Run(t, IF More(t) THEN "put" ELSE IF t = "echo" THEN "poll" ELSE "round")
  /\ todo' = [todo EXCEPT ![t] = @ - 1]
  /\ IF dlab                         \* the address of THR is that of DLL
     THEN divisor' = "character" /\ UNCHANGED <<thr, lost>>
     ELSE LET full == thr >= IF fifoOn THEN FifoSize ELSE 1 IN
          /\ thr' = IF full THEN thr ELSE thr + 1
          /\ lost' = (lost \/ full)
          /\ UNCHANGED divisor
  /\ UNCHANGED <<copy, pins, dlab, fifoOn, due, rx, led>>

-----------------------------------------------------------------------------
(* echo_task and rs485_task                                                *)

EchoPoll ==
  /\ pc["echo"] = "poll"
  /\ IF rx > 0
     THEN /\ Run("echo", "put") /\ Continue
          /\ rx' = rx - 1
          /\ todo' = [todo EXCEPT !["echo"] = 1]
     ELSE Run("echo", "poll") /\ vTaskDelay("echo", PollTicks) /\ UNCHANGED <<rx, todo>>
  /\ UNCHANGED <<copy, pins, dlab, divisor, fifoOn, thr, due, led, lost>>

Rs485ReadPins  == ReadPins("rs485", "setup", "pins")
Rs485WritePins == WritePins("rs485", "pins", "de", copy["rs485"] \cup {"uart2"})
Rs485ReadDe    == ReadPins("rs485", "de", "gpio")
Rs485WriteDe   == WritePins("rs485", "gpio", "uart2", copy["rs485"])

Rs485Setup ==
  /\ pc["rs485"] = "uart2" /\ Run("rs485", "exchange") /\ Continue
  /\ UNCHANGED <<todo, copy, pins, uart0, led>>

\* send_frame and recv_frame poll UART2 ...
ExchangePoll ==
  /\ pc["rs485"] = "exchange" /\ Run("rs485", "exchange") /\ Continue
  /\ UNCHANGED <<todo, copy, pins, uart0, led>>

\* ... for two milliseconds at least, three frames being on the bus.
ExchangeEnds(n) ==
  /\ pc["rs485"] = "exchange" /\ air = 2
  /\ Run("rs485", IF n = 0 THEN "round" ELSE "put")
  /\ todo' = [todo EXCEPT !["rs485"] = n]
  /\ air' = 0
  /\ UNCHANGED <<ready, delay, copy, pins, uart0, led>>

RoundDelay ==
  /\ pc["rs485"] = "round"
  /\ Run("rs485", "exchange") /\ vTaskDelay("rs485", RoundTicks)
  /\ UNCHANGED <<todo, copy, pins, uart0, led>>

-----------------------------------------------------------------------------
(* UART0                                                                   *)

CharacterSent ==
  /\ thr > 0 /\ thr' = thr - 1
  /\ due' = IF due > 0 THEN due - 1 ELSE 0
  /\ UNCHANGED <<pc, todo, copy, kernel, ran, pins, dlab, divisor, fifoOn, rx, led, lost>>

\* MaxKeys is the size of the receive FIFO as well: a key that finds it full
\* is lost and changes nothing.
KeyTyped ==
  /\ fifoOn /\ rx < MaxKeys /\ rx' = rx + 1
  /\ UNCHANGED <<pc, todo, copy, kernel, ran, pins, dlab, divisor, fifoOn, thr, led, lost, due>>

-----------------------------------------------------------------------------
\* vTaskStartScheduler: everything at reset, the tasks in order of creation.
Init ==
  /\ pc = [t \in Tasks |-> "setup"] /\ todo = [t \in Tasks |-> 0]
  /\ copy = [t \in Tasks |-> {}]
  /\ ready = <<"rs485", "led", "echo">> /\ delay = [t \in Tasks |-> 0]
  /\ ran = 0 /\ air = 0
  /\ pins = {} /\ dlab = FALSE /\ divisor = "reset" /\ fifoOn = FALSE
  /\ thr = 0 /\ due = 0 /\ rx = 0 /\ led = FALSE /\ lost = FALSE

LedTask   == LedSetup \/ LedOn \/ LedOff
EchoTask  == \/ EchoReadPins \/ EchoWritePins \/ OpenLatch \/ SetDivisor
             \/ CloseLatch \/ EnableFifo \/ EchoPoll
             \/ PutWait("echo") \/ Put("echo")
Rs485Task == \/ Rs485ReadPins \/ Rs485WritePins \/ Rs485ReadDe \/ Rs485WriteDe
             \/ Rs485Setup \/ ExchangePoll \/ RoundDelay
             \/ \E n \in {0, EchoLen} : ExchangeEnds(n)
             \/ PutWait("rs485") \/ Put("rs485")

Next == LedTask \/ EchoTask \/ Rs485Task \/ Tick \/ CharacterSent \/ KeyTyped
Spec == Init /\ [][Next]_vars
\* The tick comes again and again and does not meet the same task at the
\* start of its turn every time; UART0 shifts out.  The exchange on UART2
\* need not end, and nobody need type.
FairSpec ==
  /\ Spec
  /\ SF_vars(LedTask) /\ SF_vars(EchoTask) /\ SF_vars(Rs485Task)
  /\ SF_vars(Tick) /\ WF_vars(CharacterSent)

-----------------------------------------------------------------------------
(* Properties                                                              *)

TypeOK ==
  /\ pc \in [Tasks -> {"setup", "on", "off", "pins", "lcr", "dll", "close",
                       "fcr", "put", "store", "poll", "de", "gpio", "uart2",
                       "exchange", "round"}]
  /\ todo \in [Tasks -> 0 .. Banner + EchoLen]
  /\ copy \in [Tasks -> SUBSET {"uart0", "uart2"}]
  /\ ready \in Seq(Tasks) /\ IsInjective(ready)
  /\ delay \in [Tasks -> 0 .. PutTicks + PollTicks + LedTicks + RoundTicks]
  /\ \A t \in Tasks : delay[t] = 0 <=> t \in ToSet(ready)
  /\ ran \in 0 .. Slice /\ air \in 0 .. 2
  /\ pins \in SUBSET {"uart0", "uart2"}
  /\ divisor \in {"reset", "115200", "character"}
  /\ {dlab, fifoOn, led, lost} \subseteq BOOLEAN
  /\ thr \in 0 .. FifoSize /\ due \in 0 .. thr /\ rx \in 0 .. MaxKeys

Up(t) == pc[t] \in {"put", "store", "poll", "exchange", "round"}

\* The two setups do not undo each other: a task that is past its own finds
\* its pins selected from then on, and no character of rs485_task lands in
\* the divisor latch of UART0.
SetupHolds ==
  /\ Up("echo") => "uart0" \in pins /\ divisor = "115200" /\ ~dlab
  /\ Up("rs485") => "uart2" \in pins

\* Two tasks may both find THR empty before either writes; no character is
\* lost over it.
NoCharacterLost == ~lost

\* The LED goes on blinking, even if the exchange on UART2 never ends.
LedBlinks == []<>led /\ []<>~led

\* So does the console: a key typed is taken from UART0, and each message
\* begun, its echo among them, is written to the end.
ConsoleAnswers ==
  /\ rx > 0 ~> rx = 0
  /\ pc["echo"] = "put" ~> pc["echo"] = "poll"

-----------------------------------------------------------------------------
(* The inductive invariants behind TypeOK, NoCharacterLost and SetupHolds  *)

SetupStages == {"setup", "pins", "lcr", "dll", "close", "fcr"}

\* A message being written has a character left.
TodoInv ==
  /\ \A t \in Tasks : pc[t] \in {"put", "store"} => todo[t] > 0
  /\ pc["led"] \in {"setup", "on", "off"}
  /\ pc["echo"] \in SetupStages \cup {"put", "store", "poll"}
  /\ pc["rs485"] \in {"setup", "pins", "de", "gpio", "uart2", "exchange",
                      "put", "store", "round"}

\* THR has been found empty at most once by each of its two writers since it
\* was; before echo_task has enabled the FIFO there is one writer only.
Holds(t) == IF pc[t] = "store" THEN 1 ELSE 0
StoreInv ==
  /\ thr + Holds("echo") + Holds("rs485") <= 2
  /\ ~fifoOn => /\ pc["echo"] \in SetupStages
                /\ thr + Holds("rs485") <= 1

\* rs485_task has the whole of its first slice; then led_task and uart_init
\* share one, and nobody else selects pins or writes UART0 any more.  With
\* Slice = 7 a tick may still come before uart_init enables the FIFO.
Rs485First ==
  /\ ready = <<"rs485", "led", "echo">> /\ air = 0
  /\ pc["led"] = "setup" /\ pc["echo"] = "setup" /\ ~dlab /\ thr = 0
  /\ \/ pc["rs485"] = "setup" /\ ran = 0
     \/ pc["rs485"] = "pins" /\ ran = 1
     \/ pc["rs485"] = "de" /\ ran = 2 /\ "uart2" \in pins
     \/ pc["rs485"] = "gpio" /\ ran = 3 /\ "uart2" \in copy["rs485"]
     \/ pc["rs485"] = "uart2" /\ ran = 4 /\ "uart2" \in pins
     \/ pc["rs485"] = "exchange" /\ "uart2" \in pins

LedAndEcho ==
  /\ pc["rs485"] = "exchange" /\ "uart2" \in pins /\ thr = 0
  /\ \/ /\ ready = <<"led", "echo", "rs485">>
        /\ pc["echo"] = "setup"
        /\ \/ pc["led"] = "setup" /\ ran = 0
           \/ pc["led"] = "on" /\ ran = 1
     \/ /\ ready = <<"echo", "rs485">>
        /\ \/ pc["echo"] = "setup" /\ ran = 2
           \/ pc["echo"] = "pins" /\ ran = 3 /\ "uart2" \in copy["echo"]
           \/ pc["echo"] = "lcr" /\ ran = 4 /\ "uart0" \in pins
           \/ pc["echo"] = "dll" /\ ran = 5 /\ "uart0" \in pins
           \/ /\ pc["echo"] = "close" /\ ran = 6
              /\ "uart0" \in pins /\ divisor = "115200"
           \/ /\ pc["echo"] = "fcr" /\ ran = 7 /\ Slice > 7
              /\ "uart0" \in pins /\ divisor = "115200" /\ ~dlab

AllUp ==
  /\ Up("echo") \/ (pc["echo"] = "fcr" /\ Slice = 7)
  /\ Up("rs485")
  /\ {"uart0", "uart2"} \subseteq pins /\ divisor = "115200" /\ ~dlab

SetupInv == Rs485First \/ LedAndEcho \/ AllUp
=============================================================================
