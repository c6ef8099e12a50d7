# Verification of fw-reference

TLA+ models of the LPC1768 / RP2040 reference firmware, the TLC runs that check
them and the TLAPS proofs about them. Paths are relative to the repository, as
in `src/drivers/rs485_protocol.cpp`.

## 1. The system

Two boards. The LPC1768 runs `SystemInit` and then three FreeRTOS tasks; the
RP2040 runs one of several bare-metal programs that answer it. They talk over
RS-485 (framed, COBS, CRC-16, stop-and-wait) or over a CAN bus through one
MCP2515 each.

| Part | State it keeps | Operations | Talks to |
|---|---|---|---|
| `Rs485Protocol` (`src/drivers/rs485_protocol.cpp`) | `seq_` | `send_frame` (4 attempts, each followed by `wait_for_ack`), `recv_frame` (ACK or NACK) | `IRs485` by calls; the other end by frames |
| `Rs485Lpc1768` | DE pin, UART2 registers | `init`, `send` (DE up, bytes, TEMT, DE down), `recv` (byte-wise polling with timeout) | UART FIFO, the bus |
| protocol responder (`rp2040/protocol_responder.cpp`) | collect buffer | receive loop, ACK then echo, NACK, 30 ms sleep | the bus |
| `cobs_encode`, `cobs_decode` | none | pure functions | both ends of the link |
| `crc16_ccitt` | none | pure function | link, telemetry |
| application (`src/app/main_blinky.cpp`) | task contexts, UART0, PINSEL0, LED | `led_task`, `echo_task`, `rs485_task`, `uart_init`, `uart_putchar` | FreeRTOS, shared registers |
| clock bring-up (`lib/clock_config.cpp`) | clock and flash registers, `g_clock_tier` | `SystemInit` | oscillator, PLL0 |
| `Mcp2515` (`src/drivers/mcp2515.cpp`) | none; all state is in the chip | `reset`, `init`, `set_mode`, `send`, `receive`, `has_message` | `ISpi` by calls |
| CAN nodes (`rp2040/can_node.cpp`, `tests/mcp2515_bus_test.cpp`) | counter, `heard_*` | init, One-Shot mode, send and poll in rounds | chip, bus |
| bit-banged I2C (`bitbang_i2c_lpc1768.cpp`) | two open-drain lines | `init`, `write`, `write_read` | slave on the bus |
| SPI HALs (`bitbang_spi_lpc1768.cpp`, `bitbang_spi_rp2040.cpp`, `spi_lpc1768.cpp`, `rp2040/spi_rp2040.cpp`) | mode, clock, pins, SPI0 | `init`, `select_slave`, `transfer`, `deselect_slave` | one slave on SCK, MOSI, MISO, CS |
| `TelemetryProtocol` (`src/drivers/telemetry_protocol.cpp`) | `initialized_` | `init`, `send_frame` | `IUart` by calls |
| `CircularBuffer` (`include/util/circular_buffer.hpp`) | array and two indices | `push`, `pop` | no program uses it |
| byte echo, mocks, tools, probe programs | | | |

**Hard behaviour.** Two programs share one bus without arbitration and rely on
timeouts (100 ms, 10 ms, 30 ms, 1000 ms) to take turns. Frames are damaged,
lost or cut off by a 16-byte FIFO nobody polls while the task sleeps. Sequence
numbers are one byte, are not advanced by a failed send, and nothing recognises
duplicates. Three tasks of one priority are preempted at register accesses and
share PINSEL0 and UART0 without a lock. A CAN chip changes RXB0 while it is
being read. Hardware comes up after its wait was given up. Four SPI masters
have to hit the edges of four modes, and a word that timed out stays in the
shift register. `PROJECT.json` lists
each hazard at its line.

**What makes each part correct.** Link: an ACK counts only for what it
acknowledges, the task gets the echo of what it sent, the ends do not drive the
bus together, every call returns. Codec: no write outside a buffer, one
delimiter per frame, decode after encode is the identity. CAN: a node on the
bus is fully configured, no frame arrives twice. Clock: the core never outruns
the flash, the tier tells the clock, boot ends. I2C: OK means that the slave
saw the same bits, the bus is free afterwards, calls return. Tasks: setups do
not undo each other, no character is lost, nobody starves. SPI: both sides get
the bits of the other, no edge outside a transfer. Buffer: a queue. CRC: it
tells damaged frames from others.

## 2. Modules

Each `MC*` module instantiates the module of its name; the `.cfg` files give
the constants. The `*Proofs` modules hold theorems.

### Rs485Link, Rs485LinkProofs, Transfer

Both ends of the link and the bus between them. The unit is a frame. It leaves
in two steps, DE up and DE down, so that two transmissions can overlap; when DE
goes down it enters the FIFO of the other side whole, damaged, without its
delimiter, or not at all. A FIFO is a sequence of such records with their
lengths in bytes. A reader that is polling takes bytes as they come; otherwise
they must fit into 16 (LPC1768) or 32 (RP2040) bytes. A frame behind one
without a delimiter is swallowed with it.

| Model | Code |
|---|---|
| `seq_`, `attempt` | the member and the loop variable of `send_frame` |
| `pc` = send, txdata, await | `send_frame`, inside `send_raw`, inside `wait_for_ack` |
| `pc` = recv, txctrl, sleep | `recv_frame`, its `send_raw`, `vTaskDelay(1000)` |
| `ppc` = idle, ack, data, nack, sleep | the responder's loop, `send_ctrl`, `send_data`, `sleep_ms(30)` |
| `toLpc`, `toPeer` | the UART receive FIFOs |
| `LpcUp`/`LpcDown`, `PeerUp`/`PeerDown` | DE up with the first byte, TEMT and DE down |
| `lpcHit`, `peerHit` | the other end drove the bus during this transmission |

*Time* is the constant `Timely`. When it is TRUE the four deadlines
(`AckDeadline`, `RecvDeadline`, `RoundDeadline`, `WireSlow`) say what the
nominal durations imply: 100 ms outlast a frame and the responder's 30 ms
sleep, 10 ms outlast a frame but not the sleep, 1000 ms outlast all the
responder has left to do, and a millisecond on the wire outlasts a few
instructions. When it is FALSE any timeout may fire at any time.

`base`, `got`, `echo` and the `pay` field of an ACK are history: which payload
was first sent under the present number, which ones the responder took, what
the task was handed.

A collision leaves a frame in any condition, intact included: on the bench the
two UARTs are wired directly (`tests/rs485_test.cpp:11`), one pair of wires per
direction, and overlapping frames may both arrive.

`Transfer` is the promise without frames, numbers or timeouts: payloads are
offered in order; the far end takes what was offered, never something older
after something newer; the near end moves its window on only when something of
the window was taken; what is returned was taken, in order. A payload may be
lost or taken twice, and that is part of the promise. `Promise` maps `round`,
`base`, `got` and `echo` to it.

### Cobs, CobsProofs

Encoder and decoder, one loop iteration per step, with the buffer sizes of
their callers as variables. Writing at `write_idx` is appending to a sequence,
writing back at `code_idx` is EXCEPT. `MaxCode` is 255 in the code. Any
sequence of bytes may also be handed to the decoder alone.

### CanNodes, CanNodesProofs

Two nodes with a chip each, and the bus. One SPI transaction is one step and may
fail; READ RX BUFFER is two, because the chip may store a frame in between.
The rising CS that ends it clears RX0IF whether or not the driver took the
transfer for a success. `idx` is the progress of the loop a node is in. A frame is the number of its
send; 0 is whatever does not pass the identifier check. The chip is modelled as
far as the driver relies on it: modes and REQOP, CNF registers writable in
Configuration mode only, the oscillator start-up during which it hears nothing,
TXREQ, One-Shot mode, RXB0 with RX0IF, arbitration by identifier. `bench` holds
the LPC1768 when it runs `tests/mcp2515_loopback_test.cpp` instead: Loopback
mode, `send`, a bounded wait for `has_message`, `receive`. The driver is written
against `ISpi`, whose calls may fail; of the HALs only `SpiLpc1768` does.

### ClockInit, ClockInitProofs

`SystemInit` statement by statement, with the wait loops counted to
`WaitLimit`. `OscStarts`, `LockChanges` and `Connects` happen whenever the
registers allow it, also after a wait has been given up and after the return.

### BitbangI2c, BitbangI2cProofs

`init`, then one call of `write` or `write_read`, one line change per step. The slave reacts to edges: START, STOP, sample on a
rise, drive or acknowledge with a fall, then hold SCL for as long as it likes.
Moving SDA some time after the fall makes no difference to either end: both look
at SDA only once SCL has risen.
It may refuse any byte. A stretch may outlast `STRETCH_TIMEOUT_LOOPS`;
`expired` is the history of that.

### SpiHal, SpiHalProofs

One of the four masters, chosen in `Init`, against a slave of the same mode that
counts edges: it samples MOSI on one edge of SCK and, some time after the other,
moves MISO (`due`). `Setup` is the order in which `init` touches the pins; `Put`
is any write to CS or SCK and what the slave makes of it; `BitSteps` is the
order within a bit for either CPHA. A half period waits until the slave has
moved MISO, which is what the clock is chosen for. SPI0 of the LPC1768 shifts a
word whenever it likes, or never; after `PollTimeout` the word is still in
it and `late` records that. SPI0 of the RP2040 is one blocking call of the SDK.

### CircularBuffer, BoundedQueue

`push` and `pop` are one step each: the members are plain, so overlapping calls
are outside what the structure supports. `Contents` is the run of bytes from
`tail` to `head` round the end of the array, the refinement mapping to
`BoundedQueue` of SIZE - 1 bytes. `result` says which call was made, so that a
refused `push` cannot pass for a refused `pop`.

### Crc, Telemetry, UtilProofs

A byte is the set of its bits. `CrcBit`, `CrcByte` and `Crc16` in `Crc` are the
loops of `crc16_ccitt`; `Frame` is what `send_frame` builds. The line inverts bits after
SOF. The repository has no receiver of telemetry frames; `Verdict` is the check
`Rs485Protocol::recv_frame` makes, for a receiver that knows where a frame ends.
`UtilProofs` holds the theorems on the CRC, on telemetry and on the buffer; it
extends both components, hence names such as `TelemetrySpec`.

### BoardTasks, BoardTasksProofs

The three tasks with every access to PINSEL0 and UART0 as a step of its own.
The kernel is the queue of ready tasks: a tick passes the turn on, a delayed
task comes back at the end, the task created last runs first. The exchange on
UART2 is a busy wait of two ticks at least that may last for ever. `Slice` is
the number of steps that certainly fit between two ticks.

`SetupHolds` depends on `Slice`: the read-modify-writes of PINSEL0 are not
protected, and with `Slice` = 0 the property fails. What protects them is that
each task finishes its setup, a dozen instructions, within the first
millisecond of its first turn. With `Slice` = 7 the property holds: the five
steps of `Rs485Lpc1768::init` fit in the first slice, `LedSetup`, `LedOn` and
`uart_init` up to closing the latch in the second. With 6, a tick opens the
latch of UART0 to the other task. The run takes 8, the least with which
`NoCharacterLost` holds as well: the next instruction of `uart_init` enables the
FIFO and thereby clears it, and with 7 a tick in between lets `rs485_task` put a
character there first. A slice is 96000 cycles.

A key that finds the receive FIFO full is lost and changes nothing; the FIFO of the
run holds one, and what it took is answered (`ConsoleAnswers`).

## 3. Runs

| Run | Checks | Shows |
|---|---|---|
| `link_timely` | `CleanRound`, `CleanHalfDuplex` | until the first damage: the four frames of the captures, and no overlap |
| | `TypeOK`, `LinkInv`, `EchoFresh` | two damaged frames or failed transmissions in three rounds, nominal times: no stale echo (the property allows for `MaxRetries` + 1 of them); `LinkInv` is the inductive invariant of the proof |
| | `ComesToRest` | every call returns, NACKs die out |
| `link_untimed` | `AckSound`, `ImplementsTransfer` | any delays, a sequence number of one bit: ACKs are sound, the link implements `Transfer` |
| `link_delivered` | `DeliveredMeansTaken` (violated) | finding 1 |
| `cobs_codec` | `TypeOK`, `EncodeFits`, `DelimiterLast`, `DecodeFits`, `RoundTrip` | all payloads and frames up to six bytes, any room for what is decoded |
| `can_nodes` | `TypeOK`, `LoopingConfigured`, `AtMostOnce`, `InitSettles` | two nodes, three sends each, an SPI failure at any place and a bus error; init returns |
| | `BenchPasses` | the loopback test passes in every round while SPI works |
| `can_stale` | `GreenMeansHeard` (violated) | finding 2 |
| `clock_boot` | `TypeOK`, `FlashKeepsUp`, `TierIsClock`, `ClockStays`, `BootNeverHangs` | all orders of hardware events, and hardware that does nothing |
| `clock_tier` | `FallbackIsCrystal` (violated) | finding 3 |
| `i2c_call` | `TypeOK`, `BusFree`, `OkMeansDone`, `CallReturns` | NACKs and stretches anywhere, and a slave that never lets go |
| `spi_hal` | `TypeOK`, `ExchangeExact`, `ClockHeld`, `QuietBus`, `CallsReturn` | four masters, four modes, two transactions of up to two words; SPI0 slow or stalled |
| `util_ring_crc` | `UtilTypeOK`, `ImplementsQueue` | the ring implements the queue, over any number of wraps |
| | `CrcTellsDamage` | every burst of up to 11 line bits and every damage of up to three bits |
| `tasks_board` | `TypeOK`, `SetupHolds`, `NoCharacterLost`, `LedBlinks`, `ConsoleAnswers` | preemption at any access; UART2 may hang |

**Bounds.** *Link*: frame and FIFO sizes are the real ones (11, 7, 16, 32),
retries too except in `link_untimed`, where one retry keeps the untimed state
space small. A sequence number of one bit is harder than one
of eight: confusion with the previous number is confusion with the next one as
well. Two faults suffice to lose an ACK and its repetition; three rounds let a
frame of the first meet the third. *Cobs*: a full block holds two bytes instead
of 254, so six bytes meet every alignment of zero, full block and end.
*CAN*: the CANSTAT limit and the polls are cut to two or three, past one turn of
each loop; three rounds let a frame of the first be read in the third. *Clock*: the limit of a wait is 20 instead of 1000000; nothing but
reaching it matters. *I2C*: a byte has two bits, the last of the first byte
being the direction; an address and one byte give a first and a last one
written, two bytes one read and acknowledged and one read and refused, none the
call that reads nothing. *SPI*: a byte has two bits, enough for a first, a last
and an edge between them; two words and two transactions let a word that timed
out meet the next one. The clocks are those of the programs and the limits of
the range checks. *Buffer*: three byte values in five slots; `RingIsQueue` has
every size. *Telemetry*: `MAX_PAYLOAD` is 1 instead of 64, frames of 24 and 32
bits after SOF. `CrcTellsBursts` has every burst of up to sixteen bits, whatever
the payload; the run adds up to three errors anywhere in these frames. *Tasks*:
the delays keep their order (1 < 2 < 3 < 4 ticks), the transmit FIFO holds two
characters instead of 16, the most two writers that saw it empty can put there.

`MCUtil` runs the ring and the telemetry side by side. They share nothing, so
each moves only while the other is where it starts.

**Deadlock** is checked for the link, the CAN nodes, SPI, buffer, telemetry and
the tasks. `SystemInit`,
an I2C call and a codec call end; their runs say `CHECK_DEADLOCK FALSE`.

**Fairness.** Link: weak fairness of each end's program, since the scheduler
runs `rs485_task` and the responder's loop never blocks for good. CAN: weak fairness of
each program and of the end of the oscillator start-up, none of the mode change
or the bus. Clock and I2C: weak fairness of the program alone. SPI: the program,
and the slave, which moves MISO within half a period; not SPI0, which may stall. Tasks: the tick
is a timer interrupt and comes again and again, though the UART may be busy in
between, hence strong fairness; each task has strong fairness, since a turn can
be cut short by a tick once, but a tick 96000 cycles later does not meet the
same first instruction each time. The exchange on UART2 is not assumed to end.

**Action coverage.** Each passing run but `link_untimed`, which has no damage, takes every
action of its module.

## 4. Findings

1. `link_delivered`. When all attempts fail, `seq_` stays and the next payload
   goes out under the same number. An ACK of the earlier one that arrives late
   is taken for it: the payload counts as delivered and is not. The capture in
   `docs/captures/README.md` shows seq 68 with payload number 74, so sends do
   fail on the bench. `AckSound`, which is proved, is what remains true: an ACK
   vouches for some payload sent under that number.
2. `can_stale`. `Mcp2515::receive` reads RXB0 whether or not RX0IF is set, so
   one frame keeps every later round green.
3. `clock_tier`. `clock_config.cpp:22`, `:65` and `:127` say that a PLL that
   locks and never connects leaves the core on the 12 MHz crystal. The fallback
   disables the PLL, and CCLKCFG keeps the divider of three that line 105 wrote:
   tier 3 runs at 4 MHz. `TierIsClock` is what holds of the other three tiers,
   and `ClockStays` of all four: the clock `main` finds does not move any more.

Seen on the way and stated as the code has it in a property that passes:
 - A damaged ACK makes `wait_for_ack` return false at once
   (`rs485_protocol.cpp:174`) and `send_frame` retransmit into the echo of the
   responder, so the DE pulses do overlap after damage, though
   `docs/captures/README.md:36` says they never do. `CleanHalfDuplex` is what
   holds.
 - An echo that came too late for its round lies in the FIFO until the next
   `wait_for_ack` takes it for a wrong ACK. If every `send_raw` of the next round
   times out, `wait_for_ack` is not called, and `recv_frame` hands over the old
   echo for the new one. That takes the fault that made the echo late and one
   per attempt; up to one fault fewer no echo is stale (`EchoFresh`).
 - No caller looks at the result of `scl_release_and_wait`, so a stretch longer
   than the timeout is not waited for, though `bitbang_i2c_lpc1768.hpp:15` says
   the driver waits. `expired` records that this happened; `OkMeansDone` and
   `BusFree` are promised as long as it has not.
 - `write_read` with no byte to read leaves a slave on the bus that answers
   with a zero bit, and returns OK without a STOP (`BusFree`).
 - `BitbangSpiLpc1768::init` makes CS an output while its latch is low and then
   moves SCK if CPOL is 1: the slave sees an edge. `BitbangSpiRp2040::init` has
   the order that avoids it, and a comment that says why (`QuietBus`).
 - After a TIMEOUT of `SpiLpc1768::transfer` its word is still in SPI0, and what
   the next transfer returns may be one word behind (`ExchangeExact`). A
   `timeout_ms` of zero waits for ever.
 - S0SPCCR has eight bits and `SpiLpc1768::init` does not look at the size of
   its divisor: asked for less than 94489 Hz it writes a divisor without its
   ninth bit and SCK runs faster than asked for (`DivisorTruncates`: twice as
   fast at 50 kHz). All programs ask for 1 MHz, and the run leaves slower clocks
   out (`ClockHeld`, `ClockIsHeld`). The comment at `spi_lpc1768.cpp:64` has the
   divisor "rounded to the nearest even value"; the code rounds up, as it must.
 - `docs/design_decisions.md:25` says that every PLL wait falls back to the 4 MHz
   RC oscillator; the lock timeout, as its own comment says, falls back to the
   12 MHz crystal (`TierIsClock`).

## 5. Proofs

The modules named `*Proofs` are checked by TLAPS. They assume the named
assumptions on the constants and nothing else:

| Assumption | Says |
|---|---|
| `ParamAssumption` | at least two sequence numbers, natural bounds |
| `CobsAssumption` | a full block of at least one byte |
| `SizeAssumption` | a ring of at least one slot |
| `TelemetryAssumption` | payloads of bytes, `MAX_PAYLOAD` of eight bits |
| `ClockAssumption` | a wait of at least one poll; crystal and RC oscillator no faster than the flash allows after reset, a third of the PLL output no faster than it allows with `FlashTim`, and that no slower than after reset |
| `NodesAssumption`, `BoundsAssumption` | two nodes; loops of at least one turn |
| `I2cAssumption` | a byte of at least one bit |
| `SpiAssumption` | a byte of at least one bit, modes of eight bits |
| `TaskAssumption` | messages of at least one character, delays of at least one tick, a FIFO of at least one character |

Where a theorem needs more than that it says so: `CleanRoundsHold`, `CleanBus`,
`EchoesAreFresh`, `ClockIsHeld`, `NothingLost`, `SetupsInTurn`, `SetupsHold`, `CrcTellsBursts`.

**`TypeCorrect`**: `TypeOK` of the link. Step by step over the actions, on lemmas
about reading from and arriving in a FIFO (`ReadFifo`, `ArriveFifo`).

**`LinkInvariant`, `AckSoundness`**: `AckSound` is an action property and not
inductive by itself. `LinkInv` adds what it rests on:
 - `StreamInv`: each reply or request under way belongs to a payload already
   sent; its number is `seq_` if that payload went out under the present number
   and the previous one otherwise; what is replied to was taken;
 - `OrderInv`: in the order replies, frame being answered, requests, payloads
   never decrease;
 - `TaskInv`: while a payload is being sent or waited for, `base` is not past it.

When an ACK with the right number is taken, its payload cannot be older than
`base`: it would carry the previous number, which differs as there are at least
two. When `seq_` advances, everything behind that ACK is no older than its
payload, so no frame is left that is two numbers behind. This argument needs
order, not time: the theorem holds for any delays, damage, overflow and
number of retries. It needs FIFO delivery, which a wire gives.

**`TransferInvariant`, `Refinement`**: the link implements `Transfer`. Each action
is a step of `Transfer` or leaves its four variables alone. `LinkInv` does not
suffice for that: `TakenInv` says that everything taken is no newer than any
request still under way, so the next one taken keeps the order; `EchoInv` says
that what was returned is no newer than any reply under way, and that the echo
`recv_frame` holds back while it sends its ACK is the one to be returned next.
Safety only: `Transfer` does not promise that anything arrives.

**`CleanInvariant`, `CleanRoundsHold`, `CleanBus`** hold for nominal delays
(`Timely`) and an RP2040 FIFO that holds an ACK (7 <= 32): the LPC1768
acknowledges the echo while the responder sleeps. `CleanInv` lists the nine
stages of a round: in each of them at most one frame is under way, and the end
that would disturb it is waiting for it. Each action leads from one stage to the
next, or damages a frame.

**`FreshInvariant`, `EchoesAreFresh`** need in addition that an ACK is no longer
than an echo (7 <= 11) and that the LPC1768 FIFO does not hold both (16 < 18).
`EchoFirst`: an echo in the FIFO is the first complete frame there, so one call
of `wait_for_ack` removes it; behind a frame that waits there is no room for an
echo, and a reader that polls has none waiting. `OfRound`: the 1000 ms pause lets
the responder finish, so its requests and what it is answering belong to the
present round. `StaleInv`: as long as an older echo is still there the responder
has nothing to answer and each attempt has cost a fault, so `recv_frame` is not
reached before `MaxRetries` + 2 of them. `BytesBound`, that a FIFO holds at least
the bytes of any frame in it, is an induction over a fold and is proved by a
least counterexample (`LeastNat`).

**`BufferTypes`, `RingIsQueue`**: the ring implements the queue. `NextIndexWraps`
turns the remainder into a case split, the only arithmetic the solver cannot do
by itself; `PushAppends` and `PopTakesHead` say what storing at the head and
moving the tail do to `Between`, element by element.

**`CodecInvariant`, `EncoderStaysInBuffer`, `FrameDelimited`,
`DecoderShrinks`, `DecoderStaysInRoom`**: the encoder is always `Blocks` bytes ahead of its input, and
`Blocks` full blocks hold `Blocks * (MaxCode - 1)` input bytes, so one size check
before the loop covers every write. All bytes written but the open code byte
are nonzero. The decoder stays two bytes behind its input: a code byte and the
delimiter; it refuses to write at the end of its room, for any frame and any
room. `CodecTypes` gives the range of the code byte on which this rests.

**`RoundInvariant`, `DecodeInvertsEncode`**: the decoder gives back what the
encoder was given. There is no recursive definition of the encoding to induct
over. Instead a function marks the places of the code bytes of a frame, each
with the number of payload bytes before its block (`Chain`, `Block`): a block
stands for its bytes, and one that is not full for a zero behind them. The
encoder adds a mark whenever it closes a block (`Scanned`), the last block ends
at the delimiter (`Framed`), and wherever the decoder is, what it has written
is the prefix of the payload the marks speak of (`Decoded`). The marks are
quantified, not a variable: nothing is added to the codec.

**`BootInvariant`, `FlashAlwaysKeepsUp`, `TierNamesClock`, `ClockNeverMoves`**: `BootInv` gives the
registers at every statement and at each of the four returns. The hardware can
only change PLOCK, the oscillator status and whether the PLL is the clock, and
the last only once PLL0CON asks for it; by then divider and flash timing are in
place (`pc` past flash), and a PLL that connects after the last wait was given
up finds PLL0CON taken back. After the return the clock can move only by such a
connect, and each of the four returns either has it behind it or does not ask
for it.

**`ConfigInvariant`, `Configured`**: `InitProgress` says how far `init` has
brought the chip: the delay ends the oscillator start-up, so the CNF registers
are written in Configuration mode, each is in place before the next, and the
mode is asked for after all of them. Any transaction of `init` may fail;
the node then halts.

**`SendInvariant`, `StoredAtMostOnce`**: the frame in TXB0 is no older than
anything the other side has stored from this node, whichever transactions have
failed (`LoadedInOrder`): a load replaces it by a newer one or, if it fails or is
ignored, leaves it. While SPI works it is strictly newer for as long as TXREQ or
a RTS to come may still send it (`SendProgress`). That rests on One-Shot mode,
which `ConfigInv` does not say. `AtMostOnce` is an action property: a frame is
never stored behind a newer one, and while SPI works only above the last one.

**`BenchInvariant`, `BenchAlwaysPasses`**: in every round of the loopback test
exactly one frame is on its way. The wait of the test does not end before the
frame is in RXB0 while SPI works, so no frame is left for the next round.

**`CallTypes`, `SyncInvariant`, `OkIsTrue`, `BusIsFree`**: `CallTypes` needs no
timing: where SCL and SDA are released and how many bits are done follows from
the program alone, whatever the slave does. `SyncInv` says, for each place of
the program and each level of the lines, which bits the slave has sampled and
which of its bits are read; `RiseKeeps` and the lemmas on a falling clock are
the steps of both sides at once. It holds until a stretch outlasts the timeout:
from then on `expired` stays and nothing is promised. At a START or a STOP the
slave has taken the rise before it for a bit, and drops it (`DropsOne`).

**`SpiTypes`, `BusIsQuiet`, `ExchangeInvariant`, `TransferExact`**: `WireInv`
follows the levels of CS and SCK through `Setup` and through a call. `BitInv`
says for each step of a bit, in either CPHA, whether MOSI holds the bit, the
slave was asked for its own, has moved MISO and has sampled; `WordInv` says the
same of the words of SPI0 as long as no transfer has timed out. The four modes
share one argument, as CPOL only turns the levels over.

**`ClockIsHeld`** has a hypothesis that `init` does not check: SPI0 is not asked
for a clock below `SlowestClock`, 94489 Hz. `DivisorTruncates` shows that it is
needed. The bit-banged masters need nothing; their delay is not cut short.

**`TelemetryTypes`, `CrcTellsBursts`**: a frame with any burst of up to sixteen
bits inverted fails the check, and one left alone passes, for payloads of every
length and content. The theorem is about bursts alone (`Span` <= 16,
`Flips` <= 1). The UART sends the low bit of a byte first and the CRC takes the
high bit first, so the textbook argument, that a burst no longer than the
register is found, does not apply: sixteen bits on the line may lie 23 apart to
the CRC. The loop is linear (`CrcBitXor`, `CrcByteXor`): the registers of two
blocks differ by what their difference leaves of an empty register. A block
passes exactly if the register, taken over its CRC as well, runs empty
(`VerdictEmpties`), and a register that is not empty stays so as long as the two
blocks agree (`NeverEmptied`). So the burst would have to undo itself within the
three bytes it touches. The second can cancel only the high half of what the
first has left, and the third would have to be the low half of that; but this
half reaches as high up as the lowest bit hit in the first byte
(`LowestBitShows`), and a burst of sixteen has left the third byte before that
bit. With seventeen this fails: there are bursts of seventeen bits that go
unnoticed.

**`TypeCorrect`** of the tasks: the queue of ready tasks holds each task at most
once, and exactly those no delay runs for. A tick appends the tasks it wakes in
any order (`OrdersOf`, `Appended`, `Removed` are the lemmas about the queue);
as priorities are equal the first one runs (`FirstRuns`).

**`NothingLost`** holds for a transmit FIFO of two characters or more, the
LPC1768 has 16, and slices of eight steps or more. `StoreInv` counts the characters in the FIFO and the tasks that
have found it empty but not written yet: together never more than two, whoever
is preempted in between. Before `echo_task` has enabled the FIFO only one
character fits, and nobody has printed: enabling it clears it, and by `SetupInv` that
happens in the slice in which `uart_init` begins.

**`SetupsInTurn`, `SetupsHold`** hold for slices of seven steps or more, and with six they do
not (section 2). `SetupInv` has three phases: `rs485_task` sets up UART2 before
the first tick; `led_task` and `uart_init` share the second slice, with the step
count telling where they are; then both are up, and nobody selects pins or
opens the divisor latch again. The theorem shows that the code is protected by
the speed of its setups and by nothing else.

**Model-checked only**: liveness and what rests on ENABLED, for which the prover
has no backend (`ComesToRest`, `InitSettles`, `BootNeverHangs`, `CallReturns`,
`CallsReturn`, `LedBlinks`, `ConsoleAnswers`); and `CrcTellsDamage` for errors that
are no burst, which depends on the length of the frame.

## 6. Not modelled

The byte-echo responder and the programs that probe a board by hand, but for
the loopback test; the BMP280 header without implementation, mocks, interfaces,
scripts, startup code and linker script. FreeRTOS is not in the repository and
is modelled as far as `main` uses it. Within the link: the CRC's verdict is
data, noise bytes outside frames, and payloads longer than rs485_task sends;
the room that the bytes of a frame without SOF take in a FIFO, and the tail that
`wait_for_ack` leaves when it stops at 16 bytes, which has no SOF and is skipped.
Within the tasks: the text of messages, keys typed before UART0 is set up.
Within the SPI HALs: the accuracy of the delay loop of `BitbangSpiLpc1768`, a
count of cycles. Within telemetry: a receiver, which the repository lacks, and
with it how one finds the next frame after one cut short. The divisor of UART2
for other rates than 115200.

## 7. Plan

1. Done: `Rs485Link` (the core of the system) with its proofs and its refinement
   of `Transfer`, `Cobs` with its proofs, `CircularBuffer` with its refinement
   proved, `CanNodes`, `ClockInit`, `BitbangI2c`, `BoardTasks`, `SpiHal`,
   `Crc`, `Telemetry`.
2. Done: the safety properties of `Cobs`, `CanNodes`, `ClockInit`, `BitbangI2c`,
   `SpiHal`, `BoardTasks` and, for bursts, `Telemetry` proved, and of `Rs485Link`
   those that rest on time and on the sizes of the FIFOs.
3. The byte echo with `tests/rs485_test.cpp`: one stray byte in the FIFO shifts
   every later round.
