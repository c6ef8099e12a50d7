----------------------------- MODULE Telemetry ------------------------------
(***************************************************************************)
(* TelemetryProtocol.  The line may damage what the UART transmits; the    *)
(* repository has no receiver of telemetry frames, the check is the one    *)
(* its RS-485 receiver makes of a frame.                                   *)
(***************************************************************************)
EXTENDS FiniteSets, Crc

CONSTANTS
  Payloads,      \* payloads the program sends: sequences of bytes
  MAX_PAYLOAD,   \* 64
  Span, Flips,   \* bounds: damage is a burst of up to Span bits, or up to
                 \* Flips bits anywhere
  Inits          \* bound: calls of init

ASSUME TelemetryAssumption ==
  /\ Payloads \subseteq Seq(Octet) /\ MAX_PAYLOAD \in 0 .. 255
  /\ {Span, Flips, Inits} \subseteq Nat

VARIABLES
  initialized,   \* initialized_
  inits,
  line,          \* bytes of the last call on the wire, <<>> if there are none
  whole,         \* transmit has sent all of them
  damage         \* bits inverted on the way, counted from the first byte on

telemetryVars == <<initialized, inits, line, whole, damage>>

-----------------------------------------------------------------------------
(* TelemetryProtocol                                                       *)

SOF == {7, 5, 3, 1}                         \* 0xAA
LenByte(n) == {i \in 0 .. 7 : (n \div 2 ^ i) % 2 = 1}

CoveredShort(len) == len
Covered(len) == 1 + len                     \* LEN and the payload

Frame(p) ==
  LET body == <<LenByte(Len(p))>> \o p
      crc  == Crc16(SubSeq(body, 1, Covered(Len(p))))
  IN  <<SOF>> \o body \o <<{i - 8 : i \in crc \ (0 .. 7)}, crc \cap (0 .. 7)>>

\* A call of init, the first or a later one.
InitUart ==
  /\ inits < Inits /\ inits' = inits + 1
  /\ initialized' \in BOOLEAN
  /\ UNCHANGED <<line, whole, damage>>

TooLong(p) == Len(p) > MAX_PAYLOAD

\* Also the outcome for a null pointer.
SendRefused ==
  /\ ~initialized \/ (\E p \in Payloads : TooLong(p) \/ p # <<>>)
  /\ line' = <<>> /\ whole' = FALSE /\ damage' = {}
  /\ UNCHANGED <<initialized, inits>>

Send ==
  /\ initialized
  /\ \E p \in Payloads : ~TooLong(p) /\ line' = Frame(p)
  /\ whole' = TRUE /\ damage' = {}
  /\ UNCHANGED <<initialized, inits>>

\* transmit returns something else than OK: any part of the frame is out.
SendFails ==
  /\ initialized
  /\ \E p \in Payloads : \E n \in 0 .. Len(p) + 3 :
       ~TooLong(p) /\ line' = SubSeq(Frame(p), 1, n)
  /\ whole' = FALSE /\ damage' = {}
  /\ UNCHANGED <<initialized, inits>>

-----------------------------------------------------------------------------
(* The line                                                                *)

\* The UART sends the low bit of a byte first, the CRC takes the high bit
\* first: a burst on the line is not one to the CRC.
Damage ==
  /\ whole
  /\ \E j \in 8 .. (8 * Len(line)) - 1 :
       /\ \A i \in damage : i < j
       /\ Cardinality(damage) < Flips \/ (\A i \in damage : j < i + Span)
       /\ damage' = damage \cup {j}
  /\ UNCHANGED <<initialized, inits, line, whole>>

Received ==
  [n \in 1 .. Len(line) |->
     Xor(line[n], {j % 8 : j \in {d \in damage : d \div 8 = n - 1}})]

\* The CRC over all but the last two bytes is the last two.
Verdict(block) ==
  LET n   == Len(block)
      crc == Crc16(SubSeq(block, 1, n - 2))
  IN  crc = {i + 8 : i \in block[n - 1]} \cup block[n]

-----------------------------------------------------------------------------
TelemetryInit ==
  /\ initialized = FALSE /\ inits = 0
  /\ line = <<>> /\ whole = FALSE /\ damage = {}

TelemetryNext == InitUart \/ SendRefused \/ Send \/ SendFails \/ Damage

TelemetrySpec == TelemetryInit /\ [][TelemetryNext]_telemetryVars

-----------------------------------------------------------------------------
\* No frame is longer than the array send_frame builds it in.
TelemetryTypeOK ==
  /\ initialized \in BOOLEAN /\ inits \in 0 .. Inits
  /\ line \in Seq(Octet) /\ Len(line) <= MAX_PAYLOAD + 4
  /\ whole \in BOOLEAN
  /\ damage \subseteq 8 .. (8 * Len(line)) - 1

\* The check accepts a frame exactly when the line has left it alone: no
\* burst and no few scattered bit errors after SOF go unnoticed.
CrcTellsDamage ==
  whole => (Verdict(Tail(Received)) <=> damage = {})

=============================================================================
