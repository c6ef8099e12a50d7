----------------------------- MODULE UtilProofs -----------------------------
(***************************************************************************)
(* What include/util promises: the CRC-16 finds every burst of up to       *)
(* sixteen bits in a telemetry frame of any length, and CircularBuffer     *)
(* implements BoundedQueue for every SIZE of at least one and every set of *)
(* bytes.                                                                  *)
(***************************************************************************)
EXTENDS CircularBuffer, Telemetry, SequenceTheorems, FiniteSetTheorems,
        NaturalsInduction, WellFoundedInduction, TLAPS

-----------------------------------------------------------------------------
(* Numbers                                                                 *)

\* Every nonempty set of naturals has a least element.
LEMMA LeastNat ==
  ASSUME NEW S \in SUBSET Nat, S # {}
  PROVE  \E m \in S : \A n \in S : m <= n
<1> DEFINE R == OpToRel(<, Nat)
<1>1. PICK m \in S : \A n \in S : <<n, m>> \notin R
  <2> HIDE DEF R
  <2>1. IsWellFoundedOn(R, Nat)
    BY NatLessThanWellFounded DEF R
  <2> QED
    BY <2>1, WFMin
<1>2. \A n \in S : ~ (n < m)
  BY <1>1 DEF OpToRel
<1> QED
  BY <1>2

\* What holds of 0 and is passed on by each number below L holds up to L.
LEMMA UpTo ==
  ASSUME NEW S, NEW k \in Nat, NEW L \in Nat, k \in S,
         \A n \in k .. L - 1 : n \in S => n + 1 \in S
  PROVE  k .. L \subseteq S
<1> SUFFICES ASSUME NEW x \in (k .. L) \ S PROVE FALSE
  OBVIOUS
<1> DEFINE B == (k .. L) \ S
<1>1. B \in SUBSET Nat /\ B # {}
  OBVIOUS
<1>2. PICK m \in B : \A n \in B : m <= n
  BY <1>1, LeastNat
<1>3. m \in k .. L /\ m # k
  BY <1>2
<1>4. m - 1 \in k .. L - 1 /\ (m - 1) + 1 = m
  BY <1>3
<1>5. m - 1 \notin B
  <2>1. ~ (m <= m - 1)
    BY <1>3
  <2> QED
    BY <1>2, <2>1
<1>6. m - 1 \in S
  BY <1>4, <1>5
<1> QED
  BY <1>2, <1>4, <1>6


-----------------------------------------------------------------------------
(* The register, bit by bit                                               *)

\* A bit is in the difference of two bytes or registers if one has it.
LEMMA XorBits ==
  ASSUME NEW a, NEW b, NEW i
  PROVE  i \in Xor(a, b) <=> ~ (i \in a <=> i \in b)
BY DEF Xor

Register == SUBSET (0 .. 15)

\* What one shift of the register does to each of its bits.
LEMMA CrcBitBits ==
  ASSUME NEW a \in Register
  PROVE  /\ CrcBit(a) \in Register
         /\ 0 \in CrcBit(a) <=> 15 \in a
         /\ \A j \in 1 .. 15 :
              (j \in CrcBit(a)) <=> ~ ((j - 1 \in a) <=> (15 \in a /\ j \in {5, 12}))
<1> DEFINE shifted == {i + 1 : i \in a \ {15}}
<1>1. shifted \in Register
  BY DEF Register
<1>2. \A j \in 1 .. 15 : j \in shifted <=> j - 1 \in a
  BY DEF Register
<1>3. 0 \notin shifted
  BY DEF Register
<1>4. CASE 15 \in a
  <2>1. CrcBit(a) = Xor(shifted, {12, 5, 0})
    BY <1>4 DEF CrcBit
  <2> HIDE DEF shifted
  <2>2. CrcBit(a) \in Register
    BY <1>1, <2>1 DEF Register, Xor
  <2>3. \A i : i \in CrcBit(a) <=> ~ (i \in shifted <=> i \in {12, 5, 0})
    BY <2>1, XorBits
  <2>4. 0 \in CrcBit(a)
    BY <1>3, <2>3
  <2>5. ASSUME NEW j \in 1 .. 15
        PROVE  j \in CrcBit(a) <=> ~ (j - 1 \in a <=> j \in {5, 12})
    BY <1>2, <2>3
  <2> QED
    BY <1>4, <2>2, <2>4, <2>5
<1>5. CASE 15 \notin a
  <2>1. CrcBit(a) = shifted
    BY <1>5 DEF CrcBit
  <2> HIDE DEF shifted
  <2> QED
    BY <1>1, <1>2, <1>3, <1>5, <2>1
<1> QED
  BY <1>4, <1>5

\* A shift is linear: the difference of two registers is shifted like one.
LEMMA CrcBitXor ==
  ASSUME NEW a \in Register, NEW b \in Register
  PROVE  Xor(a, b) \in Register /\ CrcBit(Xor(a, b)) = Xor(CrcBit(a), CrcBit(b))
<1> DEFINE d == Xor(a, b)
<1>1. d \in Register
  BY DEF Xor, Register
<1>2. \A i : i \in d <=> ~ (i \in a <=> i \in b)
  BY XorBits
<1> HIDE DEF d
<1>3. 0 \in CrcBit(d) <=> ~ (0 \in CrcBit(a) <=> 0 \in CrcBit(b))
  BY <1>1, <1>2, CrcBitBits
<1>4. ASSUME NEW j \in 1 .. 15
      PROVE  j \in CrcBit(d) <=> ~ (j \in CrcBit(a) <=> j \in CrcBit(b))
  <2>1. j \in CrcBit(a) <=> ~ (j - 1 \in a <=> (15 \in a /\ j \in {5, 12}))
    BY CrcBitBits
  <2>2. j \in CrcBit(b) <=> ~ (j - 1 \in b <=> (15 \in b /\ j \in {5, 12}))
    BY CrcBitBits
  <2>3. j \in CrcBit(d) <=> ~ (j - 1 \in d <=> (15 \in d /\ j \in {5, 12}))
    BY <1>1, CrcBitBits
  <2>4. j - 1 \in d <=> ~ (j - 1 \in a <=> j - 1 \in b)
    BY <1>2
  <2>5. 15 \in d <=> ~ (15 \in a <=> 15 \in b)
    BY <1>2
  <2> QED
    BY <2>1, <2>2, <2>3, <2>4, <2>5
<1>5. \A i \in 0 .. 15 : i \in CrcBit(d) <=> i \in Xor(CrcBit(a), CrcBit(b))
  <2> SUFFICES ASSUME NEW i \in 0 .. 15
               PROVE  i \in CrcBit(d) <=> i \in Xor(CrcBit(a), CrcBit(b))
    OBVIOUS
  <2>1. i \in CrcBit(d) <=> ~ (i \in CrcBit(a) <=> i \in CrcBit(b))
    <3>1. i = 0 \/ i \in 1 .. 15
      OBVIOUS
    <3> QED
      BY <1>3, <1>4, <3>1
  <2> QED
    BY <2>1, XorBits
<1>6. CrcBit(d) \subseteq 0 .. 15 /\ Xor(CrcBit(a), CrcBit(b)) \subseteq 0 .. 15
  <2>1. CrcBit(a) \in Register /\ CrcBit(b) \in Register /\ CrcBit(d) \in Register
    BY <1>1, CrcBitBits
  <2> QED
    BY <2>1 DEF Register, Xor
<1>7. CrcBit(d) = Xor(CrcBit(a), CrcBit(b))
  <2> HIDE DEF Xor
  <2> QED
    BY <1>5, <1>6
<1> QED
  BY <1>1, <1>7 DEF d

-----------------------------------------------------------------------------
(* A byte                                                                  *)

Entered(crc, b) == Xor(crc, {i + 8 : i \in b})

\* A byte enters the high half of the register.
LEMMA EnteredBits ==
  ASSUME NEW c \in Register, NEW b \in Octet
  PROVE  /\ Entered(c, b) \in Register
         /\ \A i \in 0 .. 7 : i \in Entered(c, b) <=> i \in c
         /\ \A i \in 0 .. 7 : i + 8 \in Entered(c, b) <=> ~ (i + 8 \in c <=> i \in b)
<1> DEFINE high == {i + 8 : i \in b}
<1>1. high \in Register
  BY DEF Register, Octet
<1>2. \A i \in 0 .. 7 : i \notin high /\ (i + 8 \in high <=> i \in b)
  BY DEF Octet
<1>3. Entered(c, b) = (c \cup high) \ (c \cap high)
  BY DEF Entered, Xor
<1> HIDE DEF high
<1>4. Entered(c, b) \in Register
  BY <1>1, <1>3 DEF Register
<1> QED
  BY <1>2, <1>3, <1>4

\* The register goes through eight shifts for a byte.
LEMMA CrcByteShifts ==
  ASSUME NEW c \in Register, NEW b \in Octet
  PROVE  \E f \in [0 .. 8 -> Register] :
           /\ f[0] = Entered(c, b)
           /\ \A n \in 1 .. 8 : f[n] = CrcBit(f[n - 1])
           /\ CrcByte(c, b) = f[8]
<1> DEFINE x0 == Entered(c, b)
           x1 == CrcBit(x0)
           x2 == CrcBit(x1)
           x3 == CrcBit(x2)
           x4 == CrcBit(x3)
           x5 == CrcBit(x4)
           x6 == CrcBit(x5)
           x7 == CrcBit(x6)
           x8 == CrcBit(x7)
           w  == [n \in 0 .. 8 |-> CASE n = 0 -> x0 [] n = 1 -> x1 [] n = 2 -> x2
                                     [] n = 3 -> x3 [] n = 4 -> x4 [] n = 5 -> x5
                                     [] n = 6 -> x6 [] n = 7 -> x7 [] n = 8 -> x8]
           step == CHOOSE s : s = [n \in 0 .. 8 |->
                     IF n = 0 THEN Xor(c, {i + 8 : i \in b}) ELSE CrcBit(s[n - 1])]
<1>1. w = [n \in 0 .. 8 |->
             IF n = 0 THEN Xor(c, {i + 8 : i \in b}) ELSE CrcBit(w[n - 1])]
  <2>1. /\ w[0] = x0 /\ w[1] = x1 /\ w[2] = x2 /\ w[3] = x3 /\ w[4] = x4
        /\ w[5] = x5 /\ w[6] = x6 /\ w[7] = x7 /\ w[8] = x8
    <3> HIDE DEF x0, x1, x2, x3, x4, x5, x6, x7, x8
    <3> QED
      OBVIOUS
  <2>2. x0 = Xor(c, {i + 8 : i \in b})
    BY DEF Entered
  <2>3. \A n \in 0 .. 8 : w[n] = IF n = 0 THEN Xor(c, {i + 8 : i \in b}) ELSE CrcBit(w[n - 1])
    <3>1. \A n \in 1 .. 8 : w[n] = CrcBit(w[n - 1])
      <4>1. /\ x1 = CrcBit(x0) /\ x2 = CrcBit(x1) /\ x3 = CrcBit(x2) /\ x4 = CrcBit(x3)
            /\ x5 = CrcBit(x4) /\ x6 = CrcBit(x5) /\ x7 = CrcBit(x6) /\ x8 = CrcBit(x7)
        OBVIOUS
      <4> HIDE DEF w, x0, x1, x2, x3, x4, x5, x6, x7, x8
      <4> QED
        BY <2>1, <4>1
    <3> HIDE DEF w, x0
    <3> QED
      BY <2>1, <2>2, <3>1
  <2>4. w = [n \in 0 .. 8 |-> w[n]]
    OBVIOUS
  <2> HIDE DEF w
  <2> QED
    BY <2>3, <2>4, Zenon
<1>2. step = [n \in 0 .. 8 |->
                IF n = 0 THEN Xor(c, {i + 8 : i \in b}) ELSE CrcBit(step[n - 1])]
  <2> HIDE DEF w
  <2> QED
    BY <1>1, Zenon
<1>3. CrcByte(c, b) = step[8]
  BY DEF CrcByte
<1> HIDE DEF w, step
<1>4. step[0] = Entered(c, b)
  BY <1>2 DEF Entered
<1>5. \A n \in 1 .. 8 : step[n] = CrcBit(step[n - 1])
  BY <1>2
<1>6. \A n \in 0 .. 8 : step[n] \in Register
  <2>0. step[0] \in Register
    BY <1>4, EnteredBits
  <2>1. ASSUME NEW n \in 1 .. 8, step[n - 1] \in Register PROVE step[n] \in Register
    BY <1>5, <2>1, CrcBitBits
  <2>2. step[1] \in Register
    BY <2>0, <2>1
  <2>3. step[2] \in Register
    BY <2>2, <2>1
  <2>4. step[3] \in Register
    BY <2>3, <2>1
  <2>5. step[4] \in Register
    BY <2>4, <2>1
  <2>6. step[5] \in Register
    BY <2>5, <2>1
  <2>7. step[6] \in Register
    BY <2>6, <2>1
  <2>8. step[7] \in Register
    BY <2>7, <2>1
  <2>9. step[8] \in Register
    BY <2>8, <2>1
  <2> QED
    BY <2>0, <2>2, <2>3, <2>4, <2>5, <2>6, <2>7, <2>8, <2>9
<1>7. step \in [0 .. 8 -> Register]
  BY <1>2, <1>6
<1> QED
  BY <1>3, <1>4, <1>5, <1>7

\* A byte leaves a register of sixteen bits.
LEMMA CrcByteType ==
  ASSUME NEW c \in Register, NEW b \in Octet
  PROVE  CrcByte(c, b) \in Register
BY CrcByteShifts

\* The registers a byte leaves, shift by shift.
Shifts(c, b, f) ==
  /\ f \in [0 .. 8 -> Register]
  /\ f[0] = Entered(c, b)
  /\ \A n \in 0 .. 7 : f[n + 1] = CrcBit(f[n])
  /\ CrcByte(c, b) = f[8]

\* Every byte has its eight shifts.
LEMMA ShiftsExist ==
  ASSUME NEW c \in Register, NEW b \in Octet
  PROVE  \E f : Shifts(c, b, f)
<1>1. PICK f \in [0 .. 8 -> Register] :
        /\ f[0] = Entered(c, b)
        /\ \A n \in 1 .. 8 : f[n] = CrcBit(f[n - 1])
        /\ CrcByte(c, b) = f[8]
  BY CrcByteShifts
<1>2. ASSUME NEW n \in 0 .. 7 PROVE f[n + 1] = CrcBit(f[n])
  <2>1. n + 1 \in 1 .. 8 /\ (n + 1) - 1 = n
    OBVIOUS
  <2> QED
    BY <1>1, <2>1
<1>3. Shifts(c, b, f)
  BY <1>1, <1>2 DEF Shifts
<1> QED
  BY <1>3

\* So the CRC of a difference is the difference of the CRCs.
LEMMA CrcByteXor ==
  ASSUME NEW c \in Register, NEW d \in Register, NEW b \in Octet, NEW e \in Octet
  PROVE  CrcByte(Xor(c, d), Xor(b, e)) = Xor(CrcByte(c, b), CrcByte(d, e))
<1>1. Xor(c, d) \in Register /\ Xor(b, e) \in Octet
  BY DEF Xor, Register, Octet
<1>2. PICK f : Shifts(c, b, f)
  BY ShiftsExist
<1>3. PICK g : Shifts(d, e, g)
  BY ShiftsExist
<1>4. PICK h : Shifts(Xor(c, d), Xor(b, e), h)
  BY <1>1, ShiftsExist
<1> DEFINE S == {n \in 0 .. 8 : h[n] = Xor(f[n], g[n])}
<1>5. 0 \in S
  <2> DEFINE p == Entered(c, b)
             q == Entered(d, e)
             r == Entered(Xor(c, d), Xor(b, e))
  <2>1. p \in Register /\ q \in Register /\ r \in Register
    BY <1>1, EnteredBits
  <2>2. ASSUME NEW i \in 0 .. 7
        PROVE  /\ i \in r <=> ~ (i \in p <=> i \in q)
               /\ i + 8 \in r <=> ~ (i + 8 \in p <=> i + 8 \in q)
    <3>1. i \in p <=> i \in c
      BY EnteredBits
    <3>2. i \in q <=> i \in d
      BY EnteredBits
    <3>3. i \in r <=> i \in Xor(c, d)
      BY <1>1, EnteredBits
    <3>4. i \in Xor(c, d) <=> ~ (i \in c <=> i \in d)
      BY XorBits
    <3>5. i + 8 \in p <=> ~ (i + 8 \in c <=> i \in b)
      BY EnteredBits
    <3>6. i + 8 \in q <=> ~ (i + 8 \in d <=> i \in e)
      BY EnteredBits
    <3>7. i + 8 \in r <=> ~ (i + 8 \in Xor(c, d) <=> i \in Xor(b, e))
      BY <1>1, EnteredBits
    <3>8. i + 8 \in Xor(c, d) <=> ~ (i + 8 \in c <=> i + 8 \in d)
      BY XorBits
    <3>9. i \in Xor(b, e) <=> ~ (i \in b <=> i \in e)
      BY XorBits
    <3> QED
      BY <3>1, <3>2, <3>3, <3>4, <3>5, <3>6, <3>7, <3>8, <3>9
  <2> HIDE DEF p, q, r
  <2>3. ASSUME NEW k \in 0 .. 15 PROVE k \in r <=> k \in Xor(p, q)
    <3>1. k \in r <=> ~ (k \in p <=> k \in q)
      <4>1. CASE k \in 0 .. 7
        BY <2>2, <4>1
      <4>2. CASE k \notin 0 .. 7
        <5>1. k - 8 \in 0 .. 7 /\ (k - 8) + 8 = k
          BY <4>2
        <5> QED
          BY <2>2, <5>1
      <4> QED
        BY <4>1, <4>2
    <3> QED
      BY <3>1, XorBits
  <2>4. Xor(p, q) \in Register
    BY <2>1, CrcBitXor
  <2>5. r = Xor(p, q)
    <3> HIDE DEF Xor
    <3> QED
      BY <2>1, <2>3, <2>4 DEF Register
  <2>6. h[0] = r /\ f[0] = p /\ g[0] = q
    BY <1>2, <1>3, <1>4 DEF Shifts, p, q, r
  <2> QED
    BY <2>5, <2>6
<1>6. ASSUME NEW n \in 0 .. 8 - 1, n \in S PROVE n + 1 \in S
  <2>1. n \in 0 .. 7 /\ n + 1 \in 0 .. 8 /\ n \in 0 .. 8
    OBVIOUS
  <2>2. /\ f[n + 1] = CrcBit(f[n]) /\ f[n] \in Register
        /\ g[n + 1] = CrcBit(g[n]) /\ g[n] \in Register
        /\ h[n + 1] = CrcBit(h[n])
    BY <1>2, <1>3, <1>4, <2>1 DEF Shifts
  <2>3. h[n] = Xor(f[n], g[n])
    BY <1>6
  <2>4. CrcBit(Xor(f[n], g[n])) = Xor(CrcBit(f[n]), CrcBit(g[n]))
    BY <2>2, CrcBitXor
  <2>5. h[n + 1] = Xor(f[n + 1], g[n + 1])
    BY <2>2, <2>3, <2>4
  <2> QED
    BY <2>1, <2>5
<1>7. 8 \in S
  <2> HIDE DEF S
  <2>1. 0 .. 8 \subseteq S
    BY <1>5, <1>6, UpTo
  <2> QED
    BY <2>1
<1> QED
  BY <1>2, <1>3, <1>4, <1>7 DEF Shifts

\* No shift empties a register that is not empty.
LEMMA NeverEmptied ==
  ASSUME NEW c \in Register, NEW b \in Octet, Entered(c, b) # {}
  PROVE  CrcByte(c, b) # {}
<1>1. PICK f : Shifts(c, b, f)
  BY ShiftsExist
<1> DEFINE S == {n \in 0 .. 8 : f[n] # {}}
<1>2. 0 \in S
  BY <1>1 DEF Shifts
<1>3. ASSUME NEW n \in 0 .. 8 - 1, n \in S PROVE n + 1 \in S
  <2>1. n \in 0 .. 7 /\ n + 1 \in 0 .. 8 /\ n \in 0 .. 8
    OBVIOUS
  <2>2. f[n + 1] = CrcBit(f[n]) /\ f[n] \in Register
    BY <1>1, <2>1 DEF Shifts
  <2>3. PICK i \in f[n] : TRUE
    BY <1>3
  <2>4. i \in 0 .. 15
    BY <2>2 DEF Register
  <2>5. CASE 15 \in f[n]
    BY <2>1, <2>2, <2>5, CrcBitBits
  <2>6. CASE 15 \notin f[n]
    <3>1. i + 1 \in 1 .. 15 /\ (i + 1) - 1 = i
      BY <2>3, <2>4, <2>6
    <3>2. i + 1 \in CrcBit(f[n])
      BY <2>2, <2>3, <2>6, <3>1, CrcBitBits
    <3> QED
      BY <2>1, <2>2, <3>2
  <2> QED
    BY <2>5, <2>6
<1>4. 8 \in S
  <2> HIDE DEF S
  <2>1. 0 .. 8 \subseteq S
    BY <1>2, <1>3, UpTo
  <2> QED
    BY <2>1
<1> QED
  BY <1>1, <1>4 DEF Shifts

\* A register with an empty high half moves into the high half.
LEMMA LowMovesHigh ==
  ASSUME NEW c \in Register, NEW b \in Octet, NEW e \in Octet, Entered(c, b) = e
  PROVE  CrcByte(c, b) = {i + 8 : i \in e}
<1>1. PICK f : Shifts(c, b, f)
  BY ShiftsExist
<1> DEFINE S == {n \in 0 .. 8 : f[n] = {i + n : i \in e}}
<1>2. e \subseteq 0 .. 7
  BY DEF Octet
<1>3. 0 \in S
  <2>1. f[0] = e
    BY <1>1 DEF Shifts
  <2>2. e = {i + 0 : i \in e}
    BY <1>2
  <2> QED
    BY <2>1, <2>2
<1>4. ASSUME NEW n \in 0 .. 8 - 1, n \in S PROVE n + 1 \in S
  <2>1. n \in 0 .. 7 /\ n + 1 \in 0 .. 8
    OBVIOUS
  <2>2. f[n] = {i + n : i \in e}
    BY <1>4
  <2>3. 15 \notin f[n]
    BY <1>2, <2>1, <2>2
  <2>4. CrcBit(f[n]) = {k + 1 : k \in f[n]}
    BY <2>3 DEF CrcBit
  <2>5. {k + 1 : k \in f[n]} = {i + (n + 1) : i \in e}
    <3>1. \A i \in e : (i + n) + 1 = i + (n + 1)
      BY <1>2, <2>1
    <3> QED
      BY <2>2, <3>1
  <2>6. f[n + 1] = CrcBit(f[n])
    BY <1>1, <2>1 DEF Shifts
  <2>7. f[n + 1] = {i + (n + 1) : i \in e}
    BY <2>4, <2>5, <2>6
  <2> QED
    BY <2>1, <2>7
<1>5. 8 \in S
  <2> HIDE DEF S
  <2>1. 0 .. 8 \subseteq S
    BY <1>3, <1>4, UpTo
  <2> QED
    BY <2>1
<1> QED
  BY <1>1, <1>5 DEF Shifts

\* Between the taps 5 and 12 a bit moves up unchanged: from i after n shifts
\* to h after m.
LEMMA BitsTravel ==
  ASSUME NEW f \in [0 .. 8 -> Register], \A n \in 0 .. 7 : f[n + 1] = CrcBit(f[n]),
         NEW i \in 0 .. 15, NEW h \in 0 .. 15, NEW n \in 0 .. 8, NEW m \in 0 .. 8,
         i <= h, h - i = m - n, h < 5 \/ (5 <= i /\ h < 12) \/ 12 <= i
  PROVE  i \in f[n] <=> h \in f[m]
<1> DEFINE k == h - i
           S == {l \in 0 .. k : i \in f[n] <=> i + l \in f[n + l]}
<1>1. k \in Nat /\ i + k = h /\ n + k = m
  OBVIOUS
<1>2. 0 \in S
  BY <1>1
<1> HIDE DEF k
<1>3. ASSUME NEW l \in 0 .. k - 1, l \in S PROVE l + 1 \in S
  <2>1. n + l \in 0 .. 7 /\ (n + l) + 1 = n + (l + 1) /\ l + 1 \in 0 .. k
    BY <1>1
  <2>2. f[n + l] \in Register /\ f[n + (l + 1)] = CrcBit(f[n + l])
    BY <2>1
  <2> DEFINE j == i + (l + 1)
  <2>3. j \in 1 .. 15 /\ j - 1 = i + l /\ j \in i + 1 .. h
    BY <1>1
  <2>4. j \notin {5, 12}
    BY <1>1, <2>3
  <2> HIDE DEF j
  <2>5. j \in CrcBit(f[n + l]) <=> j - 1 \in f[n + l]
    BY <2>2, <2>3, <2>4, CrcBitBits
  <2>6. i \in f[n] <=> i + l \in f[n + l]
    BY <1>3
  <2>7. i \in f[n] <=> j \in f[n + (l + 1)]
    BY <2>2, <2>3, <2>5, <2>6
  <2> QED
    BY <2>1, <2>7 DEF j
<1>4. k \in S
  <2> HIDE DEF S
  <2>1. 0 .. k \subseteq S
    BY <1>1, <1>2, <1>3, UpTo
  <2> QED
    BY <1>1, <2>1
<1> QED
  BY <1>1, <1>4

\* What a byte leaves of an empty register reaches, in the low half, as high
\* up as the byte's lowest bit.
LEMMA LowestBitShows ==
  ASSUME NEW b \in Octet, b # {}
  PROVE  \E i \in CrcByte({}, b) \cap (0 .. 7) : \E j \in b : j <= i
<1> DEFINE r == CrcByte({}, b)
<1>1. {} \in Register
  BY DEF Register
<1>2. PICK f : Shifts({}, b, f)
  BY <1>1, ShiftsExist
<1>3. f \in [0 .. 8 -> Register] /\ \A n \in 0 .. 7 : f[n + 1] = CrcBit(f[n])
  BY <1>2 DEF Shifts
<1>4. \A n \in 0 .. 8 : f[n] \in Register
  BY <1>3
<1>5. \A n \in 1 .. 8 : f[n] = CrcBit(f[n - 1]) /\ f[n - 1] \in Register
  <2>1. \A n \in 1 .. 8 : n - 1 \in 0 .. 7 /\ (n - 1) + 1 = n
    OBVIOUS
  <2> QED
    BY <1>3, <2>1
<1>6. \A j \in 0 .. 7 : j \in b <=> j + 8 \in f[0]
  <2>1. f[0] = Entered({}, b)
    BY <1>2 DEF Shifts
  <2>2. \A j \in 0 .. 7 : j + 8 \in Entered({}, b) <=> ~ (j + 8 \in {} <=> j \in b)
    BY <1>1, EnteredBits
  <2> QED
    BY <2>1, <2>2
\* The bit fed back by the n-th shift.
<1>7. ASSUME NEW n \in 1 .. 8 PROVE 0 \in f[n] <=> 15 \in f[n - 1]
  BY <1>5, CrcBitBits
<1>8. ASSUME NEW n \in 1 .. 4 PROVE 0 \in f[n] <=> 8 - n \in b
  <2>1. 16 - n \in f[0] <=> 15 \in f[n - 1]
    <3> DEFINE k == 16 - n
               m == n - 1
    <3>1. k \in 0 .. 15 /\ k <= 15 /\ m \in 0 .. 8 /\ 15 - k = m - 0
      OBVIOUS
    <3>2. 12 <= k
      OBVIOUS
    <3> HIDE DEF k, m
    <3>3. k \in f[0] <=> 15 \in f[m]
      BY <1>3, <3>1, <3>2, BitsTravel
    <3> QED
      BY <3>3 DEF k, m
  <2>2. (8 - n) + 8 = 16 - n /\ 8 - n \in 0 .. 7
    OBVIOUS
  <2> QED
    BY <1>6, <1>7, <2>1, <2>2
<1>9. ASSUME NEW n \in 5 .. 8 PROVE 0 \in f[n] <=> ~ (8 - n \in b <=> 0 \in f[n - 4])
  <2>1. 16 - n \in f[0] <=> 11 \in f[n - 5]
    <3> DEFINE k == 16 - n
               m == n - 5
    <3>1. k \in 0 .. 15 /\ k <= 11 /\ m \in 0 .. 8 /\ 11 - k = m - 0
      OBVIOUS
    <3>2. 5 <= k
      OBVIOUS
    <3> HIDE DEF k, m
    <3>3. k \in f[0] <=> 11 \in f[m]
      BY <1>3, <3>1, <3>2, BitsTravel
    <3> QED
      BY <3>3 DEF k, m
  <2>2. 12 \in f[n - 4] <=> ~ (11 \in f[n - 5] <=> 0 \in f[n - 4])
    <3>1. n - 4 \in 1 .. 8 /\ (n - 4) - 1 = n - 5
      OBVIOUS
    <3>2. f[n - 4] = CrcBit(f[n - 5]) /\ f[n - 5] \in Register
      BY <1>5, <3>1
    <3>3. 12 \in CrcBit(f[n - 5]) <=>
            ~ (12 - 1 \in f[n - 5] <=> (15 \in f[n - 5] /\ 12 \in {5, 12}))
      BY <3>2, CrcBitBits
    <3>4. 0 \in CrcBit(f[n - 5]) <=> 15 \in f[n - 5]
      BY <3>2, CrcBitBits
    <3> QED
      BY <3>2, <3>3, <3>4
  <2>3. 12 \in f[n - 4] <=> 15 \in f[n - 1]
    <3> DEFINE k == n - 4
               m == n - 1
    <3>1. k \in 0 .. 8 /\ m \in 0 .. 8 /\ 15 - 12 = m - k
      OBVIOUS
    <3> HIDE DEF k, m
    <3>2. 12 \in f[k] <=> 15 \in f[m]
      BY <1>3, <3>1, BitsTravel
    <3> QED
      BY <3>2 DEF k, m
  <2>4. 0 \in f[n] <=> 15 \in f[n - 1]
    BY <1>7
  <2>5. 8 - n \in b <=> 16 - n \in f[0]
    <3>1. 8 - n \in 0 .. 7 /\ (8 - n) + 8 = 16 - n
      OBVIOUS
    <3> QED
      BY <1>6, <3>1
  <2> QED
    BY <2>1, <2>2, <2>3, <2>4, <2>5
\* The low half of the register is made of them.
<1>10. r = f[8]
  BY <1>2 DEF Shifts
<1>11. ASSUME NEW i \in 0 .. 4 PROVE i \in r <=> 0 \in f[8 - i]
  <2>1. i < 5
    OBVIOUS
  <2> DEFINE k == 8 - i
  <2>2. k \in 0 .. 8 /\ i - 0 = 8 - k /\ i \in 0 .. 15 /\ 0 <= i
    OBVIOUS
  <2> HIDE DEF k
  <2>3. 0 \in f[k] <=> i \in f[8]
    BY <1>3, <2>1, <2>2, BitsTravel
  <2> QED
    BY <1>10, <2>3 DEF k
<1>12. ASSUME NEW i \in 5 .. 7 PROVE i \in r <=> ~ (0 \in f[8 - i] <=> 0 \in f[13 - i])
  <2>1. 0 \in f[8 - i] <=> 4 \in f[12 - i]
    <3> DEFINE k == 8 - i
               m == 12 - i
    <3>1. k \in 0 .. 8 /\ m \in 0 .. 8 /\ 4 - 0 = m - k
      OBVIOUS
    <3> HIDE DEF k, m
    <3>2. 0 \in f[k] <=> 4 \in f[m]
      BY <1>3, <3>1, BitsTravel
    <3> QED
      BY <3>2 DEF k, m
  <2>2. 5 \in f[13 - i] <=> ~ (4 \in f[12 - i] <=> 0 \in f[13 - i])
    <3>1. 13 - i \in 1 .. 8 /\ (13 - i) - 1 = 12 - i
      OBVIOUS
    <3>2. f[13 - i] = CrcBit(f[12 - i]) /\ f[12 - i] \in Register
      BY <1>5, <3>1
    <3>3. 5 \in CrcBit(f[12 - i]) <=>
            ~ (5 - 1 \in f[12 - i] <=> (15 \in f[12 - i] /\ 5 \in {5, 12}))
      BY <3>2, CrcBitBits
    <3>4. 0 \in CrcBit(f[12 - i]) <=> 15 \in f[12 - i]
      BY <3>2, CrcBitBits
    <3> QED
      BY <3>2, <3>3, <3>4
  <2>3. 5 \in f[13 - i] <=> i \in f[8]
    <3> DEFINE k == 13 - i
    <3>1. i < 12
      OBVIOUS
    <3>2. k \in 0 .. 8 /\ i - 5 = 8 - k /\ i \in 0 .. 15 /\ 5 <= i
      OBVIOUS
    <3> HIDE DEF k
    <3>3. 5 \in f[k] <=> i \in f[8]
      BY <1>3, <3>1, <3>2, BitsTravel
    <3> QED
      BY <3>3 DEF k
  <2> QED
    BY <1>10, <2>1, <2>2, <2>3
<1> HIDE DEF r
<1>13. /\ 0 \in f[1] <=> 7 \in b
       /\ 0 \in f[2] <=> 6 \in b
       /\ 0 \in f[3] <=> 5 \in b
       /\ 0 \in f[4] <=> 4 \in b
  BY <1>8
<1>14. /\ 0 \in f[5] <=> ~ (3 \in b <=> 0 \in f[1])
       /\ 0 \in f[6] <=> ~ (2 \in b <=> 0 \in f[2])
       /\ 0 \in f[7] <=> ~ (1 \in b <=> 0 \in f[3])
       /\ 0 \in f[8] <=> ~ (0 \in b <=> 0 \in f[4])
  BY <1>9
<1>15. /\ 0 \in r <=> 0 \in f[8]
       /\ 1 \in r <=> 0 \in f[7]
       /\ 2 \in r <=> 0 \in f[6]
       /\ 3 \in r <=> 0 \in f[5]
       /\ 4 \in r <=> 0 \in f[4]
  BY <1>11
<1>16. /\ 5 \in r <=> ~ (0 \in f[3] <=> 0 \in f[8])
       /\ 6 \in r <=> ~ (0 \in f[2] <=> 0 \in f[7])
       /\ 7 \in r <=> ~ (0 \in f[1] <=> 0 \in f[6])
  BY <1>12
<1>17. ASSUME NEW s \in b, \A j \in b : s <= j, \A i \in 0 .. 7 : s <= i => i \notin r
       PROVE  FALSE
  <2>1. s \in 0 .. 7
    BY DEF Octet
  <2>2. \A j \in 0 .. 7 : j < s => j \notin b
    BY <1>17, <2>1
  <2>3. CASE s = 0
    <3>1. 0 \notin r /\ 1 \notin r /\ 2 \notin r /\ 3 \notin r /\ 4 \notin r
      BY <1>17, <2>3
    <3> QED
      BY <1>13, <1>14, <1>15, <2>3, <3>1
  <2>4. CASE s = 1
    <3>1. 0 \notin b /\ 1 \notin r /\ 4 \notin r /\ 5 \notin r
      BY <1>17, <2>2, <2>4
    <3> QED
      BY <1>13, <1>14, <1>15, <1>16, <2>4, <3>1
  <2>5. CASE s = 2
    <3>1. 0 \notin b /\ 1 \notin b /\ 2 \notin r /\ 4 \notin r /\ 5 \notin r /\ 6 \notin r
      BY <1>17, <2>2, <2>5
    <3> QED
      BY <1>13, <1>14, <1>15, <1>16, <2>5, <3>1
  <2>6. CASE s = 3
    <3>1. /\ 0 \notin b /\ 1 \notin b /\ 2 \notin b
          /\ 3 \notin r /\ 4 \notin r /\ 5 \notin r /\ 6 \notin r /\ 7 \notin r
      BY <1>17, <2>2, <2>6
    <3> QED
      BY <1>13, <1>14, <1>15, <1>16, <2>6, <3>1
  <2>7. CASE s = 4
    <3>1. 4 \notin r
      BY <1>17, <2>7
    <3> QED
      BY <1>13, <1>15, <2>7, <3>1
  <2>8. CASE s = 5
    <3>1. 0 \notin b /\ 4 \notin b /\ 5 \notin r
      BY <1>17, <2>2, <2>8
    <3> QED
      BY <1>13, <1>14, <1>16, <2>8, <3>1
  <2>9. CASE s = 6
    <3>1. 1 \notin b /\ 5 \notin b /\ 6 \notin r
      BY <1>17, <2>2, <2>9
    <3> QED
      BY <1>13, <1>14, <1>16, <2>9, <3>1
  <2>10. CASE s = 7
    <3>1. 2 \notin b /\ 6 \notin b /\ 7 \notin r
      BY <1>17, <2>2, <2>10
    <3> QED
      BY <1>13, <1>14, <1>16, <2>10, <3>1
  <2> QED
    BY <2>1, <2>3, <2>4, <2>5, <2>6, <2>7, <2>8, <2>9, <2>10
<1>18. b \in SUBSET Nat
  BY DEF Octet
<1>19. PICK s \in b : \A j \in b : s <= j
  BY <1>18, LeastNat
<1>20. PICK i \in 0 .. 7 : s <= i /\ i \in r
  BY <1>17, <1>19
<1> QED
  BY <1>20 DEF r

-----------------------------------------------------------------------------
(* A block                                                                 *)

\* The registers between the bytes, from 0xFFFF to the CRC.
Registers(bytes, f) ==
  /\ f \in [0 .. Len(bytes) -> Register]
  /\ f[0] = 0 .. 15
  /\ \A n \in 1 .. Len(bytes) : f[n] = CrcByte(f[n - 1], bytes[n])

\* Every block has its registers, and its CRC is the last of them.
LEMMA CrcRegisters ==
  ASSUME NEW bytes \in Seq(Octet)
  PROVE  \E f : Registers(bytes, f) /\ Crc16(bytes) = f[Len(bytes)]
<1> DEFINE L == Len(bytes)
           Some(n) == \E f \in [0 .. n -> Register] :
             /\ f[0] = 0 .. 15
             /\ \A i \in 1 .. n : f[i] = CrcByte(f[i - 1], bytes[i])
           S == {n \in Nat : Some(n)}
<1>1. L \in Nat
  OBVIOUS
<1>2. 0 \in S
  <2> DEFINE z == [i \in 0 .. 0 |-> 0 .. 15]
  <2>1. z \in [0 .. 0 -> Register] /\ z[0] = 0 .. 15
    BY DEF Register
  <2>2. \A i \in 1 .. 0 : FALSE
    OBVIOUS
  <2> HIDE DEF z
  <2>3. Some(0)
    BY <2>1, <2>2
  <2> HIDE DEF Some
  <2> QED
    BY <2>3
<1>3. ASSUME NEW n \in 0 .. L - 1, n \in S PROVE n + 1 \in S
  <2>1. PICK f \in [0 .. n -> Register] :
          /\ f[0] = 0 .. 15
          /\ \A i \in 1 .. n : f[i] = CrcByte(f[i - 1], bytes[i])
    BY <1>3
  <2> DEFINE h == CrcByte(f[n], bytes[n + 1])
             g == [i \in 0 .. n + 1 |-> IF i = n + 1 THEN h ELSE f[i]]
  <2>2. h \in Register
    <3>1. f[n] \in Register /\ bytes[n + 1] \in Octet
      BY <2>1
    <3> QED
      BY <3>1, CrcByteType
  <2> HIDE DEF h
  <2>3. g \in [0 .. n + 1 -> Register]
    <3>1. \A i \in 0 .. n + 1 : i # n + 1 => i \in 0 .. n
      OBVIOUS
    <3> QED
      BY <2>1, <2>2, <3>1
  <2>4. g[0] = 0 .. 15
    BY <2>1
  <2>5. ASSUME NEW i \in 1 .. n + 1 PROVE g[i] = CrcByte(g[i - 1], bytes[i])
    <3>1. CASE i = n + 1
      <4>1. g[i] = h /\ g[i - 1] = f[n]
        BY <3>1
      <4> QED
        BY <3>1, <4>1 DEF h
    <3>2. CASE i # n + 1
      <4>1. i \in 1 .. n
        BY <3>2
      <4>2. g[i] = f[i] /\ g[i - 1] = f[i - 1]
        BY <4>1
      <4> QED
        BY <2>1, <4>1, <4>2
    <3> QED
      BY <3>1, <3>2
  <2> HIDE DEF g
  <2>6. Some(n + 1)
    BY <2>3, <2>4, <2>5
  <2> HIDE DEF Some
  <2> QED
    BY <2>6
<1>4. L \in S
  <2> HIDE DEF S
  <2>1. \A n \in 0 .. L - 1 : n \in S => n + 1 \in S
    BY <1>3
  <2>2. 0 .. L \subseteq S
    BY <1>1, <1>2, <2>1, UpTo
  <2> QED
    BY <1>1, <2>2
<1> DEFINE crc == CHOOSE f : f = [n \in 0 .. L |->
                    IF n = 0 THEN 0 .. 15 ELSE CrcByte(f[n - 1], bytes[n])]
<1>5. Crc16(bytes) = crc[L]
  BY DEF Crc16
<1>6. crc = [n \in 0 .. L |-> IF n = 0 THEN 0 .. 15 ELSE CrcByte(crc[n - 1], bytes[n])]
  <2>1. PICK f \in [0 .. L -> Register] :
          /\ f[0] = 0 .. 15
          /\ \A i \in 1 .. L : f[i] = CrcByte(f[i - 1], bytes[i])
    BY <1>4
  <2>2. \A n \in 0 .. L : f[n] = IF n = 0 THEN 0 .. 15 ELSE CrcByte(f[n - 1], bytes[n])
    <3>1. \A n \in 0 .. L : n # 0 => n \in 1 .. L
      BY <1>1
    <3> HIDE DEF L
    <3> QED
      BY <2>1, <3>1
  <2>3. f = [n \in 0 .. L |-> f[n]]
    BY <2>1
  <2> HIDE DEF L
  <2>4. f = [n \in 0 .. L |-> IF n = 0 THEN 0 .. 15 ELSE CrcByte(f[n - 1], bytes[n])]
    BY <2>2, <2>3, Zenon
  <2> QED
    BY <2>4, Zenon
<1> HIDE DEF crc
<1>7. crc[0] = 0 .. 15
  <2>1. 0 \in 0 .. L
    BY <1>1
  <2> HIDE DEF L
  <2> QED
    BY <1>6, <2>1, Zenon
<1>8. \A n \in 1 .. L : crc[n] = CrcByte(crc[n - 1], bytes[n])
  <2>1. \A n \in 1 .. L : n \in 0 .. L /\ n # 0
    BY <1>1
  <2> HIDE DEF L
  <2> QED
    BY <1>6, <2>1, Zenon
<1>9. \A n \in 0 .. L : crc[n] \in Register
  <2> DEFINE T == {n \in 0 .. L : crc[n] \in Register}
  <2>1. 0 \in T
    BY <1>1, <1>7 DEF Register
  <2>2. ASSUME NEW n \in 0 .. L - 1, n \in T PROVE n + 1 \in T
    <3>1. n + 1 \in 1 .. L /\ (n + 1) - 1 = n
      BY <1>1
    <3>2. bytes[n + 1] \in Octet /\ crc[n] \in Register
      BY <2>2, <3>1
    <3>3. crc[n + 1] = CrcByte(crc[n], bytes[n + 1])
      BY <1>8, <3>1
    <3>4. crc[n + 1] \in Register
      BY <3>2, <3>3, CrcByteType
    <3> QED
      BY <3>1, <3>4
  <2> HIDE DEF T
  <2>3. 0 .. L \subseteq T
    BY <1>1, <2>1, <2>2, UpTo
  <2> QED
    BY <2>3 DEF T
<1>10. crc \in [0 .. L -> Register]
  BY <1>6, <1>9
<1> QED
  BY <1>5, <1>7, <1>8, <1>10 DEF Registers

\* The check of a frame, written out.
LEMMA VerdictIsCrc ==
  ASSUME NEW block
  PROVE  Verdict(block) <=>
           Crc16(SubSeq(block, 1, Len(block) - 2)) =
             {i + 8 : i \in block[Len(block) - 1]} \cup block[Len(block)]
BY DEF Verdict

\* Over a block the check accepts, its two CRC bytes included, the register
\* runs empty.
LEMMA VerdictEmpties ==
  ASSUME NEW x \in Seq(Octet), Len(x) >= 2, Verdict(x), NEW f, Registers(x, f)
  PROVE  f[Len(x)] = {}
<1> DEFINE N == Len(x)
           L == N - 2
           body == SubSeq(x, 1, N - 2)
           hi == x[N - 1]
           lo == x[N]
<1>1. N \in Nat /\ L \in Nat /\ N = L + 2
  OBVIOUS
<1>2. body \in Seq(Octet) /\ Len(body) = L /\ \A m \in 1 .. L : body[m] = x[m]
  <2>1. body \in Seq(Octet)
    OBVIOUS
  <2>2. Len(body) = L
    <3>1. L \in Nat /\ 1 \in Nat /\ L <= Len(x)
      BY <1>1
    <3>2. \A l \in Nat : l <= Len(x) => Len(SubSeq(x, 1, l)) = l
      OBVIOUS
    <3> QED
      BY <3>1, <3>2
  <2>3. \A m \in 1 .. L : body[m] = x[m]
    OBVIOUS
  <2> QED
    BY <2>1, <2>2, <2>3
<1>3. Crc16(body) = {i + 8 : i \in hi} \cup lo
  BY VerdictIsCrc
<1>4. \A m \in 1 .. N : x[m] \in Octet
  OBVIOUS
<1>5. /\ f \in [0 .. N -> Register] /\ f[0] = 0 .. 15
      /\ \A m \in 1 .. N : f[m] = CrcByte(f[m - 1], x[m])
  BY DEF Registers
<1> HIDE DEF body, N, L
<1>6. PICK g : Registers(body, g) /\ Crc16(body) = g[L]
  BY <1>2, CrcRegisters
<1>7. /\ g[0] = 0 .. 15
      /\ \A m \in 1 .. L : g[m] = CrcByte(g[m - 1], x[m])
  BY <1>2, <1>6 DEF Registers
<1>8. f[L] = g[L]
  <2> DEFINE S == {m \in 0 .. L : f[m] = g[m]}
  <2>1. 0 \in S
    <3>1. f[0] = g[0] /\ 0 \in 0 .. L
      BY <1>1, <1>5, <1>7
    <3> QED
      BY <3>1
  <2>2. ASSUME NEW m \in 0 .. L - 1, m \in S PROVE m + 1 \in S
    <3>1. m + 1 \in 1 .. L /\ m + 1 \in 1 .. N /\ (m + 1) - 1 = m /\ m + 1 \in 0 .. L
      BY <1>1
    <3>2. f[m + 1] = CrcByte(f[m], x[m + 1])
      BY <1>5, <3>1
    <3>3. g[m + 1] = CrcByte(g[m], x[m + 1])
      BY <1>7, <3>1
    <3> QED
      BY <2>2, <3>1, <3>2, <3>3
  <2> HIDE DEF S
  <2>3. 0 .. L \subseteq S
    BY <1>1, <2>1, <2>2, UpTo
  <2>4. L \in 0 .. L
    BY <1>1
  <2> QED
    BY <2>3, <2>4 DEF S
<1>9. N - 1 \in 1 .. N /\ N \in 1 .. N /\ (N - 1) - 1 = L /\ L \in 0 .. N /\ N - 1 \in 0 .. N
  BY <1>1
<1>10. hi \in Octet /\ lo \in Octet
  BY <1>4, <1>9
<1>11. f[N - 1] = CrcByte(f[L], hi) /\ f[N] = CrcByte(f[N - 1], lo)
  BY <1>5, <1>9
<1>12. f[L] \in Register /\ f[N - 1] \in Register
  BY <1>5, <1>9
<1> HIDE DEF hi, lo
<1>13. f[L] = {i + 8 : i \in hi} \cup lo
  BY <1>3, <1>6, <1>8
<1>14. Entered(f[L], hi) = lo
  <2> DEFINE high == {i + 8 : i \in hi}
  <2>1. high \cap lo = {}
    BY <1>10 DEF Octet
  <2>2. Entered(f[L], hi) = Xor(high \cup lo, high)
    BY <1>13 DEF Entered
  <2> HIDE DEF high
  <2> QED
    BY <2>1, <2>2 DEF Xor
<1>15. f[N - 1] = {i + 8 : i \in lo}
  BY <1>10, <1>11, <1>12, <1>14, LowMovesHigh
<1>16. Entered(f[N - 1], lo) = {}
  BY <1>15 DEF Entered, Xor
<1>17. {} \in Octet
  BY DEF Octet
<1>18. f[N] = {i + 8 : i \in {}}
  BY <1>10, <1>11, <1>12, <1>16, <1>17, LowMovesHigh
<1> QED
  BY <1>18 DEF N

\* Blocks of equal length that differ in three neighbouring bytes at most,
\* and in the last only below the lowest bit in which the first differs, are
\* not both accepted.
LEMMA VerdictsDiffer ==
  ASSUME NEW x \in Seq(Octet), NEW y \in Seq(Octet), Len(x) = Len(y), Len(x) >= 2,
         NEW n0 \in 1 .. Len(x), x[n0] # y[n0],
         \A m \in 1 .. Len(x) : m \notin n0 .. n0 + 2 => x[m] = y[m],
         n0 + 2 <= Len(x) =>
           \A i \in Xor(x[n0], y[n0]), j \in Xor(x[n0 + 2], y[n0 + 2]) : j < i,
         Verdict(x)
  PROVE  ~ Verdict(y)
<1> DEFINE N == Len(x)
           e(m) == Xor(x[m], y[m])
<1> SUFFICES ASSUME Verdict(y) PROVE FALSE
  OBVIOUS
<1>1. N \in Nat /\ N >= 2 /\ n0 \in 1 .. N
  OBVIOUS
<1>2. \A m \in 1 .. N : x[m] \in Octet /\ y[m] \in Octet
  OBVIOUS
<1>3. \A m \in 1 .. N : e(m) \in Octet
  BY <1>2 DEF Xor, Octet
<1>4. e(n0) # {}
  BY DEF Xor
<1>5. \A m \in 1 .. N : m \notin n0 .. n0 + 2 => e(m) = {}
  BY DEF Xor
<1>6. n0 + 2 <= N => \A i \in e(n0), j \in e(n0 + 2) : j < i
  OBVIOUS
<1>7. PICK f : Registers(x, f)
  BY CrcRegisters
<1>8. PICK g : Registers(y, g)
  BY CrcRegisters
<1>9. f[N] = {} /\ g[N] = {}
  BY <1>7, <1>8, VerdictEmpties
<1>10. /\ f \in [0 .. N -> Register] /\ f[0] = 0 .. 15
       /\ \A m \in 1 .. N : f[m] = CrcByte(f[m - 1], x[m])
  BY <1>7 DEF Registers
<1>11. /\ g \in [0 .. N -> Register] /\ g[0] = 0 .. 15
       /\ \A m \in 1 .. N : g[m] = CrcByte(g[m - 1], y[m])
  BY <1>8 DEF Registers
<1> DEFINE d(m) == Xor(f[m], g[m])
<1> HIDE DEF N
\* The difference of the two registers is a register of its own.
<1>12. d(0) = {} /\ d(N) = {}
  BY <1>9, <1>10, <1>11 DEF Xor
<1>13. \A m \in 0 .. N : d(m) \in Register
  <2> SUFFICES ASSUME NEW m \in 0 .. N PROVE d(m) \in Register
    OBVIOUS
  <2>1. f[m] \in Register /\ g[m] \in Register
    BY <1>10, <1>11
  <2> QED
    BY <2>1, CrcBitXor
<1>14. ASSUME NEW m \in 0 .. N, m # N PROVE d(m + 1) = CrcByte(d(m), e(m + 1))
  <2>1. m + 1 \in 1 .. N /\ (m + 1) - 1 = m
    BY <1>1, <1>14
  <2>2. f[m] \in Register /\ g[m] \in Register
    BY <1>10, <1>11
  <2>3. f[m + 1] = CrcByte(f[m], x[m + 1]) /\ g[m + 1] = CrcByte(g[m], y[m + 1])
    BY <1>10, <1>11, <2>1
  <2>4. x[m + 1] \in Octet /\ y[m + 1] \in Octet
    BY <1>2, <2>1
  <2> QED
    BY <2>2, <2>3, <2>4, CrcByteXor
<1>15. {} \in Octet /\ {} \in Register
  BY DEF Octet, Register
<1>16. Entered({}, {}) = {}
  BY DEF Entered, Xor
<1>17. \A c \in Register : Entered(c, {}) = c
  BY DEF Entered, Xor
<1> HIDE DEF d, e
\* It is empty before the first byte that differs ...
<1>18. d(n0 - 1) = {}
  <2> DEFINE S == {m \in 0 .. n0 - 1 : d(m) = {}}
  <2>1. 0 \in S
    BY <1>1, <1>12
  <2>2. ASSUME NEW m \in 0 .. (n0 - 1) - 1, m \in S PROVE m + 1 \in S
    <3>1. m \in 0 .. N /\ m # N /\ m + 1 \in 1 .. N /\ m + 1 \notin n0 .. n0 + 2
          /\ m + 1 \in 0 .. n0 - 1
      BY <1>1
    <3>2. d(m) = {} /\ e(m + 1) = {}
      BY <1>5, <2>2, <3>1
    <3>3. d(m + 1) = CrcByte({}, {})
      BY <1>14, <3>1, <3>2
    <3>4. CrcByte({}, {}) = {i + 8 : i \in {}}
      BY <1>15, <1>16, LowMovesHigh
    <3>5. d(m + 1) = {}
      BY <3>3, <3>4
    <3> QED
      BY <3>1, <3>5
  <2> HIDE DEF S
  <2>3. n0 - 1 \in Nat
    BY <1>1
  <2>4. 0 .. n0 - 1 \subseteq S
    BY <2>1, <2>2, <2>3, UpTo
  <2>5. n0 - 1 \in 0 .. n0 - 1
    BY <2>3
  <2> QED
    BY <2>4, <2>5 DEF S
\* ... shows in its low half the lowest bit that differs ...
<1>19. PICK i0 \in d(n0) \cap (0 .. 7) : \E j \in e(n0) : j <= i0
  <2>1. n0 - 1 \in 0 .. N /\ n0 - 1 # N /\ (n0 - 1) + 1 = n0
    BY <1>1
  <2>2. d(n0) = CrcByte({}, e(n0))
    BY <1>14, <1>18, <2>1
  <2>3. e(n0) \in Octet /\ e(n0) # {}
    BY <1>1, <1>3, <1>4
  <2> QED
    BY <2>2, <2>3, LowestBitShows
\* ... and must be empty again two bytes later to be so at the end.
<1>20. ASSUME n0 + 2 <= N PROVE d(n0 + 2) = {}
  <2> SUFFICES ASSUME d(n0 + 2) # {} PROVE FALSE
    OBVIOUS
  <2> DEFINE S == {m \in 0 .. N : d(m) # {}}
  <2>1. n0 + 2 \in S
    BY <1>1, <1>20
  <2>2. ASSUME NEW m \in n0 + 2 .. N - 1, m \in S PROVE m + 1 \in S
    <3>1. m \in 0 .. N /\ m # N /\ m + 1 \in 1 .. N /\ m + 1 \notin n0 .. n0 + 2
          /\ m + 1 \in 0 .. N
      BY <1>1
    <3>2. d(m) # {} /\ d(m) \in Register /\ e(m + 1) = {}
      BY <1>5, <1>13, <2>2, <3>1
    <3>3. d(m + 1) = CrcByte(d(m), {})
      BY <1>14, <3>1, <3>2
    <3>4. CrcByte(d(m), {}) # {}
      BY <1>15, <1>17, <3>2, NeverEmptied
    <3> QED
      BY <3>1, <3>3, <3>4
  <2> HIDE DEF S
  <2>3. n0 + 2 \in Nat /\ N \in n0 + 2 .. N
    BY <1>1, <1>20
  <2>4. n0 + 2 .. N \subseteq S
    BY <1>1, <2>1, <2>2, <2>3, UpTo
  <2> QED
    BY <1>12, <2>3, <2>4 DEF S
\* A register emptied by a byte holds that byte, in its high half.
<1>21. ASSUME NEW m \in 0 .. N, m # N, d(m + 1) = {}
       PROVE  d(m) = {i + 8 : i \in e(m + 1)}
  <2>1. m + 1 \in 1 .. N
    BY <1>1, <1>21
  <2>2. e(m + 1) \in Octet /\ d(m) \in Register
    BY <1>3, <1>13, <2>1
  <2>3. CrcByte(d(m), e(m + 1)) = {}
    BY <1>14, <1>21
  <2>4. Entered(d(m), e(m + 1)) = {}
    BY <2>2, <2>3, NeverEmptied
  <2> DEFINE high == {i + 8 : i \in e(m + 1)}
  <2>5. Xor(d(m), high) = {}
    BY <2>4 DEF Entered
  <2> HIDE DEF high
  <2>6. d(m) = high
    BY <2>5 DEF Xor
  <2> QED
    BY <2>6 DEF high
<1>22. \A b \in Octet : \A i \in 0 .. 7 : i \notin {k + 8 : k \in b}
  BY DEF Octet
<1>23. CASE n0 = N
  BY <1>12, <1>19, <1>23
<1>24. CASE n0 + 1 = N
  <2>1. n0 \in 0 .. N /\ n0 # N /\ n0 + 1 \in 1 .. N
    BY <1>1, <1>24
  <2>2. d(n0) = {i + 8 : i \in e(n0 + 1)}
    BY <1>12, <1>21, <1>24, <2>1
  <2>3. e(n0 + 1) \in Octet
    BY <1>3, <2>1
  <2> QED
    BY <1>19, <1>22, <2>2, <2>3
<1>25. CASE n0 + 2 <= N
  <2>1. n0 \in 0 .. N /\ n0 # N /\ n0 + 1 \in 0 .. N /\ n0 + 1 # N
        /\ (n0 + 1) + 1 = n0 + 2 /\ n0 + 1 \in 1 .. N /\ n0 + 2 \in 1 .. N
    BY <1>1, <1>25
  <2>2. e(n0 + 1) \in Octet /\ e(n0 + 2) \in Octet /\ d(n0) \in Register
    BY <1>3, <1>13, <2>1
  <2>3. d(n0 + 1) = {i + 8 : i \in e(n0 + 2)}
    BY <1>20, <1>21, <1>25, <2>1
  <2>4. d(n0 + 1) = CrcByte(d(n0), e(n0 + 1))
    BY <1>14, <2>1
  <2> DEFINE a == e(n0 + 2)
  <2>5. a \in Register /\ Entered(a, {}) = a /\ CrcByte(a, {}) = {i + 8 : i \in a}
    <3>1. a \in Register
      BY <2>2 DEF Octet, Register
    <3>2. Entered(a, {}) = a
      BY <1>17, <3>1
    <3> HIDE DEF a
    <3>3. CrcByte(a, {}) = {i + 8 : i \in a}
      BY <1>15, <2>2, <3>1, <3>2, LowMovesHigh DEF a
    <3> QED
      BY <3>1, <3>2, <3>3
  <2> HIDE DEF a
  <2>6. CrcByte(Xor(d(n0), a), Xor(e(n0 + 1), {})) = {}
    <3>1. CrcByte(Xor(d(n0), a), Xor(e(n0 + 1), {})) =
            Xor(CrcByte(d(n0), e(n0 + 1)), CrcByte(a, {}))
      BY <1>15, <2>2, <2>5, CrcByteXor
    <3>2. CrcByte(d(n0), e(n0 + 1)) = CrcByte(a, {})
      BY <2>3, <2>4, <2>5 DEF a
    <3> QED
      BY <3>1, <3>2 DEF Xor
  <2>7. Xor(e(n0 + 1), {}) = e(n0 + 1) /\ Xor(d(n0), a) \in Register
    <3>1. Xor(e(n0 + 1), {}) = e(n0 + 1)
      BY DEF Xor
    <3>2. Xor(d(n0), a) \in Register
      BY <2>2, <2>5, CrcBitXor
    <3> QED
      BY <3>1, <3>2
  <2>8. Entered(Xor(d(n0), a), e(n0 + 1)) = {}
    BY <2>2, <2>6, <2>7, NeverEmptied
  <2>9. \A i \in 0 .. 7 : i \notin Xor(d(n0), a)
    <3> DEFINE q == Xor(d(n0), a)
               w == e(n0 + 1)
    <3>1. q \in Register /\ w \in Octet /\ Entered(q, w) = {}
      BY <2>2, <2>7, <2>8
    <3> HIDE DEF q, w
    <3>2. \A i \in 0 .. 7 : i \in Entered(q, w) <=> i \in q
      BY <3>1, EnteredBits
    <3>3. \A i \in 0 .. 7 : i \notin q
      BY <3>1, <3>2
    <3> QED
      BY <3>3 DEF q
  <2>10. i0 \in a
    <3>1. i0 \in 0 .. 7 /\ i0 \in d(n0)
      BY <1>19
    <3>2. i0 \in Xor(d(n0), a) <=> ~ (i0 \in d(n0) <=> i0 \in a)
      BY XorBits
    <3> QED
      BY <2>9, <3>1, <3>2
  <2>11. PICK j0 \in e(n0) : j0 <= i0
    BY <1>19
  <2>12. i0 < j0
    BY <1>6, <1>25, <2>10 DEF a
  <2>13. i0 \in Nat /\ j0 \in Nat
    <3>1. e(n0) \in Octet
      BY <1>1, <1>3
    <3> QED
      BY <1>19, <3>1 DEF Octet
  <2> QED
    BY <2>11, <2>12, <2>13
<1> QED
  BY <1>1, <1>23, <1>24, <1>25

-----------------------------------------------------------------------------
(* Telemetry                                                               *)

\* A frame is four bytes longer than its payload, and the check accepts it.
LEMMA FrameAccepted ==
  ASSUME NEW p \in Seq(Octet)
  PROVE  /\ Frame(p) \in Seq(Octet) /\ Len(Frame(p)) = Len(p) + 4
         /\ Verdict(Tail(Frame(p)))
<1> DEFINE body  == <<LenByte(Len(p))>> \o p
           crc   == Crc16(body)
           hi    == {i - 8 : i \in crc \ (0 .. 7)}
           lo    == crc \cap (0 .. 7)
           block == body \o <<hi, lo>>
<1>1. body \in Seq(Octet) /\ Len(body) = Len(p) + 1
  <2>1. LenByte(Len(p)) \in Octet
    BY DEF LenByte, Octet
  <2> HIDE DEF Octet
  <2> QED
    BY <2>1
<1>2. SubSeq(body, 1, Covered(Len(p))) = body
  <2> HIDE DEF body
  <2> QED
    BY <1>1 DEF Covered
<1>3. crc \in Register
  <2>1. PICK f : Registers(body, f) /\ crc = f[Len(body)]
    BY <1>1, CrcRegisters
  <2> HIDE DEF body, crc
  <2>2. f \in [0 .. Len(body) -> Register] /\ Len(body) \in 0 .. Len(body)
    BY <1>1, <2>1 DEF Registers
  <2> QED
    BY <2>1, <2>2
<1> HIDE DEF crc
<1>4. hi \in Octet /\ lo \in Octet /\ crc = {i + 8 : i \in hi} \cup lo
  <2>1. hi \in Octet /\ lo \in Octet
    BY <1>3 DEF Register, Octet
  <2>2. ASSUME NEW i \in crc PROVE i \in {j + 8 : j \in hi} \cup lo
    <3>1. CASE i \in 0 .. 7
      BY <2>2, <3>1
    <3>2. CASE i \notin 0 .. 7
      <4>1. i - 8 \in hi
        BY <2>2, <3>2
      <4>2. i \in 0 .. 15
        BY <1>3, <2>2 DEF Register
      <4>3. i = (i - 8) + 8
        BY <4>2
      <4> HIDE DEF hi
      <4> QED
        BY <4>1, <4>3
    <3> QED
      BY <3>1, <3>2
  <2>3. ASSUME NEW j \in hi PROVE j + 8 \in crc
    <3>1. PICK i \in crc \ (0 .. 7) : j = i - 8
      BY <2>3
    <3>2. i \in 0 .. 15
      BY <1>3, <3>1 DEF Register
    <3> QED
      BY <3>1, <3>2
  <2>4. {j + 8 : j \in hi} \cup lo \subseteq crc
    <3> HIDE DEF hi
    <3> QED
      BY <2>3
  <2> HIDE DEF hi, lo
  <2> QED
    BY <2>1, <2>2, <2>4
<1>5. Frame(p) = <<SOF>> \o body \o <<hi, lo>>
  <2>1. Frame(p) = <<SOF>> \o body \o
          <<{i - 8 : i \in Crc16(SubSeq(body, 1, Covered(Len(p)))) \ (0 .. 7)},
            Crc16(SubSeq(body, 1, Covered(Len(p)))) \cap (0 .. 7)>>
    BY Zenon DEF Frame
  <2> QED
    BY <1>2, <2>1 DEF crc
<1>6. SOF \in Octet
  BY DEF SOF, Octet
<1> HIDE DEF body, hi, lo
<1>7. block \in Seq(Octet) /\ Len(block) = Len(p) + 3
  BY <1>1, <1>4
<1>8. Frame(p) = <<SOF>> \o block
  BY <1>1, <1>4, <1>5, <1>6
<1>9. SubSeq(block, 1, Len(block) - 2) = body
  BY <1>1, <1>4
<1>10. block[Len(block) - 1] = hi /\ block[Len(block)] = lo
  BY <1>1, <1>4
<1> HIDE DEF block
<1>11. Frame(p) \in Seq(Octet) /\ Len(Frame(p)) = Len(p) + 4
  BY <1>6, <1>7, <1>8
<1>12. Tail(Frame(p)) = block
  BY <1>6, <1>7, <1>8
<1>13. Verdict(block)
  BY <1>4, <1>9, <1>10, VerdictIsCrc DEF crc
<1> QED
  BY <1>11, <1>12, <1>13

\* No frame is longer than the array, and only bits of a frame are damaged.
THEOREM TelemetryTypes == TelemetrySpec => []TelemetryTypeOK
<1>1. TelemetryInit => TelemetryTypeOK
  <2> SUFFICES ASSUME TelemetryInit PROVE TelemetryTypeOK
    OBVIOUS
  <2>1. line \in Seq(Octet) /\ Len(line) = 0 /\ damage = {}
    BY DEF TelemetryInit
  <2>2. MAX_PAYLOAD \in Nat /\ Inits \in Nat
    BY TelemetryAssumption DEF TelemetryAssumption
  <2>3. initialized \in BOOLEAN /\ whole \in BOOLEAN
    BY DEF TelemetryInit
  <2>4. inits \in 0 .. Inits
    BY <2>2 DEF TelemetryInit
  <2>5. Len(line) <= MAX_PAYLOAD + 4
    BY <2>1, <2>2
  <2>6. damage \subseteq 8 .. (8 * Len(line)) - 1
    BY <2>1
  <2> QED
    BY <2>1, <2>3, <2>4, <2>5, <2>6 DEF TelemetryTypeOK
<1>2. TelemetryTypeOK /\ [TelemetryNext]_telemetryVars => TelemetryTypeOK'
  <2> SUFFICES ASSUME TelemetryTypeOK, [TelemetryNext]_telemetryVars PROVE TelemetryTypeOK'
    OBVIOUS
  <2>1. MAX_PAYLOAD \in Nat /\ Inits \in Nat /\ Payloads \subseteq Seq(Octet)
    BY TelemetryAssumption DEF TelemetryAssumption
  <2>2. CASE InitUart
    BY <2>1, <2>2 DEF InitUart, TelemetryTypeOK
  <2>3. CASE SendRefused
    <3>1. line' \in Seq(Octet) /\ Len(line') = 0 /\ damage' = {}
      BY <2>3 DEF SendRefused
    <3>2. Len(line') <= MAX_PAYLOAD + 4
      BY <2>1, <3>1
    <3>3. whole' \in BOOLEAN /\ UNCHANGED <<initialized, inits>>
      BY <2>3 DEF SendRefused
    <3>4. damage' \subseteq (8 .. (8 * Len(line)) - 1)'
      BY <3>1
    <3> QED
      BY <3>1, <3>2, <3>3, <3>4 DEF TelemetryTypeOK
  <2>4. CASE Send
    <3>1. PICK p \in Payloads : ~ TooLong(p) /\ line' = Frame(p)
      BY <2>4 DEF Send
    <3>2. Frame(p) \in Seq(Octet) /\ Len(Frame(p)) = Len(p) + 4
      BY <2>1, FrameAccepted
    <3>3. Len(p) \in Nat /\ Len(p) <= MAX_PAYLOAD
      BY <2>1, <3>1 DEF TooLong
    <3>4. line' \in Seq(Octet) /\ Len(line') <= MAX_PAYLOAD + 4
      BY <2>1, <3>1, <3>2, <3>3
    <3>5. whole' \in BOOLEAN /\ damage' = {} /\ UNCHANGED <<initialized, inits>>
      BY <2>4 DEF Send
    <3>6. damage' \subseteq (8 .. (8 * Len(line)) - 1)'
      BY <3>5
    <3> QED
      BY <3>4, <3>5, <3>6 DEF TelemetryTypeOK
  <2>5. CASE SendFails
    <3>1. PICK p \in Payloads :
            \E n \in 0 .. Len(p) + 3 : ~ TooLong(p) /\ line' = SubSeq(Frame(p), 1, n)
      BY <2>5 DEF SendFails
    <3>2. PICK n \in 0 .. Len(p) + 3 : ~ TooLong(p) /\ line' = SubSeq(Frame(p), 1, n)
      BY <3>1
    <3>3. Frame(p) \in Seq(Octet) /\ Len(Frame(p)) = Len(p) + 4
      BY <2>1, FrameAccepted
    <3>4. Len(p) \in Nat /\ Len(p) <= MAX_PAYLOAD
      BY <2>1, <3>2 DEF TooLong
    <3>5. line' \in Seq(Octet) /\ Len(line') <= MAX_PAYLOAD + 4
      BY <2>1, <3>2, <3>3, <3>4
    <3>6. whole' \in BOOLEAN /\ damage' = {} /\ UNCHANGED <<initialized, inits>>
      BY <2>5 DEF SendFails
    <3>7. damage' \subseteq (8 .. (8 * Len(line)) - 1)'
      BY <3>6
    <3> QED
      BY <3>5, <3>6, <3>7 DEF TelemetryTypeOK
  <2>6. CASE Damage
    BY <2>6 DEF Damage, TelemetryTypeOK
  <2>7. CASE UNCHANGED telemetryVars
    BY <2>7 DEF telemetryVars, TelemetryTypeOK
  <2> QED
    BY <2>2, <2>3, <2>4, <2>5, <2>6, <2>7 DEF TelemetryNext
<1> QED
  BY <1>1, <1>2, PTL DEF TelemetrySpec

\* What was sent whole passes the check, and the bits damaged are no more
\* than fifteen places apart.
BurstInv ==
  /\ whole => Len(line) >= 4 /\ Verdict(Tail(line))
  /\ \A i, j \in damage : i <= j + 15

\* No two damaged bits are sixteen or more apart.
LEMMA BurstsStayShort ==
  ASSUME Span <= 16, Flips <= 1
  PROVE  TelemetrySpec => []BurstInv
<1>1. TelemetryInit => BurstInv
  BY DEF TelemetryInit, BurstInv
<1>2. TelemetryTypeOK /\ BurstInv /\ [TelemetryNext]_telemetryVars => BurstInv'
  <2> SUFFICES ASSUME TelemetryTypeOK, BurstInv, [TelemetryNext]_telemetryVars PROVE BurstInv'
    OBVIOUS
  <2>1. Span \in Nat /\ Flips \in Nat /\ Payloads \subseteq Seq(Octet)
    BY TelemetryAssumption DEF TelemetryAssumption
  <2>2. CASE InitUart
    BY <2>2 DEF InitUart, BurstInv
  <2>3. CASE SendRefused
    BY <2>3 DEF SendRefused, BurstInv
  <2>4. CASE Send
    <3>1. PICK p \in Payloads : line' = Frame(p)
      BY <2>4 DEF Send
    <3>2. Len(Frame(p)) = Len(p) + 4 /\ Verdict(Tail(Frame(p))) /\ Len(p) \in Nat
      BY <2>1, FrameAccepted
    <3>3. Len(line') >= 4 /\ Verdict(Tail(line'))
      BY <3>1, <3>2
    <3>4. damage' = {}
      BY <2>4 DEF Send
    <3>5. (whole => Len(line) >= 4 /\ Verdict(Tail(line)))'
      BY <3>3
    <3> QED
      BY <3>4, <3>5 DEF BurstInv
  <2>5. CASE SendFails
    BY <2>5 DEF SendFails, BurstInv
  <2>6. CASE Damage
    <3>1. PICK j \in 8 .. (8 * Len(line)) - 1 :
            /\ \A i \in damage : i < j
            /\ Cardinality(damage) < Flips \/ (\A i \in damage : j < i + Span)
            /\ damage' = damage \cup {j}
      BY <2>6 DEF Damage
    <3>2. damage \subseteq Nat /\ j \in Nat
      BY <3>1 DEF TelemetryTypeOK
    <3>3. IsFiniteSet(damage)
      <4>1. damage \subseteq 8 .. (8 * Len(line)) - 1 /\ (8 * Len(line)) - 1 \in Int
        BY DEF TelemetryTypeOK
      <4>2. IsFiniteSet(8 .. (8 * Len(line)) - 1)
        BY <4>1, FS_Interval
      <4> QED
        BY <4>1, <4>2, FS_Subset
    <3>4. Cardinality(damage) < Flips => damage = {}
      <4>1. Cardinality(damage) \in Nat /\ (Cardinality(damage) = 0 => damage = {})
        BY <3>3, FS_CardinalityType, FS_EmptySet
      <4> QED
        BY <2>1, <4>1
    <3>5. \A i \in damage : i < j /\ j < i + 16
      BY <2>1, <3>1, <3>2, <3>4
    <3>6. \A a, b \in damage : a <= b + 15
      BY DEF BurstInv
    <3>7. \A a, b \in damage' : a <= b + 15
      <4> SUFFICES ASSUME NEW a \in damage \cup {j}, NEW b \in damage \cup {j}
                   PROVE  a <= b + 15
        BY <3>1
      <4>1. a \in Nat /\ b \in Nat
        BY <3>2
      <4> QED
        BY <3>5, <3>6, <4>1
    <3>8. UNCHANGED <<line, whole>>
      BY <2>6 DEF Damage
    <3>9. (whole => Len(line) >= 4 /\ Verdict(Tail(line)))'
      BY <3>8 DEF BurstInv
    <3> QED
      BY <3>7, <3>9 DEF BurstInv
  <2>7. CASE UNCHANGED telemetryVars
    BY <2>7 DEF telemetryVars, BurstInv
  <2> QED
    BY <2>2, <2>3, <2>4, <2>5, <2>6, <2>7 DEF TelemetryNext
<1>3. TelemetrySpec => []TelemetryTypeOK
  BY TelemetryTypes
<1> QED
  BY <1>1, <1>2, <1>3, PTL DEF TelemetrySpec

\* The check accepts a frame that arrives as it was sent, and refuses one in
\* which any burst of up to sixteen bits was inverted.
THEOREM CrcTellsBursts ==
  ASSUME Span <= 16, Flips <= 1
  PROVE  TelemetrySpec => []CrcTellsDamage
<1>1. TelemetryTypeOK /\ BurstInv => CrcTellsDamage
  <2> SUFFICES ASSUME TelemetryTypeOK, BurstInv, whole
               PROVE  Verdict(Tail(Received)) <=> damage = {}
    BY DEF CrcTellsDamage
  <2> DEFINE N == Len(line)
             flips(n) == {j % 8 : j \in {d \in damage : d \div 8 = n - 1}}
  <2>1. line \in Seq(Octet) /\ N \in Nat /\ N >= 4 /\ Verdict(Tail(line))
    <3>1. line \in Seq(Octet)
      BY DEF TelemetryTypeOK
    <3>2. N >= 4 /\ Verdict(Tail(line))
      BY DEF BurstInv
    <3> QED
      BY <3>1, <3>2
  <2>2. damage \subseteq Nat /\ \A d \in damage : d \in 8 .. (8 * N) - 1
    BY <2>1 DEF TelemetryTypeOK
  <2>3. \A n \in 1 .. N : line[n] \in Octet
    BY <2>1
  <2>4. \A d \in Nat : d % 8 \in 0 .. 7 /\ d \div 8 \in Nat /\ d = (8 * (d \div 8)) + (d % 8)
    OBVIOUS
  <2>5. \A n \in 1 .. N : flips(n) \in Octet
    BY <2>2, <2>4 DEF Octet
  <2>6. Received = [n \in 1 .. N |-> Xor(line[n], flips(n))]
    BY DEF Received, Xor
  <2>7. ASSUME NEW n \in 1 .. N, \A d \in damage : d \div 8 # n - 1
        PROVE  Xor(line[n], flips(n)) = line[n]
    <3>1. flips(n) = {}
      BY <2>7
    <3> HIDE DEF flips
    <3> QED
      BY <3>1 DEF Xor
  <2> HIDE DEF N, flips
  <2>8. \A n \in 1 .. N : Xor(line[n], flips(n)) \in Octet
    BY <2>3, <2>5 DEF Xor, Octet
  <2>9. Received \in Seq(Octet) /\ Len(Received) = N
    BY <2>1, <2>6, <2>8
  <2>10. \A n \in 1 .. N : Received[n] = Xor(line[n], flips(n))
    BY <2>6
  <2> HIDE DEF Received
  <2>11. CASE damage = {}
    <3>1. \A n \in 1 .. N : Received[n] = line[n]
      BY <2>7, <2>10, <2>11
    <3>2. Received = line
      BY <2>1, <2>9, <3>1 DEF N
    <3> QED
      BY <2>1, <2>11, <3>2
  <2>12. CASE damage # {}
    <3>1. PICK d0 \in damage : \A d \in damage : d0 <= d
      BY <2>2, <2>12, LeastNat
    <3> DEFINE n0 == d0 \div 8
    <3>2. d0 \in Nat /\ d0 \in 8 .. (8 * N) - 1
      BY <2>2
    <3>3. n0 \in 1 .. N - 1
      BY <2>1, <2>4, <3>2
    <3>4. \A d \in damage : d \in Nat /\ d0 <= d /\ d <= d0 + 15
      BY <2>2, <3>1 DEF BurstInv
    <3>5. Received[n0 + 1] # line[n0 + 1]
      <4>1. d0 % 8 \in flips(n0 + 1)
        <5>1. d0 \div 8 = (n0 + 1) - 1
          BY <2>4, <3>2
        <5> HIDE DEF n0
        <5> QED
          BY <5>1 DEF flips
      <4>2. n0 + 1 \in 1 .. N
        BY <2>1, <3>3
      <4> HIDE DEF n0
      <4>3. Received[n0 + 1] = Xor(line[n0 + 1], flips(n0 + 1))
        BY <2>10, <4>2
      <4>4. d0 % 8 \in Xor(line[n0 + 1], flips(n0 + 1)) <=> ~ (d0 % 8 \in line[n0 + 1])
        BY <4>1 DEF Xor
      <4> QED
        BY <4>3, <4>4
    <3>6. ASSUME NEW n \in 1 .. N, n \notin n0 + 1 .. n0 + 3
          PROVE  Received[n] = line[n]
      <4>1. n - 1 \notin n0 .. n0 + 2
        BY <3>3, <3>6
      <4>2. ASSUME NEW d \in damage PROVE d \div 8 \in n0 .. n0 + 2
        <5>1. d \in Nat /\ d0 <= d /\ d <= d0 + 15
          BY <3>4
        <5>2. d \div 8 \in Nat /\ d % 8 \in 0 .. 7 /\ d = (8 * (d \div 8)) + (d % 8)
          BY <2>4, <5>1
        <5>3. n0 \in Nat /\ d0 % 8 \in 0 .. 7 /\ d0 = (8 * n0) + (d0 % 8)
          BY <2>4, <3>2
        <5> QED
          BY <5>1, <5>2, <5>3
      <4>3. \A d \in damage : d \div 8 # n - 1
        <5> HIDE DEF n0
        <5> QED
          BY <4>1, <4>2
      <4> QED
        BY <2>7, <2>10, <4>3
    \* The last of three bytes is damaged only below the lowest bit that is
    \* damaged in the first.
    <3>7. ASSUME n0 + 3 <= N, NEW i \in Xor(line[n0 + 1], Received[n0 + 1]),
                  NEW k \in Xor(line[n0 + 3], Received[n0 + 3])
           PROVE  k < i
      <4>1. n0 + 1 \in 1 .. N /\ n0 + 3 \in 1 .. N
        <5> HIDE DEF n0
        <5> QED
          BY <2>1, <3>3, <3>7
      <4>2. i \in flips(n0 + 1) /\ k \in flips(n0 + 3)
        <5> HIDE DEF n0
        <5>1. /\ Received[n0 + 1] = Xor(line[n0 + 1], flips(n0 + 1))
              /\ Received[n0 + 3] = Xor(line[n0 + 3], flips(n0 + 3))
          BY <2>10, <4>1
        <5>2. \A p, q : Xor(p, Xor(p, q)) = q
          BY DEF Xor
        <5> QED
          BY <3>7, <5>1, <5>2
      <4>3. PICK a \in damage : a \div 8 = (n0 + 1) - 1 /\ i = a % 8
        <5> HIDE DEF n0
        <5> QED
          BY <4>2 DEF flips
      <4>4. PICK z \in damage : z \div 8 = (n0 + 3) - 1 /\ k = z % 8
        <5> HIDE DEF n0
        <5> QED
          BY <4>2 DEF flips
      <4>5. a \in Nat /\ z \in Nat /\ z <= a + 15
        BY <2>2 DEF BurstInv
      <4>6. a = (8 * (a \div 8)) + i /\ z = (8 * (z \div 8)) + k /\ i \in 0 .. 7 /\ k \in 0 .. 7
        BY <2>4, <4>3, <4>4, <4>5
      <4>7. n0 \in Nat /\ a \div 8 = n0 /\ z \div 8 = n0 + 2
        BY <3>3, <4>3, <4>4
      <4> HIDE DEF n0
      <4> QED
        BY <4>5, <4>6, <4>7
    <3> HIDE DEF n0
    <3> DEFINE x == Tail(line)
               y == Tail(Received)
    <3>8. /\ x \in Seq(Octet) /\ Len(x) = N - 1
          /\ \A m \in 1 .. N - 1 : x[m] = line[m + 1]
      BY <2>1 DEF N
    <3>9. /\ y \in Seq(Octet) /\ Len(y) = N - 1
          /\ \A m \in 1 .. N - 1 : y[m] = Received[m + 1]
      BY <2>1, <2>9
    <3>10. Verdict(x)
      BY <2>1
    <3> HIDE DEF x, y
    <3>11. x[n0] # y[n0]
      BY <3>3, <3>5, <3>8, <3>9
    <3>12. \A m \in 1 .. N - 1 : m \notin n0 .. n0 + 2 => x[m] = y[m]
      <4> SUFFICES ASSUME NEW m \in 1 .. N - 1, m \notin n0 .. n0 + 2
                   PROVE  x[m] = y[m]
        OBVIOUS
      <4>1. m + 1 \in 1 .. N /\ m + 1 \notin n0 + 1 .. n0 + 3
        BY <2>1, <3>3
      <4> QED
        BY <3>6, <3>8, <3>9, <4>1
    <3>13. n0 + 2 <= N - 1 =>
             \A i \in Xor(x[n0], y[n0]), j \in Xor(x[n0 + 2], y[n0 + 2]) : j < i
      <4> SUFFICES ASSUME n0 + 2 <= N - 1
                   PROVE  \A i \in Xor(x[n0], y[n0]), j \in Xor(x[n0 + 2], y[n0 + 2]) : j < i
        OBVIOUS
      <4>1. n0 + 3 <= N /\ n0 \in 1 .. N - 1 /\ n0 + 2 \in 1 .. N - 1 /\ (n0 + 2) + 1 = n0 + 3
        BY <2>1, <3>3
      <4>2. /\ x[n0] = line[n0 + 1] /\ y[n0] = Received[n0 + 1]
            /\ x[n0 + 2] = line[n0 + 3] /\ y[n0 + 2] = Received[n0 + 3]
        BY <3>8, <3>9, <4>1
      <4> QED
        BY <3>7, <4>1, <4>2
    <3>14. N - 1 >= 2
      BY <2>1
    <3>15. ~ Verdict(y)
      BY <3>3, <3>8, <3>9, <3>10, <3>11, <3>12, <3>14, <3>13, VerdictsDiffer
    <3> QED
      BY <2>12, <3>15 DEF y
  <2> QED
    BY <2>11, <2>12
<1>2. TelemetrySpec => []TelemetryTypeOK
  BY TelemetryTypes
<1>3. TelemetrySpec => []BurstInv
  BY BurstsStayShort
<1> QED
  BY <1>1, <1>2, <1>3, PTL

-----------------------------------------------------------------------------
(* CircularBuffer                                                          *)

USE SizeAssumption DEF SizeAssumption

\* The remainder by SIZE of push and pop is a step to the right or a wrap.
LEMMA NextIndexWraps ==
  ASSUME NEW i \in 0 .. SIZE - 1
  PROVE  NextIndex(i) = IF i + 1 = SIZE THEN 0 ELSE i + 1
<1>1. CASE i + 1 = SIZE
  BY <1>1 DEF NextIndex
<1>2. CASE i + 1 < SIZE
  BY <1>2 DEF NextIndex
<1> QED
  BY <1>1, <1>2

\* The indices stay inside the array across every call.
THEOREM BufferTypes == Spec => []TypeOK
<1>1. Init => TypeOK
  BY DEF Init, TypeOK
<1>2. TypeOK /\ [Next]_vars => TypeOK'
  <2> SUFFICES ASSUME TypeOK, [Next]_vars PROVE TypeOK'
    OBVIOUS
  <2> USE DEF TypeOK
  <2>1. ASSUME NEW b \in Byte, Push(b) PROVE TypeOK'
    <3>1. head' \in 0 .. SIZE - 1
      BY <2>1, NextIndexWraps DEF Push
    <3> QED
      BY <2>1, <3>1 DEF Push
  <2>2. CASE Pop
    <3>1. tail' \in 0 .. SIZE - 1
      BY <2>2, NextIndexWraps DEF Pop
    <3> QED
      BY <2>2, <3>1 DEF Pop
  <2>3. CASE PushFull \/ PopEmpty \/ UNCHANGED vars
    BY <2>3 DEF PushFull, PopEmpty, vars
  <2> QED
    BY <2>1, <2>2, <2>3 DEF Next
<1> QED
  BY <1>1, <1>2, PTL DEF Spec

\* The bytes between two indices form a sequence of at most SIZE - 1.
LEMMA BetweenSeq ==
  ASSUME NEW d \in [0 .. SIZE - 1 -> Byte],
         NEW h \in 0 .. SIZE - 1, NEW t \in 0 .. SIZE - 1
  PROVE  /\ Count(h, t) \in 0 .. SIZE - 1
         /\ Between(d, h, t) \in Seq(Byte)
         /\ Len(Between(d, h, t)) = Count(h, t)
<1>1. Count(h, t) \in 0 .. SIZE - 1
  BY DEF Count
<1>2. \A i \in 1 .. Count(h, t) : Slot(t, i - 1) \in 0 .. SIZE - 1
  BY <1>1 DEF Slot
<1>3. \A i \in 1 .. Count(h, t) : d[Slot(t, i - 1)] \in Byte
  BY <1>2
<1>4. Between(d, h, t) \in [1 .. Count(h, t) -> Byte]
  BY <1>3 DEF Between
<1>5. Between(d, h, t) \in Seq(Byte) /\ Len(Between(d, h, t)) = Count(h, t)
  BY <1>1, <1>4, LenProperties, SeqDef
<1> QED
  BY <1>1, <1>5

Stored(d, h, b) == [d EXCEPT ![h] = b]

\* push stores only while one slot besides the one written stays free.
LEMMA PushFits ==
  ASSUME NEW h \in 0 .. SIZE - 1, NEW t \in 0 .. SIZE - 1, NextIndex(h) # t
  PROVE  Count(h, t) < SIZE - 1
<1>1. NextIndex(h) = IF h + 1 = SIZE THEN 0 ELSE h + 1
  BY NextIndexWraps
<1> QED
  BY <1>1 DEF Count

\* A byte stored at the head is appended; those before it are left alone.
LEMMA PushAppends ==
  ASSUME NEW d \in [0 .. SIZE - 1 -> Byte], NEW b \in Byte,
         NEW h \in 0 .. SIZE - 1, NEW t \in 0 .. SIZE - 1, NextIndex(h) # t
  PROVE  Between(Stored(d, h, b), NextIndex(h), t) = Append(Between(d, h, t), b)
<1> DEFINE e == Stored(d, h, b)
           m == NextIndex(h)
           n == Count(h, t)
           s == Between(d, h, t)
           r == Between(e, m, t)
<1>0. e \in [0 .. SIZE - 1 -> Byte] /\ m \in 0 .. SIZE - 1 /\ m # t
  BY NextIndexWraps DEF Stored
<1>1. m = IF h + 1 = SIZE THEN 0 ELSE h + 1
  BY NextIndexWraps
<1>e. e = [d EXCEPT ![h] = b]
  BY DEF Stored
<1> HIDE DEF e, m
<1>2. /\ n \in Nat /\ n < SIZE - 1
      /\ Count(m, t) = n + 1 /\ Slot(t, n) = h
  BY <1>0, <1>1 DEF Count, Slot
<1>3. /\ s \in Seq(Byte) /\ Len(s) = n
      /\ \A i \in 1 .. n : s[i] = d[Slot(t, i - 1)]
  <2>1. s \in Seq(Byte) /\ Len(s) = n
    BY BetweenSeq
  <2>2. \A i \in 1 .. n : s[i] = d[Slot(t, i - 1)]
    BY DEF Between
  <2> QED
    BY <2>1, <2>2
<1>4. /\ r \in Seq(Byte) /\ Len(r) = Count(m, t)
      /\ \A i \in 1 .. Count(m, t) : r[i] = e[Slot(t, i - 1)]
  <2>1. r \in Seq(Byte) /\ Len(r) = Count(m, t)
    BY <1>0, BetweenSeq
  <2>2. \A i \in 1 .. Count(m, t) : r[i] = e[Slot(t, i - 1)]
    BY DEF Between
  <2> QED
    BY <2>1, <2>2
<1>5. \A i \in 1 .. n :
        /\ Slot(t, i - 1) # h /\ Slot(t, i - 1) \in 0 .. SIZE - 1
  BY <1>2 DEF Slot, Count
<1> HIDE DEF n, s, r
<1>6. /\ Append(s, b) \in Seq(Byte) /\ Len(Append(s, b)) = n + 1
      /\ Append(s, b)[n + 1] = b
      /\ \A i \in 1 .. n : Append(s, b)[i] = s[i]
  BY <1>3, AppendProperties
<1>7. ASSUME NEW i \in 1 .. n + 1
      PROVE  r[i] = Append(s, b)[i]
  <2>1. CASE i = n + 1
    <3>1. Slot(t, i - 1) = h /\ i \in 1 .. Count(m, t)
      BY <1>2, <2>1
    <3>2. e[h] = b
      BY <1>e
    <3> QED
      BY <2>1, <3>1, <3>2, <1>4, <1>6
  <2>2. CASE i # n + 1
    <3>1. i \in 1 .. n /\ i \in 1 .. Count(m, t)
      BY <1>2, <2>2
    <3>2. e[Slot(t, i - 1)] = d[Slot(t, i - 1)]
      BY <1>5, <1>e, <3>1
    <3> QED
      BY <3>1, <3>2, <1>3, <1>4, <1>6
  <2> QED
    BY <2>1, <2>2
<1>8. r = Append(s, b)
  BY <1>2, <1>4, <1>6, <1>7, SeqEqual
<1> QED
  BY <1>8 DEF e, m, s, r

\* Moving the tail takes the first byte and leaves the rest.
LEMMA PopTakesHead ==
  ASSUME NEW d \in [0 .. SIZE - 1 -> Byte],
         NEW h \in 0 .. SIZE - 1, NEW t \in 0 .. SIZE - 1,
         NEW m \in 0 .. SIZE - 1, m = NextIndex(t), h # t
  PROVE  /\ Between(d, h, t) # <<>>
         /\ Head(Between(d, h, t)) = d[t]
         /\ Between(d, h, m) = Tail(Between(d, h, t))
<1> DEFINE n == Count(h, t)
           s == Between(d, h, t)
           r == Between(d, h, m)
<1>1. m = IF t + 1 = SIZE THEN 0 ELSE t + 1
  BY NextIndexWraps
<1>2. n \in Nat \ {0} /\ Count(h, m) = n - 1 /\ Slot(t, 0) = t
  BY <1>1 DEF Count, Slot
<1>3. /\ s \in Seq(Byte) /\ Len(s) = n
      /\ \A i \in 1 .. n : s[i] = d[Slot(t, i - 1)]
  <2>1. s \in Seq(Byte) /\ Len(s) = n
    BY BetweenSeq
  <2>2. \A i \in 1 .. n : s[i] = d[Slot(t, i - 1)]
    BY DEF Between
  <2> QED
    BY <2>1, <2>2
<1>4. /\ r \in Seq(Byte) /\ Len(r) = Count(h, m)
      /\ \A i \in 1 .. Count(h, m) : r[i] = d[Slot(m, i - 1)]
  <2>1. r \in Seq(Byte) /\ Len(r) = Count(h, m)
    BY BetweenSeq
  <2>2. \A i \in 1 .. Count(h, m) : r[i] = d[Slot(m, i - 1)]
    BY DEF Between
  <2> QED
    BY <2>1, <2>2
<1>5. \A i \in 1 .. n - 1 : Slot(m, i - 1) = Slot(t, i)
  BY <1>1, <1>2 DEF Slot, Count
<1> HIDE DEF n, s, r
<1>6. s # <<>>
  BY <1>2, <1>3, EmptySeq
<1>7. Head(s) = d[t]
  <2>1. s[1] = d[Slot(t, 1 - 1)]
    BY <1>2, <1>3
  <2> QED
    BY <1>2, <1>3, <1>6, <2>1
<1>8. /\ Tail(s) \in Seq(Byte) /\ Len(Tail(s)) = n - 1
      /\ \A i \in 1 .. n - 1 : Tail(s)[i] = s[i + 1]
  BY <1>3, <1>6, HeadTailProperties
<1>9. ASSUME NEW i \in 1 .. n - 1
      PROVE  r[i] = Tail(s)[i]
  <2>1. /\ i \in 1 .. Count(h, m) /\ i + 1 \in 1 .. n
        /\ i \in Nat /\ i + 1 - 1 = i
    BY <1>2
  <2>2. s[i + 1] = d[Slot(t, i + 1 - 1)]
    BY <1>3, <2>1
  <2> QED
    BY <1>4, <1>5, <1>8, <2>1, <2>2
<1>10. r = Tail(s)
  BY <1>2, <1>4, <1>8, <1>9, SeqEqual
<1> QED
  BY <1>6, <1>7, <1>10 DEF n, s, r

\* The ring of SIZE bytes implements the queue of SIZE - 1: no byte is lost,
\* repeated or overtaken, and no call is refused without need.
THEOREM RingIsQueue == Spec => ImplementsQueue
<1>1. Init => Queue!QueueInit
  <2> SUFFICES ASSUME Init PROVE Queue!QueueInit
    OBVIOUS
  <2>1. /\ data \in [0 .. SIZE - 1 -> Byte] /\ 0 \in 0 .. SIZE - 1
        /\ Count(0, 0) = 0
    BY DEF Init, Count
  <2>2. Contents = <<>>
    BY <2>1, BetweenSeq, EmptySeq DEF Init, Contents
  <2> QED
    BY <2>2 DEF Init, Queue!QueueInit
<1>2. TypeOK /\ [Next]_vars => [Queue!QueueNext]_(Queue!queueVars)
  <2> SUFFICES ASSUME TypeOK, [Next]_vars
               PROVE  [Queue!QueueNext]_(Queue!queueVars)
    OBVIOUS
  <2> USE DEF Queue!QueueNext, Queue!queueVars
  <2>t. /\ data \in [0 .. SIZE - 1 -> Byte]
        /\ head \in 0 .. SIZE - 1 /\ tail \in 0 .. SIZE - 1
        /\ Contents \in Seq(Byte) /\ Len(Contents) = Count(head, tail)
    BY BetweenSeq DEF TypeOK, Contents
  <2>1. ASSUME NEW b \in Byte, Push(b) PROVE Queue!Push(b)
    <3>1. Contents' = Append(Contents, b) /\ Len(Contents) < SIZE - 1
      <4>1. /\ head' \in 0 .. SIZE - 1
            /\ data' \in [0 .. SIZE - 1 -> Byte] /\ tail' = tail
            /\ head' = NextIndex(head) /\ head' # tail
            /\ data' = Stored(data, head, b)
        BY <2>1, <2>t, NextIndexWraps DEF Push, IsFull, Stored
      <4>2. Between(data', head', tail) = Append(Between(data, head, tail), b)
        BY <2>t, <4>1, PushAppends
      <4>3. Count(head, tail) < SIZE - 1
        BY <2>t, <4>1, PushFits
      <4> QED
        BY <2>t, <4>1, <4>2, <4>3 DEF Contents
    <3> QED
      BY <2>1, <3>1 DEF Push, Queue!Push
  <2>2. ASSUME Pop PROVE Queue!Pop
    <3>1. /\ Contents # <<>> /\ Head(Contents) = data[tail]
          /\ Contents' = Tail(Contents)
      <4>1. /\ tail' \in 0 .. SIZE - 1 /\ tail' = NextIndex(tail)
            /\ head # tail /\ UNCHANGED <<data, head>>
        BY <2>2, <2>t, NextIndexWraps DEF Pop, IsEmpty
      <4>2. Contents = Between(data, head, tail) /\ Contents' = Between(data, head, tail')
        BY <4>1 DEF Contents
      <4>3. /\ Between(data, head, tail) # <<>>
            /\ Head(Between(data, head, tail)) = data[tail]
        BY <2>t, <4>1, PopTakesHead
      <4>4. Between(data, head, tail') = Tail(Between(data, head, tail))
        BY <2>t, <4>1, PopTakesHead
      <4> QED
        BY <4>2, <4>3, <4>4
    <3> QED
      BY <2>2, <3>1 DEF Pop, Queue!Pop
  <2>3. UNCHANGED <<data, head, tail>> => UNCHANGED Contents
    BY DEF Contents
  <2>4. ASSUME PushFull PROVE Queue!PushRefused
    <3>1. Count(head, tail) = SIZE - 1
      BY <2>4, <2>t, NextIndexWraps DEF PushFull, IsFull, Count
    <3> QED
      BY <2>3, <2>4, <2>t, <3>1 DEF PushFull, Queue!PushRefused
  <2>5. ASSUME PopEmpty PROVE Queue!PopRefused
    <3>1. Count(head, tail) = 0
      BY <2>5, <2>t DEF PopEmpty, IsEmpty, Count
    <3>2. Contents = <<>>
      BY <2>t, <3>1, EmptySeq
    <3> QED
      BY <2>3, <2>5, <3>2 DEF PopEmpty, Queue!PopRefused
  <2>6. ASSUME UNCHANGED vars PROVE UNCHANGED Queue!queueVars
    BY <2>3, <2>6 DEF vars
  <2> QED
    BY <2>1, <2>2, <2>4, <2>5, <2>6 DEF Next
<1> QED
  BY <1>1, <1>2, BufferTypes, PTL DEF Spec, ImplementsQueue, Queue!QueueSpec

=============================================================================
