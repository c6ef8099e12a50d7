-------------------------- MODULE Rs485LinkProofs --------------------------
(***************************************************************************)
(* TLAPS proofs about Rs485Link, for every value of its constants: any     *)
(* number of rounds and line faults, any FIFO and frame sizes, any         *)
(* sequence space of at least two values, with and without timely delays.  *)
(***************************************************************************)
EXTENDS Rs485Link, WellFoundedInduction, SequenceTheorems,
        FiniteSetTheorems, TLAPS

-----------------------------------------------------------------------------
(* The FIFO operators                                                      *)

USE ParamAssumption DEF ParamAssumption

\* Every frame the two ends build, and every mark the line leaves in a FIFO,
\* is one of Frames.
LEMMA FrameConstructors ==
  /\ \A s \in 0 .. SeqMod - 1, p \in 0 .. MaxRounds :
       Data(s, p) \in Frames /\ Ack(s, p) \in Frames
  /\ Nack \in Frames /\ NoFrame \in Frames
  /\ \A n \in Int : Bad(n) \in Frames /\ Open(n) \in Frames
BY DEF Data, Ack, Nack, NoFrame, Bad, Open, Frame, Frames, FrameTypes

\* Every nonempty set of naturals has a least element.
LEMMA LeastNat ==
  ASSUME NEW S \in SUBSET Nat, S # {}
  PROVE  \E m \in S : \A n \in S : m <= n
<1> DEFINE R == OpToRel(<, Nat)
<1>1. PICK m \in S : \A n \in S : <<n, m>> \notin R
  <2> HIDE DEF R
  <2>1. IsWellFoundedOn(R, Nat)
    BY NatLessThanWellFounded DEF R
  <2> QED
    BY <2>1, WFMin
<1>2. \A n \in S : ~ (n < m)
  BY <1>1 DEF OpToRel
<1> QED
  BY <1>2

\* A FIFO holds at least the bytes of each of its frames.
LEMMA BytesBound ==
  ASSUME NEW q \in Seq(Frames), \A i \in DOMAIN q : q[i].n \in Nat,
         NEW k \in DOMAIN q
  PROVE  Bytes(q) \in Nat /\ q[k].n <= Bytes(q)
<1> DEFINE D == DOMAIN q
           pick(s) == CHOOSE x \in s : TRUE
           sum(s, f) == IF s = {} THEN 0 ELSE LET x == pick(s) IN q[x].n + f[s \ {x}]
           fold == CHOOSE f : f = [s \in SUBSET D |-> sum(s, f)]
           size(s) == Cardinality(s)
<1>1. IsFiniteSet(D)
  BY FS_Interval, LenProperties
<1>2. ASSUME NEW s \in SUBSET D
      PROVE  /\ size(s) \in Nat /\ size(s) <= size(D)
             /\ size(s) = 0 <=> s = {}
             /\ s # {} => pick(s) \in s /\ size(s \ {pick(s)}) = size(s) - 1
  <2>1. IsFiniteSet(s)
    BY <1>1, FS_Subset
  <2>2. size(s) \in Nat /\ size(s) <= size(D)
    BY <1>1, <2>1, FS_Subset, FS_CardinalityType
  <2>3. size(s) = 0 <=> s = {}
    BY <2>1, FS_EmptySet
  <2>4. s # {} => pick(s) \in s
    OBVIOUS
  <2> QED
    BY <2>1, <2>2, <2>3, <2>4, FS_RemoveElement
<1>3. \A i \in D : q[i].n \in Nat
  OBVIOUS
<1> HIDE DEF D, pick, size
<1> DEFINE Sums(n) == \E f \in [SUBSET D -> Nat] :
                        \A s \in SUBSET D : size(s) <= n => f[s] = sum(s, f)
<1>4. Sums(0)
  <2> DEFINE z == [t \in SUBSET D |-> 0]
  <2>1. ASSUME NEW s \in SUBSET D, size(s) <= 0 PROVE z[s] = sum(s, z)
    <3>1. size(s) \in Nat /\ (size(s) = 0 => s = {})
      BY <1>2
    <3>2. s = {}
      BY <2>1, <3>1
    <3> QED
      BY <3>2
  <2>2. z \in [SUBSET D -> Nat]
    OBVIOUS
  <2> HIDE DEF z, sum
  <2> QED
    BY <2>1, <2>2
<1>5. ASSUME NEW n \in Nat, Sums(n) PROVE Sums(n + 1)
  <2>1. PICK f \in [SUBSET D -> Nat] : \A s \in SUBSET D : size(s) <= n => f[s] = sum(s, f)
    BY <1>5
  <2> DEFINE g == [s \in SUBSET D |-> IF size(s) <= n THEN f[s] ELSE sum(s, f)]
  <2>2. ASSUME NEW s \in SUBSET D, s # {}
        PROVE  pick(s) \in D /\ q[pick(s)].n \in Nat /\ s \ {pick(s)} \in SUBSET D
    BY <1>2, <1>3, <2>2
  <2>3. g \in [SUBSET D -> Nat]
    <3>1. ASSUME NEW s \in SUBSET D PROVE sum(s, f) \in Nat
      BY <2>2
    <3> QED
      BY <3>1
  <2>4. ASSUME NEW s \in SUBSET D, size(s) <= n + 1 PROVE g[s] = sum(s, g)
    <3>1. CASE s = {}
      BY <1>2, <2>1, <3>1
    <3>2. CASE s # {}
      <4>1. size(s \ {pick(s)}) <= n /\ s \ {pick(s)} \in SUBSET D
        <5>1. size(s) \in Nat /\ size(s \ {pick(s)}) = size(s) - 1
          BY <1>2, <3>2
        <5> QED
          BY <2>2, <2>4, <3>2, <5>1
      <4>2. g[s \ {pick(s)}] = f[s \ {pick(s)}]
        BY <4>1
      <4>3. g[s] = sum(s, f)
        BY <2>1
      <4> QED
        BY <3>2, <4>2, <4>3
    <3> QED
      BY <3>1, <3>2
  <2> HIDE DEF g, sum
  <2> QED
    BY <2>3, <2>4
<1>6. Sums(size(D))
  <2> HIDE DEF Sums
  <2> DEFINE B == {n \in Nat : ~Sums(n)}
  <2>1. ASSUME B # {} PROVE FALSE
    <3>1. PICK m \in B : \A n \in B : m <= n
      BY <2>1, LeastNat
    <3>2. m # 0 /\ m \in Nat /\ ~Sums(m)
      BY <1>4
    <3>3. m - 1 \in Nat /\ m - 1 \notin B /\ m - 1 + 1 = m
      BY <3>1, <3>2
    <3>4. Sums(m - 1)
      BY <3>3
    <3>5. Sums(m - 1 + 1)
      BY <1>5, <3>3, <3>4
    <3> QED
      BY <3>2, <3>3, <3>5
  <2> QED
    BY <1>2, <2>1
<1>7. fold = [s \in SUBSET D |-> sum(s, fold)]
  <2>1. PICK f \in [SUBSET D -> Nat] : \A s \in SUBSET D : size(s) <= size(D) => f[s] = sum(s, f)
    BY <1>6
  <2>2. f = [s \in SUBSET D |-> sum(s, f)]
    BY <1>2, <2>1
  <2> HIDE DEF sum
  <2> QED
    BY <2>2
<1>8. \A s \in SUBSET D : fold[s] = sum(s, fold)
  BY <1>7
<1> HIDE DEF fold
<1> DEFINE Bounds(s) == fold[s] \in Nat /\ \A i \in s : q[i].n <= fold[s]
<1>9. Bounds(D)
  <2>0. ASSUME NEW s \in SUBSET D, s = {} PROVE Bounds(s)
    <3>1. fold[s] = 0
      BY <1>8, <2>0
    <3> QED
      BY <2>0, <3>1
  <2> DEFINE B == {n \in Nat : \E s \in SUBSET D : size(s) = n /\ ~Bounds(s)}
  <2>1. ASSUME B # {} PROVE FALSE
    <3>1. PICK m \in B : \A n \in B : m <= n
      BY <2>1, LeastNat
    <3>2. PICK s \in SUBSET D : size(s) = m /\ ~Bounds(s)
      OBVIOUS
    <3>3. s # {}
      BY <2>0, <3>2
    <3> DEFINE x == pick(s)  r == s \ {x}
    <3>4. x \in s /\ x \in D /\ r \in SUBSET D /\ size(r) = m - 1 /\ m \in Nat /\ m - 1 \in Nat
      BY <1>2, <3>2, <3>3
    <3>5. Bounds(r)
      <4> HIDE DEF r, x, Bounds
      <4>1. m - 1 \notin B
        BY <3>1, <3>4
      <4> QED
        BY <3>4, <4>1
    <3>6. fold[s] = q[x].n + fold[r]
      BY <1>8, <3>3
    <3>7. q[x].n \in Nat /\ \A i \in s : i = x \/ i \in r
      BY <1>3, <3>4
    <3> HIDE DEF r, x
    <3>8. fold[s] \in Nat
      BY <3>5, <3>6, <3>7
    <3>9. \A i \in s : q[i].n \in Nat
      BY <1>3
    <3>10. ASSUME NEW i \in s PROVE q[i].n <= fold[s]
      <4>1. CASE i = x
        BY <3>5, <3>6, <3>7, <4>1
      <4>2. CASE i \in r
        BY <3>5, <3>6, <3>7, <3>9, <4>2
      <4> QED
        BY <3>7, <4>1, <4>2
    <3> QED
      BY <3>2, <3>8, <3>10
  <2> QED
    BY <1>2, <2>1
<1>10. Bytes(q) = fold[D]
  BY DEF Bytes, MapThenSumSet, MapThenFoldSet, fold, D, pick
<1> QED
  BY <1>9, <1>10 DEF D

\* First is well defined: the collect loop of wait_for_ack, recv_frame and the
\* responder ends at the earliest delimiter in the FIFO.
LEMMA FirstIsDelimiter ==
  ASSUME NEW q \in Seq(Frames), Complete(q)
  PROVE  First(q) \in Delims(q) /\ \A j \in Delims(q) : First(q) <= j
<1>1. Delims(q) \subseteq Nat
  BY DEF Delims
<1>2. \E i \in Delims(q) : \A j \in Delims(q) : i <= j
  BY <1>1, LeastNat DEF Complete
<1> QED
  BY <1>2 DEF First

\* A reader takes a frame off the front and leaves a suffix; what it takes
\* is valid only if it is the very first record.
LEMMA ReadFifo ==
  ASSUME NEW q \in Seq(Frames), Complete(q)
  PROVE  /\ First(q) \in Nat \ {0}
         /\ Rest(q) \in Seq(Frames)
         /\ \A i \in DOMAIN Rest(q) :
              i + First(q) \in DOMAIN q /\ Rest(q)[i] = q[i + First(q)]
         /\ Taken(q) \in Frames
         /\ Taken(q).type # "bad" =>
              1 \in DOMAIN q /\ First(q) = 1 /\ Taken(q) = q[1]
<1>1. First(q) \in 1 .. Len(q)
  BY FirstIsDelimiter DEF Delims
<1>2. /\ Rest(q) \in Seq(Frames)
      /\ Len(Rest(q)) = Len(q) - First(q)
      /\ \A i \in 1 .. Len(q) - First(q) : Rest(q)[i] = q[i + First(q)]
  <2>1. \A i \in First(q) + 1 .. Len(q) : q[i] \in Frames
    BY <1>1
  <2> QED
    BY <1>1, <2>1, SubSeqProperties DEF Rest
<1>3. Taken(q) \in Frames
  BY <1>1, FrameConstructors DEF Taken
<1>4. Bad(0).type = "bad"
  BY DEF Bad, Frame
<1> QED
  BY <1>1, <1>2, <1>3, <1>4 DEF Taken

\* A frame that arrives is appended whole, appended as bytes that are not a
\* valid frame, or dropped.
LEMMA ArriveFifo ==
  ASSUME NEW q \in Seq(Frames), NEW f \in Frames, NEW cap \in Nat,
         NEW polling, NEW w
  PROVE  \/ Arrive(q, cap, polling, f, w) = q
         \/ \E g \in Frames : /\ g = f \/ g.type \in {"bad", "open"}
                              /\ Arrive(q, cap, polling, f, w) = Append(q, g)
<1>1. Room(q, cap) \in Int
  BY DEF Room
<1>2. f.n \in Int /\ f.n - 1 \in Int
  BY DEF Frames
<1>3. /\ Open(Room(q, cap)) \in Frames /\ Open(Room(q, cap)).type = "open"
      /\ Bad(f.n) \in Frames /\ Bad(f.n).type = "bad"
      /\ Open(f.n - 1) \in Frames /\ Open(f.n - 1).type = "open"
  BY <1>1, <1>2, FrameConstructors DEF Open, Bad, Frame
<1> QED
  BY <1>3 DEF Arrive

-----------------------------------------------------------------------------
(* Type correctness                                                        *)

\* Every variable of the link stays in its range: the retry counter within
\* MAX_RETRIES, the sequence byte within its space, the history within the
\* rounds started.
THEOREM TypeCorrect == Spec => []TypeOK
<1>1. Init => TypeOK
  <2> SUFFICES ASSUME Init PROVE TypeOK
    OBVIOUS
  <2>1. toLpc \in Seq(Frames) /\ toPeer \in Seq(Frames)
    BY EmptySeq DEF Init
  <2>2. tx \in Frames /\ cur \in Frames
    BY FrameConstructors DEF Init
  <2>3. /\ seq_ \in 0 .. SeqMod - 1 /\ round \in 1 .. MaxRounds
        /\ attempt \in 0 .. MaxRetries /\ faults \in 0 .. MaxFaults
        /\ base \in 1 .. MaxRounds + 1 /\ echo \in 0 .. MaxRounds
    BY DEF Init
  <2>4. /\ pc = "send" /\ ppc = "idle" /\ got = {}
        /\ lpcHit = FALSE /\ peerHit = FALSE
    BY DEF Init
  <2> QED
    BY <2>1, <2>2, <2>3, <2>4 DEF TypeOK, Rounds
<1>2. TypeOK /\ [Next]_vars => TypeOK'
  <2> SUFFICES ASSUME TypeOK, [Next]_vars PROVE TypeOK'
    OBVIOUS
  <2> USE DEF TypeOK, Rounds
  <2>0. \A f \in Frames : f.seq \in 0 .. SeqMod - 1 /\ f.pay \in 0 .. MaxRounds
    BY DEF Frames
  <2>a. \A w, hit : Damage(w, hit) => faults' \in 0 .. MaxFaults
    BY DEF Damage
  <2>b. ASSUME NEW w, LpcDown(w)
        PROVE  /\ toPeer' \in Seq(Frames) /\ tx' \in Frames
               /\ lpcHit' \in BOOLEAN /\ faults' \in 0 .. MaxFaults
    <3>1. toPeer' \in Seq(Frames)
      <4>1. toPeer' = Arrive(toPeer, PeerFifo, ppc = "idle", tx, w)
        BY <2>b DEF LpcDown
      <4>2. toPeer' = toPeer \/ \E g \in Frames : toPeer' = Append(toPeer, g)
        BY <4>1, ArriveFifo
      <4>3. ASSUME NEW g \in Frames PROVE Append(toPeer, g) \in Seq(Frames)
        BY AppendProperties
      <4> QED
        BY <4>2, <4>3
    <3> QED
      BY <2>a, <2>b, <3>1, FrameConstructors DEF LpcDown
  <2>c. ASSUME NEW f \in Frames, NEW w, PeerDown(f, w)
        PROVE  toLpc' \in Seq(Frames) /\ faults' \in 0 .. MaxFaults
    <3>1. toLpc' \in Seq(Frames)
      <4>1. toLpc' = Arrive(toLpc, LpcFifo, LpcPoll, f, w)
        BY <2>c DEF PeerDown
      <4>2. toLpc' = toLpc \/ \E g \in Frames : toLpc' = Append(toLpc, g)
        BY <4>1, ArriveFifo
      <4>3. ASSUME NEW g \in Frames PROVE Append(toLpc, g) \in Seq(Frames)
        BY AppendProperties
      <4> QED
        BY <4>2, <4>3
    <3>2. faults' \in 0 .. MaxFaults
      BY <2>a, <2>c DEF PeerDown
    <3> QED
      BY <3>1, <3>2
  <2>d. ASSUME NEW f \in Frames, LpcUp(f)
        PROVE  tx' \in Frames /\ lpcHit' \in BOOLEAN /\ peerHit' \in BOOLEAN
    BY <2>d DEF LpcUp, PeerDE
  <2>e. ASSUME NEW f \in Frames, NEW p, PeerUp(p, f)
        PROVE  /\ cur' \in Frames /\ ppc' = p
               /\ lpcHit' \in BOOLEAN /\ peerHit' \in BOOLEAN
    BY <2>e DEF PeerUp, LpcDE
  <2>f. NextAttempt => /\ attempt' \in 0 .. MaxRetries
                       /\ pc' \in {"send", "recv"}
    BY DEF NextAttempt
  <2>1. CASE SendRaw
    BY <2>1, <2>d, FrameConstructors DEF SendRaw, peer
  <2>2. CASE SendRawDone
    BY <2>2, <2>b DEF SendRawDone, peer
  <2>3. CASE SendRawTimeout
    BY <2>3, <2>b, <2>f DEF SendRawTimeout, peer
  <2>4. CASE WaitForAck
    BY <2>4, <2>f, ReadFifo DEF WaitForAck, NextSeq, peer
  <2>5. CASE AckTimeout
    BY <2>5, <2>f, EmptySeq DEF AckTimeout, peer
  <2>6. CASE RecvData
    BY <2>6, <2>0, <2>d, ReadFifo, FrameConstructors DEF RecvData, peer
  <2>7. CASE RecvCorrupt
    BY <2>7, <2>d, ReadFifo, FrameConstructors DEF RecvCorrupt, peer
  <2>8. CASE RecvOther
    BY <2>8, ReadFifo DEF RecvOther, peer
  <2>9. CASE RecvTimeout
    BY <2>9, EmptySeq DEF RecvTimeout, peer
  <2>10. CASE CtrlDone
    BY <2>10, <2>b, <2>0 DEF CtrlDone, peer
  <2>11. CASE NextRound
    BY <2>11 DEF NextRound, peer
  <2>12. CASE PeerData
    BY <2>12, <2>0, <2>e, ReadFifo DEF PeerData
  <2>13. CASE PeerCorrupt
    BY <2>13, <2>e, ReadFifo, FrameConstructors DEF PeerCorrupt
  <2>14. CASE PeerIgnore
    BY <2>14, ReadFifo DEF PeerIgnore, lpc, peer
  <2>15. CASE PeerAckDone
    BY <2>15, <2>0, <2>c, <2>e, FrameConstructors DEF PeerAckDone
  <2>16. CASE PeerReplyDone
    BY <2>16, <2>c, FrameConstructors DEF PeerReplyDone, lpc
  <2>17. CASE PeerWake
    BY <2>17 DEF PeerWake, lpc
  <2>18. CASE UNCHANGED vars
    BY <2>18 DEF vars
  <2> QED
    BY <2>1, <2>2, <2>3, <2>4, <2>5, <2>6, <2>7, <2>8, <2>9, <2>10, <2>11,
       <2>12, <2>13, <2>14, <2>15, <2>16, <2>17, <2>18
    DEF Next, LpcNext, PeerNext, BoundReached
<1> QED
  BY <1>1, <1>2, PTL DEF Spec

-----------------------------------------------------------------------------
(* The order of what is on the bus, and soundness of acknowledgements      *)

\* After one frame has been read the valid frames left in the FIFO are valid
\* frames it held before, in the same order.
LEMMA ReadLive ==
  ASSUME NEW q \in Seq(Frames), Complete(q), NEW types
  PROVE  /\ First(q) \in Nat \ {0}
         /\ \A i \in Live(Rest(q), types) :
              /\ i \in Nat /\ i + First(q) \in Live(q, types)
              /\ Rest(q)[i] = q[i + First(q)]
<1>1. DOMAIN Rest(q) \subseteq Nat
  BY ReadFifo, LenProperties
<1> QED
  BY <1>1, ReadFifo DEF Live

\* A valid frame is read only from the very front of the FIFO.
LEMMA TakenLive ==
  ASSUME NEW q \in Seq(Frames), Complete(q), NEW types,
         "bad" \notin types, Taken(q).type \in types
  PROVE  /\ 1 \in Live(q, types) /\ Taken(q) = q[1] /\ Taken(q) \in Frames
         /\ First(q) = 1
BY ReadFifo DEF Live

\* What arrives leaves the valid frames of the FIFO alone and adds itself
\* behind them at most: damage and overflow make no valid frame.
LEMMA ArriveLive ==
  ASSUME NEW q \in Seq(Frames), NEW f \in Frames, NEW cap \in Nat,
         NEW polling, NEW w, NEW types,
         "bad" \notin types, "open" \notin types
  PROVE  \A i \in Live(Arrive(q, cap, polling, f, w), types) :
           \/ /\ i \in Live(q, types)
              /\ Arrive(q, cap, polling, f, w)[i] = q[i]
           \/ /\ i = Len(q) + 1 /\ f.type \in types
              /\ Arrive(q, cap, polling, f, w)[i] = f
<1> DEFINE r == Arrive(q, cap, polling, f, w)
<1>1. CASE r = q
  BY <1>1
<1>2. ASSUME NEW g \in Frames, g = f \/ g.type \in {"bad", "open"},
             r = Append(q, g)
      PROVE  \A i \in Live(r, types) :
               \/ i \in Live(q, types) /\ r[i] = q[i]
               \/ i = Len(q) + 1 /\ f.type \in types /\ r[i] = f
  <2> HIDE DEF r
  <2> SUFFICES ASSUME NEW i \in Live(r, types)
               PROVE  \/ i \in Live(q, types) /\ r[i] = q[i]
                      \/ i = Len(q) + 1 /\ f.type \in types /\ r[i] = f
    OBVIOUS
  <2>1. Len(r) = Len(q) + 1 /\ r[Len(q) + 1] = g /\ r \in Seq(Frames)
        /\ \A j \in 1 .. Len(q) : r[j] = q[j]
    BY <1>2, AppendProperties
  <2>2. i \in 1 .. Len(q) + 1
    BY <2>1, LenProperties DEF Live
  <2>3. CASE i = Len(q) + 1
    BY <1>2, <2>1, <2>3 DEF Live
  <2>4. CASE i \in 1 .. Len(q)
    BY <2>1, <2>4, LenProperties DEF Live
  <2> QED
    BY <2>2, <2>3, <2>4, LenProperties
<1> QED
  BY <1>1, <1>2, ArriveFifo

\* The valid frames of a FIFO are among its elements.
LEMMA LiveIndex ==
  ASSUME NEW q \in Seq(Frames), NEW types
  PROVE  \A i \in Live(q, types) : i \in 1 .. Len(q) /\ q[i] \in Frames
BY LenProperties, ElementOfSeq DEF Live

\* What is on the bus is ordered by payload, and carries the present or the
\* previous sequence number according to when its payload was first sent.
LEMMA LinkInvStep ==
  ASSUME TypeOK, TypeOK', LinkInv, [Next]_vars
  PROVE  LinkInv'
<1> USE DEF LinkInv
<1> DEFINE Bus == StreamInv /\ OrderInv
<1>l. \A i \in Replies : i \in Nat /\ i <= Len(toLpc) /\ toLpc[i] \in Frames
  BY LiveIndex, LenProperties DEF Replies, TypeOK
<1>p. \A i \in Requests : i \in Nat /\ i <= Len(toPeer) /\ toPeer[i] \in Frames
  BY LiveIndex, LenProperties DEF Requests, TypeOK
<1>f. \A f \in Frames : f.pay \in Nat /\ f.seq \in 0 .. SeqMod - 1
  BY DEF Frames
<1>t. /\ base \in Nat /\ round \in Nat \ {0} /\ seq_ \in 0 .. SeqMod - 1
      /\ cur \in Frames /\ tx \in Frames
      /\ toLpc \in Seq(Frames) /\ toPeer \in Seq(Frames)
  BY DEF TypeOK, Rounds
\* The bus as it was: a round may begin, an answer may end.
<1>1. ASSUME UNCHANGED <<seq_, base, toLpc, toPeer, got>>,
             round' \in {round, round + 1},
             Answering' => Answering /\ cur' = cur
      PROVE  Bus'
  BY <1>1, <1>l, <1>p, <1>f, <1>t
  DEF StreamInv, OrderInv, OnWay, Replies, Requests, Live
\* The LPC has put a frame on the wire.
<1>2. ASSUME UNCHANGED <<seq_, base, round, toLpc, ppc, cur, got>>,
             tx.type = "DATA" => tx = Data(seq_, round) /\ base <= round,
             NEW w, LpcDown(w)
      PROVE  Bus'
  <2>1. \A i \in Requests' :
          \/ i \in Requests /\ toPeer'[i] = toPeer[i]
          \/ /\ i = Len(toPeer) + 1 /\ toPeer'[i] = tx
             /\ tx.pay = round /\ tx.seq = seq_ /\ base <= round
    <3>1. tx.type \in {"DATA"} =>
            tx.pay = round /\ tx.seq = seq_ /\ base <= round
      BY <1>2 DEF Data, Frame
    <3>2. toPeer' = Arrive(toPeer, PeerFifo, ppc = "idle", tx, w)
      BY <1>2 DEF LpcDown
    <3> QED
      BY <3>1, <3>2, <1>t, ArriveLive DEF Requests
  <2>2. Replies' = Replies /\ toLpc' = toLpc /\ (Answering' <=> Answering)
    BY <1>2 DEF Replies, Live, Answering
  <2>3. StreamInv'
    BY <1>2, <2>1, <2>2, <1>l, <1>p, <1>f, <1>t DEF StreamInv, OnWay
  <2>4. OrderInv'
    <3>1. \A i, j \in Requests' : i < j => toPeer'[i].pay <= toPeer'[j].pay
      <4>1. \A i \in Requests : i < Len(toPeer) + 1 /\ toPeer[i].pay <= round
        BY <1>p, <1>t DEF StreamInv, OnWay, Requests, Live
      <4>2. \A i, j \in Requests : i < j => toPeer[i].pay <= toPeer[j].pay
        BY DEF OrderInv
      <4>3. \A i \in Requests' : i \in Nat /\ i <= Len(toPeer) + 1
        BY <2>1, <1>p, <1>t, <4>1
      <4>4. ASSUME NEW i \in Requests', NEW j \in Requests', i < j
            PROVE  toPeer'[i].pay <= toPeer'[j].pay
        <5>1. CASE j = Len(toPeer) + 1 /\ toPeer'[j] = tx /\ tx.pay = round
          <6>1. i # Len(toPeer) + 1
            BY <4>3, <4>4, <5>1
          <6> QED
            BY <2>1, <4>1, <5>1, <6>1
        <5>2. CASE j \in Requests /\ toPeer'[j] = toPeer[j]
          <6>1. i # Len(toPeer) + 1
            BY <4>1, <4>3, <4>4, <5>2
          <6>2. i \in Requests /\ toPeer'[i] = toPeer[i]
            BY <2>1, <6>1
          <6> QED
            BY <4>2, <4>4, <5>2, <6>2
        <5> QED
          BY <2>1, <5>1, <5>2
      <4> QED
        BY <4>4
    <3>2. \A i \in Replies, j \in Requests' : toLpc[i].pay <= toPeer'[j].pay
      BY <2>1, <1>l, <1>p, <1>f, <1>t DEF StreamInv, OrderInv, OnWay
    <3>3. Answering => \A j \in Requests' : cur.pay <= toPeer'[j].pay
      BY <2>1, <1>p, <1>f, <1>t DEF StreamInv, OrderInv, OnWay
    <3> QED
      BY <1>2, <2>2, <3>1, <3>2, <3>3 DEF OrderInv
  <2> QED
    BY <2>3, <2>4
\* The LPC has read a frame and keeps seq_.
<1>3. ASSUME UNCHANGED <<seq_, base, round, toPeer, ppc, cur, got>>,
             Complete(toLpc), toLpc' = Rest(toLpc)
      PROVE  Bus'
  <2>1. \A i \in Replies' : /\ i \in Nat /\ i + First(toLpc) \in Replies
                            /\ toLpc'[i] = toLpc[i + First(toLpc)]
    BY <1>3, <1>t, ReadLive DEF Replies
  <2>2. First(toLpc) \in Nat
    BY <1>3, <1>t, ReadFifo
  <2>3. Requests' = Requests /\ toPeer' = toPeer /\ (Answering' <=> Answering)
    BY <1>3 DEF Requests, Live, Answering
  <2>4. StreamInv'
    BY <1>3, <2>1, <2>2, <2>3, <1>l, <1>p, <1>f, <1>t DEF StreamInv, OnWay
  <2>5. OrderInv'
    <3>1. \A i, j \in Replies' : i < j => toLpc'[i].pay <= toLpc'[j].pay
      BY <2>1, <2>2 DEF OrderInv
    <3>2. \A i \in Replies', j \in Requests : toLpc'[i].pay <= toPeer[j].pay
      BY <2>1 DEF OrderInv
    <3>3. Answering => \A i \in Replies' : toLpc'[i].pay <= cur.pay
      BY <2>1 DEF OrderInv
    <3> QED
      BY <1>3, <2>3, <3>1, <3>2, <3>3 DEF OrderInv
  <2> QED
    BY <2>4, <2>5
\* The LPC has given up waiting.
<1>4. ASSUME UNCHANGED <<seq_, base, round, toPeer, ppc, cur, got>>,
             toLpc' = <<>>
      PROVE  Bus'
  <2>1. Replies' = {}
    BY <1>4 DEF Replies, Live
  <2>2. Requests' = Requests /\ toPeer' = toPeer /\ (Answering' <=> Answering)
    BY <1>4 DEF Requests, Live, Answering
  <2> QED
    BY <1>4, <2>1, <2>2, <1>p, <1>f, <1>t DEF StreamInv, OrderInv, OnWay
\* The responder has read a frame it does not answer with an echo.
<1>5. ASSUME UNCHANGED <<seq_, base, round, toLpc, got>>, ~Answering',
             Complete(toPeer), toPeer' = Rest(toPeer)
      PROVE  Bus'
  <2>1. \A i \in Requests' : /\ i \in Nat /\ i + First(toPeer) \in Requests
                             /\ toPeer'[i] = toPeer[i + First(toPeer)]
    BY <1>5, <1>t, ReadLive DEF Requests
  <2>2. First(toPeer) \in Nat
    BY <1>5, <1>t, ReadFifo
  <2>3. Replies' = Replies /\ toLpc' = toLpc
    BY <1>5 DEF Replies, Live
  <2>4. StreamInv'
    <3>1. \A i \in Requests' : toPeer'[i].pay \in 1 .. round
            /\ (toPeer'[i].pay >= base => toPeer'[i].seq = seq_)
            /\ (toPeer'[i].pay < base => NextSeq(toPeer'[i].seq) = seq_)
      BY <2>1 DEF StreamInv, OnWay
    <3>2. \A i \in Replies : toLpc[i].pay \in 1 .. round /\ toLpc[i].pay \in got
            /\ (toLpc[i].pay >= base => toLpc[i].seq = seq_)
            /\ (toLpc[i].pay < base => NextSeq(toLpc[i].seq) = seq_)
      BY DEF StreamInv, OnWay
    <3> QED
      BY <1>5, <2>3, <3>1, <3>2 DEF StreamInv, OnWay
  <2>5. OrderInv'
    <3>1. \A i, j \in Requests' : i < j => toPeer'[i].pay <= toPeer'[j].pay
      BY <2>1, <2>2 DEF OrderInv
    <3>2. \A i \in Replies, j \in Requests' : toLpc[i].pay <= toPeer'[j].pay
      BY <2>1 DEF OrderInv
    <3> QED
      BY <1>5, <2>3, <3>1, <3>2 DEF OrderInv
  <2> QED
    BY <2>4, <2>5
\* The responder has put f on the wire: a frame of the payload it answers,
\* or one that is neither an ACK nor an echo.
<1>6. ASSUME UNCHANGED <<seq_, base, round, toPeer, got>>,
             Answering' => Answering /\ cur' = cur,
             NEW f \in Frames, NEW w, PeerDown(f, w),
             f.type \in {"ACK", "DATA"} =>
               Answering /\ f.pay = cur.pay /\ f.seq = cur.seq
      PROVE  Bus'
  <2>1. \A i \in Replies' :
          \/ i \in Replies /\ toLpc'[i] = toLpc[i]
          \/ /\ i = Len(toLpc) + 1 /\ toLpc'[i] = f
             /\ Answering /\ f.pay = cur.pay /\ f.seq = cur.seq
    BY <1>6, <1>t, ArriveLive DEF PeerDown, Replies
  <2>2. Requests' = Requests /\ toPeer' = toPeer
    BY <1>6 DEF Requests, Live
  <2>3. StreamInv'
    <3>1. \A i \in Replies' : toLpc'[i].pay \in 1 .. round /\ toLpc'[i].pay \in got
            /\ (toLpc'[i].pay >= base => toLpc'[i].seq = seq_)
            /\ (toLpc'[i].pay < base => NextSeq(toLpc'[i].seq) = seq_)
      BY <2>1 DEF StreamInv, OnWay
    <3>2. \A i \in Requests : toPeer[i].pay \in 1 .. round
            /\ (toPeer[i].pay >= base => toPeer[i].seq = seq_)
            /\ (toPeer[i].pay < base => NextSeq(toPeer[i].seq) = seq_)
      BY DEF StreamInv, OnWay
    <3>3. Answering' => /\ cur'.type = "DATA" /\ cur'.pay \in 1 .. round /\ cur'.pay \in got
                        /\ (cur'.pay >= base => cur'.seq = seq_)
                        /\ (cur'.pay < base => NextSeq(cur'.seq) = seq_)
      BY <1>6 DEF StreamInv, OnWay
    <3> QED
      BY <1>6, <2>2, <3>1, <3>2, <3>3 DEF StreamInv, OnWay
  <2>4. OrderInv'
    <3>1. \A i, j \in Replies' : i < j => toLpc'[i].pay <= toLpc'[j].pay
      BY <2>1, <1>l, <1>f, <1>t DEF OrderInv
    <3>2. \A i \in Replies', j \in Requests : toLpc'[i].pay <= toPeer[j].pay
      BY <2>1 DEF OrderInv
    <3>3. Answering => \A i \in Replies' : toLpc'[i].pay <= cur.pay
      BY <2>1, <1>f, <1>t DEF OrderInv
    <3> QED
      BY <1>6, <2>2, <3>1, <3>2, <3>3 DEF OrderInv
  <2> QED
    BY <2>3, <2>4
\* The LPC has read the ACK it waits for: seq_ moves on.
<1>7. ASSUME WaitForAck, Acknowledges(Taken(toLpc))
      PROVE  Bus'
  <2>1. /\ 1 \in Replies /\ First(toLpc) = 1
        /\ toLpc[1].seq = seq_ /\ toLpc[1].pay \in Nat
    BY <1>7, <1>t, <1>f, TakenLive DEF WaitForAck, Acknowledges, Replies
  <2>2. base <= toLpc[1].pay
    <3>1. NextSeq(seq_) # seq_
      BY <1>t DEF NextSeq
    <3> QED
      BY <2>1, <3>1, <1>t DEF StreamInv, OnWay
  <2>3. \A i \in Replies' : /\ i \in Nat /\ i + 1 \in Replies
                            /\ toLpc'[i] = toLpc[i + 1]
    BY <1>7, <2>1, <1>t, ReadLive DEF WaitForAck, Replies
  <2>4. /\ seq_' = NextSeq(seq_) /\ base' = round + 1 /\ round' = round
        /\ UNCHANGED <<toPeer, ppc, cur, got>>
        /\ Requests' = Requests /\ (Answering' <=> Answering)
    BY <1>7 DEF WaitForAck, peer, Requests, Live, Answering
  \* Nothing behind the ACK is older than the ACK.
  <2> DEFINE Old(f) == f.pay \in 1 .. round /\ NextSeq(f.seq) = seq_'
  <2>5. ASSUME NEW f \in Frames, OnWay(f), toLpc[1].pay <= f.pay
        PROVE  Old(f)
    BY <2>1, <2>2, <2>4, <2>5, <1>f, <1>t DEF OnWay
  <2>6. \A i \in Replies' : Old(toLpc[i + 1]) /\ toLpc[i + 1].pay \in got
    <3> SUFFICES ASSUME NEW i \in Replies'
                 PROVE  Old(toLpc[i + 1]) /\ toLpc[i + 1].pay \in got
      OBVIOUS
    <3>1. i \in Nat /\ i + 1 \in Replies /\ toLpc[i + 1] \in Frames
      BY <2>3, <1>l
    <3>2. i # 0
      BY <1>7, <1>t, ReadFifo, LenProperties DEF WaitForAck, Replies, Live
    <3>3. toLpc[1].pay <= toLpc[i + 1].pay
      BY <2>1, <3>1, <3>2 DEF OrderInv
    <3> QED
      BY <2>5, <3>1, <3>3 DEF StreamInv
  <2>7. Answering => Old(cur)
    BY <2>1, <2>5, <1>t DEF StreamInv, OrderInv
  <2>8. \A i \in Requests : Old(toPeer[i])
    BY <2>1, <2>5, <1>p DEF StreamInv, OrderInv
  <2>9. StreamInv'
    <3>1. \A f \in Frames : Old(f) => /\ f.pay \in 1 .. round'
                                      /\ ~ (f.pay >= base')
                                      /\ NextSeq(f.seq) = seq_'
      BY <2>4, <1>f, <1>t
    <3>2. \A i \in Replies' : toLpc'[i] \in Frames
      BY <2>3, <1>l
    <3>3. cur.type = "DATA" \/ ~ Answering
      BY DEF StreamInv
    <3> HIDE DEF Old
    <3> QED
      BY <2>3, <2>4, <2>6, <2>7, <2>8, <3>1, <3>2, <3>3, <1>p, <1>t
      DEF StreamInv, OnWay
  <2>10. OrderInv'
    <3>1. \A i, j \in Replies' : i < j => toLpc'[i].pay <= toLpc'[j].pay
      BY <2>3 DEF OrderInv
    <3>2. \A i \in Replies', j \in Requests : toLpc'[i].pay <= toPeer[j].pay
      BY <2>3 DEF OrderInv
    <3>3. Answering => \A i \in Replies' : toLpc'[i].pay <= cur.pay
      BY <2>3 DEF OrderInv
    <3> QED
      BY <2>4, <3>1, <3>2, <3>3 DEF OrderInv
  <2> QED
    BY <2>9, <2>10
\* The responder has taken a payload.
<1>8. ASSUME PeerData
      PROVE  Bus'
  <2> DEFINE f == Taken(toPeer)
  <2>1. 1 \in Requests /\ f = toPeer[1] /\ f \in Frames /\ First(toPeer) = 1
        /\ f.type = "DATA"
    BY <1>8, <1>t, TakenLive DEF PeerData, Requests
  <2>2. \A i \in Requests' : /\ i \in Nat /\ i + 1 \in Requests
                             /\ toPeer'[i] = toPeer[i + 1]
    BY <1>8, <2>1, <1>t, ReadLive DEF PeerData, Requests
  <2>3. \A i \in Requests' : i # 0
    BY <1>8, <1>t, ReadFifo, LenProperties DEF PeerData, Requests, Live
  <2>4. /\ UNCHANGED <<seq_, base, round, toLpc>> /\ Replies' = Replies
        /\ cur' = f /\ got' = got \cup {f.pay}
    BY <1>8 DEF PeerData, PeerUp, Replies, Live
  <2> HIDE DEF f
  <2>5. StreamInv'
    <3>1. \A i \in Requests' : OnWay(toPeer[i + 1])
      BY <2>2 DEF StreamInv
    <3>2. OnWay(f)
      BY <2>1 DEF StreamInv
    <3> QED
      BY <2>1, <2>2, <2>4, <3>1, <3>2 DEF StreamInv, OnWay
  <2>6. OrderInv'
    <3>1. \A i, j \in Requests' : i < j => toPeer'[i].pay <= toPeer'[j].pay
      BY <2>2 DEF OrderInv
    <3>2. \A i \in Replies, j \in Requests' : toLpc[i].pay <= toPeer'[j].pay
      BY <2>2 DEF OrderInv
    <3>3. \A i \in Replies : toLpc[i].pay <= f.pay
      BY <2>1 DEF OrderInv
    <3>4. \A j \in Requests' : f.pay <= toPeer'[j].pay
      BY <2>1, <2>2, <2>3 DEF OrderInv
    <3> QED
      BY <2>4, <3>1, <3>2, <3>3, <3>4 DEF OrderInv
  <2> QED
    BY <2>5, <2>6
\* Where rs485_task is, against what it sends.
<1>9. TaskInv'
  <2> USE <1>t DEF TaskInv
  <2>1. NextAttempt => pc' \in {"send", "recv"}
    BY DEF NextAttempt
  <2>2. CASE SendRaw
    BY <2>2 DEF SendRaw, LpcUp
  <2>3. CASE SendRawDone
    BY <2>3 DEF SendRawDone
  <2>4. CASE SendRawTimeout
    BY <2>4, <2>1 DEF SendRawTimeout
  <2>5. CASE WaitForAck
    BY <2>5, <2>1 DEF WaitForAck
  <2>6. CASE AckTimeout
    BY <2>6, <2>1 DEF AckTimeout
  <2>7. CASE RecvData
    BY <2>7 DEF RecvData, LpcUp, Ack, Frame
  <2>8. CASE RecvCorrupt
    BY <2>8 DEF RecvCorrupt, LpcUp, Nack, Frame
  <2>9. CASE RecvOther \/ RecvTimeout \/ CtrlDone
    BY <2>9 DEF RecvOther, RecvTimeout, CtrlDone
  <2>10. CASE NextRound
    BY <2>10 DEF NextRound
  <2>11. CASE PeerData \/ PeerCorrupt \/ PeerIgnore
    BY <2>11 DEF PeerData, PeerCorrupt, PeerIgnore, lpc
  <2>12. CASE PeerAckDone \/ PeerReplyDone \/ PeerWake
    BY <2>12 DEF PeerAckDone, PeerReplyDone, PeerWake, lpc
  <2>13. CASE UNCHANGED vars
    BY <2>13 DEF vars
  <2> QED
    BY <2>2, <2>3, <2>4, <2>5, <2>6, <2>7, <2>8, <2>9, <2>10, <2>11, <2>12,
       <2>13 DEF Next, LpcNext, PeerNext, BoundReached
<1>10. Bus'
  <2> HIDE DEF Bus
  <2>1. CASE SendRaw \/ NextRound \/ PeerWake \/ UNCHANGED vars
    BY <2>1, <1>1 DEF SendRaw, NextRound, PeerWake, lpc, peer, vars, Answering
  <2>2. CASE SendRawDone \/ SendRawTimeout \/ CtrlDone
    <3>1. tx.type = "DATA" => tx = Data(seq_, round) /\ base <= round
      BY <2>2 DEF SendRawDone, SendRawTimeout, CtrlDone, TaskInv
    <3>2. UNCHANGED <<seq_, base, round, toLpc, ppc, cur, got>>
      BY <2>2 DEF SendRawDone, SendRawTimeout, CtrlDone, peer
    <3>3. PICK w : LpcDown(w)
      BY <2>2 DEF SendRawDone, SendRawTimeout, CtrlDone
    <3> QED
      BY <3>1, <3>2, <3>3, <1>2
  <2>3. CASE WaitForAck
    BY <2>3, <1>3, <1>7 DEF WaitForAck, peer
  <2>4. CASE AckTimeout \/ RecvTimeout
    BY <2>4, <1>4 DEF AckTimeout, RecvTimeout, peer
  <2>5. CASE RecvData \/ RecvCorrupt \/ RecvOther
    BY <2>5, <1>3 DEF RecvData, RecvCorrupt, RecvOther, peer
  <2>6. CASE PeerData
    BY <2>6, <1>8
  <2>7. CASE PeerCorrupt \/ PeerIgnore
    BY <2>7, <1>5 DEF PeerCorrupt, PeerIgnore, PeerUp, lpc, peer, Answering
  <2>8. CASE PeerAckDone
    <3>1. /\ Ack(cur.seq, cur.pay) \in Frames
          /\ Ack(cur.seq, cur.pay).pay = cur.pay
          /\ Ack(cur.seq, cur.pay).seq = cur.seq
      BY <1>t, FrameConstructors DEF Ack, Frame, Frames
    <3>2. /\ UNCHANGED <<seq_, base, round, toPeer, got>>
          /\ Answering /\ cur' = cur
      BY <2>8 DEF PeerAckDone, PeerUp, Answering
    <3>3. PICK w : PeerDown(Ack(cur.seq, cur.pay), w)
      BY <2>8 DEF PeerAckDone
    <3> QED
      BY <3>1, <3>2, <3>3, <1>6
  <2>9. CASE PeerReplyDone
    <3> DEFINE f == IF ppc = "data" THEN cur ELSE Nack
    <3>1. f \in Frames /\ (f.type \in {"ACK", "DATA"} =>
                             Answering /\ f.pay = cur.pay /\ f.seq = cur.seq)
      BY <1>t, FrameConstructors DEF Nack, Frame, Answering
    <3>2. UNCHANGED <<seq_, base, round, toPeer, got>> /\ ~Answering'
      BY <2>9 DEF PeerReplyDone, lpc, Answering
    <3>3. PICK w : PeerDown(f, w)
      BY <2>9 DEF PeerReplyDone
    <3> HIDE DEF f
    <3> QED
      BY <3>1, <3>2, <3>3, <1>6
  <2> QED
    BY <2>1, <2>2, <2>3, <2>4, <2>5, <2>6, <2>7, <2>8, <2>9
    DEF Next, LpcNext, PeerNext, BoundReached
<1> QED
  BY <1>9, <1>10

\* Replies and requests stay ordered and tagged in every behaviour.
THEOREM LinkInvariant == Spec => []LinkInv
<1>1. Init => LinkInv
  BY DEF Init, LinkInv, TaskInv, StreamInv, OrderInv, Replies, Requests, Live,
         Answering
<1>2. TypeOK /\ TypeOK' /\ LinkInv /\ [Next]_vars => LinkInv'
  BY LinkInvStep
<1> QED
  BY <1>1, <1>2, TypeCorrect, PTL DEF Spec

\* seq_ moves on only when the responder has taken a payload sent under it:
\* over FIFO wires two sequence numbers are enough to tell an ACK that is
\* late or repeated from the one send_frame waits for.
THEOREM AckSoundness == Spec => AckSound
<1>1. ASSUME TypeOK, LinkInv, [Next]_vars
      PROVE  [seq_' # seq_ => got \cap (base .. round) # {}]_vars
  <2> SUFFICES ASSUME Next, seq_' # seq_
               PROVE  got \cap (base .. round) # {}
    BY <1>1 DEF vars
  <2>1. WaitForAck /\ Acknowledges(Taken(toLpc))
    BY DEF Next, LpcNext, PeerNext, BoundReached, vars, lpc, SendRaw,
           SendRawDone, SendRawTimeout, WaitForAck, AckTimeout, RecvData,
           RecvCorrupt, RecvOther, RecvTimeout, CtrlDone, NextRound, PeerData,
           PeerCorrupt, PeerIgnore, PeerAckDone, PeerReplyDone, PeerWake
  <2>2. /\ toLpc \in Seq(Frames) /\ seq_ \in 0 .. SeqMod - 1
        /\ base \in Nat /\ round \in Nat
    BY <1>1 DEF TypeOK, Rounds
  <2> DEFINE f == toLpc[1]
  <2>3. 1 \in Replies /\ f \in Frames /\ f.seq = seq_
    BY <2>1, <2>2, TakenLive DEF WaitForAck, Acknowledges, Replies
  <2>4. OnWay(f) /\ f.pay \in got
    BY <1>1, <2>3 DEF LinkInv, StreamInv
  <2>5. NextSeq(seq_) # seq_
    BY <2>2 DEF NextSeq
  <2>6. f.pay \in base .. round
    BY <2>2, <2>3, <2>4, <2>5 DEF OnWay
  <2> QED
    BY <2>4, <2>6
<1> QED
  BY <1>1, TypeCorrect, LinkInvariant, PTL DEF Spec, AckSound


-----------------------------------------------------------------------------
(* The refinement of Transfer.  The inductive invariant is TransferInv, on *)
(* top of LinkInv: the payloads taken are no younger than any request      *)
(* still on the bus, and the last echo no younger than any reply still on  *)
(* the bus.                                                                *)

\* One step of either end keeps what was taken behind the requests, and what
\* was echoed behind the replies.
LEMMA TransferInvStep ==
  ASSUME TypeOK, TypeOK', LinkInv, TransferInv, [Next]_vars
  PROVE  TransferInv'
<1>l. \A i \in Replies : i \in Nat /\ i <= Len(toLpc) /\ toLpc[i] \in Frames
  BY LiveIndex, LenProperties DEF Replies, TypeOK
<1>p. \A i \in Requests : i \in Nat /\ i <= Len(toPeer) /\ toPeer[i] \in Frames
  BY LiveIndex, LenProperties DEF Requests, TypeOK
<1>f. \A f \in Frames : f.pay \in Nat
  BY DEF Frames
<1>t. /\ round \in Nat \ {0} /\ echo \in Nat /\ got \subseteq Nat
      /\ cur \in Frames /\ tx \in Frames
      /\ toLpc \in Seq(Frames) /\ toPeer \in Seq(Frames)
  BY DEF TypeOK, Rounds
\* The bus as it was.
<1>1. ASSUME UNCHANGED <<toLpc, toPeer, got, echo>>,
             round' \in {round, round + 1},
             Answering' => Answering /\ cur' = cur,
             InHand' => InHand /\ tx' = tx
      PROVE  TransferInv'
  <2>1. Replies' = Replies /\ Requests' = Requests
    BY <1>1 DEF Replies, Requests, Live
  <2>2. TakenInv'
    BY <1>1, <2>1, <1>t DEF TransferInv, TakenInv
  <2>3. EchoInv'
    BY <1>1, <2>1 DEF TransferInv, EchoInv
  <2> QED
    BY <2>2, <2>3 DEF TransferInv
\* The LPC has put a frame on the wire; behind its ACK the echo is handed over.
<1>2. ASSUME UNCHANGED <<round, toLpc, ppc, cur, got>>, ~InHand',
             tx.type = "DATA" => tx.pay = round,
             echo' = echo \/ (InHand /\ echo' = tx.pay),
             NEW w, LpcDown(w)
      PROVE  TransferInv'
  <2>1. \A i \in Requests' :
          \/ i \in Requests /\ toPeer'[i] = toPeer[i]
          \/ toPeer'[i].pay = round
    <3>1. toPeer' = Arrive(toPeer, PeerFifo, ppc = "idle", tx, w)
      BY <1>2 DEF LpcDown
    <3> QED
      BY <3>1, <1>2, <1>t, ArriveLive DEF Requests
  <2>2. Replies' = Replies /\ (Answering' <=> Answering)
    BY <1>2 DEF Replies, Live, Answering
  <2>3. TakenInv'
    BY <1>2, <2>1, <2>2, <1>t DEF TransferInv, TakenInv
  <2>4. EchoInv'
    BY <1>2, <2>2 DEF TransferInv, EchoInv
  <2> QED
    BY <2>3, <2>4 DEF TransferInv
\* The LPC has read a frame that is no DATA frame, or one it may hand over.
<1>3. ASSUME UNCHANGED <<round, toPeer, ppc, cur, got, echo>>,
             Complete(toLpc), toLpc' = Rest(toLpc),
             InHand' => /\ Taken(toLpc).type = "DATA"
                        /\ tx'.pay = Taken(toLpc).pay
      PROVE  TransferInv'
  <2>1. \A i \in Replies' : /\ i \in Nat /\ i + First(toLpc) \in Replies
                            /\ toLpc'[i] = toLpc[i + First(toLpc)]
    BY <1>3, <1>t, ReadLive DEF Replies
  <2>2. Requests' = Requests /\ (Answering' <=> Answering)
    BY <1>3 DEF Requests, Live, Answering
  <2>3. TakenInv'
    BY <1>3, <2>2 DEF TransferInv, TakenInv
  <2>4. InHand' => /\ 1 \in Replies /\ First(toLpc) = 1
                   /\ tx'.pay = toLpc[1].pay
    BY <1>3, <1>t, TakenLive DEF Replies
  <2>5. \A i \in Replies' : i # 0
    BY <1>3, <1>t, ReadFifo, LenProperties DEF Replies, Live
  <2>6. InHand' => /\ tx'.pay \in got /\ echo <= tx'.pay
                   /\ \A i \in Replies' : tx'.pay <= toLpc'[i].pay
                   /\ Answering => tx'.pay <= cur.pay
    <3> SUFFICES ASSUME InHand'
                 PROVE  /\ tx'.pay \in got /\ echo <= tx'.pay
                        /\ \A i \in Replies' : tx'.pay <= toLpc'[i].pay
                        /\ Answering => tx'.pay <= cur.pay
      OBVIOUS
    <3>1. tx'.pay \in got
      BY <2>4 DEF LinkInv, StreamInv
    <3>2. echo <= tx'.pay
      BY <2>4 DEF TransferInv, EchoInv
    <3>3. \A i \in Replies' : tx'.pay <= toLpc'[i].pay
      BY <2>1, <2>4, <2>5 DEF LinkInv, OrderInv
    <3>4. Answering => tx'.pay <= cur.pay
      BY <2>4 DEF LinkInv, OrderInv
    <3> QED
      BY <3>1, <3>2, <3>3, <3>4
  <2>7. \A i \in Replies' : echo <= toLpc'[i].pay
    BY <2>1 DEF TransferInv, EchoInv
  <2>8. EchoInv'
    BY <1>3, <2>2, <2>6, <2>7 DEF TransferInv, EchoInv
  <2> QED
    BY <2>3, <2>8 DEF TransferInv
\* The LPC has given up waiting.
<1>4. ASSUME UNCHANGED <<round, toPeer, ppc, cur, got, echo>>, ~InHand',
             toLpc' = <<>>
      PROVE  TransferInv'
  <2>1. /\ Replies' = {} /\ Requests' = Requests
        /\ (Answering' <=> Answering)
    BY <1>4 DEF Replies, Requests, Live, Answering
  <2>2. TakenInv'
    BY <1>4, <2>1 DEF TransferInv, TakenInv
  <2>3. EchoInv'
    BY <1>4, <2>1 DEF TransferInv, EchoInv
  <2> QED
    BY <2>2, <2>3 DEF TransferInv
\* The responder has read a frame it does not answer with an echo.
<1>5. ASSUME UNCHANGED <<round, toLpc, got, echo>>, ~Answering',
             InHand' => InHand /\ tx' = tx,
             Complete(toPeer), toPeer' = Rest(toPeer)
      PROVE  TransferInv'
  <2>1. \A i \in Requests' : /\ i \in Nat /\ i + First(toPeer) \in Requests
                             /\ toPeer'[i] = toPeer[i + First(toPeer)]
    BY <1>5, <1>t, ReadLive DEF Requests
  <2>2. Replies' = Replies
    BY <1>5 DEF Replies, Live
  <2>3. TakenInv'
    BY <1>5, <2>1 DEF TransferInv, TakenInv
  <2>4. EchoInv'
    BY <1>5, <2>2 DEF TransferInv, EchoInv
  <2> QED
    BY <2>3, <2>4 DEF TransferInv
\* The responder has put f on the wire.
<1>6. ASSUME UNCHANGED <<round, toPeer, got, echo>>,
             Answering' => Answering /\ cur' = cur,
             InHand' => InHand /\ tx' = tx,
             NEW f \in Frames, NEW w, PeerDown(f, w),
             f.type \in {"ACK", "DATA"} => Answering /\ f.pay = cur.pay
      PROVE  TransferInv'
  <2>1. \A i \in Replies' :
          \/ i \in Replies /\ toLpc'[i] = toLpc[i]
          \/ Answering /\ toLpc'[i].pay = cur.pay
    BY <1>6, <1>t, ArriveLive DEF PeerDown, Replies
  <2>2. Requests' = Requests
    BY <1>6 DEF Requests, Live
  <2>3. TakenInv'
    BY <1>6, <2>2 DEF TransferInv, TakenInv
  <2>4. EchoInv'
    BY <1>6, <2>1 DEF TransferInv, EchoInv
  <2> QED
    BY <2>3, <2>4 DEF TransferInv
\* The responder has taken a payload: it was the oldest request.
<1>7. ASSUME PeerData
      PROVE  TransferInv'
  <2> DEFINE f == Taken(toPeer)
  <2>1. 1 \in Requests /\ f = toPeer[1] /\ f \in Frames /\ First(toPeer) = 1
    BY <1>7, <1>t, TakenLive DEF PeerData, Requests
  <2>2. \A i \in Requests' : /\ i \in Nat /\ i + 1 \in Requests /\ i # 0
                             /\ toPeer'[i] = toPeer[i + 1]
    <3>1. \A i \in Requests' : /\ i \in Nat /\ i + 1 \in Requests
                               /\ toPeer'[i] = toPeer[i + 1]
      BY <1>7, <2>1, <1>t, ReadLive DEF PeerData, Requests
    <3>2. \A i \in Requests' : i # 0
      BY <1>7, <1>t, ReadFifo, LenProperties DEF PeerData, Requests, Live
    <3> QED
      BY <3>1, <3>2
  <2>3. /\ UNCHANGED <<round, toLpc, echo, pc, tx>> /\ Replies' = Replies
        /\ cur' = f /\ got' = got \cup {f.pay}
    BY <1>7 DEF PeerData, PeerUp, Replies, Live
  <2> HIDE DEF f
  <2>4. /\ f.pay \in 1 .. round
        /\ \A g \in got : g <= f.pay
        /\ \A j \in Requests' : f.pay <= toPeer'[j].pay
    <3>1. f.pay \in 1 .. round
      BY <2>1 DEF LinkInv, StreamInv, OnWay
    <3>2. \A g \in got : g <= f.pay
      BY <2>1 DEF TransferInv, TakenInv
    <3>3. \A j \in Requests' : f.pay <= toPeer'[j].pay
      BY <2>1, <2>2 DEF LinkInv, OrderInv
    <3> QED
      BY <3>1, <3>2, <3>3
  <2>5. TakenInv'
    <3>1. \A g \in got, j \in Requests' : g <= toPeer'[j].pay
      BY <2>2 DEF TransferInv, TakenInv
    <3>2. got \subseteq 1 .. round
      BY DEF TransferInv, TakenInv
    <3>3. got' \subseteq 1 .. round'
      BY <2>3, <2>4, <3>2
    <3>4. \A g \in got' : g <= f.pay
      BY <2>3, <2>4
    <3>5. \A g \in got', j \in Requests' : g <= toPeer'[j].pay
      BY <2>3, <2>4, <3>1
    <3> QED
      BY <2>3, <3>3, <3>4, <3>5 DEF TakenInv
  <2>6. EchoInv'
    <3>1. echo \in got \cup {0} /\ echo <= f.pay
      BY <2>4, <1>t DEF TransferInv, EchoInv
    <3>2. InHand => tx.pay \in got /\ tx.pay <= f.pay
      BY <2>4 DEF TransferInv, EchoInv
    <3>3. InHand' <=> InHand
      BY <2>3 DEF InHand
    <3> QED
      BY <2>3, <3>1, <3>2, <3>3 DEF TransferInv, EchoInv
  <2> QED
    BY <2>5, <2>6 DEF TransferInv
<1>8. CASE SendRaw \/ NextRound \/ PeerWake \/ UNCHANGED vars
  BY <1>8, <1>1
  DEF SendRaw, NextRound, PeerWake, lpc, peer, vars, Answering, InHand
<1>9. CASE SendRawDone \/ SendRawTimeout \/ CtrlDone
  <2>1. tx.type = "DATA" => tx.pay = round
    BY <1>9 DEF SendRawDone, SendRawTimeout, CtrlDone, LinkInv, TaskInv, Data,
                Frame
  <2>2. UNCHANGED <<round, toLpc, ppc, cur, got>>
    BY <1>9 DEF SendRawDone, SendRawTimeout, CtrlDone, peer
  <2>3. ~InHand' /\ (echo' = echo \/ (InHand /\ echo' = tx.pay))
    BY <1>9 DEF SendRawDone, SendRawTimeout, CtrlDone, NextAttempt, InHand
  <2>4. PICK w : LpcDown(w)
    BY <1>9 DEF SendRawDone, SendRawTimeout, CtrlDone
  <2> QED
    BY <2>1, <2>2, <2>3, <2>4, <1>2
<1>10. CASE WaitForAck \/ RecvCorrupt \/ RecvOther
  <2>1. ~InHand'
    BY <1>10 DEF WaitForAck, NextAttempt, RecvCorrupt, LpcUp, Nack, Frame,
                 RecvOther, InHand
  <2> QED
    BY <1>10, <2>1, <1>3 DEF WaitForAck, RecvCorrupt, RecvOther, peer
<1>11. CASE RecvData
  <2>1. tx'.pay = Taken(toLpc).pay
    BY <1>11 DEF RecvData, LpcUp, Ack, Frame
  <2> QED
    BY <1>11, <2>1, <1>3 DEF RecvData, peer
<1>12. CASE AckTimeout \/ RecvTimeout
  BY <1>12, <1>4 DEF AckTimeout, RecvTimeout, NextAttempt, peer, InHand
<1>13. CASE PeerData
  BY <1>13, <1>7
<1>14. CASE PeerCorrupt \/ PeerIgnore
  BY <1>14, <1>5
  DEF PeerCorrupt, PeerIgnore, PeerUp, lpc, peer, Answering, InHand
<1>15. CASE PeerAckDone
  <2>1. Ack(cur.seq, cur.pay) \in Frames /\ Ack(cur.seq, cur.pay).pay = cur.pay
    BY <1>t, FrameConstructors DEF Ack, Frame, Frames
  <2>2. /\ UNCHANGED <<round, toPeer, got, echo, pc, tx>>
        /\ Answering /\ cur' = cur
    BY <1>15 DEF PeerAckDone, PeerUp, Answering
  <2>3. PICK w : PeerDown(Ack(cur.seq, cur.pay), w)
    BY <1>15 DEF PeerAckDone
  <2> QED
    BY <2>1, <2>2, <2>3, <1>6 DEF InHand
<1>16. CASE PeerReplyDone
  <2> DEFINE f == IF ppc = "data" THEN cur ELSE Nack
  <2>1. f \in Frames
        /\ (f.type \in {"ACK", "DATA"} => Answering /\ f.pay = cur.pay)
    BY <1>t, FrameConstructors DEF Nack, Frame, Answering
  <2>2. UNCHANGED <<round, toPeer, got, echo, pc, tx>> /\ ~Answering'
    BY <1>16 DEF PeerReplyDone, lpc, Answering
  <2>3. PICK w : PeerDown(f, w)
    BY <1>16 DEF PeerReplyDone
  <2> HIDE DEF f
  <2> QED
    BY <2>1, <2>2, <2>3, <1>6 DEF InHand
<1> QED
  BY <1>8, <1>9, <1>10, <1>11, <1>12, <1>13, <1>14, <1>15, <1>16
  DEF Next, LpcNext, PeerNext, BoundReached

\* What was taken and what was echoed stay behind what is on the bus, in
\* every behaviour of the link.
THEOREM TransferInvariant == Spec => []TransferInv
<1>1. Init => TransferInv
  BY DEF Init, TransferInv, TakenInv, EchoInv, Requests, Replies, Live,
         Answering, InHand
<1>2. TypeOK /\ TypeOK' /\ LinkInv /\ TransferInv /\ [Next]_vars
        => TransferInv'
  BY TransferInvStep
<1> QED
  BY <1>1, <1>2, TypeCorrect, LinkInvariant, PTL DEF Spec

-----------------------------------------------------------------------------
(* The simulation                                                          *)

\* Each step of the link is a step of Transfer or none: a new round offers a
\* payload, a valid DATA frame takes one, an accepted ACK confirms, and the
\* end of recv_frame's ACK returns an echo.
LEMMA TransferStep ==
  ASSUME TypeOK, LinkInv, TransferInv, [Next]_vars
  PROVE  [Promise!TransferNext]_(Promise!transferVars)
<1> USE DEF Promise!transferVars, Promise!TransferNext
<1>t. /\ round \in Nat /\ toLpc \in Seq(Frames) /\ toPeer \in Seq(Frames)
      /\ base \in Nat /\ seq_ \in 0 .. SeqMod - 1
  BY DEF TypeOK, Rounds
<1>1. CASE NextRound
  BY <1>1 DEF NextRound, Promise!Offer
<1>2. CASE PeerData
  <2> DEFINE p == Taken(toPeer).pay
  <2>1. 1 \in Requests /\ Taken(toPeer) = toPeer[1]
    BY <1>2, <1>t, TakenLive DEF PeerData, Requests
  <2>2. p \in 1 .. round
    BY <2>1 DEF LinkInv, StreamInv, OnWay
  <2>3. \A g \in got : g <= p
    BY <2>1 DEF TransferInv, TakenInv
  <2>4. Promise!Take(p)
    BY <1>2, <2>3 DEF PeerData, Promise!Take
  <2> QED
    BY <2>2, <2>4
<1>3. CASE WaitForAck
  <2>1. CASE Acknowledges(Taken(toLpc))
    <3> DEFINE f == toLpc[1]
    <3>1. 1 \in Replies /\ f \in Frames /\ f.seq = seq_
      BY <1>3, <2>1, <1>t, TakenLive DEF WaitForAck, Acknowledges, Replies
    <3>2. OnWay(f) /\ f.pay \in got
      BY <3>1 DEF LinkInv, StreamInv
    <3>3. NextSeq(seq_) # seq_
      BY <1>t DEF NextSeq
    <3>4. f.pay \in base .. round
      BY <3>1, <3>2, <3>3, <1>t DEF OnWay
    <3>5. Promise!Confirm
      BY <1>3, <2>1, <3>2, <3>4 DEF WaitForAck, Promise!Confirm
    <3> QED
      BY <3>5
  <2>2. CASE ~Acknowledges(Taken(toLpc))
    BY <1>3, <2>2 DEF WaitForAck
  <2> QED
    BY <2>1, <2>2
<1>4. CASE CtrlDone
  <2>1. CASE tx.type = "ACK"
    <3>1. tx.pay \in got /\ tx.pay >= echo
      BY <1>4, <2>1, <1>t DEF CtrlDone, TransferInv, EchoInv, InHand, TypeOK,
                              Frames
    <3>2. Promise!Return(tx.pay)
      BY <1>4, <2>1, <3>1 DEF CtrlDone, Promise!Return
    <3> QED
      BY <3>1, <3>2
  <2>2. CASE tx.type # "ACK"
    BY <1>4, <2>2 DEF CtrlDone
  <2> QED
    BY <2>1, <2>2
<1>5. CASE SendRaw \/ SendRawDone \/ SendRawTimeout \/ AckTimeout
  BY <1>5 DEF SendRaw, SendRawDone, SendRawTimeout, AckTimeout
<1>6. CASE RecvData \/ RecvCorrupt \/ RecvOther \/ RecvTimeout
  BY <1>6 DEF RecvData, RecvCorrupt, RecvOther, RecvTimeout
<1>7. CASE PeerCorrupt \/ PeerIgnore \/ PeerAckDone \/ PeerReplyDone \/ PeerWake
  BY <1>7 DEF PeerCorrupt, PeerIgnore, PeerAckDone, PeerReplyDone, PeerWake, lpc
<1>8. CASE UNCHANGED vars
  BY <1>8 DEF vars
<1> QED
  BY <1>1, <1>2, <1>3, <1>4, <1>5, <1>6, <1>7, <1>8
  DEF Next, LpcNext, PeerNext, BoundReached

\* send_frame, recv_frame and the responder implement the in-order transfer
\* of payloads, for any line, FIFOs, delays and sequence space.
THEOREM Refinement == Spec => ImplementsTransfer
<1>1. Init => Promise!TransferInit
  BY DEF Init, Promise!TransferInit
<1>2. TypeOK /\ LinkInv /\ TransferInv /\ [Next]_vars
        => [Promise!TransferNext]_(Promise!transferVars)
  BY TransferStep
<1> QED
  BY <1>1, <1>2, TypeCorrect, LinkInvariant, TransferInvariant, PTL
  DEF Spec, ImplementsTransfer, Promise!TransferSpec


-----------------------------------------------------------------------------
(* Rounds without damage                                                   *)

\* An empty FIFO holds no byte.
LEMMA BytesEmpty == Bytes(<<>>) = 0
<1> DEFINE e == <<>>
           pick(s) == CHOOSE x \in s : TRUE
           sum(s, f) == IF s = {} THEN 0 ELSE LET x == pick(s) IN e[x].n + f[s \ {x}]
           fold == CHOOSE f : f = [s \in SUBSET {} |-> sum(s, f)]
<1>1. fold = [s \in SUBSET {} |-> sum(s, fold)]
  <2>1. \E f : f = [s \in SUBSET {} |-> sum(s, f)]
    <3>1. [s \in SUBSET {} |-> 0] = [s \in SUBSET {} |-> sum(s, [t \in SUBSET {} |-> 0])]
      OBVIOUS
    <3> QED
      BY <3>1
  <2> QED
    BY <2>1
<1>2. fold[{}] = 0
  BY <1>1
<1>3. DOMAIN e = {}
  OBVIOUS
<1> QED
  BY <1>2, <1>3 DEF Bytes, MapThenSumSet, MapThenFoldSet

LEMMA NoneWaiting == ~Complete(<<>>)
  BY DEF Complete, Delims

\* A FIFO with one frame in it gives that frame and is empty.
LEMMA OneWaiting ==
  ASSUME NEW f, f.type # "open"
  PROVE  Complete(<<f>>) /\ Taken(<<f>>) = f /\ Rest(<<f>>) = <<>>
<1> DEFINE q == <<f>>
<1>1. Len(q) = 1 /\ q[1] = f /\ DOMAIN q = {1}
  OBVIOUS
<1>2. Delims(q) = {1}
  BY <1>1 DEF Delims
<1>3. First(q) = 1
  BY <1>2 DEF First
<1>4. SubSeq(q, 2, 1) = <<>>
  BY SubSeqEmpty
<1> HIDE DEF q
<1>5. Complete(q) /\ Taken(q) = f /\ Rest(q) = <<>>
  BY <1>1, <1>2, <1>3, <1>4 DEF Complete, Taken, Rest
<1> QED
  BY <1>5 DEF q

\* An undamaged frame arrives whole in an empty FIFO if somebody polls it or
\* it is large enough.
LEMMA ArrivesWhole ==
  ASSUME NEW f, NEW cap \in Nat, NEW polling, f.n \in Nat \ {0},
         polling \/ f.n <= cap
  PROVE  Arrive(<<>>, cap, polling, f, "ok") = <<f>>
<1>1. Room(<<>>, cap) = cap
  BY BytesEmpty DEF Room
<1>2. Append(<<>>, f) = <<f>>
  OBVIOUS
<1>3. (polling /\ ~Complete(<<>>)) \/ f.n <= cap
  BY NoneWaiting
<1> QED
  BY <1>1, <1>2, <1>3 DEF Arrive

LEMMA FaultsStay ==
  ASSUME TypeOK, Next
  PROVE  faults' = faults \/ faults' = faults + 1
<1>1. ASSUME NEW w, NEW hit, Damage(w, hit) PROVE faults' = faults \/ faults' = faults + 1
  BY <1>1 DEF Damage
<1>2. CASE LpcNext
  <2>1. CASE SendRawDone \/ SendRawTimeout \/ CtrlDone
    BY <1>1, <2>1 DEF SendRawDone, SendRawTimeout, CtrlDone, LpcDown
  <2> QED
    BY <1>2, <2>1 DEF LpcNext, SendRaw, WaitForAck, AckTimeout, RecvData, RecvCorrupt,
       RecvOther, RecvTimeout, NextRound
<1>3. CASE PeerNext
  <2>1. CASE PeerAckDone \/ PeerReplyDone
    BY <1>1, <2>1 DEF PeerAckDone, PeerReplyDone, PeerDown
  <2> QED
    BY <1>3, <2>1 DEF PeerNext, PeerData, PeerCorrupt, PeerIgnore, PeerWake
<1> QED
  BY <1>2, <1>3 DEF Next, BoundReached, vars

\* What the stages say about FIFOs and frames, without the operators.
LEMMA CleanStep ==
  ASSUME Timely, CtrlLen <= PeerFifo, TypeOK, CleanInv, Next, faults' = 0
  PROVE  (~lpcHit') /\ (~peerHit') /\ CleanStage'
<1>1. faults = 0
  BY FaultsStay DEF TypeOK
<1>2. (~lpcHit) /\ (~peerHit) /\ CleanStage
  BY <1>1 DEF CleanInv
<1>3. \A w, hit : Damage(w, hit) /\ ~hit => w = "ok"
  BY <1>1 DEF Damage
<1>4. /\ seq_ \in 0 .. SeqMod - 1 /\ round \in Nat \ {0} /\ got \subseteq Nat
      /\ PeerFifo \in Nat /\ LpcFifo \in Nat
  BY DEF TypeOK, Rounds
<1> DEFINE Seqs == 0 .. SeqMod - 1
<1>5. \A s \in Seqs : /\ Data(s, round).type = "DATA" /\ Data(s, round).seq = s
                      /\ Data(s, round).pay = round /\ Data(s, round).n = DataLen
                      /\ Ack(s, round).type = "ACK" /\ Ack(s, round).seq = s
                      /\ Ack(s, round).pay = round /\ Ack(s, round).n = CtrlLen
  BY DEF Data, Ack, Frame
<1>6. \A s \in Seqs :
        /\ Complete(<<Data(s, round)>>) /\ Taken(<<Data(s, round)>>) = Data(s, round)
        /\ Rest(<<Data(s, round)>>) = <<>>
        /\ Complete(<<Ack(s, round)>>) /\ Taken(<<Ack(s, round)>>) = Ack(s, round)
        /\ Rest(<<Ack(s, round)>>) = <<>>
  BY <1>5, OneWaiting
<1>7. \A s \in Seqs :
        /\ \A cap \in Nat :
             /\ Arrive(<<>>, cap, TRUE, Data(s, round), "ok") = <<Data(s, round)>>
             /\ Arrive(<<>>, cap, TRUE, Ack(s, round), "ok") = <<Ack(s, round)>>
        /\ \A p \in BOOLEAN : Arrive(<<>>, PeerFifo, p, Ack(s, round), "ok") = <<Ack(s, round)>>
  <2> TAKE s \in Seqs
  <2>1. ASSUME NEW cap \in Nat
        PROVE  /\ Arrive(<<>>, cap, TRUE, Data(s, round), "ok") = <<Data(s, round)>>
               /\ Arrive(<<>>, cap, TRUE, Ack(s, round), "ok") = <<Ack(s, round)>>
    <3>1. Data(s, round).n \in Nat \ {0} /\ Ack(s, round).n \in Nat \ {0}
      BY <1>5
    <3> QED
      BY <3>1, ArrivesWhole
  <2>2. ASSUME NEW p \in BOOLEAN
        PROVE  Arrive(<<>>, PeerFifo, p, Ack(s, round), "ok") = <<Ack(s, round)>>
    <3>1. Ack(s, round).n \in Nat \ {0} /\ Ack(s, round).n <= PeerFifo
      BY <1>5
    <3> QED
      BY <1>4, <3>1, ArrivesWhole
  <2> QED
    BY <2>1, <2>2
<1> HIDE DEF Seqs
<1>8. seq_ \in Seqs
  BY <1>4 DEF Seqs
<1> USE NoneWaiting
<1>10. CASE SendRaw
  <2>1. /\ ppc = "idle" /\ toLpc = <<>> /\ toPeer = <<>> /\ Offered
        /\ pc' = "txdata" /\ tx' = Data(seq_, round)
        /\ UNCHANGED <<seq_, round, toLpc, toPeer, ppc, base, got, echo>>
    BY <1>2, <1>10 DEF CleanStage, SendRaw, LpcUp, peer
  <2>2. (~lpcHit') /\ ~peerHit'
    BY <1>2, <1>10, <2>1 DEF SendRaw, LpcUp, PeerDE
  <2>3. CleanStage'
    BY <2>1 DEF CleanStage, Offered, Data, Frame
  <2> QED
    BY <2>2, <2>3
<1>11. CASE SendRawDone
  <2>1. /\ ppc = "idle" /\ toLpc = <<>> /\ toPeer = <<>> /\ Offered
        /\ tx = Data(seq_, round) /\ pc' = "await"
        /\ UNCHANGED <<seq_, round, toLpc, ppc, peerHit, base, got, echo>>
    BY <1>2, <1>11 DEF CleanStage, SendRawDone, peer
  <2>2. PICK w \in Outcomes : LpcDown(w)
    BY <1>11 DEF SendRawDone
  <2>3. w = "ok" /\ (~lpcHit')
    BY <1>2, <1>3, <2>2 DEF LpcDown
  <2>4. toPeer' = <<Data(seq_, round)>>
    BY <1>4, <1>7, <1>8, <2>1, <2>2, <2>3 DEF LpcDown
  <2>5. CleanStage'
    BY <2>1, <2>4 DEF CleanStage, Offered, Data, Frame
  <2> QED
    BY <1>2, <2>1, <2>3, <2>5
<1>12. CASE SendRawTimeout
  <2>1. PICK w \in {"open", "lost"} : LpcDown(w)
    BY <1>12 DEF SendRawTimeout
  <2> QED
    BY <1>2, <1>3, <2>1 DEF LpcDown
<1>13. CASE WaitForAck
  <2>1. /\ ppc = "data" /\ toPeer = <<>> /\ toLpc = <<Ack(seq_, round)>>
        /\ cur = Data(seq_, round) /\ Served
    BY <1>2, <1>13 DEF CleanStage, WaitForAck
  <2>2. Acknowledges(Taken(toLpc)) /\ Rest(toLpc) = <<>>
    BY <1>5, <1>6, <1>8, <2>1 DEF Acknowledges
  <2>3. /\ pc' = "recv" /\ toLpc' = <<>> /\ base' = round + 1
        /\ UNCHANGED <<round, ppc, cur, toPeer, lpcHit, peerHit, got, echo>>
    BY <1>13, <2>2 DEF WaitForAck, peer
  <2>4. CleanStage'
    BY <1>8, <2>1, <2>3 DEF CleanStage, Served, Moved, Seqs, Data, Frame
  <2> QED
    BY <1>2, <2>3, <2>4
<1>14. CASE AckTimeout
  <2>1. pc = "await" /\ ~Complete(toLpc) /\ (~PeerDE) /\ ~Complete(toPeer)
    BY <1>14 DEF AckTimeout, AckDeadline
  <2>2. toLpc = <<Ack(seq_, round)>> \/ toPeer = <<Data(seq_, round)>> \/ PeerDE
    BY <1>2, <2>1 DEF CleanStage, PeerDE
  <2> QED
    BY <1>6, <1>8, <2>1, <2>2
<1>15. CASE RecvData
  <2>1. /\ Rests /\ toPeer = <<>> /\ Moved
        /\ \E s \in Seqs : toLpc = <<Data(s, round)>>
    BY <1>2, <1>15 DEF CleanStage, RecvData, Seqs
  <2>2. PICK s \in Seqs : toLpc = <<Data(s, round)>>
    BY <2>1
  <2>3. tx' = Ack(s, round) /\ toLpc' = <<>>
    <3>1. Taken(toLpc) = Data(s, round) /\ Rest(toLpc) = <<>>
      BY <1>6, <2>2
    <3>2. Taken(toLpc).seq = s /\ Taken(toLpc).pay = round
      BY <1>5, <3>1
    <3>3. toLpc' = Rest(toLpc) /\ tx' = Ack(Taken(toLpc).seq, Taken(toLpc).pay)
      BY <1>15 DEF RecvData, LpcUp
    <3> QED
      BY <3>1, <3>2, <3>3
  <2>4. pc' = "txctrl" /\ UNCHANGED <<round, ppc, toPeer, base, got, echo>>
    BY <1>15 DEF RecvData, peer
  <2>5. (~lpcHit') /\ ~peerHit'
    BY <1>2, <1>15, <2>1 DEF RecvData, LpcUp, PeerDE, Rests
  <2>6. CleanStage'
    BY <2>1, <2>3, <2>4 DEF CleanStage, Rests, Moved, Seqs, Ack, Frame
  <2> QED
    BY <2>5, <2>6
<1>16. CASE RecvCorrupt \/ RecvOther
  <2>1. pc = "recv" /\ Complete(toLpc) /\ Taken(toLpc).type # "DATA"
    BY <1>16 DEF RecvCorrupt, RecvOther
  <2>2. \E s \in Seqs : toLpc = <<Data(s, round)>>
    BY <1>2, <2>1 DEF CleanStage, Seqs
  <2>3. PICK s \in Seqs : toLpc = <<Data(s, round)>>
    BY <2>2
  <2>4. Taken(toLpc) = Data(s, round)
    BY <1>6, <2>3
  <2> QED
    BY <1>5, <2>1, <2>4
<1>17. CASE RecvTimeout
  <2>1. pc = "recv" /\ ~Complete(toLpc) /\ ~PeerDE
    BY <1>17 DEF RecvTimeout, RecvDeadline
  <2>2. \E s \in Seqs : toLpc = <<Data(s, round)>>
    BY <1>2, <2>1 DEF CleanStage, Seqs, PeerDE
  <2> QED
    BY <1>6, <2>1, <2>2
<1>18. CASE CtrlDone
  <2>1. /\ Rests /\ toLpc = <<>> /\ toPeer = <<>> /\ Moved
        /\ \E s \in Seqs : tx = Ack(s, round)
    BY <1>2, <1>18 DEF CleanStage, CtrlDone, Seqs
  <2>2. PICK s \in Seqs : tx = Ack(s, round)
    BY <2>1
  <2>3. PICK w \in Outcomes : LpcDown(w)
    BY <1>18 DEF CtrlDone
  <2>4. w = "ok" /\ (~lpcHit')
    BY <1>2, <1>3, <2>3 DEF LpcDown
  <2>5. toPeer' = <<Ack(s, round)>>
    BY <1>7, <2>1, <2>2, <2>3, <2>4 DEF LpcDown
  <2>6. /\ echo' = round /\ pc' = "sleep"
        /\ UNCHANGED <<round, toLpc, ppc, peerHit, base, got>>
    BY <1>5, <1>18, <2>2 DEF CtrlDone, peer
  <2>7. CleanStage'
    BY <2>1, <2>5, <2>6 DEF CleanStage, Rests, Moved, Closed, Seqs, Ack, Frame
  <2> QED
    BY <1>2, <2>4, <2>6, <2>7
<1>19. CASE NextRound
  <2>1. pc = "sleep" /\ ppc = "idle" /\ ~Complete(toPeer)
    BY <1>19 DEF NextRound, RoundDeadline
  <2>2. toLpc = <<>> /\ Closed /\ (toPeer = <<>> \/ \E s \in Seqs : toPeer = <<Ack(s, round)>>)
    BY <1>2, <2>1 DEF CleanStage, Seqs
  <2>3. toPeer = <<>>
    BY <1>6, <2>1, <2>2
  <2>4. /\ pc' = "send" /\ round' = round + 1
        /\ UNCHANGED <<lpcHit, peerHit, toLpc, toPeer, ppc, base, got, echo>>
    BY <1>19 DEF NextRound, peer
  <2>5. Offered'
    BY <1>4, <2>2, <2>4 DEF Closed, Offered
  <2>6. CleanStage'
    BY <2>1, <2>2, <2>3, <2>4, <2>5 DEF CleanStage
  <2> QED
    BY <1>2, <2>4, <2>6
<1>20. CASE PeerData
  <2>1. ppc = "idle" /\ Complete(toPeer) /\ Taken(toPeer).type = "DATA"
    BY <1>20 DEF PeerData
  <2>2. pc = "await" /\ toLpc = <<>> /\ toPeer = <<Data(seq_, round)>> /\ Offered
    <3>1. \A s \in Seqs : toPeer # <<Ack(s, round)>>
      <4> SUFFICES ASSUME NEW s \in Seqs, toPeer = <<Ack(s, round)>> PROVE FALSE
        OBVIOUS
      <4>1. Taken(toPeer) = Ack(s, round) /\ Ack(s, round).type = "ACK"
        BY <1>5, <1>6
      <4> QED
        BY <2>1, <4>1
    <3> QED
      BY <1>2, <2>1, <3>1 DEF CleanStage, Seqs
  <2>3. /\ toPeer' = <<>> /\ got' = got \cup {round} /\ ppc' = "ack"
        /\ cur' = Data(seq_, round)
    BY <1>5, <1>6, <1>8, <1>20, <2>2 DEF PeerData, PeerUp
  <2>4. UNCHANGED <<seq_, round, pc, toLpc, base, echo>>
    BY <1>20 DEF PeerData
  <2>5. (~lpcHit') /\ ~peerHit'
    BY <1>2, <1>20, <2>2 DEF PeerData, PeerUp, LpcDE
  <2>6. Served'
    BY <1>4, <2>2, <2>3, <2>4 DEF Offered, Served
  <2>7. CleanStage'
    BY <2>2, <2>3, <2>4, <2>6 DEF CleanStage, Data, Frame
  <2> QED
    BY <2>5, <2>7
<1>21. CASE PeerCorrupt \/ PeerIgnore
  <2>1. ppc = "idle" /\ Complete(toPeer) /\ Taken(toPeer).type # "DATA"
    BY <1>21 DEF PeerCorrupt, PeerIgnore
  <2>2. toPeer # <<Data(seq_, round)>>
    <3>1. ASSUME toPeer = <<Data(seq_, round)>> PROVE FALSE
      <4>1. Taken(toPeer) = Data(seq_, round)
        BY <1>6, <1>8, <3>1
      <4> QED
        BY <1>5, <1>8, <2>1, <4>1
    <3> QED
      BY <3>1
  <2>3. /\ pc = "sleep" /\ toLpc = <<>> /\ Closed
        /\ \E s \in Seqs : toPeer = <<Ack(s, round)>>
    BY <1>2, <2>1, <2>2 DEF CleanStage, Seqs
  <2>4. Rest(toPeer) = <<>> /\ Taken(toPeer).type = "ACK"
    <3>1. PICK s \in Seqs : toPeer = <<Ack(s, round)>>
      BY <2>3
    <3>2. Rest(toPeer) = <<>> /\ Taken(toPeer) = Ack(s, round)
      BY <1>6, <3>1
    <3> QED
      BY <1>5, <3>2
  <2>5. PeerIgnore
    BY <1>21, <2>4 DEF PeerCorrupt
  <2>6. toPeer' = <<>> /\ UNCHANGED <<pc, round, lpcHit, peerHit, toLpc, ppc, base, got, echo>>
    BY <2>4, <2>5 DEF PeerIgnore, lpc, peer
  <2>7. CleanStage'
    BY <2>1, <2>3, <2>6 DEF CleanStage, Rests, Closed
  <2> QED
    BY <1>2, <2>6, <2>7
<1>22. CASE PeerAckDone
  <2>1. /\ pc = "await" /\ toLpc = <<>> /\ toPeer = <<>>
        /\ cur = Data(seq_, round) /\ Served
    BY <1>2, <1>22 DEF CleanStage, PeerAckDone, Rests
  <2>2. PICK w \in Outcomes : PeerDown(Ack(cur.seq, cur.pay), w)
    BY <1>22 DEF PeerAckDone
  <2>3. w = "ok" /\ Ack(cur.seq, cur.pay) = Ack(seq_, round) /\ LpcPoll
    BY <1>2, <1>3, <1>5, <1>8, <2>1, <2>2 DEF PeerDown, LpcPoll
  <2>4. toLpc' = <<Ack(seq_, round)>>
    BY <1>4, <1>7, <1>8, <2>1, <2>2, <2>3 DEF PeerDown
  <2>5. /\ ppc' = "data" /\ cur' = cur
        /\ UNCHANGED <<seq_, round, pc, toPeer, base, got, echo>>
    BY <1>22 DEF PeerAckDone, PeerUp
  <2>6. (~lpcHit') /\ ~peerHit'
    BY <1>2, <1>22, <2>1 DEF PeerAckDone, PeerUp, LpcDE
  <2>7. CleanStage'
    BY <2>1, <2>4, <2>5 DEF CleanStage, Served, Data, Ack, Frame
  <2> QED
    BY <2>6, <2>7
<1>23. CASE PeerReplyDone
  <2>1. ~(pc = "await" /\ toLpc = <<Ack(seq_, round)>>)
    BY <1>6, <1>8, <1>23 DEF PeerReplyDone, PeerDown, WireSlow, LpcReady, LpcPoll
  <2>2. /\ pc = "recv" /\ ppc = "data" /\ toLpc = <<>> /\ toPeer = <<>> /\ Moved
        /\ \E s \in Seqs : cur = Data(s, round)
    BY <1>2, <1>23, <2>1 DEF CleanStage, PeerReplyDone, Rests, Seqs
  <2>3. PICK s \in Seqs : cur = Data(s, round)
    BY <2>2
  <2>4. PICK w \in Outcomes : PeerDown(cur, w)
    BY <1>23, <2>2 DEF PeerReplyDone
  <2>5. w = "ok" /\ LpcPoll
    BY <1>2, <1>3, <2>2, <2>4 DEF PeerDown, LpcPoll
  <2>6. toLpc' = <<Data(s, round)>>
    BY <1>4, <1>7, <2>2, <2>3, <2>4, <2>5 DEF PeerDown
  <2>7. /\ ppc' = "sleep" /\ peerHit' = FALSE
        /\ UNCHANGED <<round, pc, lpcHit, toPeer, base, got, echo>>
    BY <1>23 DEF PeerReplyDone, lpc
  <2>8. CleanStage'
    BY <2>2, <2>6, <2>7 DEF CleanStage, Rests, Moved, Seqs, Data, Frame
  <2> QED
    BY <1>2, <2>7, <2>8
<1>24. CASE PeerWake
  <2>1. /\ ppc = "sleep" /\ ppc' = "idle"
        /\ UNCHANGED <<lpc, toLpc, cur, peerHit, toPeer, base, got, echo>>
    BY <1>24 DEF PeerWake
  <2>2. CleanStage'
    BY <1>2, <2>1 DEF CleanStage, Rests, Moved, Closed, lpc, Data, Ack, Frame
  <2> QED
    BY <1>2, <2>1, <2>2 DEF lpc
<1>25. CASE BoundReached
  <2>1. CleanStage'
    BY <1>2, <1>25 DEF CleanStage, BoundReached, vars, Rests, Offered, Served, Moved, Closed,
       Data, Ack, Frame
  <2> QED
    BY <1>2, <1>25, <2>1 DEF BoundReached, vars
<1> QED
  BY <1>10, <1>11, <1>12, <1>13, <1>14, <1>15, <1>16, <1>17, <1>18, <1>19, <1>20,
     <1>21, <1>22, <1>23, <1>24, <1>25 DEF Next, LpcNext, PeerNext

\* With nominal delays and a FIFO of the responder that holds an ACK, a round
\* goes through the stages of CleanStage until the line damages a frame.
THEOREM CleanInvariant ==
  ASSUME Timely, CtrlLen <= PeerFifo
  PROVE  Spec => []CleanInv
<1>1. Init => CleanInv
  <2>1. 1 .. 1 - 1 = {}
    OBVIOUS
  <2> QED
    BY <2>1 DEF Init, CleanInv, CleanStage, Offered
<1>2. TypeOK /\ CleanInv /\ [Next]_vars => CleanInv'
  <2>1. ASSUME CleanInv, UNCHANGED vars PROVE CleanInv'
    BY <2>1 DEF CleanInv, CleanStage, vars, Rests, Offered, Served, Moved, Closed,
       Data, Ack, Frame
  <2>2. ASSUME TypeOK, CleanInv, Next PROVE CleanInv'
    BY <2>2, CleanStep DEF CleanInv
  <2> QED
    BY <2>1, <2>2
<1> QED
  BY <1>1, <1>2, TypeCorrect, PTL DEF Spec

\* Until the first damage every round ends with its payload taken, echoed and
\* acknowledged, and with nothing left for the next one.
THEOREM CleanRoundsHold ==
  ASSUME Timely, CtrlLen <= PeerFifo
  PROVE  Spec => []CleanRound
<1>1. CleanInv => CleanRound
  BY DEF CleanInv, CleanStage, CleanRound, Closed
<1> QED
  BY <1>1, CleanInvariant, PTL

\* Until the first damage the two ends never drive the bus together.
THEOREM CleanBus ==
  ASSUME Timely, CtrlLen <= PeerFifo
  PROVE  Spec => []CleanHalfDuplex
<1>1. CleanInv => CleanHalfDuplex
  BY DEF CleanInv, CleanStage, CleanHalfDuplex, HalfDuplex, LpcDE, PeerDE, Rests
<1> QED
  BY <1>1, CleanInvariant, PTL

-----------------------------------------------------------------------------
(* Echoes of an earlier round                                              *)

\* Where the bytes in the FIFO of the LPC1768 come from and go to.
LEMMA ToLpcMoves ==
  ASSUME Next
  PROVE  \/ toLpc' = toLpc
         \/ Complete(toLpc) /\ toLpc' = Rest(toLpc)
         \/ toLpc' = <<>>
         \/ \E w : \/ ppc = "ack" /\ PeerDown(Ack(cur.seq, cur.pay), w)
                   \/ ppc = "data" /\ PeerDown(cur, w)
                   \/ PeerDown(Nack, w)
<1>1. CASE LpcNext
  BY <1>1 DEF LpcNext, SendRaw, SendRawDone, SendRawTimeout, WaitForAck, AckTimeout,
     RecvData, RecvCorrupt, RecvOther, RecvTimeout, CtrlDone, NextRound
<1>2. CASE PeerAckDone
  BY <1>2 DEF PeerAckDone
<1>3. CASE PeerReplyDone
  <2>1. CASE ppc = "data"
    BY <1>3, <2>1 DEF PeerReplyDone
  <2>2. CASE ppc # "data"
    BY <1>3, <2>2 DEF PeerReplyDone
  <2> QED
    BY <2>1, <2>2
<1>4. CASE PeerData \/ PeerCorrupt \/ PeerIgnore \/ PeerWake \/ BoundReached
  BY <1>4 DEF PeerData, PeerCorrupt, PeerIgnore, PeerWake, BoundReached, vars
<1> QED
  BY <1>1, <1>2, <1>3, <1>4 DEF Next, PeerNext

\* Reading takes the only echo there can be.
LEMMA ReadEcho ==
  ASSUME NEW q \in Seq(Frames), EchoFirst(q), Complete(q)
  PROVE  EchoFirst(Rest(q)) /\ Live(Rest(q), {"DATA"}) = {}
<1>1. Rest(q) \in Seq(Frames) /\ First(q) \in Nat \ {0}
  BY ReadFifo
<1>2. \A i \in DOMAIN Rest(q) : i \in Nat \ {0} /\ i + First(q) \in DOMAIN q /\ Rest(q)[i] = q[i + First(q)]
  BY <1>1, ReadFifo, LenProperties
<1>3. First(q) \in Delims(q)
  BY FirstIsDelimiter
<1>4. ASSUME NEW i \in Live(Rest(q), {"DATA"}) PROVE FALSE
  <2>1. i \in Nat \ {0} /\ i + First(q) \in Live(q, {"DATA"})
    BY <1>2 DEF Live
  <2>2. i + First(q) <= First(q)
    BY <1>3, <2>1 DEF EchoFirst
  <2> QED
    BY <1>1, <2>1, <2>2
<1>5. \A i \in DOMAIN Rest(q) : Rest(q)[i].n >= 0 /\ (Rest(q)[i].type # "open" => Rest(q)[i].n >= CtrlLen)
  BY <1>2 DEF EchoFirst
<1> QED
  BY <1>4, <1>5 DEF EchoFirst

\* An echo does not fit behind another frame, and nothing arrives at a FIFO
\* whose reader has a frame to take.
LEMMA ArriveEcho ==
  ASSUME LpcFifo < CtrlLen + DataLen,
         NEW q \in Seq(Frames), EchoFirst(q), NEW f \in Frames, NEW w, NEW polling,
         f.n >= CtrlLen, f.type = "DATA" => f.n = DataLen,
         f.type # "open", polling => ~Complete(q)
  PROVE  EchoFirst(Arrive(q, LpcFifo, polling, f, w))
<1> DEFINE r == Arrive(q, LpcFifo, polling, f, w)  free == Room(q, LpcFifo)
<1>1. free \in Nat /\ free <= LpcFifo
  BY DEF Room
<1>2. f.n \in Int /\ \A i \in DOMAIN q : q[i].n \in Nat
  <2>1. \A i \in DOMAIN q : q[i] \in Frames
    BY ElementOfSeq, LenProperties
  <2> QED
    BY <2>1 DEF Frames, EchoFirst
<1>3. ASSUME Complete(q) PROVE free < DataLen
  <2>1. PICK i \in DOMAIN q : q[i].type # "open"
    BY <1>3 DEF Complete, Delims
  <2>2. Bytes(q) \in Nat /\ q[i].n <= Bytes(q) /\ q[i].n >= CtrlLen
    BY <1>2, <2>1, BytesBound DEF EchoFirst
  <2> HIDE DEF free
  <2>3. free = (IF Bytes(q) \in 0 .. LpcFifo THEN LpcFifo - Bytes(q) ELSE 0)
    BY DEF free, Room
  <2>4. q[i].n \in Nat
    BY <1>2
  <2> QED
    BY <2>2, <2>3, <2>4
\* What the FIFO gets: the frame if it fits, or what is left of it.
<1>4. \/ r = q
      \/ \E g \in Frames :
           /\ r = Append(q, g) /\ g.n >= 0 /\ (g.type # "open" => g.n >= CtrlLen)
           /\ g.type = "DATA" => ~Complete(q)
  <2> DEFINE fits == (polling /\ ~Complete(q)) \/ f.n <= free
  <2>1. /\ Open(free) \in Frames /\ Open(free).type = "open" /\ Open(free).n = free
        /\ Bad(f.n) \in Frames /\ Bad(f.n).type = "bad" /\ Bad(f.n).n = f.n
        /\ Open(f.n - 1) \in Frames /\ Open(f.n - 1).type = "open" /\ Open(f.n - 1).n = f.n - 1
    <3> HIDE DEF free
    <3>1. free \in Int /\ f.n \in Int /\ f.n - 1 \in Int
      BY <1>1, <1>2
    <3>2. Open(free) \in Frames /\ Bad(f.n) \in Frames /\ Open(f.n - 1) \in Frames
      BY <3>1, FrameConstructors
    <3>3. /\ Open(free).type = "open" /\ Open(free).n = free
          /\ Bad(f.n).type = "bad" /\ Bad(f.n).n = f.n
          /\ Open(f.n - 1).type = "open" /\ Open(f.n - 1).n = f.n - 1
      BY DEF Open, Bad, Frame
    <3> QED
      BY <3>2, <3>3
  <2>2. fits /\ f.type = "DATA" => ~Complete(q)
    BY <1>1, <1>3
  <2>3. \/ r = q
        \/ r = Append(q, Open(free))
        \/ fits /\ r = Append(q, f)
        \/ r = Append(q, Bad(f.n))
        \/ r = Append(q, Open(f.n - 1))
    BY DEF Arrive
  <2>4. f.n >= 0 /\ f.n - 1 >= 0
    BY <1>2
  <2> HIDE DEF r, free, fits
  <2>5. CASE r = q
    BY <2>5
  <2>6. CASE r = Append(q, Open(free))
    BY <1>1, <2>1, <2>6
  <2>7. CASE fits /\ r = Append(q, f)
    BY <2>2, <2>4, <2>7
  <2>8. CASE r = Append(q, Bad(f.n))
    BY <2>1, <2>4, <2>8
  <2>9. CASE r = Append(q, Open(f.n - 1))
    BY <2>1, <2>4, <2>9
  <2> QED
    BY <2>3, <2>5, <2>6, <2>7, <2>8, <2>9
<1> HIDE DEF r, free
<1>5. ASSUME NEW g \in Frames, r = Append(q, g), g.n >= 0, g.type # "open" => g.n >= CtrlLen,
             g.type = "DATA" => ~Complete(q)
      PROVE  EchoFirst(r)
  <2> DEFINE m == Len(q)
  <2>1. /\ m \in Nat /\ DOMAIN q = 1 .. m /\ DOMAIN r = 1 .. m + 1 /\ r[m + 1] = g
        /\ \A i \in 1 .. m : r[i] = q[i]
    BY <1>5, AppendProperties, LenProperties
  <2> HIDE DEF m
  <2>2. ASSUME NEW i \in DOMAIN r
        PROVE  r[i].n >= 0 /\ (r[i].type # "open" => r[i].n >= CtrlLen)
    <3>1. CASE i = m + 1
      BY <1>5, <2>1, <3>1
    <3>2. CASE i \in 1 .. m
      BY <2>1, <3>2 DEF EchoFirst
    <3> QED
      BY <2>1, <3>1, <3>2
  <2>3. ASSUME NEW i \in Live(r, {"DATA"}), NEW j \in Delims(r) PROVE i <= j
    <3>1. i \in 1 .. m + 1 /\ j \in 1 .. m + 1 /\ r[i].type = "DATA" /\ r[j].type # "open"
      BY <2>1 DEF Live, Delims
    <3>2. CASE j = m + 1
      BY <2>1, <3>1, <3>2
    <3>3. CASE j \in 1 .. m /\ i \in 1 .. m
      BY <2>1, <3>1, <3>3 DEF EchoFirst, Live, Delims
    <3>4. CASE j \in 1 .. m /\ i = m + 1
      <4>1. Complete(q)
        BY <2>1, <3>1, <3>4 DEF Complete, Delims
      <4> QED
        BY <1>5, <2>1, <3>1, <3>4, <4>1
    <3> QED
      BY <2>1, <3>1, <3>2, <3>3, <3>4
  <2> QED
    BY <2>2, <2>3 DEF EchoFirst
<1>6. EchoFirst(r)
  BY <1>4, <1>5
<1> QED
  BY <1>6 DEF r

LEMMA EchoFirstStep ==
  ASSUME Timely, CtrlLen <= DataLen, LpcFifo < CtrlLen + DataLen,
         TypeOK, LinkInv, OfRound, EchoFirst(toLpc), Next
  PROVE  EchoFirst(toLpc')
<1>1. toLpc \in Seq(Frames) /\ cur \in Frames
  BY DEF TypeOK
<1>2. ASSUME NEW f \in Frames, NEW w, PeerDown(f, w),
             f.n >= CtrlLen, f.type = "DATA" => f.n = DataLen, f.type # "open"
      PROVE  EchoFirst(toLpc')
  <2>1. toLpc' = Arrive(toLpc, LpcFifo, LpcPoll, f, w) /\ (LpcPoll => ~Complete(toLpc))
    BY <1>2 DEF PeerDown, WireSlow, LpcReady
  <2> QED
    BY <1>1, <1>2, <2>1, ArriveEcho
<1>3. cur.seq \in 0 .. SeqMod - 1 /\ cur.pay \in 0 .. MaxRounds
  BY <1>1 DEF Frames
<1>4. /\ Ack(cur.seq, cur.pay) \in Frames /\ Ack(cur.seq, cur.pay).n = CtrlLen
      /\ Ack(cur.seq, cur.pay).type = "ACK"
      /\ Nack \in Frames /\ Nack.n = CtrlLen /\ Nack.type = "NACK"
  BY <1>3, FrameConstructors DEF Ack, Nack, Frame
<1>5. ppc = "data" => cur.type = "DATA" /\ cur.n = DataLen
  BY DEF LinkInv, StreamInv, OfRound, Answering
<1>6. CASE toLpc' = <<>>
  BY <1>6 DEF EchoFirst, Live
<1>7. CASE Complete(toLpc) /\ toLpc' = Rest(toLpc)
  BY <1>1, <1>7, ReadEcho
<1>8. ASSUME NEW w, \/ ppc = "ack" /\ PeerDown(Ack(cur.seq, cur.pay), w)
                    \/ ppc = "data" /\ PeerDown(cur, w)
                    \/ PeerDown(Nack, w)
      PROVE  EchoFirst(toLpc')
  <2>1. CASE PeerDown(Ack(cur.seq, cur.pay), w)
    BY <1>2, <1>4, <2>1
  <2>2. CASE ppc = "data" /\ PeerDown(cur, w)
    BY <1>1, <1>2, <1>5, <2>2
  <2>3. CASE PeerDown(Nack, w)
    BY <1>2, <1>4, <2>3
  <2> QED
    BY <1>8, <2>1, <2>2, <2>3
<1> QED
  BY <1>6, <1>7, <1>8, ToLpcMoves

\* A round begins with no request under way, and its requests are its own.
LEMMA OfRoundStep ==
  ASSUME Timely, TypeOK, LinkInv, OfRound, Next
  PROVE  OfRound'
<1>1. toPeer \in Seq(Frames) /\ tx \in Frames
  BY DEF TypeOK
<1>2. ASSUME NEW w, LpcDown(w), pc \in {"txdata", "txctrl"}, UNCHANGED <<round, ppc, cur>>
      PROVE  OfRound'
  <2>1. tx.type = "DATA" => tx.pay = round /\ tx.n = DataLen
    BY <1>2 DEF LinkInv, TaskInv, Data, Frame
  <2>2. \A i \in Requests' : toPeer'[i].pay = round /\ toPeer'[i].n = DataLen
    <3>1. toPeer' = Arrive(toPeer, PeerFifo, ppc = "idle", tx, w)
      BY <1>2 DEF LpcDown
    <3>2. ASSUME NEW i \in Requests'
          PROVE  \/ i \in Requests /\ toPeer'[i] = toPeer[i]
                 \/ tx.type = "DATA" /\ toPeer'[i] = tx
      <4>1. PeerFifo \in Nat
        BY ParamAssumption
      <4> QED
        BY <1>1, <3>1, <3>2, <4>1, ArriveLive DEF Requests
    <3>3. \A i \in Requests : toPeer[i].pay = round /\ toPeer[i].n = DataLen
      BY DEF OfRound
    <3> QED
      BY <2>1, <3>2, <3>3
  <2> QED
    BY <1>2, <2>2 DEF OfRound, Answering
<1>3. ASSUME Complete(toPeer), toPeer' = Rest(toPeer), round' = round
      PROVE  \A i \in Requests' : toPeer'[i].pay = round /\ toPeer'[i].n = DataLen
  <2>1. ASSUME NEW i \in Requests'
        PROVE  i + First(toPeer) \in Requests /\ toPeer'[i] = toPeer[i + First(toPeer)]
    BY <1>1, <1>3, <2>1, ReadLive DEF Requests
  <2>2. \A j \in Requests : toPeer[j].pay = round /\ toPeer[j].n = DataLen
    BY DEF OfRound
  <2> QED
    BY <1>3, <2>1, <2>2
<1>4. CASE SendRawDone \/ SendRawTimeout \/ CtrlDone
  BY <1>2, <1>4 DEF SendRawDone, SendRawTimeout, CtrlDone, peer
<1>5. CASE NextRound
  <2>1. ppc = "idle" /\ ~Complete(toPeer) /\ UNCHANGED <<ppc, cur, toPeer>>
    BY <1>5 DEF NextRound, RoundDeadline, peer
  <2>2. Requests' = {}
    BY <2>1 DEF Requests, Live, Complete, Delims
  <2> QED
    BY <2>1, <2>2 DEF OfRound, Answering
<1>6. CASE PeerData
  <2>1. /\ Complete(toPeer) /\ Taken(toPeer).type = "DATA" /\ toPeer' = Rest(toPeer)
        /\ round' = round /\ cur' = Taken(toPeer)
    BY <1>6 DEF PeerData, PeerUp
  <2>2. 1 \in Requests /\ cur' = toPeer[1]
    BY <1>1, <2>1, TakenLive DEF Requests
  <2>3. cur'.pay = round /\ cur'.n = DataLen
    BY <2>2 DEF OfRound
  <2> QED
    BY <1>3, <2>1, <2>3 DEF OfRound
<1>7. CASE PeerCorrupt
  <2>1. /\ Complete(toPeer) /\ toPeer' = Rest(toPeer) /\ round' = round /\ ppc' = "nack"
    BY <1>7 DEF PeerCorrupt, PeerUp
  <2> QED
    BY <1>3, <2>1 DEF OfRound, Answering
<1>8. CASE PeerIgnore
  <2>1. /\ Complete(toPeer) /\ toPeer' = Rest(toPeer) /\ UNCHANGED <<round, ppc, cur>>
    BY <1>8 DEF PeerIgnore, lpc, peer
  <2> QED
    BY <1>3, <2>1 DEF OfRound, Answering
<1>9. CASE PeerAckDone
  BY <1>9 DEF PeerAckDone, PeerUp, OfRound, Requests, Live, Answering
<1>10. CASE PeerReplyDone \/ PeerWake
  BY <1>10 DEF PeerReplyDone, PeerWake, OfRound, Requests, Live, Answering, lpc
<1>11. CASE \/ SendRaw \/ WaitForAck \/ AckTimeout \/ RecvData \/ RecvCorrupt
            \/ RecvOther \/ RecvTimeout \/ BoundReached
  BY <1>11 DEF SendRaw, WaitForAck, AckTimeout, RecvData, RecvCorrupt, RecvOther,
     RecvTimeout, BoundReached, vars, peer, OfRound, Requests, Live, Answering
<1> QED
  BY <1>4, <1>5, <1>6, <1>7, <1>8, <1>9, <1>10, <1>11 DEF Next, LpcNext, PeerNext

\* An echo that arrives is not stale.
LEMMA ArriveFresh ==
  ASSUME TypeOK, LinkInv, OfRound, PeerAckDone \/ PeerReplyDone
  PROVE  Stale' => Stale
<1>1. toLpc \in Seq(Frames) /\ cur \in Frames
  BY DEF TypeOK
<1>2. PICK f \in Frames, w \in Outcomes : PeerDown(f, w) /\ (f.type = "DATA" => f.pay = round)
  <2>1. CASE PeerAckDone
    <3>1. cur.seq \in 0 .. SeqMod - 1 /\ cur.pay \in 0 .. MaxRounds
      BY <1>1 DEF Frames
    <3>2. Ack(cur.seq, cur.pay) \in Frames /\ Ack(cur.seq, cur.pay).type = "ACK"
      BY <3>1, FrameConstructors DEF Ack, Frame
    <3> QED
      BY <2>1, <3>2 DEF PeerAckDone
  <2>2. CASE PeerReplyDone
    <3>1. Nack \in Frames /\ Nack.type = "NACK"
      BY FrameConstructors DEF Nack, Frame
    <3>2. CASE ppc = "data"
      <4>1. cur.pay = round
        BY <3>2 DEF OfRound, Answering
      <4>2. PICK w \in Outcomes : PeerDown(cur, w)
        BY <2>2, <3>2 DEF PeerReplyDone
      <4> QED
        BY <1>1, <4>1, <4>2
    <3>3. CASE ppc # "data"
      <4>1. PICK w \in Outcomes : PeerDown(Nack, w)
        BY <2>2, <3>3 DEF PeerReplyDone
      <4> QED
        BY <3>1, <4>1
    <3> QED
      BY <3>2, <3>3
  <2> QED
    BY <2>1, <2>2
<1>3. toLpc' = Arrive(toLpc, LpcFifo, LpcPoll, f, w)
  BY <1>2 DEF PeerDown
<1>4. round' = round
  BY DEF PeerAckDone, PeerReplyDone, lpc
<1> QED
  BY <1>1, <1>2, <1>3, <1>4, ArriveLive DEF Stale

LEMMA StaleStep ==
  ASSUME Timely, TypeOK, LinkInv, CleanInv, FreshInv, Next
  PROVE  StaleInv'
<1>1. /\ toLpc \in Seq(Frames) /\ toPeer \in Seq(Frames)
      /\ attempt \in 0 .. MaxRetries /\ faults \in Nat /\ MaxRetries \in Nat
  BY DEF TypeOK
<1>2. EchoFirst(toLpc) /\ OfRound /\ StaleInv
  BY DEF FreshInv
\* Nothing stale is left, and the frame in hand is of this round.
<1>3. ASSUME ~Stale', pc' \in {"recv", "txctrl", "sleep"} => attempt' = 0, ~InHand'
      PROVE  StaleInv'
  BY <1>3 DEF StaleInv
<1>4. ASSUME Complete(toLpc), toLpc' = Rest(toLpc) PROVE ~Stale'
  BY <1>1, <1>2, <1>4, ReadEcho DEF Stale
<1>5. ASSUME toLpc' = <<>> PROVE ~Stale'
  BY <1>5 DEF Stale, Live
<1>6. ASSUME NextAttempt PROVE pc' = "send" \/ (pc' = "recv" /\ attempt' = 0)
  BY <1>6 DEF NextAttempt
<1>7. CASE SendRaw
  <2>1. /\ pc = "send" /\ pc' = "txdata" /\ lpcHit' = PeerDE
        /\ UNCHANGED <<round, attempt, toLpc, ppc, toPeer, faults>>
    BY <1>7 DEF SendRaw, LpcUp, peer
  <2>2. Stale' <=> Stale
    BY <2>1 DEF Stale
  <2>3. Stale => ppc = "idle" /\ (~Complete(toPeer)) /\ attempt < faults
    BY <1>2, <2>1 DEF StaleInv
  <2>4. Stale => ~lpcHit'
    BY <2>1, <2>3 DEF PeerDE
  <2> QED
    BY <2>1, <2>2, <2>3, <2>4 DEF StaleInv, InHand
<1>8. CASE SendRawDone
  BY <1>8 DEF SendRawDone, StaleInv, InHand
<1>9. CASE SendRawTimeout
  <2>1. PICK w \in {"open", "lost"} : LpcDown(w)
    BY <1>9 DEF SendRawTimeout
  <2>2. pc = "txdata" /\ UNCHANGED <<round, toLpc, ppc>>
    BY <1>9 DEF SendRawTimeout, peer
  <2>3. Stale' <=> Stale
    BY <2>2 DEF Stale
  <2>4. ASSUME Stale PROVE ppc = "idle" /\ (~Complete(toPeer)) /\ attempt < faults /\ ~lpcHit
    BY <1>2, <2>2, <2>4 DEF StaleInv
  <2>5. ASSUME Stale PROVE faults' = faults + 1
    <3>1. Damage(w, lpcHit) /\ w # "ok" /\ ~lpcHit
      BY <2>1, <2>4, <2>5 DEF LpcDown
    <3>2. ~(w = "ok" \/ lpcHit)
      BY <3>1
    <3> QED
      BY <3>1, <3>2 DEF Damage
  <2>6. ASSUME Stale PROVE ~Complete(toPeer')
    <3>1. tx \in Frames
      BY DEF TypeOK
    <3>2. toPeer' = Arrive(toPeer, PeerFifo, ppc = "idle", tx, w)
      BY <2>1 DEF LpcDown
    <3>3. \/ toPeer' = toPeer
          \/ \E n : toPeer' = Append(toPeer, Open(n))
      BY <2>1, <3>2 DEF Arrive
    <3>4. ASSUME NEW n, toPeer' = Append(toPeer, Open(n)) PROVE Delims(toPeer') = {}
      <4>1. Open(n).type = "open"
        BY DEF Open, Frame
      <4>2. /\ DOMAIN toPeer' = 1 .. Len(toPeer) + 1 /\ toPeer'[Len(toPeer) + 1] = Open(n)
            /\ \A i \in 1 .. Len(toPeer) : toPeer'[i] = toPeer[i]
            /\ DOMAIN toPeer = 1 .. Len(toPeer) /\ Len(toPeer) \in Nat
        BY <1>1, <3>4
      <4>3. \A i \in 1 .. Len(toPeer) : toPeer[i].type = "open"
        BY <2>4, <2>6, <4>2 DEF Complete, Delims
      <4>4. \A i \in DOMAIN toPeer' : toPeer'[i].type = "open"
        BY <4>1, <4>2, <4>3
      <4> QED
        BY <4>4 DEF Delims
    <3> QED
      BY <2>4, <2>6, <3>3, <3>4 DEF Complete
  <2>7. \/ pc' = "send" /\ attempt' = attempt + 1
        \/ pc' = "recv" /\ attempt' = 0 /\ attempt = MaxRetries
    BY <1>1, <1>9 DEF SendRawTimeout, NextAttempt
  <2>8. Stale => attempt + 1 < faults'
    BY <1>1, <2>4, <2>5
  <2> QED
    BY <1>1, <2>2, <2>3, <2>4, <2>6, <2>7, <2>8 DEF StaleInv, InHand
<1>10. CASE WaitForAck
  <2>1. ~Stale'
    BY <1>4, <1>10 DEF WaitForAck
  <2>2. pc' = "send" \/ (pc' = "recv" /\ attempt' = 0)
    BY <1>6, <1>10 DEF WaitForAck
  <2> QED
    BY <1>3, <2>1, <2>2 DEF InHand
<1>11. CASE AckTimeout
  BY <1>3, <1>5, <1>6, <1>11 DEF AckTimeout, InHand
<1>12. CASE RecvData
  <2>1. ~Stale'
    BY <1>4, <1>12 DEF RecvData
  <2>2. /\ pc = "recv" /\ pc' = "txctrl" /\ UNCHANGED <<round, attempt, faults>>
        /\ Complete(toLpc) /\ Taken(toLpc).type = "DATA"
        /\ tx' = Ack(Taken(toLpc).seq, Taken(toLpc).pay)
    BY <1>12 DEF RecvData, LpcUp
  <2>3. 1 \in Live(toLpc, {"DATA"}) /\ tx'.pay = toLpc[1].pay
    BY <1>1, <2>2, TakenLive DEF Ack, Frame
  <2>4. tx'.pay = round \/ MaxRetries + 1 < faults
    BY <1>2, <2>2, <2>3 DEF Stale, StaleInv
  <2>5. attempt = 0
    BY <1>2, <2>2 DEF StaleInv
  <2> QED
    BY <1>1, <2>1, <2>2, <2>4, <2>5 DEF StaleInv
<1>13. CASE RecvCorrupt
  <2>1. ~Stale'
    BY <1>4, <1>13 DEF RecvCorrupt
  <2>2. pc = "recv" /\ attempt' = attempt /\ tx' = Nack
    BY <1>13 DEF RecvCorrupt, LpcUp
  <2> QED
    BY <1>2, <1>3, <2>1, <2>2 DEF StaleInv, InHand, Nack, Frame
<1>14. CASE RecvOther \/ RecvTimeout
  <2>1. ~Stale'
    BY <1>4, <1>5, <1>14 DEF RecvOther, RecvTimeout
  <2>2. pc = "recv" /\ pc' = "sleep" /\ attempt' = attempt
    BY <1>14 DEF RecvOther, RecvTimeout
  <2> QED
    BY <1>2, <1>3, <2>1, <2>2 DEF StaleInv, InHand
<1>15. CASE CtrlDone
  <2>1. pc = "txctrl" /\ pc' = "sleep" /\ UNCHANGED <<round, attempt, toLpc>>
    BY <1>15 DEF CtrlDone
  <2>2. Stale' <=> Stale
    BY <2>1 DEF Stale
  <2> QED
    BY <1>2, <1>3, <2>1, <2>2 DEF StaleInv, InHand
<1>16. CASE NextRound
  <2>1. /\ pc = "sleep" /\ pc' = "send" /\ ppc = "idle" /\ ~Complete(toPeer)
        /\ UNCHANGED <<attempt, toLpc, ppc, toPeer, faults>>
    BY <1>16 DEF NextRound, RoundDeadline, peer
  <2>2. attempt = 0
    BY <1>2, <2>1 DEF StaleInv
  <2>3. Stale' => faults > 0
    <3>1. faults = 0 => toLpc = <<>>
      BY <2>1 DEF CleanInv, CleanStage
    <3>2. Stale' => toLpc # <<>>
      BY <2>1 DEF Stale, Live
    <3> QED
      BY <1>1, <3>1, <3>2
  <2> QED
    BY <2>1, <2>2, <2>3 DEF StaleInv, InHand
\* Steps of the responder: it is busy, so no echo is stale before wait_for_ack.
<1>17. ASSUME UNCHANGED <<pc, tx, attempt, round>>, faults <= faults', Stale' => Stale,
              ppc # "idle" \/ Complete(toPeer)
       PROVE  StaleInv'
  <2>1. faults' \in Int
    BY FaultsStay, <1>1
  <2>2. Stale' => pc \notin {"send", "txdata"}
    BY <1>2, <1>17 DEF StaleInv
  <2>3. InHand' <=> InHand
    BY <1>17 DEF InHand
  <2>4. Stale' /\ pc = "recv" => MaxRetries + 1 < faults'
    BY <1>1, <1>2, <1>17, <2>1 DEF StaleInv
  <2>5. InHand /\ faults' <= MaxRetries + 1 => tx.pay = round
    BY <1>1, <1>2, <1>17, <2>1 DEF StaleInv
  <2> QED
    BY <1>2, <1>17, <2>2, <2>3, <2>4, <2>5 DEF StaleInv
<1>18. CASE PeerData \/ PeerCorrupt \/ PeerIgnore \/ PeerWake
  <2>1. /\ UNCHANGED <<pc, tx, attempt, round, toLpc, faults>>
        /\ ppc # "idle" \/ Complete(toPeer)
    BY <1>18 DEF PeerData, PeerCorrupt, PeerIgnore, PeerWake, lpc
  <2>2. Stale' <=> Stale
    BY <2>1 DEF Stale
  <2> QED
    BY <1>1, <1>17, <2>1, <2>2
<1>19. CASE PeerAckDone \/ PeerReplyDone
  <2>1. UNCHANGED <<pc, tx, attempt, round>> /\ ppc # "idle"
    BY <1>19 DEF PeerAckDone, PeerReplyDone, lpc
  <2>2. faults <= faults'
    BY <1>1, FaultsStay
  <2>3. Stale' => Stale
    BY <1>2, <1>19, ArriveFresh
  <2> QED
    BY <1>17, <2>1, <2>2, <2>3
<1>20. CASE BoundReached
  BY <1>2, <1>20 DEF BoundReached, vars, StaleInv, Stale, InHand, Live, Complete, Delims
<1> QED
  BY <1>7, <1>8, <1>9, <1>10, <1>11, <1>12, <1>13, <1>14, <1>15, <1>16, <1>18, <1>19, <1>20
  DEF Next, LpcNext, PeerNext

\* No stale echo survives the first wait_for_ack of a round.
THEOREM FreshInvariant ==
  ASSUME Timely, CtrlLen <= PeerFifo, CtrlLen <= DataLen, LpcFifo < CtrlLen + DataLen
  PROVE  Spec => []FreshInv
<1>1. Init => FreshInv
  BY DEF Init, FreshInv, EchoFirst, OfRound, StaleInv, Stale, InHand, Live, Requests, Answering
<1>2. TypeOK /\ LinkInv /\ CleanInv /\ FreshInv /\ [Next]_vars => FreshInv'
  <2>1. ASSUME FreshInv, UNCHANGED vars PROVE FreshInv'
    BY <2>1 DEF FreshInv, EchoFirst, OfRound, StaleInv, Stale, InHand, Live, Requests,
       Answering, Complete, Delims, vars
  <2>2. ASSUME TypeOK, LinkInv, CleanInv, FreshInv, Next PROVE FreshInv'
    <3>1. EchoFirst(toLpc') /\ OfRound'
      BY <2>2, EchoFirstStep, OfRoundStep DEF FreshInv
    <3>2. StaleInv'
      BY <2>2, StaleStep
    <3> QED
      BY <3>1, <3>2 DEF FreshInv
  <2> QED
    BY <2>1, <2>2
<1> QED
  BY <1>1, <1>2, TypeCorrect, LinkInvariant, CleanInvariant, PTL DEF Spec

\* With nominal delays and a FIFO too small for a frame and an echo behind it,
\* an echo handed over is that of this round, up to one fault more than there
\* are attempts.
THEOREM EchoesAreFresh ==
  ASSUME Timely, CtrlLen <= PeerFifo, CtrlLen <= DataLen, LpcFifo < CtrlLen + DataLen
  PROVE  Spec => EchoFresh
<1>1. TypeOK /\ FreshInv /\ [Next]_vars =>
        [echo' # echo /\ faults <= MaxRetries + 1 => echo' = round]_vars
  <2> SUFFICES ASSUME FreshInv, Next, echo' # echo, faults <= MaxRetries + 1
               PROVE  echo' = round
    BY DEF vars
  <2>1. CtrlDone
    BY DEF Next, LpcNext, PeerNext, BoundReached, vars, SendRaw, SendRawDone,
       SendRawTimeout, WaitForAck, AckTimeout, RecvData, RecvCorrupt, RecvOther, RecvTimeout,
       NextRound, PeerData, PeerCorrupt, PeerIgnore, PeerAckDone, PeerReplyDone, PeerWake
  <2>2. InHand /\ echo' = tx.pay
    BY <2>1 DEF CtrlDone, InHand
  <2> QED
    BY <2>2 DEF FreshInv, StaleInv
<1> QED
  BY <1>1, TypeCorrect, FreshInvariant, PTL DEF Spec, EchoFresh
=============================================================================
