-------------------------- MODULE BoardTasksProofs --------------------------
(***************************************************************************)
(* TLAPS proofs about BoardTasks, for delays, messages and FIFOs of any    *)
(* size.  What rests on a size says so.                                    *)
(***************************************************************************)
EXTENDS BoardTasks, FiniteSetTheorems, SequenceTheorems, TLAPS

USE TaskAssumption DEF TaskAssumption

-----------------------------------------------------------------------------
(* The queue of ready tasks                                                *)

LEMMA TasksFinite == IsFiniteSet(Tasks)
<1>1. IsFiniteSet({"led"} \cup {"echo"} \cup {"rs485"})
  BY FS_Singleton, FS_AddElement
<1>2. Tasks = {"led"} \cup {"echo"} \cup {"rs485"}
  BY DEF Tasks
<1> QED
  BY <1>1, <1>2

\* An order of a set has each of its elements once.
LEMMA OrdersOf ==
  ASSUME NEW S, IsFiniteSet(S), NEW q \in SetToSeqs(S)
  PROVE  q \in Seq(S) /\ IsInjective(q) /\ ToSet(q) = S
<1>1. PICK n : n = Cardinality(S)
  OBVIOUS
<1>2. n \in Nat
  BY <1>1, FS_CardinalityType
<1>3. /\ q \in [1 .. n -> S]
      /\ \A i, j \in 1 .. n : i # j => q[i] # q[j]
  BY <1>1 DEF SetToSeqs
<1>4. IsInjective(q)
  BY <1>3 DEF IsInjective
<1>5. q \in Seq(S)
  BY <1>2, <1>3, SeqDef
<1>6. q \in Surjection(1 .. n, S)
  <2>1. q \in Injection(1 .. n, S)
    BY <1>3, <1>4 DEF Injection
  <2>2. Cardinality(1 .. n) = n
    BY <1>2, FS_Interval
  <2> QED
    BY <1>1, <2>1, <2>2, FS_Injection
<1>7. ToSet(q) = S
  BY <1>3, <1>6 DEF ToSet, Surjection
<1> QED
  BY <1>4, <1>5, <1>7

\* One order behind another.
LEMMA Appended ==
  ASSUME NEW S, NEW p \in Seq(S), NEW q \in Seq(S), IsInjective(p), IsInjective(q),
         ToSet(p) \cap ToSet(q) = {}
  PROVE  /\ p \o q \in Seq(S) /\ IsInjective(p \o q)
         /\ ToSet(p \o q) = ToSet(p) \cup ToSet(q)
<1> DEFINE r == p \o q  m == Len(p)  n == Len(q)
<1>1. /\ r \in Seq(S) /\ Len(r) = m + n /\ DOMAIN r = 1 .. m + n
      /\ \A i \in 1 .. m + n : r[i] = IF i <= m THEN p[i] ELSE q[i - m]
      /\ m \in Nat /\ n \in Nat /\ DOMAIN p = 1 .. m /\ DOMAIN q = 1 .. n
  BY ConcatProperties, LenProperties
<1> HIDE DEF r, m, n
<1>2. \A i \in 1 .. m : p[i] \in ToSet(p)
  BY <1>1 DEF ToSet
<1>3. \A i \in 1 .. n : q[i] \in ToSet(q)
  BY <1>1 DEF ToSet
<1>4. ASSUME NEW i \in 1 .. m + n, NEW j \in 1 .. m + n, r[i] = r[j]
      PROVE  i = j
  <2>1. CASE i <= m /\ j <= m
    <3>1. i \in DOMAIN p /\ j \in DOMAIN p
      BY <1>1, <2>1
    <3>2. p[i] = p[j]
      BY <1>1, <1>4, <2>1
    <3> QED
      BY <3>1, <3>2 DEF IsInjective
  <2>2. CASE i > m /\ j > m
    <3>1. i - m \in 1 .. n /\ j - m \in 1 .. n
      BY <1>1, <2>2
    <3>2. q[i - m] = q[j - m]
      BY <1>1, <1>4, <2>2
    <3>3. i - m = j - m
      BY <1>1, <3>1, <3>2 DEF IsInjective
    <3> QED
      BY <1>1, <3>3
  <2>3. CASE i <= m /\ j > m
    <3>1. i \in 1 .. m /\ j - m \in 1 .. n
      BY <1>1, <2>3
    <3>2. r[i] \in ToSet(p) /\ r[j] \in ToSet(q)
      BY <1>1, <1>2, <1>3, <2>3, <3>1
    <3> QED
      BY <1>4, <3>2
  <2>4. CASE i > m /\ j <= m
    <3>1. j \in 1 .. m /\ i - m \in 1 .. n
      BY <1>1, <2>4
    <3>2. r[j] \in ToSet(p) /\ r[i] \in ToSet(q)
      BY <1>1, <1>2, <1>3, <2>4, <3>1
    <3> QED
      BY <1>4, <3>2
  <2> QED
    BY <1>1, <2>1, <2>2, <2>3, <2>4
<1>5. ToSet(r) = ToSet(p) \cup ToSet(q)
  <2>1. ASSUME NEW i \in 1 .. m + n PROVE r[i] \in ToSet(p) \cup ToSet(q)
    <3>1. CASE i <= m
      BY <1>1, <1>2, <3>1
    <3>2. CASE i > m
      <4>1. i - m \in 1 .. n
        BY <1>1, <3>2
      <4> QED
        BY <1>1, <1>3, <3>2, <4>1
    <3> QED
      BY <1>1, <3>1, <3>2
  <2>2. ASSUME NEW i \in 1 .. m PROVE p[i] \in ToSet(r)
    <3>1. i \in 1 .. m + n /\ r[i] = p[i]
      BY <1>1
    <3> QED
      BY <1>1, <3>1 DEF ToSet
  <2>3. ASSUME NEW i \in 1 .. n PROVE q[i] \in ToSet(r)
    <3>1. i + m \in 1 .. m + n /\ ~(i + m <= m) /\ i + m - m = i
      BY <1>1
    <3>2. r[i + m] = q[i]
      BY <1>1, <3>1
    <3> QED
      BY <1>1, <3>1, <3>2 DEF ToSet
  <2>4. /\ \A x \in ToSet(r) : \E i \in 1 .. m + n : x = r[i]
        /\ \A x \in ToSet(p) : \E i \in 1 .. m : x = p[i]
        /\ \A x \in ToSet(q) : \E i \in 1 .. n : x = q[i]
    BY <1>1 DEF ToSet
  <2>5. \A x \in ToSet(r) : x \in ToSet(p) \cup ToSet(q)
    BY <2>1, <2>4
  <2>6. \A x \in ToSet(p) \cup ToSet(q) : x \in ToSet(r)
    BY <2>2, <2>3, <2>4
  <2> QED
    BY <2>5, <2>6
<1>6. IsInjective(r)
  BY <1>1, <1>4 DEF IsInjective
<1> QED
  BY <1>1, <1>5, <1>6 DEF r

\* Without its first task.
LEMMA Removed ==
  ASSUME NEW S, NEW q \in Seq(S), q # <<>>, IsInjective(q)
  PROVE  /\ RemoveAt(q, 1) = Tail(q) /\ RemoveAt(q, 1) \in Seq(S)
         /\ IsInjective(RemoveAt(q, 1))
         /\ ToSet(RemoveAt(q, 1)) = ToSet(q) \ {q[1]}
<1> DEFINE t == Tail(q)  n == Len(q)
<1>1. /\ t \in Seq(S) /\ Len(t) = n - 1 /\ DOMAIN t = 1 .. n - 1
      /\ \A i \in 1 .. n - 1 : t[i] = q[i + 1]
      /\ n \in Nat \ {0} /\ DOMAIN q = 1 .. n
  BY HeadTailProperties, LenProperties, EmptySeq
<1>2. RemoveAt(q, 1) = t
  <2>1. SubSeq(q, 1, 1 - 1) = <<>>
    BY SubSeqEmpty
  <2>2. SubSeq(q, 1 + 1, Len(q)) = t
    BY TailIsSubSeq
  <2>3. <<>> \o t = t
    BY <1>1, ConcatEmptySeq
  <2> QED
    BY <2>1, <2>2, <2>3 DEF RemoveAt
<1> HIDE DEF t, n
<1>3. \A i, j \in 1 .. n : q[i] = q[j] => i = j
  BY <1>1 DEF IsInjective
<1>4. IsInjective(t)
  <2>1. ASSUME NEW i \in 1 .. n - 1, NEW j \in 1 .. n - 1, t[i] = t[j]
        PROVE  i = j
    <3>1. i + 1 \in 1 .. n /\ j + 1 \in 1 .. n /\ q[i + 1] = q[j + 1]
      BY <1>1, <2>1
    <3>2. i + 1 = j + 1
      BY <1>3, <3>1
    <3> QED
      BY <1>1, <3>2
  <2> QED
    BY <1>1, <2>1 DEF IsInjective
<1>5. ToSet(t) = ToSet(q) \ {q[1]}
  <2>1. ASSUME NEW i \in 1 .. n - 1 PROVE t[i] \in ToSet(q) \ {q[1]}
    <3>1. i + 1 \in 1 .. n /\ 1 \in 1 .. n /\ i + 1 # 1
      BY <1>1
    <3>2. q[i + 1] # q[1]
      BY <1>3, <3>1
    <3> QED
      BY <1>1, <3>1, <3>2 DEF ToSet
  <2>2. ASSUME NEW i \in 1 .. n, q[i] # q[1] PROVE q[i] \in ToSet(t)
    <3>1. i - 1 \in 1 .. n - 1 /\ i - 1 + 1 = i
      BY <1>1, <2>2
    <3> QED
      BY <1>1, <3>1 DEF ToSet
  <2>3. ToSet(t) \subseteq ToSet(q) \ {q[1]}
    BY <1>1, <2>1 DEF ToSet
  <2>4. ToSet(q) \ {q[1]} \subseteq ToSet(t)
    <3>1. ToSet(q) = {q[i] : i \in 1 .. n}
      BY <1>1 DEF ToSet
    <3> QED
      BY <2>2, <3>1
  <2> QED
    BY <2>3, <2>4
<1> QED
  BY <1>1, <1>2, <1>4, <1>5 DEF t

\* All tasks have one priority: the first in the queue runs.
LEMMA FirstRuns ==
  ASSUME ready \in Seq(Tasks), ready # <<>>
  PROVE  Turn = 1 /\ Running = ready[1] /\ Running \in Tasks
<1>1. Len(ready) \in Nat \ {0} /\ DOMAIN ready = 1 .. Len(ready)
  BY EmptySeq, LenProperties
<1>2. \A i \in DOMAIN ready : ready[i] \in Tasks
  BY <1>1, ElementOfSeq
<1>3. \A i \in DOMAIN ready : Eligible(i)
  BY <1>2 DEF Eligible, Priority
<1>4. 1 \in DOMAIN ready /\ \A i \in DOMAIN ready : i \in Nat /\ (i # 1 => 1 \in 1 .. i - 1)
  BY <1>1
<1>5. \E i \in DOMAIN ready : Eligible(i) /\ \A j \in 1 .. i - 1 : ~Eligible(j)
  BY <1>3, <1>4
<1>6. \A i \in DOMAIN ready : (\A j \in 1 .. i - 1 : ~Eligible(j)) => i = 1
  BY <1>3, <1>4
<1>7. Turn = 1
  BY <1>5, <1>6 DEF Turn
<1> QED
  BY <1>2, <1>4, <1>7 DEF Running

-----------------------------------------------------------------------------
(* Type correctness                                                        *)

Places == {"setup", "on", "off", "pins", "lcr", "dll", "close", "fcr", "put",
           "store", "poll", "de", "gpio", "uart2", "exchange", "round"}
MostTicks == PutTicks + PollTicks + LedTicks + RoundTicks

ProgramTypes ==
  /\ pc \in [Tasks -> Places]
  /\ todo \in [Tasks -> 0 .. Banner + EchoLen]
  /\ copy \in [Tasks -> SUBSET {"uart0", "uart2"}]
  /\ pins \in SUBSET {"uart0", "uart2"}
QueueTypes ==
  /\ ready \in Seq(Tasks) /\ IsInjective(ready)
  /\ delay \in [Tasks -> 0 .. MostTicks]
  /\ \A t \in Tasks : delay[t] = 0 <=> t \in ToSet(ready)
CountTypes ==
  /\ ran \in 0 .. Slice /\ air \in 0 .. 2
  /\ thr \in 0 .. FifoSize /\ due \in 0 .. thr /\ rx \in 0 .. MaxKeys
FlagTypes ==
  /\ divisor \in {"reset", "115200", "character"}
  /\ dlab \in BOOLEAN /\ fifoOn \in BOOLEAN /\ led \in BOOLEAN /\ lost \in BOOLEAN

LEMMA TypesSplit ==
  TypeOK <=> ProgramTypes /\ QueueTypes /\ CountTypes /\ FlagTypes
<1>1. {dlab, fifoOn, led, lost} \subseteq BOOLEAN
      <=> dlab \in BOOLEAN /\ fifoOn \in BOOLEAN /\ led \in BOOLEAN /\ lost \in BOOLEAN
  OBVIOUS
<1> QED
  BY <1>1 DEF TypeOK, ProgramTypes, QueueTypes, CountTypes, FlagTypes, Places, MostTicks

LEMMA DelayKeepsQueue ==
  ASSUME QueueTypes, ready # <<>>, NEW n \in 1 .. MostTicks, vTaskDelay(Running, n)
  PROVE  QueueTypes'
<1> DEFINE t == ready[1]
<1>1. Turn = 1 /\ Running = t /\ t \in Tasks
  BY FirstRuns DEF QueueTypes
<1>2. ready' = RemoveAt(ready, 1) /\ delay' = [delay EXCEPT ![t] = n]
  BY <1>1 DEF vTaskDelay
<1>3. /\ ready' \in Seq(Tasks) /\ IsInjective(ready')
      /\ ToSet(ready') = ToSet(ready) \ {t}
  BY <1>2, Removed DEF QueueTypes
<1> HIDE DEF t
<1>4. delay' \in [Tasks -> 0 .. MostTicks]
  BY <1>1, <1>2 DEF QueueTypes
<1>5. ASSUME NEW u \in Tasks PROVE delay'[u] = 0 <=> u \in ToSet(ready')
  <2>1. delay'[u] = IF u = t THEN n ELSE delay[u]
    BY <1>1, <1>2 DEF QueueTypes
  <2>2. n # 0
    OBVIOUS
  <2> QED
    BY <1>3, <2>1, <2>2 DEF QueueTypes
<1> QED
  BY <1>3, <1>4, <1>5 DEF QueueTypes

LEMMA TickKeepsQueue ==
  ASSUME QueueTypes, Tick
  PROVE  QueueTypes'
<1> DEFINE woken == {t \in Tasks : delay[t] = 1}
<1>1. PICK q \in SetToSeqs(woken) :
        ready' = IF ready = <<>> THEN q
                 ELSE RemoveAt(ready, Turn) \o q \o <<Running>>
  BY DEF Tick
<1>2. delay' = [t \in Tasks |-> IF delay[t] = 0 THEN 0 ELSE delay[t] - 1]
  BY DEF Tick
<1>3. q \in Seq(Tasks) /\ IsInjective(q) /\ ToSet(q) = woken
  <2>1. IsFiniteSet(woken)
    BY TasksFinite, FS_Subset
  <2>2. q \in Seq(woken) /\ IsInjective(q) /\ ToSet(q) = woken
    BY <2>1, OrdersOf
  <2>3. q \in Seq(Tasks)
    BY <2>2, SeqMonotonic
  <2> QED
    BY <2>2, <2>3
<1>4. /\ ready' \in Seq(Tasks) /\ IsInjective(ready')
      /\ ToSet(ready') = ToSet(ready) \cup woken
  <2>1. CASE ready = <<>>
    <3>1. ToSet(ready) = {}
      BY <2>1 DEF ToSet
    <3> QED
      BY <1>1, <1>3, <2>1, <3>1
  <2>2. CASE ready # <<>>
    <3> DEFINE f == ready[1]  rest == RemoveAt(ready, 1)  most == rest \o q
    <3>1. ready' = most \o <<f>> /\ f \in Tasks
      BY <1>1, <2>2, FirstRuns DEF QueueTypes
    <3>2. /\ rest \in Seq(Tasks) /\ IsInjective(rest)
          /\ ToSet(rest) = ToSet(ready) \ {f}
      BY <2>2, Removed DEF QueueTypes
    <3>3. f \in ToSet(ready)
      BY <2>2, EmptySeq, LenProperties DEF QueueTypes, ToSet
    <3>4. ToSet(ready) \cap woken = {}
      BY DEF QueueTypes
    <3>5. <<f>> \in Seq(Tasks) /\ IsInjective(<<f>>) /\ ToSet(<<f>>) = {f}
      BY <3>1 DEF IsInjective, ToSet
    <3> HIDE DEF f, rest, most, woken
    <3>6. /\ most \in Seq(Tasks) /\ IsInjective(most)
          /\ ToSet(most) = (ToSet(ready) \ {f}) \cup woken
      <4>1. ToSet(rest) \cap ToSet(q) = {}
        BY <1>3, <3>2, <3>4
      <4> QED
        BY <1>3, <3>2, <4>1, Appended DEF most
    <3>7. ToSet(most) \cap ToSet(<<f>>) = {}
      BY <3>3, <3>4, <3>5, <3>6
    <3>8. /\ ready' \in Seq(Tasks) /\ IsInjective(ready')
          /\ ToSet(ready') = ToSet(most) \cup {f}
      <4> DEFINE last == <<f>>
      <4>1. /\ last \in Seq(Tasks) /\ IsInjective(last) /\ ToSet(last) = {f}
            /\ ToSet(most) \cap ToSet(last) = {} /\ ready' = most \o last
        BY <3>1, <3>5, <3>7
      <4> HIDE DEF last
      <4>2. /\ most \o last \in Seq(Tasks) /\ IsInjective(most \o last)
            /\ ToSet(most \o last) = ToSet(most) \cup ToSet(last)
        BY <3>6, <4>1, Appended
      <4> QED
        BY <4>1, <4>2
    <3>9. (ToSet(ready) \ {f}) \cup woken \cup {f} = ToSet(ready) \cup woken
      BY <3>3
    <3> QED
      BY <3>6, <3>8, <3>9
  <2> QED
    BY <2>1, <2>2
<1>5. \A t \in Tasks : delay[t] \in 0 .. MostTicks /\ MostTicks \in Nat
  BY DEF QueueTypes, MostTicks
<1>6. delay' \in [Tasks -> 0 .. MostTicks]
  BY <1>2, <1>5
<1>7. \A t \in Tasks : delay'[t] = 0 <=> delay[t] = 0 \/ delay[t] = 1
  BY <1>2, <1>5
<1>8. \A t \in Tasks : delay'[t] = 0 <=> t \in ToSet(ready')
  BY <1>4, <1>7 DEF QueueTypes
<1> QED
  BY <1>4, <1>6, <1>8 DEF QueueTypes

\* Only vTaskDelay and the tick touch the queue.
QueueStays == UNCHANGED <<ready, delay>>
TurnDelays == ready # <<>> /\ \E n \in 1 .. MostTicks : vTaskDelay(Running, n)

LEMMA QueueMoves ==
  ASSUME Next
  PROVE  QueueStays \/ TurnDelays \/ Tick
<1>1. {PutTicks, PollTicks, LedTicks, RoundTicks} \subseteq 1 .. MostTicks
  BY DEF MostTicks
<1>2. ASSUME NEW t, NEW p, NEW n \in {PutTicks, PollTicks, LedTicks, RoundTicks},
             Run(t, p), vTaskDelay(t, n)
      PROVE  TurnDelays
  <2>1. ready # <<>> /\ t = Running
    BY <1>2 DEF Run
  <2>2. vTaskDelay(Running, n) /\ n \in 1 .. MostTicks
    BY <1>1, <1>2, <2>1
  <2> QED
    BY <2>1, <2>2 DEF TurnDelays
<1>3. ASSUME Continue PROVE QueueStays
  BY <1>3 DEF Continue, kernel, QueueStays
<1>4. ASSUME NEW t, PutWait(t) PROVE QueueStays \/ TurnDelays
  <2>1. CASE Thre
    BY <1>3, <1>4, <2>1 DEF PutWait
  <2>2. CASE ~Thre
    BY <1>2, <1>4, <2>2 DEF PutWait
  <2> QED
    BY <2>1, <2>2
<1>5. ASSUME NEW t, Put(t) PROVE QueueStays
  BY <1>3, <1>5 DEF Put
<1>6. ASSUME LedTask PROVE QueueStays \/ TurnDelays
  <2>1. CASE LedSetup
    BY <1>3, <2>1 DEF LedSetup
  <2>2. CASE LedOn
    BY <1>2, <2>2 DEF LedOn
  <2>3. CASE LedOff
    BY <1>2, <2>3 DEF LedOff
  <2> QED
    BY <1>6, <2>1, <2>2, <2>3 DEF LedTask
<1>7. ASSUME EchoTask PROVE QueueStays \/ TurnDelays
  <2>1. CASE EchoPoll
    <3>1. CASE rx > 0
      BY <1>3, <2>1, <3>1 DEF EchoPoll
    <3>2. CASE ~(rx > 0)
      BY <1>2, <2>1, <3>2 DEF EchoPoll
    <3> QED
      BY <3>1, <3>2
  <2>2. ASSUME EchoReadPins \/ EchoWritePins \/ OpenLatch \/ SetDivisor
               \/ CloseLatch \/ EnableFifo
        PROVE  Continue
    BY <2>2 DEF EchoReadPins, EchoWritePins, OpenLatch, SetDivisor, CloseLatch,
       EnableFifo, ReadPins, WritePins
  <2> QED
    BY <1>3, <1>4, <1>5, <1>7, <2>1, <2>2 DEF EchoTask
<1>8. ASSUME Rs485Task PROVE QueueStays \/ TurnDelays
  <2>1. CASE RoundDelay
    BY <1>2, <2>1 DEF RoundDelay
  <2>2. ASSUME \/ Rs485ReadPins \/ Rs485WritePins \/ Rs485ReadDe \/ Rs485WriteDe
               \/ Rs485Setup \/ ExchangePoll
        PROVE  Continue
    BY <2>2 DEF Rs485ReadPins, Rs485WritePins, Rs485ReadDe, Rs485WriteDe,
       Rs485Setup, ExchangePoll, ReadPins, WritePins
  <2>3. ASSUME NEW n, ExchangeEnds(n) PROVE QueueStays
    BY <2>3 DEF ExchangeEnds, QueueStays
  <2> QED
    BY <1>3, <1>4, <1>5, <1>8, <2>1, <2>2, <2>3 DEF Rs485Task
<1>9. ASSUME CharacterSent \/ KeyTyped PROVE QueueStays
  BY <1>9 DEF CharacterSent, KeyTyped, kernel, QueueStays
<1> QED
  BY <1>6, <1>7, <1>8, <1>9 DEF Next

LEMMA QueueStep ==
  ASSUME QueueTypes, Next
  PROVE  QueueTypes'
<1>1. CASE QueueStays
  BY <1>1 DEF QueueTypes, QueueStays
<1>2. CASE TurnDelays
  BY <1>2, DelayKeepsQueue DEF TurnDelays
<1> QED
  BY <1>1, <1>2, QueueMoves, TickKeepsQueue

TypesInv == ProgramTypes /\ QueueTypes /\ CountTypes /\ FlagTypes /\ TodoInv

\* What a step of task t to p leaves of the other tasks.
LEMMA RunMoves ==
  ASSUME ProgramTypes, CountTypes, NEW t \in Tasks, NEW p \in Places, Run(t, p)
  PROVE  /\ pc' \in [Tasks -> Places]
         /\ \A u \in Tasks : pc'[u] = IF u = t THEN p ELSE pc[u]
         /\ ran' \in 0 .. Slice
BY DEF Run, ProgramTypes, CountTypes

LEMMA LedTypes ==
  ASSUME TypesInv, LedTask
  PROVE  ProgramTypes' /\ CountTypes' /\ FlagTypes' /\ TodoInv'
<1>1. /\ \E p \in {"on", "off"} : Run("led", p)
      /\ UNCHANGED <<todo, copy, pins, uart0, air>>
      /\ led' \in BOOLEAN
  BY DEF TypesInv, FlagTypes, LedTask, LedSetup, LedOn, LedOff, vTaskDelay, Continue, kernel
<1>2. PICK p \in {"on", "off"} : Run("led", p)
  BY <1>1
<1>3. /\ pc' \in [Tasks -> Places]
      /\ \A u \in Tasks : pc'[u] = IF u = "led" THEN p ELSE pc[u]
      /\ ran' \in 0 .. Slice
  BY <1>2, RunMoves DEF TypesInv, Places, Tasks
<1>4. ProgramTypes' /\ CountTypes'
  BY <1>1, <1>3 DEF TypesInv, ProgramTypes, CountTypes, uart0
<1>5. FlagTypes'
  BY <1>1 DEF TypesInv, FlagTypes, uart0
<1>6. TodoInv'
  BY <1>1, <1>3 DEF TypesInv, TodoInv, Tasks
<1> QED
  BY <1>4, <1>5, <1>6

Writers == {"echo", "rs485"}

LEMMA PutWaitTypes ==
  ASSUME TypesInv, NEW t \in Writers, PutWait(t)
  PROVE  ProgramTypes' /\ CountTypes' /\ FlagTypes' /\ TodoInv'
<1>1. PICK p \in {"put", "store"} : Run(t, p)
  BY DEF PutWait
<1>2. pc[t] = "put" /\ UNCHANGED <<todo, copy, pins, uart0, led, air>>
  BY DEF PutWait, vTaskDelay, Continue, kernel
<1>3. /\ pc' \in [Tasks -> Places]
      /\ \A u \in Tasks : pc'[u] = IF u = t THEN p ELSE pc[u]
      /\ ran' \in 0 .. Slice
  BY <1>1, RunMoves DEF TypesInv, Places, Tasks, Writers
<1>4. ProgramTypes' /\ CountTypes'
  BY <1>2, <1>3 DEF TypesInv, ProgramTypes, CountTypes, uart0
<1>5. FlagTypes'
  BY <1>2 DEF TypesInv, FlagTypes, uart0
<1>6. TodoInv'
  BY <1>2, <1>3 DEF TypesInv, TodoInv, Tasks, Writers
<1> QED
  BY <1>4, <1>5, <1>6

LEMMA PutTypes ==
  ASSUME TypesInv, NEW t \in Writers, Put(t)
  PROVE  ProgramTypes' /\ CountTypes' /\ FlagTypes' /\ TodoInv'
<1>1. PICK p \in {"put", "poll", "round"} :
        /\ Run(t, p)
        /\ p = "put" <=> More(t)
        /\ p = "poll" => t = "echo"
        /\ p = "round" => t = "rs485"
  BY DEF Put, Writers
<1>2. pc[t] = "store" /\ UNCHANGED <<copy, pins, dlab, fifoOn, due, rx, led, air>>
  BY DEF Put, Continue, kernel
<1>3. /\ pc' \in [Tasks -> Places]
      /\ \A u \in Tasks : pc'[u] = IF u = t THEN p ELSE pc[u]
      /\ ran' \in 0 .. Slice
  BY <1>1, RunMoves DEF TypesInv, Places, Tasks, Writers
<1>4. todo[t] \in 1 .. Banner + EchoLen
  BY <1>2 DEF TypesInv, ProgramTypes, TodoInv, Writers, Tasks
<1>5. /\ todo' \in [Tasks -> 0 .. Banner + EchoLen]
      /\ \A u \in Tasks : todo'[u] = IF u = t THEN todo[u] - 1 ELSE todo[u]
  BY <1>4 DEF TypesInv, ProgramTypes, Put, Writers, Tasks
<1>6. thr' \in thr .. FifoSize
  <2>1. CASE dlab
    BY <2>1 DEF TypesInv, CountTypes, Put
  <2>2. CASE ~dlab
    BY <2>2 DEF TypesInv, CountTypes, Put
  <2> QED
    BY <2>1, <2>2
<1>7. divisor' \in {"reset", "115200", "character"} /\ lost' \in BOOLEAN
  <2>1. divisor' \in {divisor, "character"}
    BY DEF Put
  <2>2. lost' \in BOOLEAN
    BY DEF TypesInv, FlagTypes, Put
  <2> QED
    BY <2>1, <2>2 DEF TypesInv, FlagTypes
<1>8. ProgramTypes' /\ CountTypes'
  BY <1>2, <1>3, <1>5, <1>6 DEF TypesInv, ProgramTypes, CountTypes
<1>9. FlagTypes'
  BY <1>2, <1>7 DEF TypesInv, FlagTypes
<1>10. TodoInv'
  <2>1. p = "put" => todo'[t] > 0
    BY <1>1, <1>4, <1>5 DEF More, Writers, Tasks
  <2>2. \A u \in Tasks : pc'[u] \in {"put", "store"} => todo'[u] > 0
    BY <1>1, <1>3, <1>5, <2>1 DEF TypesInv, TodoInv
  <2>3. /\ pc'["led"] \in {"setup", "on", "off"}
        /\ pc'["echo"] \in SetupStages \cup {"put", "store", "poll"}
        /\ pc'["rs485"] \in {"setup", "pins", "de", "gpio", "uart2", "exchange",
                             "put", "store", "round"}
    BY <1>1, <1>3 DEF TypesInv, TodoInv, Tasks, Writers
  <2> QED
    BY <2>2, <2>3 DEF TodoInv
<1> QED
  BY <1>8, <1>9, <1>10

\* A step of uart_init or of the setup of UART2: one more stage.
LEMMA SetupTypes ==
  ASSUME TypesInv, NEW t \in Writers, NEW p \in Places, Run(t, p), Continue,
         t = "echo" => p \in SetupStages \cup {"put"},
         t = "rs485" => p \in {"pins", "de", "gpio", "uart2", "exchange"},
         todo' \in [Tasks -> 0 .. Banner + EchoLen],
         \A u \in Tasks : u # t => todo'[u] = todo[u],
         p = "put" => todo'[t] > 0,
         copy' \in [Tasks -> SUBSET {"uart0", "uart2"}],
         pins' \in SUBSET {"uart0", "uart2"},
         FlagTypes', UNCHANGED <<thr, due, rx>> \/ (thr' = 0 /\ due' = 0 /\ rx' = 0)
  PROVE  ProgramTypes' /\ CountTypes' /\ FlagTypes' /\ TodoInv'
<1>1. /\ pc' \in [Tasks -> Places]
      /\ \A u \in Tasks : pc'[u] = IF u = t THEN p ELSE pc[u]
      /\ ran' \in 0 .. Slice
  BY RunMoves DEF TypesInv, Tasks, Writers
<1>2. ProgramTypes'
  BY <1>1 DEF ProgramTypes
<1>3. CountTypes'
  BY <1>1 DEF TypesInv, CountTypes, Continue, kernel
<1>4. TodoInv'
  <2>1. p # "store"
    BY DEF SetupStages, Writers
  <2>2. \A u \in Tasks : pc'[u] \in {"put", "store"} => todo'[u] > 0
    BY <1>1, <2>1 DEF TypesInv, TodoInv
  <2>3. /\ pc'["led"] \in {"setup", "on", "off"}
        /\ pc'["echo"] \in SetupStages \cup {"put", "store", "poll"}
        /\ pc'["rs485"] \in {"setup", "pins", "de", "gpio", "uart2", "exchange",
                             "put", "store", "round"}
    BY <1>1 DEF TypesInv, TodoInv, Tasks, Writers
  <2> QED
    BY <2>2, <2>3 DEF TodoInv
<1> QED
  BY <1>2, <1>3, <1>4

LEMMA ReadPinsTypes ==
  ASSUME TypesInv, NEW t \in Writers, NEW from, NEW p \in {"pins", "gpio"},
         ReadPins(t, from, p), t = "echo" => p = "pins"
  PROVE  ProgramTypes' /\ CountTypes' /\ FlagTypes' /\ TodoInv'
<1>1. FlagTypes'
  BY DEF TypesInv, FlagTypes, ReadPins, uart0
<1>2. copy' \in [Tasks -> SUBSET {"uart0", "uart2"}]
  BY DEF TypesInv, ProgramTypes, ReadPins, Writers, Tasks
<1> QED
  BY <1>1, <1>2, SetupTypes DEF TypesInv, ProgramTypes, ReadPins, uart0, Places, SetupStages

LEMMA WritePinsTypes ==
  ASSUME TypesInv, NEW t \in Writers, NEW from, NEW p \in {"lcr", "de", "uart2"},
         NEW value \in SUBSET {"uart0", "uart2"},
         WritePins(t, from, p, value), t = "echo" <=> p = "lcr"
  PROVE  ProgramTypes' /\ CountTypes' /\ FlagTypes' /\ TodoInv'
<1>1. FlagTypes'
  BY DEF TypesInv, FlagTypes, WritePins, uart0
<1> QED
  BY <1>1, SetupTypes DEF TypesInv, ProgramTypes, WritePins, uart0, Places, SetupStages, Writers

LEMMA EchoTypes ==
  ASSUME TypesInv, EchoTask
  PROVE  ProgramTypes' /\ CountTypes' /\ FlagTypes' /\ TodoInv'
<1>1. CASE EchoReadPins
  BY <1>1, ReadPinsTypes DEF EchoReadPins, Writers
<1>2. CASE EchoWritePins
  <2>1. Uart0Pins \in SUBSET {"uart0", "uart2"}
    BY DEF TypesInv, ProgramTypes, Uart0Pins, Tasks
  <2> QED
    BY <1>2, <2>1, WritePinsTypes DEF EchoWritePins, Writers
<1>3. CASE OpenLatch
  <2>1. FlagTypes'
    BY <1>3 DEF TypesInv, FlagTypes, OpenLatch
  <2> QED
    BY <1>3, <2>1, SetupTypes DEF TypesInv, ProgramTypes, OpenLatch, Places, SetupStages, Writers
<1>4. CASE SetDivisor
  <2>1. FlagTypes'
    BY <1>4 DEF TypesInv, FlagTypes, SetDivisor
  <2> QED
    BY <1>4, <2>1, SetupTypes DEF TypesInv, ProgramTypes, SetDivisor, Places, SetupStages, Writers
<1>5. CASE CloseLatch
  <2>1. FlagTypes'
    BY <1>5 DEF TypesInv, FlagTypes, CloseLatch
  <2> QED
    BY <1>5, <2>1, SetupTypes DEF TypesInv, ProgramTypes, CloseLatch, Places, SetupStages, Writers
<1>6. CASE EnableFifo
  <2>1. FlagTypes'
    BY <1>6 DEF TypesInv, FlagTypes, EnableFifo, Fcr
  <2>2. /\ todo' \in [Tasks -> 0 .. Banner + EchoLen] /\ todo'["echo"] > 0
        /\ \A u \in Tasks : u # "echo" => todo'[u] = todo[u]
    BY <1>6 DEF TypesInv, ProgramTypes, EnableFifo, Tasks
  <2> QED
    BY <1>6, <2>1, <2>2, SetupTypes DEF TypesInv, ProgramTypes, EnableFifo, Places, SetupStages, Writers
<1>7. CASE EchoPoll
  <2>1. PICK p \in {"put", "poll"} : Run("echo", p) /\ (p = "put" => rx > 0)
    BY <1>7 DEF EchoPoll
  <2>2. /\ pc' \in [Tasks -> Places]
        /\ \A u \in Tasks : pc'[u] = IF u = "echo" THEN p ELSE pc[u]
        /\ ran' \in 0 .. Slice
    BY <2>1, RunMoves DEF TypesInv, Places, Tasks
  <2>3. UNCHANGED <<copy, pins, dlab, divisor, fifoOn, thr, due, led, lost, air>>
    BY <1>7 DEF EchoPoll, Continue, vTaskDelay, kernel
  <2>4. /\ todo' \in [Tasks -> 0 .. Banner + EchoLen]
        /\ \A u \in Tasks : u # "echo" => todo'[u] = todo[u]
        /\ rx' \in 0 .. MaxKeys
        /\ rx > 0 => todo'["echo"] > 0
    BY <1>7 DEF TypesInv, ProgramTypes, CountTypes, EchoPoll, Tasks
  <2>5. ProgramTypes' /\ CountTypes'
    BY <2>2, <2>3, <2>4 DEF TypesInv, ProgramTypes, CountTypes
  <2>6. FlagTypes'
    BY <2>3 DEF TypesInv, FlagTypes
  <2>7. TodoInv'
    BY <2>1, <2>2, <2>4 DEF TypesInv, TodoInv, Tasks
  <2> QED
    BY <2>5, <2>6, <2>7
<1>8. CASE PutWait("echo") \/ Put("echo")
  BY <1>8, PutWaitTypes, PutTypes DEF Writers
<1> QED
  BY <1>1, <1>2, <1>3, <1>4, <1>5, <1>6, <1>7, <1>8 DEF EchoTask

LEMMA Rs485Types ==
  ASSUME TypesInv, Rs485Task
  PROVE  ProgramTypes' /\ CountTypes' /\ FlagTypes' /\ TodoInv'
<1>1. CASE Rs485ReadPins \/ Rs485ReadDe
  BY <1>1, ReadPinsTypes DEF Rs485ReadPins, Rs485ReadDe, Writers
<1>2. CASE Rs485WritePins \/ Rs485WriteDe
  <2>1. /\ copy["rs485"] \in SUBSET {"uart0", "uart2"}
        /\ copy["rs485"] \cup {"uart2"} \in SUBSET {"uart0", "uart2"}
    BY DEF TypesInv, ProgramTypes, Tasks
  <2> QED
    BY <1>2, <2>1, WritePinsTypes DEF Rs485WritePins, Rs485WriteDe, Writers
<1>3. CASE Rs485Setup \/ ExchangePoll
  <2>1. Run("rs485", "exchange") /\ Continue /\ UNCHANGED <<todo, copy, pins, uart0, led>>
    BY <1>3 DEF Rs485Setup, ExchangePoll
  <2>2. FlagTypes'
    BY <2>1 DEF TypesInv, FlagTypes, uart0
  <2> QED
    BY <2>1, <2>2, SetupTypes DEF TypesInv, ProgramTypes, uart0, Places, Writers
<1>4. CASE RoundDelay
  <2>1. /\ pc' \in [Tasks -> Places]
        /\ \A u \in Tasks : pc'[u] = IF u = "rs485" THEN "exchange" ELSE pc[u]
        /\ ran' \in 0 .. Slice
    BY <1>4, RunMoves DEF TypesInv, Places, Tasks, RoundDelay
  <2>2. UNCHANGED <<todo, copy, pins, uart0, led, air>>
    BY <1>4 DEF RoundDelay, vTaskDelay
  <2>3. ProgramTypes' /\ CountTypes'
    BY <2>1, <2>2 DEF TypesInv, ProgramTypes, CountTypes, uart0
  <2>4. FlagTypes'
    BY <2>2 DEF TypesInv, FlagTypes, uart0
  <2>5. TodoInv'
    BY <2>1, <2>2 DEF TypesInv, TodoInv, Tasks
  <2> QED
    BY <2>3, <2>4, <2>5
<1>5. ASSUME NEW n \in {0, EchoLen}, ExchangeEnds(n)
      PROVE  ProgramTypes' /\ CountTypes' /\ FlagTypes' /\ TodoInv'
  <2>1. PICK p \in {"put", "round"} : Run("rs485", p) /\ (p = "put" => n = EchoLen)
    BY <1>5 DEF ExchangeEnds
  <2>2. /\ pc' \in [Tasks -> Places]
        /\ \A u \in Tasks : pc'[u] = IF u = "rs485" THEN p ELSE pc[u]
        /\ ran' \in 0 .. Slice
    BY <2>1, RunMoves DEF TypesInv, Places, Tasks
  <2>3. UNCHANGED <<copy, pins, uart0, led>> /\ air' = 0
    BY <1>5 DEF ExchangeEnds
  <2>4. /\ todo' \in [Tasks -> 0 .. Banner + EchoLen]
        /\ \A u \in Tasks : todo'[u] = IF u = "rs485" THEN n ELSE todo[u]
    BY <1>5 DEF TypesInv, ProgramTypes, ExchangeEnds, Tasks
  <2>5. ProgramTypes' /\ CountTypes'
    BY <2>2, <2>3, <2>4 DEF TypesInv, ProgramTypes, CountTypes, uart0
  <2>6. FlagTypes'
    BY <2>3 DEF TypesInv, FlagTypes, uart0
  <2>7. TodoInv'
    BY <2>1, <2>2, <2>4 DEF TypesInv, TodoInv, Tasks
  <2> QED
    BY <2>5, <2>6, <2>7
<1>6. CASE PutWait("rs485") \/ Put("rs485")
  BY <1>6, PutWaitTypes, PutTypes DEF Writers
<1> QED
  BY <1>1, <1>2, <1>3, <1>4, <1>5, <1>6 DEF Rs485Task

LEMMA OtherTypes ==
  ASSUME TypesInv, Tick \/ CharacterSent \/ KeyTyped
  PROVE  ProgramTypes' /\ CountTypes' /\ FlagTypes' /\ TodoInv'
<1>1. UNCHANGED <<pc, todo, copy, pins, dlab, divisor, fifoOn, led, lost>>
  BY DEF Tick, CharacterSent, KeyTyped, uart0
<1>2. ProgramTypes' /\ FlagTypes' /\ TodoInv'
  BY <1>1 DEF TypesInv, ProgramTypes, FlagTypes, TodoInv
<1>3. CASE Tick
  BY <1>2, <1>3 DEF TypesInv, CountTypes, Tick, uart0
<1>4. CASE CharacterSent
  BY <1>2, <1>4 DEF TypesInv, CountTypes, CharacterSent, kernel
<1>5. CASE KeyTyped
  BY <1>2, <1>5 DEF TypesInv, CountTypes, KeyTyped, kernel
<1> QED
  BY <1>3, <1>4, <1>5

LEMMA TypesInit == Init => TypesInv
<1> SUFFICES ASSUME Init PROVE TypesInv
  OBVIOUS
<1>1. ProgramTypes /\ CountTypes /\ TodoInv
  BY DEF Init, ProgramTypes, CountTypes, TodoInv, Places, Tasks, SetupStages
<1>2. FlagTypes
  BY DEF Init, FlagTypes
<1>3. /\ ready \in Seq(Tasks)
      /\ DOMAIN ready = 1 .. 3
      /\ ready[1] = "rs485" /\ ready[2] = "led" /\ ready[3] = "echo"
  BY DEF Init, Tasks
<1>4. IsInjective(ready)
  BY <1>3 DEF IsInjective
<1>5. ToSet(ready) = Tasks
  BY <1>3 DEF ToSet, Tasks
<1>6. MostTicks \in Nat
  BY DEF MostTicks
<1>7. QueueTypes
  BY <1>3, <1>4, <1>5, <1>6 DEF Init, QueueTypes
<1> QED
  BY <1>1, <1>2, <1>7 DEF TypesInv

LEMMA TypesStep == TypesInv /\ [Next]_vars => TypesInv'
<1>1. ASSUME TypesInv, Next PROVE TypesInv'
  <2>1. QueueTypes'
    BY <1>1, QueueStep DEF TypesInv
  <2>2. ProgramTypes' /\ CountTypes' /\ FlagTypes' /\ TodoInv'
    BY <1>1, LedTypes, EchoTypes, Rs485Types, OtherTypes DEF Next
  <2> QED
    BY <2>1, <2>2 DEF TypesInv
<1>2. ASSUME TypesInv, UNCHANGED vars PROVE TypesInv'
  BY <1>2 DEF TypesInv, ProgramTypes, QueueTypes, CountTypes, FlagTypes, TodoInv,
     vars, kernel, uart0
<1> QED
  BY <1>1, <1>2

THEOREM TypesHold == Spec => []TypesInv
  BY TypesInit, TypesStep, PTL DEF Spec

\* Every variable keeps its type; above all the queue holds each task at most
\* once, and holds exactly those that no delay is running for.
THEOREM TypeCorrect == Spec => []TypeOK
<1>1. TypesInv => TypeOK
  BY TypesSplit DEF TypesInv
<1> QED
  BY <1>1, TypesHold, PTL

-----------------------------------------------------------------------------
(* The two setups                                                          *)

\* A step of t to p, counted.
LEMMA RunCounts ==
  ASSUME TypesInv, NEW t \in Tasks, NEW p \in Places, Run(t, p), ran < Slice
  PROVE  /\ ready # <<>> /\ t = ready[1] /\ ran' = ran + 1
         /\ \A u \in Tasks : pc'[u] = IF u = t THEN p ELSE pc[u]
<1>1. t = ready[1]
  BY FirstRuns DEF TypesInv, QueueTypes, Run
<1> QED
  BY <1>1, RunMoves DEF TypesInv, Run

\* Only the first task in the queue moves.
LEMMA WhoMoves ==
  ASSUME TypesInv, Next
  PROVE  \/ LedTask /\ ready[1] = "led"
         \/ EchoTask /\ ready[1] = "echo"
         \/ Rs485Task /\ ready[1] = "rs485"
         \/ Tick
         \/ /\ UNCHANGED <<pc, copy, ready, ran, air, pins, dlab, divisor>>
            /\ thr = 0 => thr' = 0
<1>1. ASSUME NEW t, NEW p, Run(t, p) PROVE ready[1] = t
  BY <1>1, FirstRuns DEF TypesInv, QueueTypes, Run
<1>2. ASSUME NEW t, PutWait(t) \/ Put(t) PROVE ready[1] = t
  BY <1>1, <1>2 DEF PutWait, Put
<1>3. CASE LedTask
  BY <1>1, <1>3 DEF LedTask, LedSetup, LedOn, LedOff
<1>4. CASE EchoTask
  BY <1>1, <1>2, <1>4 DEF EchoTask, EchoReadPins, EchoWritePins, OpenLatch, SetDivisor,
     CloseLatch, EnableFifo, EchoPoll, ReadPins, WritePins
<1>5. CASE Rs485Task
  BY <1>1, <1>2, <1>5 DEF Rs485Task, Rs485ReadPins, Rs485WritePins, Rs485ReadDe,
     Rs485WriteDe, Rs485Setup, ExchangePoll, ExchangeEnds, RoundDelay, ReadPins, WritePins
<1>6. CASE CharacterSent \/ KeyTyped
  BY <1>6 DEF CharacterSent, KeyTyped, kernel
<1> QED
  BY <1>3, <1>4, <1>5, <1>6 DEF Next

\* While no delay runs, a tick only passes the turn on.
LEMMA TickPassesTurn ==
  ASSUME TypesInv, Tick, ready = <<"rs485", "led", "echo">>
  PROVE  ready' = <<"led", "echo", "rs485">> /\ ran' = 0 /\ UNCHANGED <<pc, pins, thr>>
<1>1. ready # <<>> /\ ready[1] = "rs485" /\ Tail(ready) = <<"led", "echo">>
  OBVIOUS
<1>2. Turn = 1 /\ Running = "rs485" /\ RemoveAt(ready, 1) = <<"led", "echo">>
  BY <1>1, FirstRuns, Removed DEF TypesInv, QueueTypes
<1>3. {t \in Tasks : delay[t] = 1} = {}
  <2>1. DOMAIN ready = 1 .. 3 /\ ready[1] = "rs485" /\ ready[2] = "led" /\ ready[3] = "echo"
    OBVIOUS
  <2>2. \A t \in Tasks : t \in ToSet(ready)
    BY <2>1 DEF ToSet, Tasks
  <2> QED
    BY <2>2 DEF TypesInv, QueueTypes
<1>4. PICK q \in SetToSeqs({}) : ready' = <<"led", "echo">> \o q \o <<"rs485">>
  BY <1>1, <1>2, <1>3 DEF Tick
<1>5. q = <<>>
  BY OrdersOf, FS_EmptySet, EmptySeq
<1>6. ready' = <<"led", "echo", "rs485">>
  <2>1. <<"led", "echo">> \o <<>> = <<"led", "echo">>
    BY ConcatEmptySeq
  <2>2. <<"led", "echo">> \o <<"rs485">> = <<"led", "echo", "rs485">>
    <3> DEFINE two == <<"led", "echo">>  one == <<"rs485">>  three == <<"led", "echo", "rs485">>
    <3>1. /\ two \in Seq(Tasks) /\ Len(two) = 2 /\ two[1] = "led" /\ two[2] = "echo"
          /\ one \in Seq(Tasks) /\ Len(one) = 1 /\ one[1] = "rs485"
      BY DEF Tasks
    <3>2. /\ three \in Seq(Tasks) /\ Len(three) = 3
          /\ three[1] = "led" /\ three[2] = "echo" /\ three[3] = "rs485"
      BY DEF Tasks
    <3> HIDE DEF one, two, three
    <3>3. /\ two \o one \in Seq(Tasks) /\ Len(two \o one) = 3
          /\ (two \o one)[1] = "led" /\ (two \o one)[2] = "echo" /\ (two \o one)[3] = "rs485"
      <4> DEFINE all == two \o one
      <4>0. /\ all \in Seq(Tasks) /\ Len(all) = Len(two) + Len(one)
            /\ \A i \in 1 .. Len(two) + Len(one) :
                 all[i] = IF i <= Len(two) THEN two[i] ELSE one[i - Len(two)]
        BY <3>1, ConcatProperties
      <4> HIDE DEF all
      <4>1. /\ all \in Seq(Tasks) /\ Len(all) = 2 + 1
            /\ \A i \in 1 .. 2 + 1 : all[i] = IF i <= 2 THEN two[i] ELSE one[i - 2]
        BY <3>1, <4>0
      <4>2. /\ all[1] = two[1] /\ all[2] = two[2] /\ all[3] = one[1]
        BY <4>1
      <4>3. all \in Seq(Tasks) /\ Len(all) = 3
        BY <4>1
      <4> QED
        BY <3>1, <4>2, <4>3 DEF all
    <3>4. two \o one = three
      <4> DEFINE all == two \o one
      <4>0. all \in Seq(Tasks) /\ Len(all) = 3
        BY <3>3
      <4>a. all[1] = three[1] /\ all[2] = three[2] /\ all[3] = three[3]
        BY <3>2, <3>3
      <4> HIDE DEF all
      <4>1. all \in Seq(Tasks) /\ Len(all) = 3 /\ Len(three) = 3
        BY <3>2, <4>0
      <4>2. \A i \in 1 .. Len(all) : all[i] = three[i]
        BY <4>0, <4>a
      <4>3. all = three
        BY <3>2, <4>1, <4>2, SeqEqual
      <4> QED
        BY <4>3 DEF all
    <3> QED
      BY <3>4 DEF one, two, three
  <2> QED
    BY <1>4, <1>5, <2>1, <2>2
<1> QED
  BY <1>6 DEF Tick

LEMMA Rs485FirstStep ==
  ASSUME Slice >= 7, TypesInv, Rs485First, Next
  PROVE  SetupInv'
<1>1. /\ ready = <<"rs485", "led", "echo">> /\ ready # <<>> /\ ready[1] = "rs485"
      /\ air = 0 /\ pc["led"] = "setup" /\ pc["echo"] = "setup" /\ ~dlab /\ thr = 0
  BY DEF Rs485First
<1> DEFINE Kept == ready' = ready /\ air' = air /\ dlab' = dlab /\ thr' = thr
<1>2. ASSUME Rs485Task
      PROVE  Rs485First'
  <2>1. CASE Rs485ReadPins \/ Rs485WritePins \/ Rs485ReadDe \/ Rs485WriteDe \/ Rs485Setup
    <3>1. pc["rs485"] # "exchange" /\ ran < Slice
      BY <2>1 DEF Rs485First, Rs485ReadPins, Rs485WritePins, Rs485ReadDe, Rs485WriteDe,
         Rs485Setup, ReadPins, WritePins
    <3>2. Kept
      BY <2>1 DEF Rs485ReadPins, Rs485WritePins, Rs485ReadDe, Rs485WriteDe, Rs485Setup,
         ReadPins, WritePins, Continue, kernel, uart0
    <3>3. CASE Rs485ReadPins
      <4>1. /\ ran' = ran + 1 /\ \A u \in Tasks : pc'[u] = IF u = "rs485" THEN "pins" ELSE pc[u]
        BY <3>1, <3>3, RunCounts DEF Rs485ReadPins, ReadPins, Tasks, Places
      <4>2. pc["rs485"] = "setup" /\ ran = 0
        BY <3>3 DEF Rs485First, Rs485ReadPins, ReadPins
      <4> QED
        BY <1>1, <3>2, <4>1, <4>2 DEF Rs485First, Tasks
    <3>4. CASE Rs485WritePins
      <4>1. /\ ran' = ran + 1 /\ \A u \in Tasks : pc'[u] = IF u = "rs485" THEN "de" ELSE pc[u]
        BY <3>1, <3>4, RunCounts DEF Rs485WritePins, WritePins, Tasks, Places
      <4>2. pc["rs485"] = "pins" /\ ran = 1 /\ "uart2" \in pins'
        BY <3>4 DEF Rs485First, Rs485WritePins, WritePins
      <4> QED
        BY <1>1, <3>2, <4>1, <4>2 DEF Rs485First, Tasks
    <3>5. CASE Rs485ReadDe
      <4>1. /\ ran' = ran + 1 /\ \A u \in Tasks : pc'[u] = IF u = "rs485" THEN "gpio" ELSE pc[u]
        BY <3>1, <3>5, RunCounts DEF Rs485ReadDe, ReadPins, Tasks, Places
      <4>2. pc["rs485"] = "de" /\ ran = 2 /\ "uart2" \in copy'["rs485"]
        BY <3>5 DEF TypesInv, ProgramTypes, Rs485First, Rs485ReadDe, ReadPins, Tasks
      <4> QED
        BY <1>1, <3>2, <4>1, <4>2 DEF Rs485First, Tasks
    <3>6. CASE Rs485WriteDe
      <4>1. /\ ran' = ran + 1 /\ \A u \in Tasks : pc'[u] = IF u = "rs485" THEN "uart2" ELSE pc[u]
        BY <3>1, <3>6, RunCounts DEF Rs485WriteDe, WritePins, Tasks, Places
      <4>2. pc["rs485"] = "gpio" /\ ran = 3 /\ "uart2" \in pins'
        BY <3>6 DEF Rs485First, Rs485WriteDe, WritePins
      <4> QED
        BY <1>1, <3>2, <4>1, <4>2 DEF Rs485First, Tasks
    <3>7. CASE Rs485Setup
      <4>1. \A u \in Tasks : pc'[u] = IF u = "rs485" THEN "exchange" ELSE pc[u]
        BY <3>1, <3>7, RunCounts DEF Rs485Setup, Tasks, Places
      <4>2. "uart2" \in pins'
        BY <3>7 DEF Rs485First, Rs485Setup
      <4> QED
        BY <1>1, <3>2, <4>1, <4>2 DEF Rs485First, Tasks
    <3> QED
      BY <2>1, <3>3, <3>4, <3>5, <3>6, <3>7
  <2>2. CASE ExchangePoll
    <3>1. \A u \in Tasks : pc'[u] = IF u = "rs485" THEN "exchange" ELSE pc[u]
      BY <2>2, RunMoves DEF TypesInv, ExchangePoll, Tasks, Places
    <3>2. Kept /\ pins' = pins /\ pc["rs485"] = "exchange"
      BY <2>2 DEF ExchangePoll, Continue, kernel, uart0
    <3> QED
      BY <1>1, <3>1, <3>2 DEF Rs485First, Tasks
  <2>3. pc["rs485"] \notin {"round", "put", "store"} /\ air # 2
    BY DEF Rs485First
  <2> QED
    BY <1>2, <2>1, <2>2, <2>3 DEF Rs485Task, RoundDelay, ExchangeEnds, PutWait, Put
<1>3. CASE Tick
  <2>1. ready' = <<"led", "echo", "rs485">> /\ ran' = 0 /\ UNCHANGED <<pc, pins, thr>>
    BY <1>1, <1>3, TickPassesTurn
  <2>2. ran = Slice
    BY <1>1, <1>3 DEF Tick
  <2>3. pc["rs485"] = "exchange" /\ "uart2" \in pins
    BY <2>2 DEF Rs485First
  <2>4. LedAndEcho'
    BY <1>1, <2>1, <2>3 DEF LedAndEcho
  <2> QED
    BY <2>4 DEF SetupInv
<1>4. CASE UNCHANGED <<pc, copy, ready, ran, air, pins, dlab, divisor>> /\ thr' = 0
  BY <1>4 DEF Rs485First, SetupInv
<1> QED
  BY <1>1, <1>2, <1>3, <1>4, WhoMoves DEF SetupInv

LEMMA LedAndEchoStep ==
  ASSUME Slice >= 7, TypesInv, LedAndEcho, Next
  PROVE  SetupInv'
<1>1. /\ pc["rs485"] = "exchange" /\ "uart2" \in pins /\ thr = 0 /\ ran < Slice /\ ready # <<>>
      /\ ready[1] = "led" \/ ready[1] = "echo"
  <2>1. pc["rs485"] = "exchange" /\ "uart2" \in pins /\ thr = 0 /\ ran < Slice
    BY DEF LedAndEcho
  <2>2. CASE ready = <<"led", "echo", "rs485">>
    <3>1. ready # <<>> /\ ready[1] = "led"
      BY <2>2
    <3> QED
      BY <2>1, <3>1
  <2>3. CASE ready = <<"echo", "rs485">>
    <3>1. ready # <<>> /\ ready[1] = "echo"
      BY <2>3
    <3> QED
      BY <2>1, <3>1
  <2> QED
    BY <2>2, <2>3 DEF LedAndEcho
<1>2. ~Tick
  BY <1>1 DEF Tick
<1>3. CASE LedTask /\ ready[1] = "led"
  <2>1. /\ ready = <<"led", "echo", "rs485">> /\ pc["echo"] = "setup"
        /\ \/ pc["led"] = "setup" /\ ran = 0
           \/ pc["led"] = "on" /\ ran = 1
    BY <1>3 DEF LedAndEcho
  <2>2. CASE LedSetup
    <3>1. ran' = ran + 1 /\ \A u \in Tasks : pc'[u] = IF u = "led" THEN "on" ELSE pc[u]
      BY <1>1, <2>2, RunCounts DEF LedSetup, Tasks, Places
    <3>2. UNCHANGED <<ready, pins, thr>> /\ pc["led"] = "setup"
      BY <2>2 DEF LedSetup, Continue, kernel, uart0
    <3>3. LedAndEcho'
      BY <1>1, <2>1, <3>1, <3>2 DEF LedAndEcho, Tasks
    <3> QED
      BY <3>3 DEF SetupInv
  <2>3. CASE LedOn
    <3>1. ran' = ran + 1 /\ \A u \in Tasks : pc'[u] = IF u = "led" THEN "off" ELSE pc[u]
      BY <1>1, <2>3, RunCounts DEF LedOn, Tasks, Places
    <3>2. UNCHANGED <<pins, thr>> /\ pc["led"] = "on" /\ ready' = RemoveAt(ready, Turn)
      BY <2>3 DEF LedOn, vTaskDelay, uart0
    <3>3. ready' = Tail(ready)
      BY <1>1, <3>2, FirstRuns, Removed DEF TypesInv, QueueTypes
    <3>4. ready' = <<"echo", "rs485">>
      BY <2>1, <3>3
    <3>5. LedAndEcho'
      BY <1>1, <2>1, <3>1, <3>2, <3>4 DEF LedAndEcho, Tasks
    <3> QED
      BY <3>5 DEF SetupInv
  <2> QED
    BY <1>3, <2>1, <2>2, <2>3 DEF LedTask, LedOff
<1>4. CASE EchoTask /\ ready[1] = "echo"
  <2>1. /\ ready = <<"echo", "rs485">>
        /\ \/ pc["echo"] = "setup" /\ ran = 2
           \/ pc["echo"] = "pins" /\ ran = 3 /\ "uart2" \in copy["echo"]
           \/ pc["echo"] = "lcr" /\ ran = 4 /\ "uart0" \in pins
           \/ pc["echo"] = "dll" /\ ran = 5 /\ "uart0" \in pins
           \/ /\ pc["echo"] = "close" /\ ran = 6
              /\ "uart0" \in pins /\ divisor = "115200"
           \/ /\ pc["echo"] = "fcr" /\ ran = 7
              /\ "uart0" \in pins /\ divisor = "115200" /\ ~dlab
    BY <1>4 DEF LedAndEcho
  <2>2. CASE EchoReadPins
    <3>1. ran' = ran + 1 /\ \A u \in Tasks : pc'[u] = IF u = "echo" THEN "pins" ELSE pc[u]
      BY <1>1, <2>2, RunCounts DEF EchoReadPins, ReadPins, Tasks, Places
    <3>2. UNCHANGED <<ready, pins, thr>> /\ pc["echo"] = "setup" /\ "uart2" \in copy'["echo"]
      BY <1>1, <2>2 DEF TypesInv, ProgramTypes, EchoReadPins, ReadPins, Continue, kernel, uart0, Tasks
    <3>3. LedAndEcho'
      BY <1>1, <2>1, <3>1, <3>2 DEF LedAndEcho, Tasks
    <3> QED
      BY <3>3 DEF SetupInv
  <2>3. CASE EchoWritePins
    <3>1. ran' = ran + 1 /\ \A u \in Tasks : pc'[u] = IF u = "echo" THEN "lcr" ELSE pc[u]
      BY <1>1, <2>3, RunCounts DEF EchoWritePins, WritePins, Tasks, Places
    <3>2. UNCHANGED <<ready, thr>> /\ pc["echo"] = "pins" /\ "uart0" \in pins'
      BY <2>3 DEF EchoWritePins, WritePins, Uart0Pins, Continue, kernel, uart0
    <3>3. "uart2" \in pins'
      BY <2>1, <2>3, <3>2 DEF EchoWritePins, WritePins, Uart0Pins
    <3>4. LedAndEcho'
      BY <1>1, <2>1, <3>1, <3>2, <3>3 DEF LedAndEcho, Tasks
    <3> QED
      BY <3>4 DEF SetupInv
  <2>4. CASE OpenLatch
    <3>1. ran' = ran + 1 /\ \A u \in Tasks : pc'[u] = IF u = "echo" THEN "dll" ELSE pc[u]
      BY <1>1, <2>4, RunCounts DEF OpenLatch, Tasks, Places
    <3>2. UNCHANGED <<ready, pins, thr>> /\ pc["echo"] = "lcr"
      BY <2>4 DEF OpenLatch, Continue, kernel
    <3>3. LedAndEcho'
      BY <1>1, <2>1, <3>1, <3>2 DEF LedAndEcho, Tasks
    <3> QED
      BY <3>3 DEF SetupInv
  <2>5. CASE SetDivisor
    <3>1. ran' = ran + 1 /\ \A u \in Tasks : pc'[u] = IF u = "echo" THEN "close" ELSE pc[u]
      BY <1>1, <2>5, RunCounts DEF SetDivisor, Tasks, Places
    <3>2. UNCHANGED <<ready, pins, thr>> /\ pc["echo"] = "dll" /\ divisor' = "115200"
      BY <2>5 DEF SetDivisor, Continue, kernel
    <3>3. LedAndEcho'
      BY <1>1, <2>1, <3>1, <3>2 DEF LedAndEcho, Tasks
    <3> QED
      BY <3>3 DEF SetupInv
  <2>6. CASE CloseLatch
    <3>1. ran' = ran + 1 /\ \A u \in Tasks : pc'[u] = IF u = "echo" THEN "fcr" ELSE pc[u]
      BY <1>1, <2>6, RunCounts DEF CloseLatch, Tasks, Places
    <3>2. UNCHANGED <<ready, pins, divisor, thr>> /\ pc["echo"] = "close" /\ ~dlab'
      BY <2>6 DEF CloseLatch, Continue, kernel
    <3>3. CASE Slice = 7
      <4>1. AllUp'
        BY <1>1, <2>1, <3>1, <3>2, <3>3 DEF AllUp, Up, Tasks
      <4> QED
        BY <4>1 DEF SetupInv
    <3>4. CASE Slice > 7
      <4>1. LedAndEcho'
        BY <1>1, <2>1, <3>1, <3>2, <3>4 DEF LedAndEcho, Tasks
      <4> QED
        BY <4>1 DEF SetupInv
    <3> QED
      BY <3>3, <3>4, TaskAssumption DEF TaskAssumption
  <2>7. CASE EnableFifo
    <3>1. \A u \in Tasks : pc'[u] = IF u = "echo" THEN "put" ELSE pc[u]
      BY <1>1, <2>7, RunCounts DEF EnableFifo, Tasks, Places
    <3>2. UNCHANGED <<pins, divisor, dlab>> /\ pc["echo"] = "fcr"
      BY <2>7 DEF EnableFifo
    <3>3. AllUp'
      BY <1>1, <2>1, <3>1, <3>2 DEF AllUp, Up, Tasks
    <3> QED
      BY <3>3 DEF SetupInv
  <2>8. pc["echo"] \notin {"poll", "put", "store"}
    BY <2>1
  <2> QED
    BY <1>4, <2>2, <2>3, <2>4, <2>5, <2>6, <2>7, <2>8 DEF EchoTask, EchoPoll, PutWait, Put
<1>5. CASE UNCHANGED <<pc, copy, ready, ran, air, pins, dlab, divisor>> /\ thr' = 0
  BY <1>5 DEF LedAndEcho, SetupInv
<1>6. ready[1] # "rs485"
  BY <1>1
<1> QED
  BY <1>1, <1>2, <1>3, <1>4, <1>5, <1>6, WhoMoves

\* Once both are up nobody selects pins or opens the latch again.
LEMMA AllUpStep ==
  ASSUME TypesInv, AllUp, Next
  PROVE  AllUp'
<1> DEFINE UpEcho == {"put", "store", "poll"}  UpRs485 == {"put", "store", "exchange", "round"}
<1>1. pc["echo"] \in UpEcho \cup {"fcr"} /\ pc["rs485"] \in UpRs485
  BY DEF TypesInv, TodoInv, AllUp, Up, SetupStages
<1>2. /\ pc'["echo"] \in UpEcho \cup {"fcr"} /\ pc'["rs485"] \in UpRs485
      /\ UNCHANGED <<pins, dlab, divisor>> /\ (pc'["echo"] = "fcr" => pc["echo"] = "fcr")
  <2>1. CASE LedTask
    <3>1. PICK p \in {"on", "off"} : Run("led", p)
      BY <2>1 DEF LedTask, LedSetup, LedOn, LedOff
    <3>2. \A u \in Tasks : pc'[u] = IF u = "led" THEN p ELSE pc[u]
      BY <3>1, RunMoves DEF TypesInv, Places, Tasks
    <3>3. UNCHANGED <<pins, dlab, divisor>>
      BY <2>1 DEF LedTask, LedSetup, LedOn, LedOff, uart0
    <3> QED
      BY <1>1, <3>2, <3>3 DEF Tasks
  <2>2. CASE EchoTask
    <3>1. EnableFifo \/ EchoPoll \/ PutWait("echo") \/ Put("echo")
      BY <1>1, <2>2 DEF EchoTask, EchoReadPins, EchoWritePins, OpenLatch, SetDivisor,
         CloseLatch, ReadPins, WritePins
    <3>2. PICK p \in UpEcho : Run("echo", p)
      BY <3>1 DEF EnableFifo, EchoPoll, PutWait, Put
    <3>3. \A u \in Tasks : pc'[u] = IF u = "echo" THEN p ELSE pc[u]
      BY <3>2, RunMoves DEF TypesInv, Places, Tasks
    <3>4. UNCHANGED <<pins, dlab, divisor>>
      BY <3>1 DEF AllUp, EnableFifo, EchoPoll, PutWait, Put, uart0
    <3> QED
      BY <1>1, <3>3, <3>4 DEF Tasks
  <2>3. CASE Rs485Task
    <3>1. \/ ExchangePoll \/ RoundDelay \/ PutWait("rs485") \/ Put("rs485")
          \/ \E n \in {0, EchoLen} : ExchangeEnds(n)
      BY <1>1, <2>3 DEF Rs485Task, Rs485ReadPins, Rs485WritePins, Rs485ReadDe,
         Rs485WriteDe, Rs485Setup, ReadPins, WritePins
    <3>2. PICK p \in UpRs485 : Run("rs485", p)
      BY <3>1 DEF ExchangePoll, RoundDelay, ExchangeEnds, PutWait, Put
    <3>3. \A u \in Tasks : pc'[u] = IF u = "rs485" THEN p ELSE pc[u]
      BY <3>2, RunMoves DEF TypesInv, Places, Tasks
    <3>4. UNCHANGED <<pins, dlab, divisor>>
      BY <3>1 DEF AllUp, ExchangePoll, RoundDelay, ExchangeEnds, PutWait, Put, uart0
    <3> QED
      BY <1>1, <3>3, <3>4 DEF Tasks
  <2>4. CASE Tick \/ CharacterSent \/ KeyTyped
    BY <1>1, <2>4 DEF Tick, CharacterSent, KeyTyped, uart0
  <2> QED
    BY <2>1, <2>2, <2>3, <2>4 DEF Next
<1> QED
  BY <1>2 DEF AllUp, Up

\* If rs485_task can set up UART2 within its first time slice, and led_task
\* and uart_init can do theirs within the next, the two never overlap.
THEOREM SetupsInTurn ==
  ASSUME Slice >= 7
  PROVE  Spec => []SetupInv
<1>1. Init => SetupInv
  BY DEF Init, SetupInv, Rs485First, Tasks
<1>2. TypesInv /\ SetupInv /\ [Next]_vars => SetupInv'
  <2>1. ASSUME SetupInv, UNCHANGED vars PROVE SetupInv'
    BY <2>1 DEF SetupInv, Rs485First, LedAndEcho, AllUp, Up, vars, kernel, uart0
  <2>2. ASSUME TypesInv, SetupInv, Next PROVE SetupInv'
    BY <2>2, Rs485FirstStep, LedAndEchoStep, AllUpStep DEF SetupInv
  <2> QED
    BY <2>1, <2>2
<1> QED
  BY <1>1, <1>2, TypesHold, PTL DEF Spec

\* Then the unlocked changes of PINSEL0 undo no setup, and the divisor latch
\* of UART0 takes no character.  A slice is 96000 cycles, the setups are
\* seven accesses.
THEOREM SetupsHold ==
  ASSUME Slice >= 7
  PROVE  Spec => []SetupHolds
<1>1. TypesInv /\ SetupInv => SetupHolds
  BY DEF SetupInv, Rs485First, LedAndEcho, AllUp, Up, SetupHolds
<1> QED
  BY <1>1, SetupsInTurn, TypesHold, PTL

-----------------------------------------------------------------------------
(* The transmit FIFO of UART0                                              *)

\* A step that neither fills THR nor finds it empty takes nothing away from
\* the account.
LEMMA StoreIdle ==
  ASSUME TypesInv, StoreInv, ~lost, UNCHANGED <<thr, fifoOn, lost>>,
         \A t \in Writers : pc'[t] = "store" => pc[t] = "store",
         ~fifoOn => pc'["echo"] \in SetupStages
  PROVE  StoreInv' /\ ~lost'
<1>1. thr \in Nat
  BY DEF TypesInv, CountTypes
<1> QED
  BY <1>1 DEF StoreInv, Holds, Writers

LEMMA StorePutWait ==
  ASSUME TypesInv, StoreInv, ~lost, NEW t \in Writers, PutWait(t)
  PROVE  StoreInv' /\ ~lost'
<1>1. UNCHANGED <<thr, fifoOn, lost>> /\ pc[t] = "put"
  BY DEF PutWait, uart0
<1>2. PICK p \in {"put", "store"} : Run(t, p) /\ (p = "store" => thr = 0)
  BY DEF PutWait, Thre
<1>3. \A u \in Tasks : pc'[u] = IF u = t THEN p ELSE pc[u]
  BY <1>2, RunMoves DEF TypesInv, Places, Tasks, Writers
<1>4. (~lost') /\ thr' = thr /\ thr \in Nat
  BY <1>1 DEF TypesInv, CountTypes
<1>5. \A u \in Writers : Holds(u) \in {0, 1} /\ Holds(u)' \in {0, 1}
  BY DEF Holds
<1>6. Holds(t) = 0 /\ \A u \in Writers : u # t => Holds(u)' = Holds(u)
  BY <1>1, <1>3 DEF Holds, Writers, Tasks
<1>7. p = "put" => Holds(t)' = 0
  BY <1>3 DEF Holds, Writers, Tasks
<1>8. ~fifoOn => t = "rs485"
  BY <1>1 DEF StoreInv, SetupStages, Writers
<1>9. thr' + Holds("echo")' + Holds("rs485")' <= 2
  BY <1>2, <1>4, <1>5, <1>6, <1>7 DEF StoreInv, Writers
<1>10. ~fifoOn' => pc'["echo"] \in SetupStages /\ thr' + Holds("rs485")' <= 1
  BY <1>1, <1>2, <1>3, <1>4, <1>5, <1>6, <1>7, <1>8 DEF StoreInv, Writers, Tasks
<1> QED
  BY <1>4, <1>9, <1>10 DEF StoreInv

LEMMA StorePut ==
  ASSUME FifoSize >= 2, TypesInv, StoreInv, ~lost, NEW t \in Writers, Put(t)
  PROVE  StoreInv' /\ ~lost'
<1>1. UNCHANGED <<dlab, fifoOn>> /\ pc[t] = "store"
  BY DEF Put
<1>2. PICK p \in {"put", "poll", "round"} : Run(t, p)
  BY DEF Put
<1>3. \A u \in Tasks : pc'[u] = IF u = t THEN p ELSE pc[u]
  BY <1>2, RunMoves DEF TypesInv, Places, Tasks, Writers
<1>4. thr \in Nat
  BY DEF TypesInv, CountTypes
<1>5. \A u \in Writers : Holds(u) \in {0, 1} /\ Holds(u)' \in {0, 1}
  BY DEF Holds
<1>6. /\ Holds(t) = 1 /\ Holds(t)' = 0
      /\ \A u \in Writers : u # t => Holds(u)' = Holds(u)
  BY <1>1, <1>3 DEF Holds, Writers, Tasks
<1>7. ~fifoOn => t = "rs485" /\ thr = 0
  BY <1>1, <1>4, <1>5, <1>6 DEF StoreInv, SetupStages, Writers
<1>8. thr <= 1
  BY <1>4, <1>5, <1>6 DEF StoreInv, Writers
<1>9. ~(thr >= IF fifoOn THEN FifoSize ELSE 1)
  BY <1>4, <1>7, <1>8
<1>10. (thr' = thr \/ thr' = thr + 1)
  BY <1>4, <1>9 DEF Put
<1>11. ~lost'
  <2>1. CASE dlab
    BY <2>1 DEF Put
  <2>2. CASE ~dlab
    BY <1>9, <2>2 DEF Put
  <2> QED
    BY <2>1, <2>2
<1>12. thr' + Holds("echo")' + Holds("rs485")' <= 2
  BY <1>4, <1>5, <1>6, <1>10 DEF StoreInv, Writers
<1>13. ~fifoOn' => pc'["echo"] \in SetupStages /\ thr' + Holds("rs485")' <= 1
  BY <1>1, <1>3, <1>4, <1>6, <1>7, <1>10 DEF StoreInv, Writers, Tasks
<1> QED
  BY <1>11, <1>12, <1>13 DEF StoreInv

LEMMA StoreStep ==
  ASSUME FifoSize >= 2, Slice >= 8, TypesInv, SetupInv, StoreInv, ~lost, Next
  PROVE  StoreInv' /\ ~lost'
<1> USE DEF Writers
<1>1. CASE LedTask
  <2>1. PICK p \in {"on", "off"} : Run("led", p)
    BY <1>1 DEF LedTask, LedSetup, LedOn, LedOff
  <2>2. \A u \in Writers : pc'[u] = pc[u]
    BY <2>1, RunMoves DEF TypesInv, Places, Tasks
  <2>3. UNCHANGED <<thr, fifoOn, lost>>
    BY <1>1 DEF LedTask, LedSetup, LedOn, LedOff, uart0
  <2> QED
    BY <2>2, <2>3, StoreIdle DEF StoreInv
<1>2. CASE EchoReadPins \/ EchoWritePins \/ OpenLatch \/ SetDivisor \/ CloseLatch
  <2>1. PICK p \in SetupStages : Run("echo", p)
    BY <1>2 DEF EchoReadPins, EchoWritePins, OpenLatch, SetDivisor, CloseLatch,
       ReadPins, WritePins, SetupStages
  <2>2. \A u \in Writers : pc'[u] = IF u = "echo" THEN p ELSE pc[u]
    BY <2>1, RunMoves DEF TypesInv, Places, Tasks, SetupStages
  <2>3. UNCHANGED <<thr, fifoOn, lost>>
    BY <1>2 DEF EchoReadPins, EchoWritePins, OpenLatch, SetDivisor, CloseLatch,
       ReadPins, WritePins, uart0
  <2> QED
    BY <2>2, <2>3, StoreIdle DEF SetupStages
<1>3. CASE EnableFifo
  <2>1. \A u \in Writers : pc'[u] = IF u = "echo" THEN "put" ELSE pc[u]
    BY <1>3, RunMoves DEF EnableFifo, TypesInv, Places, Tasks
  <2>2. thr = 0 /\ pc["rs485"] = "exchange"
    BY <1>3 DEF EnableFifo, SetupInv, Rs485First, LedAndEcho, AllUp, Up
  <2>3. ~(thr > 0)
    BY <2>2
  <2>4. fifoOn' /\ (~lost') /\ thr' = 0
    BY <1>3, <2>3 DEF EnableFifo, Fcr
  <2> QED
    BY <2>1, <2>2, <2>4 DEF StoreInv, Holds
<1>4. CASE EchoPoll
  <2>1. PICK p \in {"put", "poll"} : Run("echo", p)
    BY <1>4 DEF EchoPoll
  <2>2. \A u \in Writers : pc'[u] = IF u = "echo" THEN p ELSE pc[u]
    BY <2>1, RunMoves DEF TypesInv, Places, Tasks
  <2>3. UNCHANGED <<thr, fifoOn, lost>> /\ fifoOn
    BY <1>4 DEF EchoPoll, StoreInv, SetupStages
  <2> QED
    BY <2>2, <2>3, StoreIdle
<1>5. ASSUME NEW t \in Writers, PutWait(t) \/ Put(t) PROVE StoreInv' /\ ~lost'
  BY <1>5, StorePutWait, StorePut
<1>6. CASE \/ Rs485ReadPins \/ Rs485WritePins \/ Rs485ReadDe \/ Rs485WriteDe
           \/ Rs485Setup \/ ExchangePoll \/ RoundDelay
           \/ \E n \in {0, EchoLen} : ExchangeEnds(n)
  <2>1. PICK p \in Places \ {"store"} : Run("rs485", p)
    BY <1>6 DEF Rs485ReadPins, Rs485WritePins, Rs485ReadDe, Rs485WriteDe, Rs485Setup,
       ExchangePoll, RoundDelay, ExchangeEnds, ReadPins, WritePins, Places
  <2>2. \A u \in Writers : pc'[u] = IF u = "rs485" THEN p ELSE pc[u]
    BY <2>1, RunMoves DEF TypesInv, Tasks
  <2>3. UNCHANGED <<thr, fifoOn, lost>>
    BY <1>6 DEF Rs485ReadPins, Rs485WritePins, Rs485ReadDe, Rs485WriteDe, Rs485Setup,
       ExchangePoll, RoundDelay, ExchangeEnds, ReadPins, WritePins, uart0
  <2> QED
    BY <2>2, <2>3, StoreIdle DEF StoreInv
<1>7. CASE Tick \/ CharacterSent \/ KeyTyped
  <2>1. pc' = pc /\ UNCHANGED <<fifoOn, lost>> /\ thr \in Nat /\ (thr' = thr \/ thr' = thr - 1)
    BY <1>7 DEF Tick, CharacterSent, KeyTyped, uart0, TypesInv, CountTypes
  <2> QED
    BY <2>1 DEF StoreInv, Holds
<1> QED
  BY <1>1, <1>2, <1>3, <1>4, <1>5, <1>6, <1>7 DEF Next, EchoTask, Rs485Task

\* With a FIFO of two characters or more (the LPC1768 has 16) the two tasks
\* that print without a lock lose no character, however they are preempted
\* between finding THR empty and writing it; and if uart_init is done with the
\* FIFO within the second slice, enabling it finds nothing to clear.
THEOREM NothingLost ==
  ASSUME FifoSize >= 2, Slice >= 8
  PROVE  Spec => []NoCharacterLost
<1>1. Init => StoreInv /\ ~lost
  BY DEF Init, StoreInv, Holds, Tasks, SetupStages
<1>2. TypesInv /\ SetupInv /\ StoreInv /\ (~lost) /\ [Next]_vars => StoreInv' /\ ~lost'
  <2>1. ASSUME StoreInv, ~lost, UNCHANGED vars PROVE StoreInv' /\ ~lost'
    BY <2>1 DEF StoreInv, Holds, vars, uart0
  <2> QED
    BY <2>1, StoreStep
<1>3. Spec => []SetupInv
  <2>1. Slice >= 7
    BY TaskAssumption DEF TaskAssumption
  <2> QED
    BY <2>1, SetupsInTurn
<1> QED
  BY <1>1, <1>2, <1>3, TypesHold, PTL DEF Spec, NoCharacterLost
=============================================================================
