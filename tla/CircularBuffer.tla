--------------------------- MODULE CircularBuffer ---------------------------
(***************************************************************************)
(* util::CircularBuffer: a ring of SIZE bytes with two indices.  A call of *)
(* push or pop is one step: the structure has no atomic members, so calls  *)
(* that overlap are outside what it can be used for.  Nothing sets data    *)
(* before the first push; any contents will do.                            *)
(***************************************************************************)
EXTENDS Integers, Sequences

CONSTANTS
  Byte,       \* uint8_t
  SIZE        \* CircularBuffer::SIZE: 256

ASSUME SizeAssumption == SIZE \in Nat \ {0}

VARIABLES
  data, head, tail,
  result,     \* what the last call was and returned
  out         \* the byte argument of pop

vars == <<data, head, tail, result, out>>

NextIndexUnwrapped(i) == i + 1
NextIndex(i) == (i + 1) % SIZE

IsFullAtTail == head = tail
IsFull  == NextIndex(head) = tail
IsEmpty == head = tail

Push(b) ==
  /\ ~IsFull
  /\ data' = [data EXCEPT ![head] = b]
  /\ head' = NextIndex(head)
  /\ result' = "pushed"
  /\ UNCHANGED <<tail, out>>

PushFull == IsFull /\ result' = "full" /\ UNCHANGED <<data, head, tail, out>>

Pop ==
  /\ ~IsEmpty
  /\ out' = data[tail]
  /\ tail' = NextIndex(tail)
  /\ result' = "popped"
  /\ UNCHANGED <<data, head>>

PopEmpty == IsEmpty /\ result' = "empty" /\ UNCHANGED <<data, head, tail, out>>

Init ==
  /\ data \in [0 .. SIZE - 1 -> Byte]
  /\ head = 0 /\ tail = 0
  /\ result = "none" /\ out \in Byte

Next == (\E b \in Byte : Push(b)) \/ PushFull \/ Pop \/ PopEmpty

Spec == Init /\ [][Next]_vars

-----------------------------------------------------------------------------
\* The indices stay inside the array.
TypeOK ==
  /\ data \in [0 .. SIZE - 1 -> Byte]
  /\ head \in 0 .. SIZE - 1 /\ tail \in 0 .. SIZE - 1
  /\ result \in {"none", "pushed", "full", "popped", "empty"} /\ out \in Byte

-----------------------------------------------------------------------------
(* Refinement                                                              *)

Count(h, t) == IF h >= t THEN h - t ELSE h - t + SIZE
Slot(t, i)  == IF t + i < SIZE THEN t + i ELSE t + i - SIZE

\* The bytes of array d from index t up to h, round the end of the array.
Between(d, h, t) == [i \in 1 .. Count(h, t) |-> d[Slot(t, i - 1)]]

Contents == Between(data, head, tail)

Queue == INSTANCE BoundedQueue WITH items <- Contents, Capacity <- SIZE - 1

\* The ring is a queue of SIZE - 1 bytes: nothing is lost, repeated or
\* overwritten across any number of wraps, and a call is refused only when
\* the queue is full or empty.
ImplementsQueue == Queue!QueueSpec

=============================================================================
