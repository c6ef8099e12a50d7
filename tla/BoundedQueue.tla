---------------------------- MODULE BoundedQueue ----------------------------
(***************************************************************************)
(* A queue of at most Capacity bytes whose operations may be refused: Push *)
(* when it is full, Pop when it is empty, and never otherwise.             *)
(***************************************************************************)
EXTENDS Integers, Sequences

CONSTANTS Byte, Capacity

VARIABLES
  items,      \* what was pushed and not yet popped, oldest first
  result,     \* what the last call was and returned
  out         \* the last byte popped

queueVars == <<items, result, out>>

QueueInit == items = <<>> /\ result = "none" /\ out \in Byte

Push(b) ==
  /\ Len(items) < Capacity
  /\ items' = Append(items, b) /\ result' = "pushed" /\ UNCHANGED out

PushRefused == Len(items) = Capacity /\ result' = "full" /\ UNCHANGED <<items, out>>

Pop ==
  /\ items # <<>>
  /\ out' = Head(items) /\ items' = Tail(items) /\ result' = "popped"

PopRefused == items = <<>> /\ result' = "empty" /\ UNCHANGED <<items, out>>

QueueNext == (\E b \in Byte : Push(b)) \/ PushRefused \/ Pop \/ PopRefused

QueueSpec == QueueInit /\ [][QueueNext]_queueVars
=============================================================================
