------------------------------ MODULE Transfer ------------------------------
(***************************************************************************)
(* What the RS-485 link promises rs485_task, whatever the line, the FIFOs  *)
(* and the delays do: payloads 1, 2, 3, ... are offered one after the      *)
(* other, the far end takes some of them, in order and possibly several    *)
(* times, and what is handed back as an echo was taken and is never older  *)
(* than an earlier echo.  A sequence number covers the payloads from       *)
(* window on; it is used up only when the far end took one of them.        *)
(***************************************************************************)
EXTENDS Integers

VARIABLES
  offered,    \* the payload being sent
  window,     \* the first payload under the present sequence number
  taken,      \* payloads the far end took
  returned    \* the payload last handed back, 0 for none

transferVars == <<offered, window, taken, returned>>

TransferInit == offered = 1 /\ window = 1 /\ taken = {} /\ returned = 0

Offer ==
  /\ offered' = offered + 1
  /\ UNCHANGED <<window, taken, returned>>

Take(p) ==
  /\ \A t \in taken : t <= p
  /\ taken' = taken \cup {p}
  /\ UNCHANGED <<offered, window, returned>>

Confirm ==
  /\ taken \cap (window .. offered) # {}
  /\ window' = offered + 1
  /\ UNCHANGED <<offered, taken, returned>>

Return(p) ==
  /\ p >= returned
  /\ returned' = p
  /\ UNCHANGED <<offered, window, taken>>

TransferNext ==
  \/ Offer
  \/ \E p \in 1 .. offered : Take(p)
  \/ Confirm
  \/ \E p \in taken : Return(p)

TransferSpec == TransferInit /\ [][TransferNext]_transferVars
=============================================================================
