------------------------------ MODULE MCSpiHal ------------------------------
(***************************************************************************)
(* TLC instance of SpiHal.  All programs of the repository ask for 1 MHz   *)
(* and mode 0; the other clocks lie at the limits of the range checks and  *)
(* of the divisor, none of them below 94489 Hz, where the divisor loses    *)
(* its ninth bit.                                                          *)
(***************************************************************************)
EXTENDS SpiHal

MCInitArgs ==
  {<<m, 1000000>> : m \in 0 .. 4}
    \cup {<<0, c>> : c \in {0, 100000, 2999999, 3000001}}
=============================================================================
