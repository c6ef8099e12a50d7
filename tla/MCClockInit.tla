---------------------------- MODULE MCClockInit ----------------------------
(***************************************************************************)
(* TLC instances of ClockInit with the frequencies of the board.           *)
(***************************************************************************)
EXTENDS ClockInit
=============================================================================
