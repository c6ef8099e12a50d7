------------------------------- MODULE MCCobs -------------------------------
(***************************************************************************)
(* TLC instance of Cobs.  The code of a full block is 3 instead of 255, so *)
(* a payload of six bytes fills up to three blocks.                        *)
(***************************************************************************)
EXTENDS Cobs

MCValue == {0, 1}
=============================================================================
