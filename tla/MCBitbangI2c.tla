---------------------------- MODULE MCBitbangI2c ----------------------------
(***************************************************************************)
(* TLC instances of BitbangI2c: bytes of two bits, the second one of the   *)
(* address byte being the direction.                                       *)
(***************************************************************************)
EXTENDS BitbangI2c
=============================================================================
