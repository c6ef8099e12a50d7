---------------------------- MODULE MCRs485Link ----------------------------
(***************************************************************************)
(* TLC instances of Rs485Link.  The frame and FIFO sizes, the number of    *)
(* retries and the timing assumption are given in the .cfg files.          *)
(***************************************************************************)
EXTENDS Rs485Link
=============================================================================
