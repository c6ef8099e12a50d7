---------------------------- MODULE MCBoardTasks ----------------------------
(***************************************************************************)
(* TLC instances of BoardTasks: the delays keep their order and lose their *)
(* size, the boot message is cut to a few characters.                      *)
(***************************************************************************)
EXTENDS BoardTasks
=============================================================================
