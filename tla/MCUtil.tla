------------------------------- MODULE MCUtil -------------------------------
(***************************************************************************)
(* TLC instance of CircularBuffer and of Telemetry.  The two share nothing *)
(* and no step of one is a step of the other: the run follows each of them *)
(* while the other is where it starts.                                     *)
(***************************************************************************)
EXTENDS CircularBuffer, Telemetry

\* No byte, one byte at either extreme, SOF itself, and one byte too many.
MCPayloads == {<<>>, <<{}>>, <<0 .. 7>>, <<SOF>>, <<{}, {}>>}

BufferFresh == Init /\ out = 0 /\ data = [i \in 0 .. SIZE - 1 |-> 0]

UtilInit == Init /\ TelemetryInit

UtilNext ==
  \/ TelemetryInit /\ Next /\ UNCHANGED telemetryVars
  \/ BufferFresh /\ TelemetryNext /\ UNCHANGED vars

UtilSpec == UtilInit /\ [][UtilNext]_<<vars, telemetryVars>>

-----------------------------------------------------------------------------
\* The indices of the ring stay inside its array, and no telemetry frame is
\* longer than the array send_frame builds it in.
UtilTypeOK == TypeOK /\ TelemetryTypeOK

=============================================================================
