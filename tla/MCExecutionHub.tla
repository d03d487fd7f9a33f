---------------------------- MODULE MCExecutionHub ----------------------------
(* ExecutionHub with a few browsers and messages. *)
EXTENDS ExecutionHub, TLC

CONSTANTS b1, b2

TwoBrowsers == {b1, b2}
=============================================================================
