------------------------------- MODULE MCPacing -------------------------------
(***************************************************************************)
(* Small instances of Pacing for TLC.                                       *)
(***************************************************************************)
EXTENDS Pacing

CONSTANTS a, b, d

ThreeCallers == {a, b, d}
=============================================================================
