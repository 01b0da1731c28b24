--------------------------- MODULE MCDeltaWindow ---------------------------
(* Constants for model checking DeltaWindow.                               *)
EXTENDS DeltaWindow
=============================================================================
