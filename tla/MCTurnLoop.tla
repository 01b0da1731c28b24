----------------------------- MODULE MCTurnLoop -----------------------------
(* The turn loop on small instances.  The response shapes are the ones the  *)
(* coordinator tells apart: final text, tool calls, reasoning first or none *)
(* at all between its marks, and a provider failure.                        *)
EXTENDS TurnLoop

TextShape == <<"text", "end">>
StartShape == <<"start", "text", "end">>
CallShape == <<"text", "call", "end">>
TwoCallShape == <<"call", "call", "end">>
ThinkCallShape == <<"think", "rend", "call", "end">>
EmptyThinkShape == <<"rend", "text", "end">>
FailShape == <<"text", "err">>

TurnShapes == {StartShape, TwoCallShape, ThinkCallShape, FailShape}
AnsweringShapes == {TextShape, CallShape}
DuplexShapes == {EmptyThinkShape, CallShape, ThinkCallShape}
=============================================================================
