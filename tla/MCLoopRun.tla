----------------------------- MODULE MCLoopRun -----------------------------
(* Constants for model checking LoopRun.                                   *)
EXTENDS LoopRun

(* A turn with a tool result and one that goes on after its LOOP.END.      *)
MCRunScripts == {<<"must", "delta", "must", "must", "full">>,
                 <<"full", "delta", "loopend", "must">>}

MCTurnScripts == {<<"must", "full", "delta", "loopend">>, <<"must", "delta">>}
=============================================================================
