-------------------------- MODULE MCSessionControl --------------------------
(* Constants for model checking SessionControl.                            *)
EXTENDS SessionControl

Bounds(f, c, b, a, v, x, e) ==
    [frames |-> f, controls |-> c, batches |-> b, acks |-> a, vad |-> v, fails |-> x,
     ends |-> e, tagged |-> TRUE, echo |-> TRUE, refused |-> {},
     acked |-> FALSE]

(* Barge-in, explicit cancels, acknowledgements and tool batches against   *)
(* responses the provider opens by itself; refused sends and endings.      *)
MCTagged == {Bounds(3, 0, 0, 0, 2, 0, 0), Bounds(2, 1, 0, 0, 1, 0, 0),
             Bounds(2, 0, 1, 0, 1, 0, 0), Bounds(1, 1, 0, 1, 1, 0, 0),
             Bounds(0, 0, 1, 1, 1, 0, 0), Bounds(0, 1, 1, 0, 1, 0, 0),
             Bounds(0, 0, 2, 0, 0, 1, 0), Bounds(0, 0, 1, 0, 1, 1, 1),
             Bounds(2, 1, 0, 0, 1, 1, 0)}

(* A provider without response IDs and purposes.                           *)
Plain(s) == [s EXCEPT !.tagged = FALSE, !.echo = FALSE]

MCScenarios ==
    MCTagged \cup {Plain(s) : s \in {Bounds(2, 1, 0, 0, 1, 0, 0),
                                     Bounds(0, 0, 1, 1, 1, 0, 0)}}

(* Two tool batches in a row.                                              *)
MCTwoBatches == {Bounds(0, 0, 2, 0, 0, 0, 0)}
=============================================================================
