---------------------------- MODULE DeltaStream ----------------------------
(***************************************************************************)
(* What the ordering layer promises about one participant's deltas: the    *)
(* deltas accepted since the stream's last boundary form a sequence of     *)
(* their own, and a message is rebuilt from exactly that sequence, however *)
(* the deltas of other participants arrive in between and however the      *)
(* history they share is trimmed.  A step is one tick.                     *)
(***************************************************************************)
EXTENDS Sequences

CONSTANTS
    Delta,          \* the deltas that belong to messages
    Aside           \* those that are forwarded only

VARIABLES
    window,         \* the deltas accepted since the last boundary
    accepted,       \* the delta the latest tick accepted, if any
    made            \* the deltas the latest tick rebuilt a message from, if any

streamVars == <<window, accepted, made>>

Init == window = <<>> /\ accepted = <<>> /\ made = <<>>

Accepts(S) == \E d \in S : accepted' = <<d>>

(* A delta joins the stream.                                               *)
Extend == Accepts(Delta) /\ window' = window \o accepted' /\ made' = <<>>

(* A delta opens a new stream.                                             *)
Begin == Accepts(Delta) /\ window' = accepted' /\ made' = <<>>

(* A delta completes a message, and the stream starts afresh after it.     *)
Complete == Accepts(Delta) /\ made' = window \o accepted' /\ window' = <<>>

(* A tick with no delta for the stream, or with one that is part of no     *)
(* message; the response or batch may be given up.                         *)
Idle ==
    /\ accepted' = <<>> \/ Accepts(Aside)
    /\ window' \in {window, <<>>}
    /\ made' = <<>>

Next == Extend \/ Begin \/ Complete \/ Idle

Spec == Init /\ [][Next]_streamVars
=============================================================================
