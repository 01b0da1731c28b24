-------------------------- MODULE MCSessionIngress --------------------------
(* Constants for model checking SessionIngress.                            *)
EXTENDS SessionIngress

(* SendAudioInput and SendSessionEventWaiting wait, SendSessionEvent and   *)
(* the tool-result forwarder do not.                                       *)
MCOffers == {[kind |-> "audio", waits |-> TRUE], [kind |-> "control", waits |-> TRUE],
             [kind |-> "tool", waits |-> FALSE], [kind |-> "cancel", waits |-> FALSE]}
=============================================================================
