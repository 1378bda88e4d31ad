---------------------------- MODULE MCSendBridge ----------------------------
(* Values of the parameters of SendBridge for TLC.  Each configuration opens *)
(* one dimension of the environment and keeps the others small.              *)
EXTENDS SendBridge

CONSTANTS g1, g2

AnyGate == {"open", "disabled", "no_receiver", "revoked"}

\* What an HTTP backend can answer, except a success it garbles on the way.
UngarbledAnswers == AllAnswers \ {"garbled"}
=============================================================================
