--------------------------- MODULE MCDialogAgent ---------------------------
(* An instance of DialogAgent for TLC; the configuration gives the bounds. *)
EXTENDS DialogAgent
=============================================================================
