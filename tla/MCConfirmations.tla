-------------------------- MODULE MCConfirmations --------------------------
(* Model values for checking Confirmations. *)
EXTENDS Confirmations, TLC

CONSTANTS c1, c2, h1, h2, h3
===========================================================================
