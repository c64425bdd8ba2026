----------------------------- MODULE MCIntake -----------------------------
(* Model values for checking Intake. *)
EXTENDS Intake

CONSTANTS d1, f1, h1, h2, send, pay
===========================================================================
