--------------------------- MODULE MCEmailDrafts ---------------------------
(* Model values for checking EmailDrafts. *)
EXTENDS EmailDrafts, TLC

CONSTANTS x1, x2, h1, h2, h3
===========================================================================
