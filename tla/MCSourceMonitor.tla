-------------------------- MODULE MCSourceMonitor --------------------------
(* Model values for checking SourceMonitor. *)
EXTENDS SourceMonitor

CONSTANTS h1

MCUnlabelled == {{}, {2}}
===========================================================================
