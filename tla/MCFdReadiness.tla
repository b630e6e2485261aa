--------------------------- MODULE MCFdReadiness ----------------------------
(* One fd used by two waiters in turn.                                     *)
EXTENDS FdReadiness
=============================================================================
