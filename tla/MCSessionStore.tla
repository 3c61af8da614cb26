--------------------------- MODULE MCSessionStore ---------------------------
(* The instances of SessionStore that TLC checks: one handle, one possible  *)
(* agent answer beside "no answer".  The runs differ in the faults.         *)
EXTENDS SessionStore
=============================================================================
