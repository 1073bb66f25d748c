--------------------------- MODULE MCRdmaSession ---------------------------
(* The instance of RdmaSession for TLC: two connections over one extent. *)
EXTENDS RdmaSession

CONSTANTS c1, c2, e1
=============================================================================
