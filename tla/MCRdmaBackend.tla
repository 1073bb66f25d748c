---------------------------- MODULE MCRdmaBackend ---------------------------
(* RdmaBackend with one load thread and one store thread. *)
EXTENDS RdmaBackend, TLC
CONSTANTS l, s
CallBound == l :> 1 @@ s :> 2
=============================================================================
