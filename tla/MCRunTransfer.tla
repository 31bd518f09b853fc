--------------------------- MODULE MCRunTransfer ---------------------------
(* RunTransfer on small instances: one unit of time is about 50 ms. *)
EXTENDS RunTransfer
MCResults == {"nil", "error"}
=============================================================================
