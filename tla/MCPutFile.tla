----------------------------- MODULE MCPutFile -----------------------------
(* PutFile on small instances. *)
EXTENDS PutFile
=============================================================================
