----------------------------- MODULE MCGetFile -----------------------------
(* GetFile on small instances: two chunks, up to two versions of the object. *)
EXTENDS GetFile
OnlySecond == {2}
=============================================================================
