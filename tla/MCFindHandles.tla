--------------------------- MODULE MCFindHandles ---------------------------
(* FindHandles on small instances. *)
EXTENDS FindHandles
CONSTANTS h1, h2, a, b
TwoThreads == {h1, h2}
TwoNames == {a, b}
=============================================================================
