--------------------------- MODULE MCConfigCache ---------------------------
(* ConfigCache on small instances. *)
EXTENDS ConfigCache, TLC
CONSTANTS t1, t2
OneThread == {t1}
TwoThreads == {t1, t2}
Alike == Permutations(TwoThreads)
AllButSecond == Versions \ {2}
AllVersions == Versions
=============================================================================
