--------------------------- MODULE MCListObjects ---------------------------
(***************************************************************************)
(* ListObjects on small instances.  In byte order: the folder's own marker, *)
(* "a", "a-b", "a/" with what is in it, and "b/".                           *)
(***************************************************************************)
EXTENDS ListObjects
MCKeys ==
  { [name |-> "",    kind |-> "self",   rank |-> 1],
    [name |-> "a",   kind |-> "file",   rank |-> 2],
    [name |-> "a-b", kind |-> "file",   rank |-> 3],
    [name |-> "a",   kind |-> "marker", rank |-> 4],
    [name |-> "a",   kind |-> "child",  rank |-> 4],
    [name |-> "b",   kind |-> "marker", rank |-> 5] }
=============================================================================
