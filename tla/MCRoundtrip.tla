----------------------------- MODULE MCRoundtrip ----------------------------
(***************************************************************************)
(* Roundtrip on small instances: one key per shape, one text per           *)
(* convention, boundary and failure, and a calendar of a few seconds.      *)
(***************************************************************************)
EXTENDS Roundtrip

At(sec, ns) == [sec |-> sec, ns |-> ns]

MCCharacters == {"a", "b", "s", "/", "\\"}
MCProfile == <<"s">>
Base == [endpoint |-> "e", region |-> "", access |-> "i", secret |-> "k", token |-> "",
         style |-> TRUE, prefix |-> <<>>]
Moved == [Base EXCEPT !.region = "us-east-1", !.token = "t", !.prefix = <<"/", "a">>]
\* Edits of one field each, none of which may be served by another's client.
MCEdits ==
  { Base, Moved, [Base EXCEPT !.endpoint = "f"], [Base EXCEPT !.region = "r"],
    [Base EXCEPT !.access = "j"], [Base EXCEPT !.secret = "l"], [Base EXCEPT !.style = FALSE] }
MCKeys ==
  { <<"a">>, <<"a", "/">>, <<"a", "b", "/", "a">>,
    <<"a", "\\", "b">>, <<"a", "/", "a", "b", "a", "b">>, <<"a", "/", "/", "b">> }
MCNewNames == { <<"b">> }
MCLocalTimes == { At(-1, 50), At(-6, 0) }

MCTexts ==
  { NoText, Garbage, Rfc3339(At(1, 7)), Rfc3339(ZeroTime),
    Unix(FALSE, 3, FALSE, 1, 0),     \* bare seconds
    Unix(FALSE, 2, TRUE, 10, 5),     \* 2.5
    Unix(FALSE, 2, TRUE, 1000, 129), \* finer than a nanosecond
    Unix(TRUE, 0, TRUE, 100, 25),    \* -0.25
    Unix(TRUE, 2, TRUE, 1000, 19),   \* -2.019
    Unix(FALSE, 1, TRUE, 1, 0),      \* nothing behind the point
    Unix(FALSE, 20, FALSE, 1, 0),    \* more than an int64
    Unix(FALSE, 4, FALSE, 1, 0),     \* a year Chtimes cannot carry
    Unix(TRUE, 5, TRUE, 10, 9) }
MCForeign ==
  {[key |-> key, text |-> NoText, modified |-> At(3, 37)] : key \in MCKeys}
    \cup {[key |-> <<"a", "/", "b">>, text |-> text, modified |-> At(3, 37)] : text \in MCTexts}
    \cup {[key |-> <<"a", "/", "b">>, text |-> Garbage, modified |-> ZeroTime]}
MCNow == At(3, 0)

\* Two profiles are enough for names and times, and the root of an empty bucket for
\* the rest: only requests matter there.
OneAspect ==
  \/ \A p \in {Validated(q) : q \in MCEdits \ {Base, Moved}} :
       config # p /\ ClientKey(p) \notin DOMAIN clients
  \/ object = NoObject /\ entry.key = <<>> /\ Cardinality(Places(folder, {separator})) < 2

MCZeroSec == -8
MCWindowsEpoch == -6
MCUsableFrom == -4
=============================================================================
