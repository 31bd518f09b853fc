---------------------------- MODULE RemotePaths ----------------------------
(***************************************************************************)
(* Remote paths: internal/path/path.go and NormalizePrefix of              *)
(* internal/config/config.go.  A path, a key or a name is a sequence of    *)
(* characters.                                                             *)
(***************************************************************************)
EXTENDS Naturals, SequencesExt

CONSTANTS Characters  \* of paths, keys and names

Slash == "/"
Backslash == "\\"
Separators == {Slash, Backslash}

ASSUME PathAssumption == Separators \subseteq Characters

\* Where an element of a set occurs.
Places(s, of) == {i \in DOMAIN s : s[i] \in of}

Trim(s) ==
  LET kept == {i \in DOMAIN s : s[i] # Slash}
  IN  IF kept = {} THEN <<>> ELSE SubSeq(s, Min(kept), Max(kept))

NormalizePrefix(prefix) ==
  IF Trim(prefix) = <<>> THEN <<>> ELSE Append(Trim(prefix), Slash)

PathError == [ok |-> FALSE, profile |-> <<>>, relative |-> <<>>]

\* The first character is the separator, and the only one; what it separates
\* becomes a profile and a path with slashes.
ParseRemote(remote) ==
  LET separator == Head(remote)
      rest == Tail(remote)
      profile == IF Places(rest, {separator}) = {} THEN rest
                 ELSE SubSeq(rest, 1, Min(Places(rest, {separator})) - 1)
      below == SubSeq(rest, Len(profile) + 2, Len(rest))
  IN  IF remote \in {<<>>, <<Slash>>, <<Backslash>>}
      THEN [ok |-> TRUE, profile |-> <<>>, relative |-> <<>>]
      ELSE IF \/ separator \notin Separators
              \/ Places(rest, Separators \ {separator}) # {}
              \/ profile = <<>>
      THEN PathError
      ELSE [ok |-> TRUE, profile |-> profile,
            relative |-> Trim([i \in DOMAIN below |-> IF below[i] = separator THEN Slash ELSE below[i]])]

ObjectKey(prefix, relative) == prefix \o Trim(relative)

\* Mutant: the listing of a folder has the keys that only begin like it.
ListingPrefixOpen(prefix, relative) == ObjectKey(prefix, relative)

ListingPrefix(prefix, relative) ==
  LET key == ObjectKey(prefix, relative)
  IN  IF key # <<>> /\ Last(key) # Slash THEN Append(key, Slash) ELSE key

\* The names directly under a listing prefix, as Store.List shows them: up to
\* the next slash.
NameUnder(prefix, key) ==
  LET rest == SubSeq(key, Len(prefix) + 1, Len(key))
  IN  IF Places(rest, {Slash}) = {} THEN rest ELSE SubSeq(rest, 1, Min(Places(rest, {Slash})) - 1)
IsFolder(prefix, key) == Places(SubSeq(key, Len(prefix) + 1, Len(key)), {Slash}) # {}
=============================================================================
