---------------------------- MODULE ListObjects ----------------------------
(***************************************************************************)
(* internal/s3store/store.go, List: one folder, page by page, under the    *)
(* prefix and the delimiter "/".  The server sorts the keys by bytes and   *)
(* rolls every key below a subfolder up into one common prefix; some       *)
(* services return a folder's marker among the objects instead.  Pages are *)
(* separate requests: other clients change the bucket between them.        *)
(***************************************************************************)
EXTENDS Naturals, FiniteSets

CONSTANTS
  Keys,         \* the keys under the listed prefix, as [name, kind, rank]
  MaxKeys       \* bound: keys and prefixes of one page; 1000 at S3

\* kind "file" is the key <name>, "marker" is <name>/, "child" is <name>/<x>;
\* rank is the place of the key in byte order, where a child has the rank of its
\* common prefix, which is the marker's too.  A key without a name, the marker of
\* the listed folder or one under a folder called "", has kind "self".
Kinds == {"file", "marker", "child", "self"}

\* A key of S3 has at most 1024 bytes.
ASSUME ConstantsAssumption ==
  /\ IsFiniteSet(Keys)
  /\ \A k \in Keys : k.kind \in Kinds /\ k.rank \in Nat \ {0}
  /\ \A k, l \in Keys : k.rank = l.rank =>
       k.name = l.name /\ (k.kind = l.kind \/ {k.kind, l.kind} = {"marker", "child"})
  /\ MaxKeys \in Nat \ {0}

Names == {k.name : k \in {l \in Keys : l.kind # "self"}}
Ranks == {k.rank : k \in Keys}
Entries == [name : Names, dir : BOOLEAN]

VARIABLES
  pc,       \* "page", "done" or "failed"
  apart,    \* whether the service returns markers among the objects
  bucket,   \* the keys there are
  token,    \* rank of the last key or prefix of the pages so far; 0 at first
  seen,     \* the names listed so far
  entries,  \* the entries of the result
  steady,   \* history: the keys that were there from the beginning on
  cutShort  \* history: the last page was truncated, but came without a token

vars == <<pc, apart, bucket, token, seen, entries, steady, cutShort>>

TypeOK ==
  /\ pc \in {"page", "done", "failed"}
  /\ apart \in BOOLEAN
  /\ bucket \subseteq Keys
  /\ token \in {0} \cup Ranks
  /\ seen \subseteq Names
  /\ entries \subseteq Entries
  /\ steady \subseteq bucket
  /\ cutShort \in BOOLEAN

Init ==
  /\ pc = "page"
  /\ apart \in BOOLEAN
  /\ bucket \in SUBSET Keys
  /\ token = 0
  /\ seen = {}
  /\ entries = {}
  /\ steady = bucket
  /\ cutShort = FALSE

-----------------------------------------------------------------------------
(* The server's answer: what follows the token, up to MaxKeys ranks. *)

Remaining == {k \in bucket : k.rank > token}
PageRanks ==
  {r \in {k.rank : k \in Remaining} :
     Cardinality({s \in {k.rank : k \in Remaining} : s < r}) < MaxKeys}
Page == {k \in Remaining : k.rank \in PageRanks}
IsTruncated == Page # Remaining

\* CommonPrefixes and Contents.
Rolled(k) == k.kind \in (IF apart THEN {"child"} ELSE {"child", "marker"})
CommonPrefixes == {k.name : k \in {l \in Page : Rolled(l)}}
Contents == {k \in Page : ~Rolled(k)}

-----------------------------------------------------------------------------
(* List: the prefixes of a page, then its objects in order, each name once   *)
(* for the whole listing.                                                    *)

\* Mutant: a folder is shown whatever its name was shown for.
NewDirectoriesUnseen == CommonPrefixes

NewDirectories == CommonPrefixes \ seen

\* Of an object and a marker of one name, the first in byte order wins.
Shown(k) ==
  /\ k.kind # "self"
  /\ k.name \notin seen \cup NewDirectories
  /\ \A l \in Contents : l.name = k.name /\ l.kind # "self" => k.rank <= l.rank

EntryOf(k) == [name |-> k.name, dir |-> k.kind = "marker"]

NewEntries ==
  [name : NewDirectories, dir : {TRUE}] \cup {EntryOf(k) : k \in {l \in Contents : Shown(l)}}

\* Mutants: the key after the page is skipped, or the token is not passed on.
NextTokenSkipping == 1 + (CHOOSE r \in PageRanks : \A s \in PageRanks : s <= r)
NextTokenKept == token

\* NextContinuationToken.
NextToken == CHOOSE r \in PageRanks : \A s \in PageRanks : s <= r

\* The loop ends with a page that is not truncated, or that is but names no
\* token, as no service should answer.
ListPage(tokenGiven) ==
  /\ pc = "page"
  /\ entries' = entries \cup NewEntries
  /\ seen' = seen \cup {e.name : e \in NewEntries}
  /\ IF IsTruncated /\ tokenGiven
     THEN token' = NextToken /\ UNCHANGED <<pc, cutShort>>
     ELSE pc' = "done" /\ cutShort' = IsTruncated /\ UNCHANGED token
  /\ UNCHANGED <<apart, bucket, steady>>

\* A page that fails fails the listing; nothing of it is returned.
PageFails ==
  /\ pc = "page"
  /\ pc' = "failed"
  /\ entries' = {}
  /\ UNCHANGED <<apart, bucket, token, seen, steady, cutShort>>

\* The next listing starts afresh.
ListAgain ==
  /\ pc \in {"done", "failed"}
  /\ pc' = "page"
  /\ token' = 0
  /\ seen' = {}
  /\ entries' = {}
  /\ steady' = bucket
  /\ cutShort' = FALSE
  /\ UNCHANGED <<apart, bucket>>

OtherClient ==
  /\ pc = "page"
  /\ \E k \in Keys : bucket' \in {bucket \cup {k}, bucket \ {k}} \ {bucket}
  /\ steady' = steady \cap bucket'
  /\ UNCHANGED <<pc, apart, token, seen, entries, cutShort>>

Next == (\E tokenGiven \in BOOLEAN : ListPage(tokenGiven)) \/ PageFails \/ ListAgain \/ OtherClient

Spec == Init /\ [][Next]_vars

\* The next page comes; nothing is assumed of the token that ends a listing early.
FairSpec == Spec /\ WF_vars(ListPage(TRUE))

-----------------------------------------------------------------------------
(* Properties *)

Visible(keys) == {k.name : k \in {l \in keys : l.kind # "self"}}

\* Whatever was there throughout the listing is shown under its name, on
\* whichever page it fell and whatever changed meanwhile, unless the service has
\* kept the token of the next page to itself (store.go:192-197).
NothingOverlooked ==
  pc = "done" /\ ~cutShort => Visible(steady) \subseteq {e.name : e \in entries}

\* No name is shown twice: Total Commander could not tell the two apart
\* (store.go:161, 179).
NamesOnce ==
  pc = "page" =>
    /\ \A e \in NewEntries, d \in entries : d.name # e.name
    /\ \A e, d \in NewEntries : d.name = e.name => d = e

\* The listing comes to an end even if keys keep coming and going: the token
\* only moves forward.
ListingEnds == pc = "page" ~> pc # "page"

\* Every folder is shown as a folder (README.md:84-86: "exposes common prefixes
\* and directory-marker objects (keys ending in `/`) as folders").
FoldersShown ==
  pc = "done" /\ ~cutShort => \A k \in steady : k.kind \in {"marker", "child"} =>
    [name |-> k.name, dir |-> TRUE] \in entries
=============================================================================
