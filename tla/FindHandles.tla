---------------------------- MODULE FindHandles ----------------------------
(***************************************************************************)
(* Enumerations: FsFindFirstW, FsFindNextW and FsFindClose of              *)
(* cmd/wfxs3/main.go over the handle table of internal/wfx/service.go.     *)
(* Every enumeration walks the snapshot that its FindFirst has listed,     *)
(* under a token from a wrapping counter.  Host threads enumerate side by  *)
(* side, each keeping to the protocol First, Next ..., Close.  To the host *)
(* the token is the find handle, and the largest of them is the invalid    *)
(* handle: the enumeration that draws it is lost.                          *)
(***************************************************************************)
EXTENDS Integers, Sequences, FiniteSets

CONSTANTS
  Threads,    \* host threads
  Names,      \* the entries a directory may have
  TokenSpace  \* tokens there are; 2^64 in the code

ASSUME ConstantsAssumption == TokenSpace \in Nat \ 0..2

Tokens == 0..(TokenSpace - 1)

\* ^uintptr(0), INVALID_HANDLE_VALUE; 0 is no handle either.
InvalidHandle == TokenSpace - 1
NoHandles == {0, InvalidHandle}

Snapshots == {s \in UNION {[1..n -> Names] : n \in 0..Cardinality(Names)} :
                \A i, j \in DOMAIN s : s[i] = s[j] => i = j}

NoToken == -1  \* a thread that has not been given any handle yet

\* What the thread's last-error value says: the plugin's answers to a failed
\* find, or whatever a callback into the host has left there.
LastErrors == {"none", "noMoreFiles", "pathNotFound", "badNetResp", "invalidHandle", "clobbered"}
Failures == {"empty", "notExist", "error"}

VARIABLES
  handles,    \* s.handles: token -> [entries, next] of an open enumeration
  nextToken,  \* s.nextToken
  pc,         \* per thread: "idle", "listed", "failed", "reported", "walking", "ended"
  listing,    \* per thread: what list returned, a snapshot
  failure,    \* per thread: why FindFirst failed
  token,      \* per thread: the last handle the host was given
  given,      \* per thread, history: entries the host has been given
  lastError,  \* per thread: GetLastError
  opens       \* per thread, history: enumerations opened since this one was

tableVars == <<handles, nextToken>>
threadVars == <<pc, listing, failure, token, given, lastError, opens>>
vars == <<tableVars, threadVars>>

TypeOK ==
  /\ DOMAIN handles \subseteq Tokens
  /\ handles \in [DOMAIN handles -> [entries : Seq(Names), next : Nat \ {0}]]
  /\ nextToken \in Tokens
  /\ pc \in [Threads -> {"idle", "listed", "failed", "reported", "walking", "ended"}]
  /\ listing \in [Threads -> Seq(Names)]
  /\ failure \in [Threads -> Failures \cup {"none"}]
  /\ token \in [Threads -> Tokens \cup {NoToken}]
  /\ given \in [Threads -> Seq(Names)]
  /\ lastError \in [Threads -> LastErrors]
  /\ opens \in [Threads -> 0..(TokenSpace - 2)]

Init ==
  /\ handles = [t \in {} |-> <<>>]
  /\ nextToken = 1
  /\ pc = [h \in Threads |-> "idle"]
  /\ listing = [h \in Threads |-> <<>>]
  /\ failure = [h \in Threads |-> "none"]
  /\ token = [h \in Threads |-> NoToken]
  /\ given = [h \in Threads |-> <<>>]
  /\ lastError = [h \in Threads |-> "none"]
  /\ opens = [h \in Threads |-> 0]

Goto(h, p) == pc' = [pc EXCEPT ![h] = p]

-----------------------------------------------------------------------------
(* FsFindFirstW. *)

\* list: the bucket, or the configuration, as it is now.
List(h, entries) ==
  /\ pc[h] = "idle"
  /\ listing' = [listing EXCEPT ![h] = entries]
  /\ lastError' = [lastError EXCEPT ![h] = "none"]
  /\ Goto(h, "listed")
  /\ UNCHANGED <<tableVars, failure, token, given, opens>>

ListFails(h, why) ==
  /\ pc[h] = "idle"
  /\ failure' = [failure EXCEPT ![h] = why]
  /\ lastError' = [lastError EXCEPT ![h] = "none"]
  /\ Goto(h, "failed")
  /\ UNCHANGED <<tableVars, listing, token, given, opens>>

\* Mutant: 0 is not skipped.
FreshTokenPlain == nextToken

\* openFind: 0 is never handed out, wherever the counter has got to.
FreshToken == IF nextToken = 0 THEN 1 ELSE nextToken

Walking(h) == pc[h] \in {"walking", "ended"}

\* Bound: no enumeration is still open when the counter has come all the way
\* round since it was opened.  The counter may wrap any number of times.
NoneLasts(h) == \A k \in Threads \ {h} : Walking(k) => opens[k] < TokenSpace - 2

Aged(h) == [k \in Threads |-> IF k # h /\ Walking(k) THEN opens[k] + 1 ELSE 0]

\* Mutant: the first entry is given again.
NewStateAtFirst(snapshot) == [entries |-> snapshot, next |-> 1]

NewState(snapshot) == [entries |-> snapshot, next |-> 2]

\* openFind under its lock, and the return of the token to the host, which takes
\* the invalid handle for a failure.
OpenFind(h) ==
  /\ pc[h] = "listed"
  /\ listing[h] # <<>>
  /\ NoneLasts(h)
  /\ handles' = [t \in DOMAIN handles \cup {FreshToken} |->
                   IF t = FreshToken THEN NewState(listing[h]) ELSE handles[t]]
  /\ nextToken' = (FreshToken + 1) % TokenSpace
  /\ opens' = Aged(h)
  /\ IF FreshToken = InvalidHandle
     THEN Goto(h, "idle") /\ UNCHANGED <<token, given>>
     ELSE /\ token' = [token EXCEPT ![h] = FreshToken]
          /\ given' = [given EXCEPT ![h] = <<listing[h][1]>>]
          /\ Goto(h, "walking")
  /\ UNCHANGED <<listing, failure, lastError>>

OpenEmpty(h) ==
  /\ pc[h] = "listed"
  /\ listing[h] = <<>>
  /\ failure' = [failure EXCEPT ![h] = "empty"]
  /\ Goto(h, "failed")
  /\ UNCHANGED <<tableVars, listing, token, given, lastError, opens>>

\* ReportError calls back into the host, which may overwrite the last error;
\* an empty directory is not reported.
Report(h) ==
  /\ pc[h] = "failed"
  /\ lastError' \in {lastError, IF failure[h] = "empty" THEN lastError
                                ELSE [lastError EXCEPT ![h] = "clobbered"]}
  /\ Goto(h, "reported")
  /\ UNCHANGED <<tableVars, listing, failure, token, given, opens>>

FindError(why) ==
  IF why = "empty" THEN "noMoreFiles" ELSE IF why = "notExist" THEN "pathNotFound" ELSE "badNetResp"

\* Mutant: the error is set before the callbacks.
SetFindErrorFirst(h) ==
  /\ pc[h] = "reported"
  /\ lastError' = [lastError EXCEPT ![h] = IF failure[h] = "empty" THEN "noMoreFiles" ELSE "clobbered"]
  /\ Goto(h, "idle")
  /\ UNCHANGED <<tableVars, listing, failure, token, given, opens>>

\* setFindError, and the return of the invalid handle.
SetFindError(h) ==
  /\ pc[h] = "reported"
  /\ lastError' = [lastError EXCEPT ![h] = FindError(failure[h])]
  /\ Goto(h, "idle")
  /\ UNCHANGED <<tableVars, listing, failure, token, given, opens>>

-----------------------------------------------------------------------------
(* FsFindNextW and FsFindClose. *)

FindNext(h) ==
  /\ pc[h] = "walking"
  /\ token[h] \in DOMAIN handles
  /\ LET state == handles[token[h]] IN
       IF state.next > Len(state.entries)
       THEN Goto(h, "ended") /\ UNCHANGED <<handles, given>>
       ELSE /\ given' = [given EXCEPT ![h] = Append(@, state.entries[state.next])]
            /\ handles' = [handles EXCEPT ![token[h]].next = @ + 1]
            /\ UNCHANGED pc
  /\ UNCHANGED <<nextToken, listing, failure, token, lastError, opens>>

\* The host closes at the end, or whenever it has seen enough.
FindClose(h) ==
  /\ Walking(h)
  /\ handles' = [t \in DOMAIN handles \ ({token[h]} \ NoHandles) |-> handles[t]]
  /\ given' = [given EXCEPT ![h] = <<>>]
  /\ listing' = [listing EXCEPT ![h] = <<>>]
  /\ opens' = [opens EXCEPT ![h] = 0]
  /\ lastError' = [lastError EXCEPT ![h] = "none"]
  /\ Goto(h, "idle")
  /\ UNCHANGED <<nextToken, failure, token>>

\* A handle that has been closed finds no state, unless it was given out anew;
\* the host keeps to its own.
FindNextClosed(h) ==
  /\ pc[h] = "idle"
  /\ token[h] \in Tokens \ DOMAIN handles
  /\ lastError' = [lastError EXCEPT ![h] = "invalidHandle"]
  /\ UNCHANGED <<tableVars, pc, listing, failure, token, given, opens>>

Find(h) ==
  \/ \E entries \in Snapshots : List(h, entries)
  \/ \E why \in {"notExist", "error"} : ListFails(h, why)

Walk(h) ==
  \/ OpenFind(h)
  \/ OpenEmpty(h)
  \/ Report(h)
  \/ SetFindError(h)
  \/ FindNext(h)

Next == \E h \in Threads : Find(h) \/ Walk(h) \/ FindClose(h) \/ FindNextClosed(h)

Spec == Init /\ [][Next]_vars

-----------------------------------------------------------------------------
(* Properties *)

\* An enumeration gives exactly the entries that its FindFirst listed, once
\* each and in their order, whatever other enumerations open, advance or close
\* meanwhile (service.go:239-263).
OwnSnapshot ==
  \A h \in Threads : Walking(h) =>
    /\ Len(given[h]) <= Len(listing[h])
    /\ \A i \in DOMAIN given[h] : given[h][i] = listing[h][i]
    /\ pc[h] = "ended" => Len(given[h]) = Len(listing[h])

\* Every handle in the table is somebody's, also after the counter has wrapped:
\* FsFindClose ignores 0, which is never given out.  The one exception is the
\* invalid handle, which the host never closes (main.go:199-203,
\* service.go:241-244).
NoLeakedHandle ==
  DOMAIN handles \subseteq {token[h] : h \in {k \in Threads : Walking(k)}} \cup {InvalidHandle}

\* The host is told why a find failed: the callbacks that ReportError makes
\* never have the last word.  Only the find that draws the invalid handle fails
\* without a reason (main.go:167-173, 177).
FailureIsTold ==
  [][\A h \in Threads : pc[h] # "idle" /\ ~Walking(h) /\ pc'[h] = "idle" =>
       \/ /\ lastError'[h] \in {"noMoreFiles", "pathNotFound", "badNetResp"}
          /\ lastError'[h] = "noMoreFiles" <=> failure[h] = "empty"
       \/ pc[h] = "listed" /\ FreshToken = InvalidHandle]_vars

=============================================================================
