------------------------------ MODULE PutFile ------------------------------
(***************************************************************************)
(* internal/wfx/service.go, putFile: uploads one local file as an object   *)
(* and, for a move, removes the file.  The S3 client sends the body in one *)
(* or more attempts; before each it rewinds the body through               *)
(* countingReader.Seek.  The server stores a body it has received whole,   *)
(* its answer may be lost, and the body of an attempt that was given up    *)
(* may be stored late.  One call runs at a time; other programs may edit   *)
(* the file, other clients may change the object, and the host process may *)
(* die meanwhile.  The object carries the time the file had when the call  *)
(* looked at it; a version of the file stands for its time of writing.     *)
(***************************************************************************)
EXTENDS Naturals

CONSTANTS
  Size,          \* chunks of every version of the local file
  MaxVersion,    \* bound: versions of the local file
  MaxAttempts    \* the S3 client's retry limit

ASSUME ConstantsAssumption ==
  /\ Size \in Nat \ {0}
  /\ MaxVersion \in Nat \ {0}
  /\ MaxAttempts \in Nat \ {0}

Versions == 1..MaxVersion
Flags == [overwrite : BOOLEAN, move : BOOLEAN, resume : BOOLEAN]
Statuses == {"OK", "Exists", "NotFound", "ReadError", "WriteError", "UserAbort", "NotSupported"}
Results == {"nil", "error"}

\* A body is the set of versions its chunks were read from; 0 is content, or a
\* time, that the plugin did not store.  No object is the empty body.
Bodies == SUBSET Versions
Objects == [body : Bodies, time : Versions]
Foreign == [body |-> {0}, time |-> 0]
NoObject == [body |-> {}, time |-> 0]

\* What Store.Head gets from the client, and what it takes for "no object".
HeadErrors == {"nil", "timeout", "notFound", "refused"}
IsNotFound(err) == err = "notFound"

VARIABLES
  pc,        \* the statement putFile has reached
  flags,     \* the host's copy flags
  status,    \* what putFile answers
  stat,      \* the version whose size and time os.Stat answered; 0 before
  work,      \* the upload goroutine: "idle", "running" or "finished"
  ctx,       \* the transfer's context: "live" or the cause of its cancellation
  result,    \* what the upload returned
  verdict,   \* what runTransfer returned
  attempt,   \* attempts begun
  phase,     \* of the attempt: "none", "sending", "sent", "stored" or "failed"
  pos,       \* countingReader's position
  sent,      \* the body read in this attempt
  readErr,   \* countingReader.readErr
  src,       \* version of the local file; 0 when there is none
  newest,    \* the newest version the local file has had
  obj,       \* the object: its body and its mtime metadata
  pending,   \* objects of abandoned attempts the server may still store
  meddled,   \* history: others changed the file or the object in this call
  failure    \* history: what the last attempt failed on: "none", "local", "remote"

callVars == <<flags, stat, meddled>>
attemptVars == <<attempt, phase, pos, sent, readErr, failure>>
transferVars == <<work, ctx, result, verdict>>
fileVars == <<src, newest>>
bucketVars == <<obj, pending>>
vars == <<pc, callVars, status, transferVars, attemptVars, fileVars, bucketVars>>

Pcs == {"idle", "resolve", "stat", "head", "open", "start", "transfer",
        "stopping", "finish", "remove", "done"}

TypeOK ==
  /\ pc \in Pcs
  /\ flags \in Flags
  /\ status \in Statuses \cup {"none"}
  /\ stat \in {0} \cup Versions
  /\ work \in {"idle", "running", "finished"}
  /\ ctx \in {"live", "userAbort", "stalled"}
  /\ result \in Results \cup {"none"}
  /\ verdict \in Results \cup {"userAbort", "stalled", "none"}
  /\ attempt \in 0..MaxAttempts
  /\ phase \in {"none", "sending", "sent", "stored", "failed"}
  /\ pos \in 0..Size
  /\ sent \in Bodies
  /\ readErr \in BOOLEAN
  /\ src \in {0} \cup Versions
  /\ newest \in Versions
  /\ obj \in Objects \cup {Foreign, NoObject}
  /\ pending \subseteq Objects
  /\ meddled \in BOOLEAN
  /\ failure \in {"none", "local", "remote"}

Init ==
  /\ pc = "idle"
  /\ flags = [overwrite |-> FALSE, move |-> FALSE, resume |-> FALSE]
  /\ status = "none"
  /\ stat = 0
  /\ work = "idle"
  /\ ctx = "live"
  /\ result = "none"
  /\ verdict = "none"
  /\ attempt = 0
  /\ phase = "none"
  /\ pos = 0
  /\ sent = {}
  /\ readErr = FALSE
  /\ failure = "none"
  /\ src \in {0, 1}
  /\ newest = 1
  /\ obj \in {NoObject, Foreign}
  /\ pending = {}
  /\ meddled = FALSE

-----------------------------------------------------------------------------
(* Control. *)

Answer(s) == pc' = "done" /\ status' = s
Goto(p) == pc' = p /\ UNCHANGED status

Call(f) ==
  /\ pc = "idle"
  /\ flags' = f
  /\ meddled' = FALSE
  /\ UNCHANGED stat
  /\ IF f.resume THEN Answer("NotSupported") ELSE Goto("resolve")
  /\ UNCHANGED <<transferVars, attemptVars, fileVars, bucketVars>>

\* resolveObject: the INI, the path or the profile may fail.
Resolve(fails) ==
  /\ pc = "resolve"
  /\ IF fails THEN Answer("NotFound") ELSE Goto("stat")
  /\ UNCHANGED <<callVars, transferVars, attemptVars, fileVars, bucketVars>>

\* os.Stat: it may fail, and the path may be a directory.  The size and the time
\* of the upload are those of this moment.
Stat(fails) ==
  /\ pc = "stat"
  /\ IF fails THEN Answer("ReadError") /\ UNCHANGED stat
     ELSE IF src = 0 THEN Answer("NotFound") /\ UNCHANGED stat
     ELSE Goto("head") /\ stat' = src
  /\ UNCHANGED <<flags, meddled, transferVars, attemptVars, fileVars, bucketVars>>

\* Mutant: the overwrite flag is not looked at.
HeadAnyway(err) ==
  /\ pc = "head"
  /\ err = "nil" => obj # NoObject
  /\ err = "notFound" => obj = NoObject
  /\ IF err # "nil" /\ ~IsNotFound(err) THEN Answer("WriteError") ELSE Goto("open")
  /\ UNCHANGED <<callVars, transferVars, attemptVars, fileVars, bucketVars>>

\* The only look at the bucket before the upload.
Head(err) ==
  /\ pc = "head"
  /\ err = "nil" => obj # NoObject
  /\ err = "notFound" => obj = NoObject
  /\ IF err # "nil" /\ ~IsNotFound(err) THEN Answer("WriteError")
     ELSE IF err = "nil" /\ ~flags.overwrite THEN Answer("Exists")
     ELSE Goto("open")
  /\ UNCHANGED <<callVars, transferVars, attemptVars, fileVars, bucketVars>>

Open(fails) ==
  /\ pc = "open"
  /\ IF fails THEN Answer("ReadError") ELSE Goto("start")
  /\ UNCHANGED <<callVars, transferVars, attemptVars, fileVars, bucketVars>>

Start(cancel) ==
  /\ pc = "start"
  /\ IF cancel
     THEN Answer("UserAbort") /\ UNCHANGED work
     ELSE Goto("transfer") /\ work' = "running"
  /\ UNCHANGED <<callVars, ctx, result, verdict, attemptVars, fileVars, bucketVars>>

-----------------------------------------------------------------------------
(* The upload's goroutine: backend.Upload, its S3 client and the server. *)

\* Mutant: an old error is kept.
SeekKeepingError == pos' = 0 /\ UNCHANGED readErr

\* countingReader.Seek to the start: it forgets the last attempt's read error.
Seek == pos' = 0 /\ readErr' = FALSE

\* The client begins no attempt once its context is cancelled.
MayBegin == ctx = "live" /\ phase \in {"none", "failed"} /\ attempt < MaxAttempts

BeginAttempt ==
  /\ work = "running"
  /\ MayBegin
  /\ attempt' = attempt + 1
  /\ phase' = "sending"
  /\ Seek
  /\ sent' = {}
  /\ failure' = "none"
  /\ UNCHANGED <<pc, callVars, status, transferVars, fileVars, bucketVars>>

\* countingReader.Read, of the file as it is now.
ReadChunk ==
  /\ work = "running"
  /\ phase = "sending"
  /\ pos' = pos + 1
  /\ sent' = sent \cup {src}
  /\ phase' = IF pos' = Size THEN "sent" ELSE "sending"
  /\ UNCHANGED <<pc, callVars, status, transferVars, attempt, readErr, failure, fileVars, bucketVars>>

ReadFails ==
  /\ work = "running"
  /\ phase = "sending"
  /\ phase' = "failed"
  /\ readErr' = TRUE
  /\ failure' = "local"
  /\ UNCHANGED <<pc, callVars, status, transferVars, attempt, pos, sent, fileVars, bucketVars>>

\* Mutant: the body goes with the time the file has when it is stored.
RequestLate == [body |-> sent, time |-> src]

\* The body read in this attempt, and the time taken before the file was opened.
Request == [body |-> sent, time |-> stat]

Commit ==
  /\ phase = "sent"
  /\ phase' = "stored"
  /\ obj' = Request
  /\ UNCHANGED <<pc, callVars, status, transferVars, attempt, pos, sent, readErr, failure, fileVars, pending>>

\* A body that was sent whole is in the server's hands.
Underway == IF phase = "sent" THEN pending \cup {Request} ELSE pending

\* A refusal, a timeout, a lost answer or a cancelled context.
AttemptFails ==
  /\ work = "running"
  /\ phase \in {"sending", "sent", "stored"}
  /\ phase' = "failed"
  /\ failure' = "remote"
  /\ pending' = Underway
  /\ UNCHANGED <<pc, callVars, status, transferVars, attempt, pos, sent, readErr, fileVars, obj>>

\* The server stores the body of an attempt that was given up, in this call or
\* an earlier one.
LateCommit ==
  /\ \E late \in pending : obj' = late /\ pending' = pending \ {late}
  /\ meddled' = (meddled \/ obj' # Request)
  /\ UNCHANGED <<pc, flags, stat, status, transferVars, attemptVars, fileVars>>

\* Mutant: a body that was sent is taken for stored.
UploadReturnsSent(r) ==
  /\ work = "running"
  /\ phase \in (IF r = "nil" THEN {"sent", "stored"} ELSE {"none", "failed"})
  /\ work' = "finished"
  /\ result' = r
  /\ UNCHANGED <<pc, callVars, status, ctx, verdict, attemptVars, fileVars, bucketVars>>

\* The answer, or the last failure; a request may fail before any attempt.
UploadReturns(r) ==
  /\ work = "running"
  /\ phase \in (IF r = "nil" THEN {"stored"} ELSE {"none", "failed"})
  /\ work' = "finished"
  /\ result' = r
  /\ UNCHANGED <<pc, callVars, status, ctx, verdict, attemptVars, fileVars, bucketVars>>

UploadWork == BeginAttempt \/ ReadChunk \/ ReadFails \/ Commit \/ AttemptFails
              \/ \E r \in Results : UploadReturns(r)

-----------------------------------------------------------------------------
(* The calling goroutine: runTransfer as Transfer states it, and what      *)
(* follows it.                                                             *)

\* Mutant: the context is not cancelled.
StopUncancelled(cause) ==
  /\ pc = "transfer"
  /\ Goto("stopping")
  /\ UNCHANGED <<callVars, transferVars, attemptVars, fileVars, bucketVars>>

Stop(cause) ==
  /\ pc = "transfer"
  /\ Goto("stopping")
  /\ ctx' = cause
  /\ UNCHANGED <<callVars, work, result, verdict, attemptVars, fileVars, bucketVars>>

\* Mutant: only an abort is looked at.
OutcomeUnchecked(v) == IF v = "userAbort" THEN Answer("UserAbort") ELSE Goto("finish")

Outcome(v) ==
  \/ v = "nil" /\ Goto("finish")
  \/ v = "userAbort" /\ Answer("UserAbort")
  \/ v \in {"error", "stalled"} /\ readErr /\ Answer("ReadError")
  \/ v \in {"error", "stalled"} /\ ~readErr /\ Answer("WriteError")

\* Mutant: a cancelled upload is not waited for.
TransferAbandoned ==
  /\ \/ pc = "stopping"
     \/ pc = "transfer" /\ work = "finished"
  /\ verdict' = IF pc = "stopping" THEN ctx ELSE result
  /\ Outcome(verdict')
  /\ UNCHANGED <<callVars, work, ctx, result, attemptVars, fileVars, bucketVars>>

TransferReturns ==
  /\ pc \in {"transfer", "stopping"}
  /\ work = "finished"
  /\ verdict' = IF pc = "stopping" THEN ctx ELSE result
  /\ Outcome(verdict')
  /\ UNCHANGED <<callVars, work, ctx, result, attemptVars, fileVars, bucketVars>>

\* progress.finish: the user may still say no, although the object is stored.
Finish(cancel) ==
  /\ pc = "finish"
  /\ IF cancel THEN Answer("UserAbort")
     ELSE IF flags.move THEN Goto("remove") ELSE Answer("OK")
  /\ UNCHANGED <<callVars, transferVars, attemptVars, fileVars, bucketVars>>

\* Mutant: the remove's error is dropped.
RemoveLocalUnchecked(fails) ==
  /\ pc = "remove"
  /\ Answer("OK")
  /\ src' = IF fails THEN src ELSE 0
  /\ UNCHANGED <<callVars, transferVars, attemptVars, newest, bucketVars>>

RemoveLocal(fails) ==
  /\ pc = "remove"
  /\ IF fails
     THEN Answer("WriteError") /\ UNCHANGED src
     ELSE Answer("OK") /\ src' = 0
  /\ UNCHANGED <<callVars, transferVars, attemptVars, newest, bucketVars>>

Reset ==
  /\ pc' = "idle"
  /\ status' = "none"
  /\ stat' = 0
  /\ work' = "idle"
  /\ ctx' = "live"
  /\ result' = "none"
  /\ verdict' = "none"
  /\ attempt' = 0
  /\ phase' = "none"
  /\ pos' = 0
  /\ sent' = {}
  /\ readErr' = FALSE
  /\ failure' = "none"
  /\ UNCHANGED <<flags, meddled, fileVars, obj>>

Return == pc = "done" /\ Reset /\ UNCHANGED pending

-----------------------------------------------------------------------------
(* The environment. *)

\* The host process dies.
Crash == pc # "idle" /\ Reset /\ pending' = Underway

\* The file is edited in place or written anew.
Edit ==
  /\ newest < MaxVersion
  /\ newest' = newest + 1
  /\ src' = newest + 1
  /\ meddled' = TRUE
  /\ UNCHANGED <<pc, flags, stat, status, transferVars, attemptVars, bucketVars>>

OtherClient ==
  /\ obj' \in {NoObject, Foreign} \ {obj}
  /\ meddled' = TRUE
  /\ UNCHANGED <<pc, flags, stat, status, transferVars, attemptVars, fileVars, pending>>

Step ==
  \/ \E b \in BOOLEAN : Resolve(b) \/ Stat(b) \/ Open(b) \/ Start(b) \/ Finish(b) \/ RemoveLocal(b)
  \/ \E err \in HeadErrors : Head(err)
  \/ Return

Next ==
  \/ \E f \in Flags : Call(f)
  \/ Step
  \/ UploadWork
  \/ LateCommit
  \/ \E cause \in {"userAbort", "stalled"} : Stop(cause)
  \/ TransferReturns
  \/ Edit
  \/ OtherClient
  \/ Crash

Spec == Init /\ [][Next]_vars

\* As for GetFile: local and bounded remote calls return, runTransfer ends a
\* silent transfer, a cancelled attempt fails and the client then gives up.
Fairness ==
  /\ WF_vars(Step)
  /\ WF_vars(Stop("stalled") \/ TransferReturns)
  /\ WF_vars(ctx # "live" /\ AttemptFails)
  /\ WF_vars(ctx # "live" /\ UploadReturns("error"))

FairSpec == Spec /\ Fairness

-----------------------------------------------------------------------------
(* Properties *)

\* A move that answers OK has moved: through retries, lost answers and late
\* copies the object is the file as the call found it, and the file is gone,
\* unless others changed one of the two meanwhile (service.go:416, 450-479).
MoveIsDone ==
  pc = "done" /\ flags.move /\ status = "OK" /\ ~meddled =>
    src = 0 /\ obj = [body |-> {stat}, time |-> stat]

\* An answer of OK means that the whole body this call read last is the object,
\* with the time the file had when the call looked at it, after any number of
\* failed attempts, lost answers, rewinds and late copies of the same body,
\* unless others changed it, and that a move is complete (service.go:416, 450-479).
OkMeansStored ==
  /\ pc = "done" /\ status = "OK" /\ ~meddled => obj = Request /\ sent # {}
  /\ MoveIsDone

\* The time an upload stores is never newer than any of the content it goes
\* with, however the file is edited under the upload, retried or stored late:
\* who compares times sees the object as the older one (service.go:416, 457).
StampNotNewer ==
  \A o \in {obj} \cup pending : \A v \in o.body : o.time <= v

\* The host is told to look at its own disk only when the last attempt failed
\* there: a read error that a later attempt has overcome is forgotten
\* (service.go:466-469, 753-786).
ReadErrorIsCurrent ==
  pc = "done" /\ verdict \in {"error", "stalled"} =>
    (status = "ReadError" <=> failure = "local")

\* A first attempt or a retry replaces only what this call has stored itself,
\* unless the host asked for more or others stepped in: the object is looked
\* at once, before the upload (service.go:429-435).
NoUnaskedOverwrite ==
  [][phase = "sent" /\ phase' = "stored" /\ ~meddled =>
       obj \in {NoObject, Request} \/ flags.overwrite]_vars

\* A move removes the local file only once its content and its time are the
\* object's, unless others changed one of the two meanwhile
\* (service.go:471-478).
MoveLosesNothing ==
  [][src # 0 /\ src' = 0 /\ ~meddled => obj = [body |-> {src}, time |-> src]]_vars

\* Every call comes back to the host.
CallEnds == pc # "idle" ~> pc = "idle"

T == INSTANCE Transfer WITH
  host <- IF pc = "transfer" THEN "waiting"
          ELSE IF pc = "stopping" THEN "stopping"
          ELSE IF verdict # "none" THEN "returned" ELSE "idle"

\* The upload is one transfer as runTransfer promises it.
TransferRefinement == T!Spec
=============================================================================
