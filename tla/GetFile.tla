------------------------------ MODULE GetFile ------------------------------
(***************************************************************************)
(* internal/wfx/service.go, getFile: downloads one object into a temporary *)
(* file beside the destination, stamps it, renames it over the destination *)
(* and, for a move, deletes the object.  One call runs at a time; other    *)
(* programs may write the destination, other S3 clients the object, and    *)
(* the host process may die between any two steps.                         *)
(***************************************************************************)
EXTENDS Naturals

CONSTANTS
  Size,          \* chunks of every version of the object
  MaxVersion,    \* bound: versions of the object ever stored
  Dated          \* the versions whose response carries a usable time stamp

ASSUME ConstantsAssumption ==
  /\ Size \in Nat
  /\ MaxVersion \in Nat
  /\ Dated \subseteq 1..MaxVersion

Versions == 1..MaxVersion
Flags == [overwrite : BOOLEAN, move : BOOLEAN, resume : BOOLEAN]
Statuses == {"OK", "Exists", "NotFound", "ReadError", "WriteError", "UserAbort", "NotSupported"}
Results == {"nil", "notExist", "error"}

\* A directory entry: content of version ver, of which got chunks are there,
\* its read-only attribute, and the version its time stamp belongs to.
\* Version 0 is content that no object ever had; stamp 0 is the time of writing.
Entries == [kind : {"none", "dir", "file"}, ver : {0} \cup Versions,
            got : 0..Size, ro : BOOLEAN, stamp : {0} \cup Versions]
NoEntry == [kind |-> "none", ver |-> 0, got |-> 0, ro |-> FALSE, stamp |-> 0]
Folder == [NoEntry EXCEPT !.kind = "dir"]
NewFile == [NoEntry EXCEPT !.kind = "file"]
ReadOnlyFile == [NewFile EXCEPT !.ro = TRUE]
ForeignEntries == {NoEntry, Folder, NewFile, ReadOnlyFile}

VARIABLES
  pc,        \* the statement getFile has reached
  flags,     \* the host's copy flags
  listed,    \* version whose listing time the host hands back; 0 for none
  meddled,   \* history: others changed the destination or the object in this call
  status,    \* what getFile answers
  work,      \* the download goroutine: "idle", "running" or "finished"
  ctx,       \* the transfer's context: "live" or the cause of its cancellation
  result,    \* what the download returned
  verdict,   \* what runTransfer returned
  body,      \* version of the response being read; 0 before there is one
  writeErr,  \* countingWriter.err
  temp,      \* the temporary file
  dest,      \* the destination
  obj,       \* version of the object in the bucket; 0 when there is none
  newest,    \* the newest version ever stored
  delivered  \* history: this call has renamed its file over the destination

callVars == <<flags, listed, meddled>>
transferVars == <<work, ctx, result, verdict, body, writeErr>>
bucketVars == <<obj, newest>>
vars == <<pc, callVars, status, transferVars, temp, dest, bucketVars, delivered>>

Pcs == {"idle", "resolve", "stat", "temp", "start", "transfer", "stopping",
        "close", "finish", "stamp", "rename", "inspect", "chmod", "again",
        "delete", "cleanup", "done"}

TypeOK ==
  /\ pc \in Pcs
  /\ flags \in Flags
  /\ listed \in {0} \cup Versions
  /\ meddled \in BOOLEAN
  /\ status \in Statuses \cup {"none"}
  /\ work \in {"idle", "running", "finished"}
  /\ ctx \in {"live", "userAbort", "stalled"}
  /\ result \in Results \cup {"none"}
  /\ verdict \in Results \cup {"userAbort", "stalled", "none"}
  /\ body \in {0} \cup Versions
  /\ writeErr \in BOOLEAN
  /\ temp \in Entries
  /\ dest \in Entries
  /\ obj \in {0} \cup Versions
  /\ newest \in {0} \cup Versions
  /\ delivered \in BOOLEAN

FreshTransfer ==
  /\ work' = "idle"
  /\ ctx' = "live"
  /\ result' = "none"
  /\ verdict' = "none"
  /\ body' = 0
  /\ writeErr' = FALSE

Init ==
  /\ pc = "idle"
  /\ flags = [overwrite |-> FALSE, move |-> FALSE, resume |-> FALSE]
  /\ listed = 0
  /\ meddled = FALSE
  /\ status = "none"
  /\ work = "idle"
  /\ ctx = "live"
  /\ result = "none"
  /\ verdict = "none"
  /\ body = 0
  /\ writeErr = FALSE
  /\ temp = NoEntry
  /\ dest \in ForeignEntries
  /\ obj \in {0, 1} \cap ({0} \cup Versions)
  /\ newest = obj
  /\ delivered = FALSE

-----------------------------------------------------------------------------
(* Control. *)

\* An early return: the deferred cleanup runs once there is a temporary file.
Answer(s) ==
  /\ status' = s
  /\ pc' = IF temp.kind = "none" THEN "done" ELSE "cleanup"

Goto(p) == pc' = p /\ UNCHANGED status

Call(f, l) ==
  /\ pc = "idle"
  /\ flags' = f
  /\ listed' = l
  /\ meddled' = FALSE
  /\ IF f.resume THEN Answer("NotSupported") ELSE Goto("resolve")
  /\ UNCHANGED <<transferVars, temp, dest, bucketVars, delivered>>

\* resolveObject: the INI, the path or the profile may fail.
Resolve(fails) ==
  /\ pc = "resolve"
  /\ IF fails THEN Answer("NotFound") ELSE Goto("stat")
  /\ UNCHANGED <<callVars, transferVars, temp, dest, bucketVars, delivered>>

\* Mutant: the overwrite flag is not looked at.
StatAnyway(fails) ==
  /\ pc = "stat"
  /\ IF fails \/ dest.kind = "dir" THEN Answer("WriteError") ELSE Goto("temp")
  /\ UNCHANGED <<callVars, transferVars, temp, dest, bucketVars, delivered>>

\* localState and the checks that follow it.
Stat(fails) ==
  /\ pc = "stat"
  /\ IF fails \/ dest.kind = "dir" THEN Answer("WriteError")
     ELSE IF dest.kind = "file" /\ ~flags.overwrite THEN Answer("Exists")
     ELSE Goto("temp")
  /\ UNCHANGED <<callVars, transferVars, temp, dest, bucketVars, delivered>>

CreateTemp(fails) ==
  /\ pc = "temp"
  /\ IF fails
     THEN Answer("WriteError") /\ UNCHANGED temp
     ELSE Goto("start") /\ temp' = NewFile
  /\ UNCHANGED <<callVars, transferVars, dest, bucketVars, delivered>>

\* progress.start: the first report, and the first chance to cancel.
Start(cancel) ==
  /\ pc = "start"
  /\ IF cancel
     THEN Answer("UserAbort") /\ UNCHANGED transferVars
     ELSE /\ Goto("transfer")
          /\ work' = "running"
          /\ UNCHANGED <<ctx, result, verdict, body, writeErr>>
  /\ UNCHANGED <<callVars, temp, dest, bucketVars, delivered>>

-----------------------------------------------------------------------------
(* The transfer: the download's goroutine, and runTransfer as Transfer     *)
(* states it: when it is stopped is RunTransfer's concern.                 *)

\* Download answers with the version that is current at the server.
Respond ==
  /\ work = "running"
  /\ body = 0
  /\ obj # 0
  /\ body' = obj
  /\ temp' = [temp EXCEPT !.ver = obj]
  /\ UNCHANGED <<pc, callVars, status, work, ctx, result, verdict, writeErr, dest, bucketVars, delivered>>

WriteChunk ==
  /\ work = "running"
  /\ body # 0
  /\ temp.got < Size
  /\ temp' = [temp EXCEPT !.got = @ + 1]
  /\ UNCHANGED <<pc, callVars, status, transferVars, dest, bucketVars, delivered>>

\* The copy ends at the end of the body, at a failed write or at a failed
\* request or read; a missing object is told apart before there is a body.
WorkReturns(r, failedWrite) ==
  /\ work = "running"
  /\ r = "nil" => body # 0 /\ temp.got = Size
  /\ r = "notExist" => body = 0 /\ obj = 0
  /\ failedWrite => r = "error" /\ body # 0
  /\ work' = "finished"
  /\ result' = r
  /\ writeErr' = failedWrite
  /\ UNCHANGED <<pc, callVars, status, ctx, verdict, body, temp, dest, bucketVars, delivered>>

\* Mutant: the context is not cancelled.
StopUncancelled(cause) ==
  /\ pc = "transfer"
  /\ Goto("stopping")
  /\ UNCHANGED <<callVars, transferVars, temp, dest, bucketVars, delivered>>

\* runTransfer gives the download up, for the user or as stalled.
Stop(cause) ==
  /\ pc = "transfer"
  /\ Goto("stopping")
  /\ ctx' = cause
  /\ UNCHANGED <<callVars, work, result, verdict, body, writeErr, temp, dest, bucketVars, delivered>>

\* Mutant: only an abort is looked at.
OutcomeUnchecked(v) == IF v = "userAbort" THEN Answer("UserAbort") ELSE Goto("close")

\* The switch after runTransfer: the first case that applies.
Outcome(v) ==
  \/ v = "userAbort" /\ Answer("UserAbort")
  \/ v # "userAbort" /\ writeErr /\ Answer("WriteError")
  \/ v = "notExist" /\ ~writeErr /\ Answer("NotFound")
  \/ v \in {"error", "stalled"} /\ ~writeErr /\ Answer("ReadError")
  \/ v = "nil" /\ ~writeErr /\ Goto("close")

\* Mutant: a cancelled download is not waited for.
TransferAbandoned ==
  /\ \/ pc = "stopping"
     \/ pc = "transfer" /\ work = "finished"
  /\ verdict' = IF pc = "stopping" THEN ctx ELSE result
  /\ Outcome(verdict')
  /\ UNCHANGED <<callVars, work, ctx, result, body, writeErr, temp, dest, bucketVars, delivered>>

\* runTransfer returns, only once the download has.
TransferReturns ==
  /\ pc \in {"transfer", "stopping"}
  /\ work = "finished"
  /\ verdict' = IF pc = "stopping" THEN ctx ELSE result
  /\ Outcome(verdict')
  /\ UNCHANGED <<callVars, work, ctx, result, body, writeErr, temp, dest, bucketVars, delivered>>

-----------------------------------------------------------------------------
(* Delivery. *)

Close(fails) ==
  /\ pc = "close"
  /\ IF fails THEN Answer("WriteError") ELSE Goto("finish")
  /\ UNCHANGED <<callVars, transferVars, temp, dest, bucketVars, delivered>>

\* progress.finish: a last chance to cancel.
Finish(cancel) ==
  /\ pc = "finish"
  /\ IF cancel THEN Answer("UserAbort") ELSE Goto("stamp")
  /\ UNCHANGED <<callVars, transferVars, temp, dest, bucketVars, delivered>>

\* Mutant: the time is asked for again instead of kept from the response.
StampAnew(fails) ==
  /\ pc = "stamp"
  /\ temp' = IF fails THEN temp
             ELSE [temp EXCEPT !.stamp = IF obj \in Dated THEN obj ELSE listed]
  /\ Goto("rename")
  /\ UNCHANGED <<callVars, transferVars, dest, bucketVars, delivered>>

\* The object's own time, or else the listing's; a failure is only recorded.
Stamp(fails) ==
  /\ pc = "stamp"
  /\ temp' = IF fails THEN temp
             ELSE [temp EXCEPT !.stamp = IF body \in Dated THEN body ELSE listed]
  /\ Goto("rename")
  /\ UNCHANGED <<callVars, transferVars, dest, bucketVars, delivered>>

Delivered ==
  /\ dest' = temp
  /\ temp' = NoEntry
  /\ delivered' = TRUE
  /\ IF flags.move THEN Goto("delete") ELSE pc' = "done" /\ status' = "OK"

\* os.Rename over the destination; it never replaces a directory.
Rename(fails) ==
  /\ pc = "rename"
  /\ dest.kind = "dir" => fails
  /\ IF fails THEN Goto("inspect") /\ UNCHANGED <<temp, dest, delivered>>
              ELSE Delivered
  /\ UNCHANGED <<callVars, transferVars, bucketVars>>

\* replaceFile after a failed rename: it goes on only for a destination that
\* is read-only.
Inspect(fails) ==
  /\ pc = "inspect"
  /\ IF fails \/ dest.kind = "none" \/ ~dest.ro THEN Answer("WriteError") ELSE Goto("chmod")
  /\ UNCHANGED <<callVars, transferVars, temp, dest, bucketVars, delivered>>

\* os.Chmod makes what is there by now writable.
Chmod(fails) ==
  /\ pc = "chmod"
  /\ dest.kind = "none" => fails
  /\ IF fails THEN Answer("WriteError") /\ UNCHANGED dest
              ELSE Goto("again") /\ dest' = [dest EXCEPT !.ro = FALSE]
  /\ UNCHANGED <<callVars, transferVars, temp, bucketVars, delivered>>

\* Mutant: the second rename's error is dropped.
RenameAgainUnchecked(fails) ==
  /\ pc = "again"
  /\ dest.kind = "dir" => fails
  /\ IF fails THEN Answer("OK") /\ UNCHANGED <<temp, dest, delivered>> ELSE Delivered
  /\ UNCHANGED <<callVars, transferVars, bucketVars>>

RenameAgain(fails) ==
  /\ pc = "again"
  /\ dest.kind = "dir" => fails
  /\ IF fails THEN Answer("WriteError") /\ UNCHANGED <<temp, dest, delivered>>
              ELSE Delivered
  /\ UNCHANGED <<callVars, transferVars, bucketVars>>

\* Mutant: the delete's error is dropped.
DeleteObjectUnchecked(reached, fails) ==
  /\ pc = "delete"
  /\ fails \/ reached
  /\ obj' = IF reached THEN 0 ELSE obj
  /\ Answer("OK")
  /\ UNCHANGED <<callVars, transferVars, temp, dest, newest, delivered>>

\* A move's delete: it may fail, also after the server has carried it out.
DeleteObject(reached, fails) ==
  /\ pc = "delete"
  /\ fails \/ reached
  /\ obj' = IF reached THEN 0 ELSE obj
  /\ IF fails THEN Answer("ReadError") ELSE Answer("OK")
  /\ UNCHANGED <<callVars, transferVars, temp, dest, newest, delivered>>

\* The deferred close and remove of a temporary file that was not delivered.
\* A remove that fails leaves a file that no later call looks at.
Cleanup ==
  /\ pc = "cleanup"
  /\ temp' = NoEntry
  /\ Goto("done")
  /\ UNCHANGED <<callVars, transferVars, dest, bucketVars, delivered>>

Reset ==
  /\ pc' = "idle"
  /\ status' = "none"
  /\ FreshTransfer
  /\ temp' = NoEntry
  /\ delivered' = FALSE
  /\ UNCHANGED <<callVars, dest, bucketVars>>

Return == pc = "done" /\ Reset

-----------------------------------------------------------------------------
(* The environment. *)

\* The host process dies; the temporary file stays behind unread.
Crash == pc # "idle" /\ Reset

OtherWritesLocal ==
  /\ dest' \in ForeignEntries \ {dest}
  /\ meddled' = TRUE
  /\ UNCHANGED <<pc, flags, listed, status, transferVars, temp, bucketVars, delivered>>

OtherStores ==
  /\ newest < MaxVersion
  /\ newest' = newest + 1
  /\ obj' = newest + 1
  /\ meddled' = TRUE
  /\ UNCHANGED <<pc, flags, listed, status, transferVars, temp, dest, delivered>>

OtherDeletes ==
  /\ obj # 0
  /\ obj' = 0
  /\ meddled' = TRUE
  /\ UNCHANGED <<pc, flags, listed, status, transferVars, temp, dest, newest, delivered>>

DownloadWork ==
  \/ Respond
  \/ WriteChunk
  \/ \E r \in Results, w \in BOOLEAN : WorkReturns(r, w)

Before(b) == Resolve(b) \/ Stat(b) \/ CreateTemp(b) \/ Start(b)
After(b) ==
  \/ Close(b) \/ Finish(b) \/ Stamp(b)
  \/ Rename(b) \/ Inspect(b) \/ Chmod(b) \/ RenameAgain(b)

Step ==
  \/ \E b \in BOOLEAN : Before(b) \/ After(b)
  \/ \E reached, fails \in BOOLEAN : DeleteObject(reached, fails)
  \/ Cleanup
  \/ Return

Environment == Crash \/ OtherWritesLocal \/ OtherStores \/ OtherDeletes

Next ==
  \/ \E f \in Flags, l \in {0} \cup Versions : l <= newest /\ Call(f, l)
  \/ Step
  \/ DownloadWork
  \/ \E cause \in {"userAbort", "stalled"} : Stop(cause)
  \/ TransferReturns
  \/ Environment

Spec == Init /\ [][Next]_vars

\* Every local or bounded remote call returns; runTransfer stops a transfer
\* that stays silent (RunTransfer!Returns), and a cancelled download gives up.
Fairness ==
  /\ WF_vars(Step)
  /\ WF_vars(Stop("stalled") \/ TransferReturns)
  /\ WF_vars(ctx # "live" /\ DownloadWork)

FairSpec == Spec /\ Fairness

-----------------------------------------------------------------------------
(* Properties *)

\* The destination never shows part of an object: what the plugin put there is
\* a complete version, through every failure, cancellation and crash
\* (service.go:301, 386: the temporary file is renamed, never copied).
DestinationWhole == dest.kind = "file" /\ dest.ver # 0 => dest.got = Size

\* A move that answers OK has moved: whatever failed on the way and was tried
\* again or answered late, the object is gone and the destination is all of it,
\* unless others changed one of the two meanwhile (service.go:386-398).
MoveIsDone ==
  pc = "done" /\ flags.move /\ status = "OK" /\ ~meddled =>
    obj = 0 /\ dest.kind = "file" /\ dest.ver = body /\ dest.got = Size

\* The host learns what happened: a call that answers OK has delivered, and has
\* moved if it was to, and one that delivered answers OK or the move's failed
\* delete (service.go:386-398).
StatusTellsDelivery ==
  pc = "done" =>
    /\ status = "OK" => delivered
    /\ delivered => status = "OK" \/ (flags.move /\ status = "ReadError")
    /\ MoveIsDone

\* The file carries the time of the version it holds, unless stamping failed,
\* although the time is kept from the response while the object may be
\* replaced under it (service.go:320-325, 371-384).
StampMatchesContent ==
  dest.kind = "file" /\ dest.ver \in Dated => dest.stamp \in {0, dest.ver}

\* No download goroutine is left once runTransfer has returned: nothing writes
\* to a file that is closed, renamed or removed (service.go:637-638).
NoWriterLeft == work = "running" => pc \in {"transfer", "stopping"}

\* A file is replaced only when the host asked for it, unless the file came up
\* while the call was under way: the check precedes the download, and the
\* rename does not repeat it (service.go:294-299, 386).
NoUnaskedOverwrite ==
  [][~delivered /\ delivered' /\ ~meddled /\ dest.kind = "file" => flags.overwrite]_vars

\* A move deletes only what it has delivered: the version it removes from the
\* bucket is complete at the destination, unless others changed one of the two
\* meanwhile (service.go:386-397).
MoveLosesNothing ==
  [][pc = "delete" /\ ~meddled /\ obj # 0 /\ obj' = 0 /\ pc' # pc =>
       dest.kind = "file" /\ dest.ver = obj /\ dest.got = Size]_vars

\* Every call comes back to the host, also when the network goes silent.
CallEnds == pc # "idle" ~> pc = "idle"

T == INSTANCE Transfer WITH
  host <- IF pc = "transfer" THEN "waiting"
          ELSE IF pc = "stopping" THEN "stopping"
          ELSE IF verdict # "none" THEN "returned" ELSE "idle"

\* The download is one transfer as runTransfer promises it.
TransferRefinement == T!Spec
=============================================================================
