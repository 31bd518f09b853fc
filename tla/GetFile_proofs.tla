--------------------------- MODULE GetFile_proofs ---------------------------
(***************************************************************************)
(* Proofs about GetFile for every size and number of versions, with other  *)
(* programs, other clients and crashes: its state is well typed, the       *)
(* destination is never partial, the answer tells whether it was replaced, *)
(* and no writer is left behind.                                           *)
(***************************************************************************)
EXTENDS GetFile, TLAPS

LEMMA EntryTypes ==
  NoEntry \in Entries /\ NewFile \in Entries /\ ForeignEntries \subseteq Entries
<1>1. 0 \in 0..Size
  BY ConstantsAssumption DEF ConstantsAssumption
<1>2. NoEntry \in Entries
  BY <1>1 DEF NoEntry, Entries
<1>3. Folder \in Entries /\ NewFile \in Entries
  BY <1>2 DEF Folder, NewFile, Entries
<1>4. ReadOnlyFile \in Entries
  BY <1>3 DEF ReadOnlyFile, Entries
<1> QED BY <1>2, <1>3, <1>4 DEF ForeignEntries

\* The type invariant is inductive once the cause that is returned is known.
StopHasCause == pc = "stopping" => ctx \in {"userAbort", "stalled"}

TypeInv == TypeOK /\ StopHasCause

LEMMA TypeInit == Init => TypeInv
<1> SUFFICES ASSUME Init PROVE TypeOK
  BY DEF TypeInv, StopHasCause, Init
<1>1. dest \in Entries /\ temp \in Entries
  BY EntryTypes DEF Init
<1>2. obj \in {0} \cup Versions /\ newest \in {0} \cup Versions
  BY DEF Init, Versions
<1>3. pc \in Pcs /\ flags \in Flags /\ listed \in {0} \cup Versions /\ status \in Statuses \cup {"none"}
  BY DEF Init, Pcs, Flags
<1>4. /\ work \in {"idle", "running", "finished"} /\ ctx \in {"live", "userAbort", "stalled"}
      /\ result \in Results \cup {"none"} /\ verdict \in Results \cup {"userAbort", "stalled", "none"}
      /\ writeErr \in BOOLEAN /\ delivered \in BOOLEAN
  BY DEF Init
<1>5. body \in {0} \cup Versions /\ meddled \in BOOLEAN
  BY DEF Init
<1> QED BY <1>1, <1>2, <1>3, <1>4, <1>5 DEF TypeOK

LEMMA TypeStep == TypeInv /\ [Next]_vars => TypeInv'
<1> SUFFICES ASSUME TypeInv, [Next]_vars PROVE TypeInv'
  OBVIOUS
<1> USE DEF TypeInv, StopHasCause, TypeOK, Pcs, Statuses, Answer, Goto
<1>1. ASSUME NEW f \in Flags, NEW l \in {0} \cup Versions, Call(f, l) PROVE TypeInv'
  <2>1. pc' \in {"done", "cleanup", "resolve"} /\ status' \in Statuses \cup {"none"}
    BY <1>1 DEF Call
  <2>2. flags' \in Flags /\ listed' \in {0} \cup Versions /\ meddled' \in BOOLEAN
    BY <1>1 DEF Call
  <2> QED BY <1>1, <2>1, <2>2 DEF Call, transferVars, bucketVars
<1>2. ASSUME NEW b \in BOOLEAN, Resolve(b) \/ Stat(b) PROVE TypeInv'
  BY <1>2 DEF Resolve, Stat, callVars, transferVars, bucketVars
<1>3. ASSUME NEW b \in BOOLEAN, CreateTemp(b) PROVE TypeInv'
  <2>1. temp' \in Entries
    BY <1>3, EntryTypes DEF CreateTemp
  <2> QED BY <1>3, <2>1 DEF CreateTemp, callVars, transferVars, bucketVars
<1>4. ASSUME NEW b \in BOOLEAN, Start(b) PROVE TypeInv'
  BY <1>4 DEF Start, callVars, transferVars, bucketVars
<1>5. CASE Respond
  <2>1. temp' \in Entries
    BY <1>5 DEF Respond, Entries
  <2> QED BY <1>5, <2>1 DEF Respond, callVars, bucketVars
<1>6. CASE WriteChunk
  <2>1. temp' \in Entries
    BY <1>6, ConstantsAssumption DEF WriteChunk, Entries, ConstantsAssumption
  <2> QED BY <1>6, <2>1 DEF WriteChunk, callVars, transferVars, bucketVars
<1>7. ASSUME NEW r \in Results, NEW w \in BOOLEAN, WorkReturns(r, w) PROVE TypeInv'
  BY <1>7 DEF WorkReturns, callVars, bucketVars, Results
<1>8. ASSUME NEW cause \in {"userAbort", "stalled"}, Stop(cause) PROVE TypeInv'
  BY <1>8 DEF Stop, callVars, bucketVars
<1>10. CASE TransferReturns
  <2>1. verdict' \in Results \cup {"userAbort", "stalled", "none"}
    BY <1>10 DEF TransferReturns, Outcome
  <2> QED BY <1>10, <2>1 DEF TransferReturns, Outcome, callVars, bucketVars
<1>11. ASSUME NEW b \in BOOLEAN, Close(b) PROVE TypeInv'
  BY <1>11 DEF Close, callVars, transferVars, bucketVars
<1>12. ASSUME NEW b \in BOOLEAN, Finish(b) PROVE TypeInv'
  BY <1>12 DEF Finish, callVars, transferVars, bucketVars
<1>13. ASSUME NEW b \in BOOLEAN, Stamp(b) PROVE TypeInv'
  <2>1. temp' \in Entries
    BY <1>13 DEF Stamp, Entries
  <2> QED BY <1>13, <2>1 DEF Stamp, callVars, transferVars, bucketVars
<1>14. ASSUME NEW b \in BOOLEAN, Rename(b) \/ RenameAgain(b) PROVE TypeInv'
  <2>1. temp' \in Entries /\ dest' \in Entries /\ delivered' \in BOOLEAN
    BY <1>14, EntryTypes DEF Rename, RenameAgain, Delivered
  <2> QED BY <1>14, <2>1 DEF Rename, RenameAgain, Delivered, callVars, transferVars, bucketVars
<1>9. ASSUME NEW b \in BOOLEAN, Inspect(b) PROVE TypeInv'
  BY <1>9 DEF Inspect, callVars, transferVars, bucketVars
<1>15. ASSUME NEW b \in BOOLEAN, Chmod(b) PROVE TypeInv'
  <2>1. dest' \in Entries
    BY <1>15 DEF Chmod, Entries
  <2> QED BY <1>15, <2>1 DEF Chmod, callVars, transferVars, bucketVars
<1>16. ASSUME NEW reached \in BOOLEAN, NEW fails \in BOOLEAN, DeleteObject(reached, fails) PROVE TypeInv'
  BY <1>16 DEF DeleteObject, callVars, transferVars
<1>17. CASE Cleanup
  BY <1>17, EntryTypes DEF Cleanup, callVars, transferVars, bucketVars
<1>18. CASE Return \/ Crash
  BY <1>18, EntryTypes DEF Return, Crash, Reset, FreshTransfer, callVars, bucketVars
<1>19. CASE OtherWritesLocal
  <2>1. dest' \in Entries
    BY <1>19, EntryTypes DEF OtherWritesLocal
  <2> QED BY <1>19, <2>1 DEF OtherWritesLocal, callVars, transferVars, bucketVars
<1>20. CASE OtherStores
  <2>1. newest + 1 \in Versions
    BY <1>20, ConstantsAssumption DEF OtherStores, Versions, ConstantsAssumption
  <2> QED BY <1>20, <2>1 DEF OtherStores, callVars, transferVars
<1>21. CASE OtherDeletes
  BY <1>21 DEF OtherDeletes, callVars, transferVars
<1>22. CASE UNCHANGED vars
  BY <1>22 DEF vars, callVars, transferVars, bucketVars
<1> QED
  BY <1>1, <1>2, <1>3, <1>4, <1>5, <1>6, <1>7, <1>8, <1>9, <1>10, <1>11, <1>12, <1>13,
     <1>14, <1>15, <1>16, <1>17, <1>18, <1>19, <1>20, <1>21, <1>22
  DEF Next, Step, Before, After, DownloadWork, Environment

LEMMA TypeInvariant == Spec => []TypeInv
BY TypeInit, TypeStep, PTL DEF Spec

\* Every reachable state is well typed.
THEOREM TypeCorrect == Spec => []TypeOK
<1>1. TypeInv => TypeOK
  BY DEF TypeInv
<1> QED BY <1>1, TypeInvariant, PTL

-----------------------------------------------------------------------------
(* What is delivered.  The temporary file is complete from the moment a    *)
(* download has returned nil: no writer is left to change it, and no other *)
(* verdict leads to the rename.                                            *)

Delivering == {"close", "finish", "stamp", "rename", "inspect", "chmod", "again"}

TempInv ==
  /\ NoWriterLeft
  /\ pc \in {"transfer", "stopping"} /\ work = "finished" /\ result = "nil" => temp.got = Size
  /\ pc \in Delivering => temp.got = Size
  /\ DestinationWhole

\* There is a temporary file to clean up only while nothing is delivered.
AnswerInv ==
  /\ pc \in {"idle", "resolve", "stat", "temp", "delete"} => temp.kind = "none"
  /\ delivered => pc \in {"delete", "done"}
  /\ pc = "delete" => delivered /\ flags.move
  /\ status = "OK" => delivered
  /\ delivered /\ pc = "done" => status = "OK" \/ (flags.move /\ status = "ReadError")

SafeInv == TempInv /\ AnswerInv

LEMMA ForeignContent == \A e \in ForeignEntries : e.kind = "file" => e.ver = 0
<1>1. NoEntry.ver = 0 /\ NoEntry.kind = "none"
  BY DEF NoEntry
<1>2. Folder.ver = 0 /\ NewFile.ver = 0
  BY DEF Folder, NewFile, NoEntry
<1>3. ReadOnlyFile.ver = 0
  BY <1>2, EntryTypes DEF ReadOnlyFile, Entries
<1> QED BY <1>1, <1>2, <1>3 DEF ForeignEntries

LEMMA SafeInit == Init => SafeInv
<1> SUFFICES ASSUME Init PROVE SafeInv
  OBVIOUS
<1>1. DestinationWhole
  BY ForeignContent DEF Init, DestinationWhole
<1>2. temp.kind = "none"
  BY DEF Init, NoEntry
<1> QED BY <1>1, <1>2 DEF Init, SafeInv, TempInv, AnswerInv, NoWriterLeft, Delivering

LEMMA SafeStep == TypeInv /\ SafeInv /\ [Next]_vars => SafeInv'
<1> SUFFICES ASSUME TypeInv, SafeInv, [Next]_vars PROVE SafeInv'
  OBVIOUS
<1> USE DEF SafeInv, TempInv, AnswerInv, NoWriterLeft, DestinationWhole, Delivering, Answer, Goto
<1>0. temp \in Entries /\ dest \in Entries
  BY DEF TypeInv, TypeOK
<1>1. ASSUME NEW f \in Flags, NEW l \in {0} \cup Versions, Call(f, l) PROVE SafeInv'
  BY <1>1 DEF Call, transferVars
<1>2. ASSUME NEW b \in BOOLEAN, Resolve(b) \/ Stat(b) PROVE SafeInv'
  BY <1>2 DEF Resolve, Stat, callVars, transferVars
<1>3. ASSUME NEW b \in BOOLEAN, CreateTemp(b) PROVE SafeInv'
  BY <1>3 DEF CreateTemp, callVars, transferVars
<1>4. ASSUME NEW b \in BOOLEAN, Start(b) PROVE SafeInv'
  BY <1>4 DEF Start, callVars, transferVars
<1>5. CASE Respond
  <2>1. temp'.got = temp.got /\ temp'.kind = temp.kind
    BY <1>0, <1>5 DEF Respond, Entries
  <2> QED BY <1>5, <2>1 DEF Respond, callVars
<1>6. CASE WriteChunk
  <2>1. temp'.kind = temp.kind
    BY <1>0, <1>6 DEF WriteChunk, Entries
  <2> QED BY <1>6, <2>1 DEF WriteChunk, callVars, transferVars
<1>7. ASSUME NEW r \in Results, NEW w \in BOOLEAN, WorkReturns(r, w) PROVE SafeInv'
  BY <1>7 DEF WorkReturns, callVars
<1>8. ASSUME NEW cause \in {"userAbort", "stalled"}, Stop(cause) PROVE SafeInv'
  BY <1>8 DEF Stop, callVars
<1>10. CASE TransferReturns
  <2>1. pc' = "close" => temp.got = Size
    <3>1. pc' = "close" => verdict' = "nil"
      BY <1>10 DEF TransferReturns, Outcome
    <3>2. pc = "stopping" => ctx # "nil"
      BY DEF TypeInv, StopHasCause
    <3> QED BY <1>10, <3>1, <3>2 DEF TransferReturns
  <2>2. pc' \in {"close", "cleanup", "done"} /\ ~delivered /\ status' # "OK"
    BY <1>10 DEF TransferReturns, Outcome
  <2>3. UNCHANGED <<temp, dest, delivered, flags, work>> /\ work # "running"
    BY <1>10 DEF TransferReturns, callVars
  <2> QED BY <2>1, <2>2, <2>3
<1>11. ASSUME NEW b \in BOOLEAN, Close(b) \/ Finish(b) PROVE SafeInv'
  BY <1>11 DEF Close, Finish, callVars, transferVars
<1>12. ASSUME NEW b \in BOOLEAN, Stamp(b) PROVE SafeInv'
  <2>1. temp'.got = temp.got /\ temp'.kind = temp.kind
    BY <1>0, <1>12 DEF Stamp, Entries
  <2> QED BY <1>12, <2>1 DEF Stamp, callVars, transferVars
<1>13. ASSUME NEW b \in BOOLEAN, Rename(b) \/ RenameAgain(b) PROVE SafeInv'
  <2>1. CASE Delivered
    BY <1>13, <2>1 DEF Rename, RenameAgain, Delivered, NoEntry, callVars, transferVars
  <2>2. CASE ~Delivered
    BY <1>13, <2>2 DEF Rename, RenameAgain, callVars, transferVars
  <2> QED BY <2>1, <2>2
<1>9. ASSUME NEW b \in BOOLEAN, Inspect(b) PROVE SafeInv'
  BY <1>9 DEF Inspect, callVars, transferVars
<1>14. ASSUME NEW b \in BOOLEAN, Chmod(b) PROVE SafeInv'
  <2>1. dest'.kind = dest.kind /\ dest'.ver = dest.ver /\ dest'.got = dest.got
    BY <1>0, <1>14 DEF Chmod, Entries
  <2> QED BY <1>14, <2>1 DEF Chmod, callVars, transferVars
<1>15. ASSUME NEW reached \in BOOLEAN, NEW fails \in BOOLEAN, DeleteObject(reached, fails) PROVE SafeInv'
  BY <1>15 DEF DeleteObject, callVars, transferVars
<1>16. CASE Cleanup
  BY <1>16 DEF Cleanup, callVars, transferVars
<1>17. CASE Return \/ Crash
  BY <1>17 DEF Return, Crash, Reset, FreshTransfer, callVars, NoEntry
<1>18. CASE OtherWritesLocal
  <2>1. dest'.kind = "file" => dest'.ver = 0
    BY <1>18, ForeignContent DEF OtherWritesLocal
  <2> QED BY <1>18, <2>1 DEF OtherWritesLocal, callVars, transferVars
<1>19. CASE OtherStores \/ OtherDeletes
  BY <1>19 DEF OtherStores, OtherDeletes, callVars, transferVars
<1>20. CASE UNCHANGED vars
  BY <1>20 DEF vars, callVars, transferVars
<1> QED
  BY <1>1, <1>2, <1>3, <1>4, <1>5, <1>6, <1>7, <1>8, <1>9, <1>10, <1>11, <1>12, <1>13,
     <1>14, <1>15, <1>16, <1>17, <1>18, <1>19, <1>20
  DEF Next, Step, Before, After, DownloadWork, Environment

LEMMA SafeInvariant == Spec => []SafeInv
BY SafeInit, SafeStep, TypeInvariant, PTL DEF Spec

\* The destination never shows part of an object, whatever fails, is cancelled
\* or crashes, and whoever else writes the file or the object.
THEOREM DestinationAlwaysWhole == Spec => []DestinationWhole
<1>1. SafeInv => DestinationWhole
  BY DEF SafeInv, TempInv
<1> QED BY <1>1, SafeInvariant, PTL

\* No download goroutine outlives runTransfer.
THEOREM WriterAlwaysGone == Spec => []NoWriterLeft
<1>1. SafeInv => NoWriterLeft
  BY DEF SafeInv, TempInv
<1> QED BY <1>1, SafeInvariant, PTL

-----------------------------------------------------------------------------
(* Which version the file holds.  The temporary file has the version of    *)
(* the response, and gets its time stamp after the response is complete.   *)

VersionInv ==
  /\ pc \in {"idle", "resolve", "stat", "temp"} => body = 0
  /\ temp.kind = "file" => temp.ver = body
  /\ pc \in {"start", "transfer", "stopping"} => temp.stamp = 0
  /\ pc \in {"start", "transfer", "stopping"} \cup Delivering => temp.kind = "file"
  /\ result = "nil" => body # 0
  /\ pc \in Delivering \cup {"delete"} => body # 0
  /\ temp.ver \in Dated => temp.stamp \in {0, temp.ver}

StampInv == VersionInv /\ StampMatchesContent

LEMMA Undated ==
  /\ 0 \notin Dated
  /\ NoEntry.ver = 0 /\ NewFile.ver = 0 /\ NewFile.stamp = 0
  /\ NoEntry.kind = "none" /\ NewFile.kind = "file"
  /\ \A e \in ForeignEntries : e.ver = 0
<1>1. 0 \notin Dated
  BY ConstantsAssumption DEF ConstantsAssumption
<1>2. /\ NoEntry.ver = 0 /\ NewFile.ver = 0 /\ NewFile.stamp = 0
      /\ NoEntry.kind = "none" /\ NewFile.kind = "file"
  BY DEF NoEntry, NewFile
<1>3. Folder.ver = 0 /\ ReadOnlyFile.ver = 0
  BY DEF Folder, ReadOnlyFile, NewFile, NoEntry
<1> QED BY <1>1, <1>2, <1>3 DEF ForeignEntries

LEMMA StampInit == Init => StampInv
BY Undated DEF Init, StampInv, VersionInv, Delivering, StampMatchesContent

LEMMA StampStep == TypeInv /\ SafeInv /\ StampInv /\ [Next]_vars => StampInv'
<1> SUFFICES ASSUME TypeInv, SafeInv, StampInv, [Next]_vars PROVE StampInv'
  OBVIOUS
<1> USE DEF StampInv, VersionInv, StampMatchesContent, Delivering, Answer, Goto
<1>0. /\ temp \in Entries /\ dest \in Entries /\ NoWriterLeft
      /\ pc \in {"idle", "resolve", "stat", "temp", "delete"} => temp.kind = "none"
  BY DEF TypeInv, TypeOK, SafeInv, TempInv, AnswerInv
<1>1. ASSUME NEW f \in Flags, NEW l \in {0} \cup Versions, Call(f, l) PROVE StampInv'
  BY <1>0, <1>1 DEF Call, transferVars
<1>2. ASSUME NEW b \in BOOLEAN, Resolve(b) \/ Stat(b) PROVE StampInv'
  BY <1>0, <1>2 DEF Resolve, Stat, transferVars
<1>3. ASSUME NEW b \in BOOLEAN, CreateTemp(b) PROVE StampInv'
  BY <1>0, <1>3, Undated DEF CreateTemp, transferVars
<1>4. ASSUME NEW b \in BOOLEAN, Start(b) PROVE StampInv'
  BY <1>0, <1>4 DEF Start, transferVars
<1>5. CASE Respond
  <2>1. /\ temp'.kind = temp.kind /\ temp'.ver = body' /\ temp'.stamp = temp.stamp
        /\ pc \in {"transfer", "stopping"}
    BY <1>0, <1>5 DEF Respond, Entries, NoWriterLeft
  <2> QED BY <1>5, <2>1 DEF Respond
<1>6. CASE WriteChunk
  <2>1. temp'.kind = temp.kind /\ temp'.ver = temp.ver /\ temp'.stamp = temp.stamp
    BY <1>0, <1>6 DEF WriteChunk, Entries
  <2> QED BY <1>6, <2>1 DEF WriteChunk, transferVars
<1>7. ASSUME NEW r \in Results, NEW w \in BOOLEAN, WorkReturns(r, w) PROVE StampInv'
  BY <1>7 DEF WorkReturns
<1>8. ASSUME NEW cause \in {"userAbort", "stalled"}, Stop(cause) PROVE StampInv'
  BY <1>8 DEF Stop
<1>9. CASE TransferReturns
  <2>1. pc' \in {"close", "cleanup", "done"} /\ UNCHANGED <<temp, dest, body, result>>
    BY <1>9 DEF TransferReturns, Outcome
  <2>2. pc' = "close" => result = "nil"
    <3>1. pc' = "close" => verdict' = "nil"
      BY <1>9 DEF TransferReturns, Outcome
    <3>2. pc = "stopping" => ctx # "nil"
      BY DEF TypeInv, StopHasCause
    <3> QED BY <1>9, <3>1, <3>2 DEF TransferReturns
  <2>3. temp.kind = "file"
    BY <1>9 DEF TransferReturns
  <2> QED BY <2>1, <2>2, <2>3
<1>10. ASSUME NEW b \in BOOLEAN, Close(b) \/ Finish(b) PROVE StampInv'
  BY <1>0, <1>10 DEF Close, Finish, transferVars
<1>11. ASSUME NEW b \in BOOLEAN, Stamp(b) PROVE StampInv'
  <2>1. /\ temp'.kind = temp.kind /\ temp'.ver = temp.ver
        /\ temp'.stamp = temp.stamp \/ temp'.stamp = (IF body \in Dated THEN body ELSE listed)
    BY <1>0, <1>11 DEF Stamp, Entries
  <2> QED BY <1>11, <2>1 DEF Stamp, transferVars
<1>12. ASSUME NEW b \in BOOLEAN, Rename(b) \/ RenameAgain(b) PROVE StampInv'
  <2>1. CASE Delivered
    BY <1>12, <2>1, Undated DEF Rename, RenameAgain, Delivered, transferVars
  <2>2. CASE ~Delivered
    BY <1>12, <2>2 DEF Rename, RenameAgain, transferVars
  <2> QED BY <2>1, <2>2
<1>13. ASSUME NEW b \in BOOLEAN, Chmod(b) PROVE StampInv'
  <2>1. dest'.kind = dest.kind /\ dest'.ver = dest.ver /\ dest'.stamp = dest.stamp
    BY <1>0, <1>13 DEF Chmod, Entries
  <2> QED BY <1>13, <2>1 DEF Chmod, transferVars
<1>20. ASSUME NEW b \in BOOLEAN, Inspect(b) PROVE StampInv'
  BY <1>20 DEF Inspect, transferVars
<1>14. ASSUME NEW reached \in BOOLEAN, NEW fails \in BOOLEAN, DeleteObject(reached, fails) PROVE StampInv'
  BY <1>0, <1>14 DEF DeleteObject, transferVars
<1>15. CASE Cleanup
  BY <1>15, Undated DEF Cleanup, transferVars
<1>16. CASE Return \/ Crash
  BY <1>16, Undated DEF Return, Crash, Reset, FreshTransfer
<1>17. CASE OtherWritesLocal
  BY <1>17, Undated DEF OtherWritesLocal, transferVars
<1>18. CASE OtherStores \/ OtherDeletes
  BY <1>18 DEF OtherStores, OtherDeletes, transferVars
<1>19. CASE UNCHANGED vars
  BY <1>19 DEF vars, transferVars
<1> QED
  BY <1>1, <1>2, <1>3, <1>4, <1>5, <1>6, <1>7, <1>8, <1>9, <1>10, <1>11, <1>12, <1>13,
     <1>14, <1>15, <1>16, <1>17, <1>18, <1>19, <1>20
  DEF Next, Step, Before, After, DownloadWork, Environment

\* A delivered file carries the time of the version it holds or the time of its
\* writing, also when the object is replaced during the call
\* (service.go:320-325, 371-384).
THEOREM StampsMatch == Spec => []StampMatchesContent
<1>1. StampInv => StampMatchesContent
  BY DEF StampInv
<1> QED BY <1>1, StampInit, StampStep, TypeInvariant, SafeInvariant, PTL DEF Spec

-----------------------------------------------------------------------------
(* What a call may replace and delete while nobody meddles.  Until its own *)
(* delete the object is the one that was answered, and from the check on   *)
(* the destination is what the check saw; from the rename on it is what the *)
(* call has put there.                                                     *)

Checked == {"temp", "start", "transfer", "stopping"} \cup Delivering

UnmeddledInv ==
  ~meddled =>
    /\ body # 0 /\ pc # "done" => obj = body
    /\ pc \in Checked /\ dest.kind = "file" => flags.overwrite
    /\ delivered => dest.kind = "file" /\ dest.ver = body /\ dest.got = Size
    /\ pc = "done" /\ status = "OK" /\ flags.move => obj = 0

LEMMA UnmeddledInit == Init => UnmeddledInv
BY DEF Init, UnmeddledInv, Checked, Delivering

LEMMA UnmeddledStep ==
  TypeInv /\ SafeInv /\ StampInv /\ UnmeddledInv /\ [Next]_vars => UnmeddledInv'
<1> SUFFICES ASSUME TypeInv, SafeInv, StampInv, UnmeddledInv, [Next]_vars PROVE UnmeddledInv'
  OBVIOUS
<1> USE DEF UnmeddledInv, Checked, Delivering, AnswerInv, Answer, Goto
<1>0. /\ temp \in Entries /\ dest \in Entries
      /\ VersionInv
      /\ pc \in Delivering => temp.got = Size
      /\ AnswerInv
  BY DEF TypeInv, TypeOK, SafeInv, TempInv, StampInv
<1>1. ASSUME NEW f \in Flags, NEW l \in {0} \cup Versions, Call(f, l) PROVE UnmeddledInv'
  BY <1>0, <1>1 DEF Call, transferVars, bucketVars, VersionInv
<1>2. ASSUME NEW b \in BOOLEAN, Resolve(b) \/ Stat(b) PROVE UnmeddledInv'
  BY <1>2 DEF Resolve, Stat, callVars, transferVars, bucketVars
<1>3. ASSUME NEW b \in BOOLEAN, CreateTemp(b) \/ Start(b) PROVE UnmeddledInv'
  BY <1>3 DEF CreateTemp, Start, callVars, transferVars, bucketVars
<1>4. CASE Respond
  <2>1. pc \in {"transfer", "stopping"}
    BY <1>4 DEF Respond, SafeInv, TempInv, NoWriterLeft
  <2> QED BY <1>0, <1>4, <2>1 DEF Respond, callVars, bucketVars
<1>5. CASE WriteChunk
  BY <1>5 DEF WriteChunk, callVars, transferVars, bucketVars
<1>6. ASSUME NEW r \in Results, NEW w \in BOOLEAN, WorkReturns(r, w) PROVE UnmeddledInv'
  BY <1>6 DEF WorkReturns, callVars, bucketVars
<1>7. ASSUME NEW cause \in {"userAbort", "stalled"}, Stop(cause) PROVE UnmeddledInv'
  BY <1>7 DEF Stop, callVars, bucketVars
<1>8. CASE TransferReturns
  BY <1>8 DEF TransferReturns, Outcome, callVars, bucketVars
<1>9. ASSUME NEW b \in BOOLEAN, Close(b) \/ Finish(b) \/ Stamp(b) PROVE UnmeddledInv'
  BY <1>9 DEF Close, Finish, Stamp, callVars, transferVars, bucketVars
<1>10. ASSUME NEW b \in BOOLEAN, Rename(b) \/ RenameAgain(b) PROVE UnmeddledInv'
  <2>1. temp.kind = "file" /\ temp.ver = body /\ temp.got = Size
    BY <1>0, <1>10 DEF Rename, RenameAgain, VersionInv
  <2>2. CASE Delivered
    BY <1>10, <2>1, <2>2 DEF Rename, RenameAgain, Delivered, callVars, transferVars, bucketVars
  <2>3. CASE ~Delivered
    BY <1>10, <2>3 DEF Rename, RenameAgain, callVars, transferVars, bucketVars
  <2> QED BY <2>2, <2>3
<1>11. ASSUME NEW b \in BOOLEAN, Chmod(b) PROVE UnmeddledInv'
  <2>1. dest'.kind = dest.kind /\ ~delivered
    BY <1>0, <1>11 DEF Chmod, Entries, AnswerInv
  <2> QED BY <1>11, <2>1 DEF Chmod, callVars, transferVars, bucketVars
<1>17. ASSUME NEW b \in BOOLEAN, Inspect(b) PROVE UnmeddledInv'
  BY <1>17 DEF Inspect, callVars, transferVars, bucketVars
<1>12. ASSUME NEW reached \in BOOLEAN, NEW fails \in BOOLEAN, DeleteObject(reached, fails) PROVE UnmeddledInv'
  <2>1. temp.kind = "none"
    BY <1>12 DEF DeleteObject, SafeInv, AnswerInv
  <2> QED BY <1>12, <2>1 DEF DeleteObject, callVars, transferVars
<1>13. CASE Cleanup
  BY <1>0, <1>13 DEF Cleanup, callVars, transferVars, bucketVars
<1>14. CASE Return \/ Crash
  BY <1>14 DEF Return, Crash, Reset, FreshTransfer, callVars, bucketVars
<1>15. CASE OtherWritesLocal \/ OtherStores \/ OtherDeletes
  BY <1>15 DEF OtherWritesLocal, OtherStores, OtherDeletes
<1>16. CASE UNCHANGED vars
  BY <1>16 DEF vars, callVars, transferVars, bucketVars
<1> QED
  BY <1>1, <1>2, <1>3, <1>4, <1>5, <1>6, <1>7, <1>8, <1>9, <1>10, <1>11, <1>12, <1>13,
     <1>14, <1>15, <1>16, <1>17
  DEF Next, Step, Before, After, DownloadWork, Environment

LEMMA UnmeddledInvariant == Spec => [](TypeInv /\ SafeInv /\ StampInv /\ UnmeddledInv)
BY StampInit, StampStep, UnmeddledInit, UnmeddledStep, TypeInvariant, SafeInvariant, PTL DEF Spec

\* Only a rename delivers.
LEMMA DeliveryStep ==
  ASSUME TypeInv, SafeInv, [Next]_vars, ~delivered, delivered'
  PROVE  pc \in {"rename", "again"}
BY DEF Next, Step, Before, After, DownloadWork, Environment, Call, Resolve, Stat, CreateTemp, Start,
       Respond, WriteChunk, WorkReturns, Stop, TransferReturns, Close, Finish, Stamp, Rename, Inspect,
       Chmod, RenameAgain, DeleteObject, Cleanup, Return, Crash, Reset, OtherWritesLocal, OtherStores,
       OtherDeletes, vars

\* A file that was there when the call looked is replaced only when the host
\* asked for it (service.go:294-299, 386).
THEOREM ReplacesOnlyWhenAsked == Spec => NoUnaskedOverwrite
<1> DEFINE Asked == ~delivered /\ delivered' /\ ~meddled /\ dest.kind = "file" => flags.overwrite
<1>1. TypeInv /\ SafeInv /\ StampInv /\ UnmeddledInv /\ [Next]_vars => [Asked]_vars
  BY DeliveryStep DEF UnmeddledInv, Checked, Delivering
<1> QED BY <1>1, UnmeddledInvariant, PTL DEF Spec, NoUnaskedOverwrite

\* A move deletes the very version that is complete at the destination
\* (service.go:386-397).
THEOREM MovesLoseNothing == Spec => MoveLosesNothing
<1> DEFINE Kept == pc = "delete" /\ ~meddled /\ obj # 0 /\ obj' = 0 /\ pc' # pc =>
                     dest.kind = "file" /\ dest.ver = obj /\ dest.got = Size
<1>1. TypeInv /\ SafeInv /\ StampInv /\ UnmeddledInv /\ [Next]_vars => [Kept]_vars
  BY DEF UnmeddledInv, SafeInv, AnswerInv, StampInv, VersionInv
<1> QED BY <1>1, UnmeddledInvariant, PTL DEF Spec, MoveLosesNothing

\* A move that answers OK has left the object nowhere but at the destination,
\* and all of it (service.go:386-398).
THEOREM OkMovesAreDone == Spec => []MoveIsDone
<1>1. SafeInv /\ UnmeddledInv => MoveIsDone
  BY DEF UnmeddledInv, SafeInv, AnswerInv, MoveIsDone
<1> QED BY <1>1, UnmeddledInvariant, PTL

\* The host's answer tells whether its file was replaced, and whether a move is
\* complete (service.go:386-398).
THEOREM AnswerTellsDelivery == Spec => []StatusTellsDelivery
<1>1. SafeInv /\ MoveIsDone => StatusTellsDelivery
  BY DEF SafeInv, AnswerInv, StatusTellsDelivery
<1> QED BY <1>1, SafeInvariant, OkMovesAreDone, PTL

-----------------------------------------------------------------------------
(* The download is one transfer as Transfer promises it.  The mapping calls *)
(* the transfer idle whenever getFile is outside of it and has no verdict;  *)
(* then nothing of an earlier transfer may be left.                        *)

TransferInv ==
  /\ pc \in {"idle", "resolve", "stat", "temp", "start", "transfer", "stopping"} => verdict = "none"
  /\ pc \notin {"transfer", "stopping"} /\ verdict = "none" =>
       work = "idle" /\ ctx = "live" /\ result = "none"
  /\ work = "finished" => result # "none"

LEMMA TransferInit == Init => TransferInv /\ T!Init
BY DEF Init, TransferInv, T!Init

\* A step outside of the transfer that leaves its variables alone.
LEMMA OutsideStep ==
  ASSUME TransferInv, UNCHANGED transferVars,
         pc \notin {"transfer", "stopping"}, pc' \notin {"transfer", "stopping"},
         pc' \in {"idle", "resolve", "stat", "temp", "start"} =>
           pc \in {"idle", "resolve", "stat", "temp", "start"}
  PROVE  TransferInv' /\ UNCHANGED T!vars
BY DEF TransferInv, T!vars, transferVars

\* A step that is none of the call's own.
LEMMA ForeignStep ==
  ASSUME TransferInv, UNCHANGED <<pc, work, ctx, result, verdict>>
  PROVE  TransferInv' /\ UNCHANGED T!vars
BY DEF TransferInv, T!vars

LEMMA TransferStep ==
  ASSUME TypeInv, TransferInv, [Next]_vars
  PROVE  TransferInv' /\ [T!Next]_(T!vars)
<1> USE DEF Answer, Goto
<1>1. ASSUME NEW f \in Flags, NEW l \in {0} \cup Versions, Call(f, l)
      PROVE  TransferInv' /\ UNCHANGED T!vars
  BY <1>1, OutsideStep DEF Call
<1>2. ASSUME NEW b \in BOOLEAN, Resolve(b) \/ Stat(b) \/ CreateTemp(b)
      PROVE  TransferInv' /\ UNCHANGED T!vars
  BY <1>2, OutsideStep DEF Resolve, Stat, CreateTemp
<1>3. ASSUME NEW b \in BOOLEAN, Start(b)
      PROVE  TransferInv' /\ [T!Next]_(T!vars)
  <2>1. CASE b
    BY <1>3, <2>1, OutsideStep DEF Start
  <2>2. CASE ~b
    <3>1. pc = "start" /\ pc' = "transfer" /\ work' = "running" /\ UNCHANGED <<ctx, result, verdict>>
      BY <1>3, <2>2 DEF Start
    <3>2. TransferInv'
      BY <3>1 DEF TransferInv
    <3>3. T!Launch
      BY <3>1 DEF TransferInv, T!Launch
    <3> QED BY <3>2, <3>3 DEF T!Next
  <2> QED BY <2>1, <2>2
<1>4. CASE Respond \/ WriteChunk
  BY <1>4, ForeignStep DEF Respond, WriteChunk, transferVars
<1>5. ASSUME NEW r \in Results, NEW w \in BOOLEAN, WorkReturns(r, w)
      PROVE  TransferInv' /\ [T!Next]_(T!vars)
  <2>1. work = "running" /\ work' = "finished" /\ result' = r /\ UNCHANGED <<pc, ctx, verdict>>
    BY <1>5 DEF WorkReturns
  <2>2. TransferInv'
    BY <2>1 DEF TransferInv, Results
  <2>3. T!WorkReturns(r)
    BY <2>1 DEF T!WorkReturns
  <2> QED BY <2>2, <2>3 DEF T!Next
<1>6. ASSUME NEW cause \in {"userAbort", "stalled"}, Stop(cause)
      PROVE  TransferInv' /\ [T!Next]_(T!vars)
  <2>1. /\ pc = "transfer" /\ pc' = "stopping" /\ ctx' = cause
        /\ UNCHANGED <<work, result, verdict>>
    BY <1>6 DEF Stop
  <2>2. TransferInv'
    BY <2>1 DEF TransferInv
  <2>3. T!Stop(cause)
    BY <2>1 DEF T!Stop
  <2> QED BY <2>2, <2>3 DEF T!Next, T!Causes
<1>7. CASE TransferReturns
  <2>1. /\ pc' \notin {"idle", "resolve", "stat", "temp", "start", "transfer", "stopping"}
        /\ pc \in {"transfer", "stopping"} /\ work = "finished"
        /\ verdict' = IF pc = "stopping" THEN ctx ELSE result
        /\ UNCHANGED <<work, ctx, result>>
    BY <1>7 DEF TransferReturns, Outcome
  <2>2. verdict' # "none"
    BY <2>1 DEF TypeInv, StopHasCause, TransferInv
  <2>3. TransferInv'
    BY <2>1, <2>2 DEF TransferInv
  <2>4. pc = "stopping" => T!Reap
    BY <2>1, <2>2 DEF T!Reap
  <2>5. pc = "transfer" => T!Collect
    BY <2>1, <2>2 DEF T!Collect
  <2> QED BY <2>1, <2>3, <2>4, <2>5 DEF T!Next
<1>8. ASSUME NEW b \in BOOLEAN, After(b)
      PROVE  TransferInv' /\ UNCHANGED T!vars
  BY <1>8, OutsideStep
  DEF After, Close, Finish, Stamp, Rename, Inspect, Chmod, RenameAgain, Delivered
<1>9. ASSUME NEW reached \in BOOLEAN, NEW fails \in BOOLEAN, DeleteObject(reached, fails) \/ Cleanup
      PROVE  TransferInv' /\ UNCHANGED T!vars
  BY <1>9, OutsideStep DEF DeleteObject, Cleanup
<1>10. CASE Return \/ Crash
  <2>1. /\ pc' = "idle" /\ work' = "idle" /\ ctx' = "live" /\ result' = "none" /\ verdict' = "none"
    BY <1>10 DEF Return, Crash, Reset, FreshTransfer
  <2>2. TransferInv'
    BY <2>1 DEF TransferInv
  <2>3. CASE pc \in {"transfer", "stopping"} \/ verdict # "none"
    <3>1. T!Die
      BY <2>1, <2>3 DEF T!Die, T!Afresh
    <3> QED BY <2>2, <3>1 DEF T!Next
  <2>4. CASE pc \notin {"transfer", "stopping"} /\ verdict = "none"
    <3>1. UNCHANGED T!vars
      BY <2>1, <2>4 DEF T!vars, TransferInv
    <3> QED BY <2>2, <3>1
  <2> QED BY <2>3, <2>4
<1>11. CASE OtherWritesLocal \/ OtherStores \/ OtherDeletes \/ UNCHANGED vars
  BY <1>11, ForeignStep DEF OtherWritesLocal, OtherStores, OtherDeletes, vars, transferVars
<1> QED
  BY <1>1, <1>2, <1>3, <1>4, <1>5, <1>6, <1>7, <1>8, <1>9, <1>10, <1>11
  DEF Next, Step, Before, DownloadWork, Environment

\* getFile uses runTransfer as it promises to be used, and what it promises
\* holds of the download inside of it: a call starts one transfer at most, goes
\* on only after the download has returned, and acts on the result or the cause
\* of the cancellation (service.go:326-346, 639-671).
THEOREM ImplementsTransfer == Spec => TransferRefinement
<1>1. Init => TransferInv /\ T!Init
  BY TransferInit
<1>2. TypeInv /\ TransferInv /\ [Next]_vars => TransferInv' /\ [T!Next]_(T!vars)
  BY TransferStep
<1> QED BY <1>1, <1>2, TypeInvariant, PTL DEF Spec, TransferRefinement, T!Spec
=============================================================================
