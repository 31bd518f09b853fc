--------------------------- MODULE PutFile_proofs ---------------------------
(***************************************************************************)
(* Proofs about PutFile for every size, number of versions and retry       *)
(* limit, with editors of the file, other clients, late copies and         *)
(* crashes: OK means stored, the stored time is not newer than the         *)
(* content, and a move or an upload without the overwrite flag loses       *)
(* nothing.                                                                *)
(***************************************************************************)
EXTENDS PutFile, TLAPS

LEMMA FirstVersion == 1 \in Versions /\ 0 \notin Versions /\ Versions \subseteq Nat
BY ConstantsAssumption DEF ConstantsAssumption, Versions

StopHasCause == pc = "stopping" => ctx \in {"userAbort", "stalled"}

\* From os.Stat on there is a local file.
Uploading == {"head", "open", "start", "transfer", "stopping", "finish", "remove"}

LocalFile ==
  /\ pc \in Uploading => src # 0 /\ stat # 0
  /\ phase # "none" => stat # 0
  /\ work = "running" => pc \in {"transfer", "stopping"}
  /\ phase \in {"sending", "sent"} => work = "running"
  /\ phase = "sending" => pos < Size

TypeInv == TypeOK /\ StopHasCause /\ LocalFile

LEMMA TypeInit == Init => TypeInv
<1> SUFFICES ASSUME Init PROVE TypeInv
  OBVIOUS
<1>1. pos \in 0..Size /\ attempt \in 0..MaxAttempts
  BY ConstantsAssumption DEF Init, ConstantsAssumption
<1>2. pc \in Pcs /\ flags \in Flags
  BY DEF Init, Pcs, Flags
<1>3. src \in {0} \cup Versions /\ newest \in Versions /\ sent \in Bodies
  BY FirstVersion DEF Init, Bodies
<1> QED
  BY <1>1, <1>2, <1>3 DEF Init, TypeInv, TypeOK, StopHasCause, LocalFile, Uploading

LEMMA TypeStep == TypeInv /\ [Next]_vars => TypeInv'
<1> SUFFICES ASSUME TypeInv, [Next]_vars PROVE TypeInv'
  OBVIOUS
<1> USE DEF TypeInv, StopHasCause, LocalFile, Uploading, TypeOK, Pcs, Statuses, Answer, Goto
<1>1. ASSUME NEW f \in Flags, Call(f) PROVE TypeInv'
  <2>1. pc' \in {"done", "resolve"} /\ status' \in Statuses \cup {"none"} /\ flags' \in Flags
    BY <1>1 DEF Call
  <2>2. meddled' \in BOOLEAN /\ work # "running"
    BY <1>1 DEF Call
  <2> QED
    BY <1>1, <2>1, <2>2 DEF Call, transferVars, attemptVars, fileVars, bucketVars
<1>2. ASSUME NEW b \in BOOLEAN, Resolve(b) \/ Open(b) \/ Start(b) PROVE TypeInv'
  BY <1>2 DEF Resolve, Open, Start, callVars, transferVars, attemptVars, fileVars, bucketVars
<1>3. ASSUME NEW b \in BOOLEAN, Stat(b) PROVE TypeInv'
  BY <1>3 DEF Stat, transferVars, attemptVars, fileVars, bucketVars
<1>4. ASSUME NEW err \in HeadErrors, Head(err) PROVE TypeInv'
  BY <1>4 DEF Head, callVars, transferVars, attemptVars, fileVars, bucketVars
<1>5. CASE BeginAttempt
  <2>1. attempt' \in 0..MaxAttempts
    BY <1>5, ConstantsAssumption DEF BeginAttempt, MayBegin, ConstantsAssumption
  <2>2. pos' \in 0..Size /\ pos' < Size
    BY <1>5, ConstantsAssumption DEF BeginAttempt, Seek, ConstantsAssumption
  <2>3. sent' \in Bodies /\ readErr' \in BOOLEAN /\ stat # 0
    BY <1>5 DEF BeginAttempt, Seek, Bodies
  <2> QED BY <1>5, <2>1, <2>2, <2>3 DEF BeginAttempt, callVars, transferVars, fileVars, bucketVars
<1>6. CASE ReadChunk
  <2>1. sent' \in Bodies
    BY <1>6 DEF ReadChunk, Bodies
  <2>2. pos' \in 0..Size /\ (phase' = "sending" => pos' < Size)
    BY <1>6, ConstantsAssumption DEF ReadChunk, ConstantsAssumption
  <2> QED BY <1>6, <2>1, <2>2 DEF ReadChunk, callVars, transferVars, fileVars, bucketVars
<1>7. CASE ReadFails
  BY <1>7 DEF ReadFails, callVars, transferVars, fileVars, bucketVars
<1>8. Request \in Objects \/ phase # "sent"
  BY DEF Request, Objects
<1>9. CASE Commit
  BY <1>8, <1>9 DEF Commit, callVars, transferVars, fileVars
<1>10. CASE AttemptFails
  BY <1>8, <1>10 DEF AttemptFails, Underway, callVars, transferVars, fileVars
<1>11. CASE LateCommit
  BY <1>11 DEF LateCommit, transferVars, attemptVars, fileVars
<1>12. ASSUME NEW r \in Results, UploadReturns(r) PROVE TypeInv'
  BY <1>12 DEF UploadReturns, callVars, attemptVars, fileVars, bucketVars, Results
<1>13. ASSUME NEW cause \in {"userAbort", "stalled"}, Stop(cause) PROVE TypeInv'
  BY <1>13 DEF Stop, callVars, attemptVars, fileVars, bucketVars
<1>14. CASE TransferReturns
  <2>1. verdict' \in Results \cup {"userAbort", "stalled", "none"}
    BY <1>14 DEF TransferReturns, Outcome
  <2> QED
    BY <1>14, <2>1 DEF TransferReturns, Outcome, callVars, attemptVars, fileVars, bucketVars
<1>15. ASSUME NEW b \in BOOLEAN, Finish(b) \/ RemoveLocal(b) PROVE TypeInv'
  BY <1>15 DEF Finish, RemoveLocal, callVars, transferVars, attemptVars, fileVars, bucketVars
<1>16. CASE Return \/ Crash
  <2>1. pos' \in 0..Size /\ attempt' \in 0..MaxAttempts /\ sent' \in Bodies
    BY <1>16, ConstantsAssumption DEF Return, Crash, Reset, ConstantsAssumption, Bodies
  <2>2. pending' \subseteq Objects
    BY <1>8, <1>16 DEF Return, Crash, Underway
  <2> QED BY <1>16, <2>1, <2>2 DEF Return, Crash, Reset, fileVars
<1>17. CASE Edit
  <2>1. newest + 1 \in Versions /\ newest + 1 # 0
    BY <1>17, ConstantsAssumption DEF Edit, Versions, ConstantsAssumption
  <2> QED BY <1>17, <2>1 DEF Edit, transferVars, attemptVars, bucketVars
<1>18. CASE OtherClient
  BY <1>18 DEF OtherClient, transferVars, attemptVars, fileVars
<1>19. CASE UNCHANGED vars
  BY <1>19 DEF vars, callVars, transferVars, attemptVars, fileVars, bucketVars
<1> QED
  BY <1>1, <1>2, <1>3, <1>4, <1>5, <1>6, <1>7, <1>9, <1>10, <1>11, <1>12, <1>13, <1>14,
     <1>15, <1>16, <1>17, <1>18, <1>19
  DEF Next, Step, UploadWork

LEMMA TypeInvariant == Spec => []TypeInv
BY TypeInit, TypeStep, PTL DEF Spec

\* Every reachable state is well typed.
THEOREM TypeCorrect == Spec => []TypeOK
<1>1. TypeInv => TypeOK
  BY DEF TypeInv
<1> QED BY <1>1, TypeInvariant, PTL

-----------------------------------------------------------------------------
(* How an attempt and what the upload returns hang together: the verdict   *)
(* "nil" comes from an attempt that was stored, and a read error belongs   *)
(* to the last attempt.                                                    *)

Before == {"idle", "resolve", "stat", "head", "open", "start"}

AttemptInv ==
  /\ pc \in Before => phase = "none" /\ result = "none"
  /\ pc \in Before \cup {"transfer", "stopping"} => verdict = "none" /\ status # "OK"
  /\ work = "running" => result = "none"
  /\ phase = "none" => sent = {} /\ pos = 0
  /\ pos > 0 => sent # {}
  /\ phase \in {"sent", "stored"} => sent # {}
  /\ result = "nil" => phase = "stored"
  /\ pc \in {"finish", "remove"} => verdict = "nil" /\ status # "OK"
  /\ verdict = "nil" => phase = "stored"
  /\ status = "OK" => phase = "stored"

ErrorInv ==
  /\ phase # "failed" => ~readErr
  /\ readErr <=> failure = "local"
  /\ verdict \in {"error", "stalled"} => pc = "done" /\ (status = "ReadError" <=> readErr)

LEMMA AttemptInit == Init => AttemptInv
BY DEF Init, AttemptInv, Before

LEMMA AttemptStep == TypeInv /\ AttemptInv /\ [Next]_vars => AttemptInv'
<1> SUFFICES ASSUME TypeInv, AttemptInv, [Next]_vars PROVE AttemptInv'
  OBVIOUS
<1> USE DEF AttemptInv, Before, Answer, Goto
<1>0. LocalFile /\ pos \in 0..Size /\ Size \in Nat \ {0}
  BY ConstantsAssumption DEF TypeInv, TypeOK, ConstantsAssumption
<1>1. ASSUME NEW f \in Flags, Call(f) PROVE AttemptInv'
  BY <1>1 DEF Call, transferVars, attemptVars
<1>2. ASSUME NEW b \in BOOLEAN, Resolve(b) \/ Stat(b) \/ Open(b) \/ Start(b) PROVE AttemptInv'
  BY <1>2 DEF Resolve, Stat, Open, Start, transferVars, attemptVars
<1>3. ASSUME NEW err \in HeadErrors, Head(err) PROVE AttemptInv'
  BY <1>3 DEF Head, transferVars, attemptVars
<1>4. CASE BeginAttempt
  BY <1>0, <1>4 DEF BeginAttempt, MayBegin, Seek, transferVars, LocalFile
<1>5. CASE ReadChunk
  <2>1. sent' # {} /\ phase' \in {"sent", "sending"} /\ phase = "sending"
    BY <1>5 DEF ReadChunk
  <2> QED BY <1>0, <1>5, <2>1 DEF ReadChunk, transferVars, LocalFile
<1>6. CASE ReadFails \/ AttemptFails
  BY <1>0, <1>6 DEF ReadFails, AttemptFails, transferVars, LocalFile
<1>7. CASE Commit
  BY <1>0, <1>7 DEF Commit, transferVars, LocalFile
<1>8. CASE LateCommit \/ Edit \/ OtherClient
  BY <1>8 DEF LateCommit, Edit, OtherClient, transferVars, attemptVars
<1>9. ASSUME NEW r \in Results, UploadReturns(r) PROVE AttemptInv'
  BY <1>0, <1>9 DEF UploadReturns, attemptVars, LocalFile, Results
<1>10. ASSUME NEW cause \in {"userAbort", "stalled"}, Stop(cause) PROVE AttemptInv'
  BY <1>10 DEF Stop, attemptVars
<1>11. CASE TransferReturns
  <2>1. pc' \in {"finish", "done"} /\ status' # "OK" /\ (pc' = "finish" => verdict' = "nil")
    BY <1>11 DEF TransferReturns, Outcome
  <2>2. verdict' = "nil" => result = "nil"
    BY <1>11 DEF TransferReturns, TypeInv, StopHasCause
  <2> QED BY <1>11, <2>1, <2>2 DEF TransferReturns, attemptVars
<1>12. ASSUME NEW b \in BOOLEAN, Finish(b) \/ RemoveLocal(b) PROVE AttemptInv'
  BY <1>12 DEF Finish, RemoveLocal, transferVars, attemptVars
<1>13. CASE Return \/ Crash
  BY <1>13 DEF Return, Crash, Reset
<1>14. CASE UNCHANGED vars
  BY <1>14 DEF vars, transferVars, attemptVars
<1> QED
  BY <1>1, <1>2, <1>3, <1>4, <1>5, <1>6, <1>7, <1>8, <1>9, <1>10, <1>11, <1>12, <1>13, <1>14
  DEF Next, Step, UploadWork

LEMMA AttemptInvariant == Spec => []AttemptInv
BY AttemptInit, AttemptStep, TypeInvariant, PTL DEF Spec

LEMMA ErrorStep == TypeInv /\ AttemptInv /\ ErrorInv /\ [Next]_vars => ErrorInv'
<1> SUFFICES ASSUME TypeInv, AttemptInv, ErrorInv, [Next]_vars PROVE ErrorInv'
  OBVIOUS
<1> USE DEF ErrorInv, Answer, Goto
<1>0. /\ work = "running" => verdict = "none"
      /\ pc \in Before \cup {"transfer", "stopping"} => verdict = "none"
      /\ pc \in {"finish", "remove"} => verdict = "nil"
      /\ readErr \in BOOLEAN
  BY DEF TypeInv, TypeOK, LocalFile, AttemptInv
<1>1. CASE BeginAttempt \/ ReadChunk \/ ReadFails \/ AttemptFails
  BY <1>0, <1>1 DEF BeginAttempt, Seek, ReadChunk, ReadFails, AttemptFails, transferVars
<1>2. CASE TransferReturns
  BY <1>0, <1>2 DEF TransferReturns, Outcome, attemptVars
<1>3. CASE Commit \/ Return \/ Crash
  BY <1>3 DEF Commit, Return, Crash, Reset, transferVars
<1>4. ASSUME UNCHANGED attemptVars, UNCHANGED verdict,
             verdict = "none" \/ verdict = "nil" \/ UNCHANGED <<pc, status>>
      PROVE  ErrorInv'
  BY <1>4 DEF attemptVars
<1>5. CASE LateCommit \/ Edit \/ OtherClient \/ UNCHANGED vars
  BY <1>4, <1>5 DEF LateCommit, Edit, OtherClient, transferVars, vars
<1>6. ASSUME NEW f \in Flags, Call(f) PROVE ErrorInv'
  BY <1>0, <1>4, <1>6 DEF Call, Before, transferVars
<1>7. ASSUME NEW b \in BOOLEAN,
             Resolve(b) \/ Stat(b) \/ Open(b) \/ Start(b) \/ Finish(b) \/ RemoveLocal(b)
      PROVE  ErrorInv'
  BY <1>0, <1>4, <1>7 DEF Resolve, Stat, Open, Start, Finish, RemoveLocal, Before, transferVars
<1>8. ASSUME NEW err \in HeadErrors, Head(err) PROVE ErrorInv'
  BY <1>0, <1>4, <1>8 DEF Head, Before, transferVars
<1>9. ASSUME NEW r \in Results, UploadReturns(r) PROVE ErrorInv'
  BY <1>4, <1>9 DEF UploadReturns
<1>10. ASSUME NEW cause \in {"userAbort", "stalled"}, Stop(cause) PROVE ErrorInv'
  BY <1>0, <1>4, <1>10 DEF Stop
<1> QED
  BY <1>1, <1>2, <1>3, <1>5, <1>6, <1>7, <1>8, <1>9, <1>10 DEF Next, Step, UploadWork

LEMMA ErrorInvariant == Spec => []ErrorInv
<1>1. Init => ErrorInv
  BY DEF Init, ErrorInv
<1> QED BY <1>1, ErrorStep, TypeInvariant, AttemptInvariant, PTL DEF Spec

\* The host is told to look at its own disk exactly when the last attempt failed
\* there, for every retry limit (service.go:466-469, 753-786).
THEOREM ReadErrorsAreCurrent == Spec => []ReadErrorIsCurrent
<1>1. ErrorInv => ReadErrorIsCurrent
  BY DEF ErrorInv, ReadErrorIsCurrent
<1> QED BY <1>1, ErrorInvariant, PTL

-----------------------------------------------------------------------------
(* The time of an upload is taken first and versions only grow, so that    *)
(* everything a request or a late copy carries is at least as new.         *)

TimeInv ==
  /\ src <= newest /\ stat <= newest
  /\ pc \in Uploading => stat <= src
  /\ \A v \in sent : stat <= v
  /\ StampNotNewer
  /\ \A o \in pending : o.body # {}

LEMMA TimeInit == Init => TimeInv
BY DEF Init, TimeInv, StampNotNewer, Uploading, NoObject, Foreign

LEMMA TimeStep == TypeInv /\ AttemptInv /\ TimeInv /\ [Next]_vars => TimeInv'
<1> SUFFICES ASSUME TypeInv, AttemptInv, TimeInv, [Next]_vars PROVE TimeInv'
  OBVIOUS
<1> USE DEF TimeInv, StampNotNewer, Uploading, Answer, Goto
<1>0. /\ LocalFile
      /\ stat \in Nat /\ src \in Nat /\ newest \in Nat /\ sent \subseteq Nat
      /\ phase = "none" => sent = {}
      /\ phase \in {"sent", "stored"} => sent # {}
      /\ pc \in Before => sent = {}
  BY FirstVersion DEF TypeInv, TypeOK, AttemptInv, Bodies, Before
<1>00. Request.body = sent /\ Request.time = stat
  BY DEF Request
<1> HIDE DEF Request
<1>1. ASSUME NEW f \in Flags, Call(f) PROVE TimeInv'
  BY <1>1 DEF Call, transferVars, attemptVars, fileVars, bucketVars
<1>2. ASSUME NEW b \in BOOLEAN, Resolve(b) \/ Open(b) \/ Start(b) PROVE TimeInv'
  BY <1>2 DEF Resolve, Open, Start, callVars, attemptVars, fileVars, bucketVars
<1>3. ASSUME NEW b \in BOOLEAN, Stat(b) PROVE TimeInv'
  BY <1>0, <1>3 DEF Stat, attemptVars, fileVars, bucketVars, Before
<1>4. ASSUME NEW err \in HeadErrors, Head(err) PROVE TimeInv'
  BY <1>4 DEF Head, callVars, attemptVars, fileVars, bucketVars
<1>5. CASE BeginAttempt
  BY <1>5 DEF BeginAttempt, callVars, fileVars, bucketVars
<1>6. CASE ReadChunk
  <2>1. stat <= src
    BY <1>0, <1>6 DEF ReadChunk, LocalFile
  <2> QED BY <1>6, <2>1 DEF ReadChunk, callVars, fileVars, bucketVars
<1>7. CASE ReadFails
  BY <1>7 DEF ReadFails, callVars, fileVars, bucketVars
<1>8. CASE Commit
  BY <1>0, <1>00, <1>8 DEF Commit, callVars, fileVars
<1>9. Underway \subseteq pending \cup {Request} /\ (Request \in Underway /\ Request \notin pending => sent # {})
  BY <1>0 DEF Underway
<1>10. /\ \A o \in Underway : o.body # {}
       /\ \A o \in Underway : \A v \in o.body : o.time <= v
  BY <1>00, <1>9
<1>11. CASE AttemptFails
  BY <1>10, <1>11 DEF AttemptFails, callVars, fileVars
<1>12. CASE LateCommit
  BY <1>12 DEF LateCommit, attemptVars, fileVars
<1>13. ASSUME NEW r \in Results, UploadReturns(r) PROVE TimeInv'
  BY <1>13 DEF UploadReturns, callVars, attemptVars, fileVars, bucketVars
<1>14. ASSUME NEW cause \in {"userAbort", "stalled"}, Stop(cause) PROVE TimeInv'
  BY <1>14 DEF Stop, callVars, attemptVars, fileVars, bucketVars
<1>15. CASE TransferReturns
  BY <1>15 DEF TransferReturns, Outcome, callVars, attemptVars, fileVars, bucketVars
<1>16. ASSUME NEW b \in BOOLEAN, Finish(b) \/ RemoveLocal(b) PROVE TimeInv'
  <2>1. src' \in {0, src} /\ UNCHANGED <<newest, stat, sent, bucketVars>>
    BY <1>16 DEF Finish, RemoveLocal, callVars, attemptVars, fileVars
  <2>2. pc' \in Uploading => src' = src /\ pc \in Uploading
    BY <1>16 DEF Finish, RemoveLocal, fileVars
  <2> QED BY <1>0, <2>1, <2>2 DEF bucketVars
<1>17. CASE Return \/ Crash
  BY <1>0, <1>10, <1>17 DEF Return, Crash, Reset, fileVars
<1>18. CASE Edit
  BY <1>0, <1>18 DEF Edit, attemptVars, bucketVars
<1>19. CASE OtherClient
  BY <1>19 DEF OtherClient, attemptVars, fileVars, NoObject, Foreign
<1>20. CASE UNCHANGED vars
  BY <1>20 DEF vars, callVars, attemptVars, fileVars, bucketVars
<1> QED
  BY <1>1, <1>2, <1>3, <1>4, <1>5, <1>6, <1>7, <1>8, <1>11, <1>12, <1>13, <1>14, <1>15,
     <1>16, <1>17, <1>18, <1>19, <1>20
  DEF Next, Step, UploadWork

LEMMA TimeInvariant == Spec => []TimeInv
BY TimeInit, TimeStep, TypeInvariant, AttemptInvariant, PTL DEF Spec

\* For every number of edits, retries and late copies, no object carries a time
\* newer than its content (service.go:416, 457).
THEOREM StampsAreNotNewer == Spec => []StampNotNewer
<1>1. TimeInv => StampNotNewer
  BY DEF TimeInv
<1> QED BY <1>1, TimeInvariant, PTL

-----------------------------------------------------------------------------
(* While nobody meddles, the file is the version that os.Stat saw, and     *)
(* behind the check the object is absent or what this call has stored.     *)
(* A call that has answered OK still knows what it sent.                   *)

Own == [body |-> {src}, time |-> stat]

UnmeddledInv ==
  ~meddled =>
    /\ pc \in Uploading => stat = src /\ sent \subseteq {src}
    /\ phase = "stored" => obj = Request
    /\ pc = "done" /\ status = "OK" => sent \subseteq {stat}
    /\ pc = "done" /\ status = "OK" /\ flags.move => src = 0
    /\ pc \in Uploading \ {"head"} /\ ~flags.overwrite => obj \in {NoObject, Own}

LEMMA UnmeddledStep ==
  TypeInv /\ AttemptInv /\ TimeInv /\ UnmeddledInv /\ [Next]_vars => UnmeddledInv'
<1> SUFFICES ASSUME TypeInv, AttemptInv, TimeInv, UnmeddledInv, [Next]_vars PROVE UnmeddledInv'
  OBVIOUS
<1> USE DEF UnmeddledInv, Uploading, Answer, Goto
<1>0. /\ LocalFile
      /\ phase \in {"sent", "stored"} => sent # {}
      /\ pc \in Before => phase = "none" /\ sent = {}
      /\ pc \in Before \cup Uploading => status # "OK"
      /\ meddled \in BOOLEAN
  BY DEF TypeInv, TypeOK, AttemptInv, Before
<1>1. ASSUME NEW f \in Flags, Call(f) PROVE UnmeddledInv'
  BY <1>0, <1>1 DEF Call, attemptVars, Before
<1>2. ASSUME NEW b \in BOOLEAN, Resolve(b) \/ Open(b) \/ Start(b) PROVE UnmeddledInv'
  BY <1>0, <1>2 DEF Resolve, Open, Start, callVars, attemptVars, fileVars, bucketVars, Before, Own
<1>3. ASSUME NEW b \in BOOLEAN, Stat(b) PROVE UnmeddledInv'
  BY <1>0, <1>3 DEF Stat, attemptVars, fileVars, bucketVars, Before
<1>4. ASSUME NEW err \in HeadErrors, Head(err) PROVE UnmeddledInv'
  BY <1>0, <1>4 DEF Head, callVars, attemptVars, fileVars, bucketVars, Before, HeadErrors, IsNotFound, Own
<1>5. CASE BeginAttempt
  BY <1>5 DEF BeginAttempt, callVars, fileVars, bucketVars, Own
<1>6. CASE ReadChunk
  <2>1. pc \in Uploading
    BY <1>0, <1>6 DEF ReadChunk, LocalFile
  <2>2. phase' # "stored" /\ sent' = sent \cup {src}
    BY <1>6 DEF ReadChunk
  <2> QED BY <1>6, <2>1, <2>2 DEF ReadChunk, callVars, fileVars, bucketVars, Own
<1>7. CASE ReadFails
  BY <1>7 DEF ReadFails, callVars, fileVars, bucketVars, Own
<1>8. CASE Commit
  <2>1. pc \in {"transfer", "stopping"}
    BY <1>0, <1>8 DEF Commit, LocalFile
  <2>2. ~meddled => Request = Own
    <3>1. ~meddled => sent = {src}
      BY <1>0, <1>8, <2>1 DEF Commit
    <3> QED BY <3>1 DEF Request, Own
  <2>3. Request' = Request /\ Own' = Own
    BY <1>8 DEF Commit, Request, Own, callVars, fileVars
  <2> QED BY <1>8, <2>1, <2>2, <2>3 DEF Commit, callVars, fileVars
<1>9. CASE AttemptFails
  BY <1>9 DEF AttemptFails, callVars, fileVars, Own
<1>10. CASE LateCommit
  <2>1. Request' = Request /\ Own' = Own /\ (~meddled' => ~meddled /\ obj' = Request)
    BY <1>0, <1>10 DEF LateCommit, Request, Own, attemptVars, fileVars
  <2>2. obj'.body # {}
    BY <1>10 DEF LateCommit, TimeInv
  <2>3. ~meddled' /\ pc \in Uploading => Request = Own
    <3>1. ~meddled' => sent # {}
      BY <2>1, <2>2 DEF Request
    <3>2. ~meddled' /\ pc \in Uploading => sent = {src}
      BY <2>1, <3>1
    <3> QED BY <3>2 DEF Request, Own
  <2> QED BY <1>10, <2>1, <2>3 DEF LateCommit, attemptVars, fileVars
<1>11. ASSUME NEW r \in Results, UploadReturns(r) PROVE UnmeddledInv'
  BY <1>11 DEF UploadReturns, callVars, attemptVars, fileVars, bucketVars, Request, Own
<1>12. ASSUME NEW cause \in {"userAbort", "stalled"}, Stop(cause) PROVE UnmeddledInv'
  BY <1>12 DEF Stop, callVars, attemptVars, fileVars, bucketVars, Request, Own
<1>13. CASE TransferReturns
  BY <1>13 DEF TransferReturns, Outcome, callVars, attemptVars, fileVars, bucketVars, Request, Own
<1>14. ASSUME NEW b \in BOOLEAN, Finish(b) \/ RemoveLocal(b) PROVE UnmeddledInv'
  BY <1>14 DEF Finish, RemoveLocal, callVars, attemptVars, fileVars, bucketVars, Request, Own
<1>15. CASE Return \/ Crash
  BY <1>15 DEF Return, Crash, Reset
<1>16. CASE Edit \/ OtherClient
  BY <1>16 DEF Edit, OtherClient
<1>17. CASE UNCHANGED vars
  BY <1>17 DEF vars, callVars, attemptVars, fileVars, bucketVars, Request, Own
<1> QED
  BY <1>1, <1>2, <1>3, <1>4, <1>5, <1>6, <1>7, <1>8, <1>9, <1>10, <1>11, <1>12, <1>13,
     <1>14, <1>15, <1>16, <1>17
  DEF Next, Step, UploadWork

LEMMA UnmeddledInvariant == Spec => [](TypeInv /\ AttemptInv /\ TimeInv /\ UnmeddledInv)
<1>1. Init => UnmeddledInv
  BY DEF Init, UnmeddledInv, Uploading
<1> QED
  BY <1>1, UnmeddledStep, TypeInvariant, AttemptInvariant, TimeInvariant, PTL DEF Spec

\* A move that answers OK has left the file nowhere but in the bucket, as it was
\* when the call looked at it (service.go:416, 450-479).
THEOREM OkMovesAreDone == Spec => []MoveIsDone
<1>1. AttemptInv /\ UnmeddledInv => MoveIsDone
  <2> SUFFICES ASSUME AttemptInv, UnmeddledInv, pc = "done", flags.move, status = "OK", ~meddled
               PROVE  src = 0 /\ obj = [body |-> {stat}, time |-> stat]
    BY DEF MoveIsDone
  <2>1. sent = {stat} /\ obj = Request /\ src = 0
    BY DEF AttemptInv, UnmeddledInv
  <2> QED BY <2>1 DEF Request
<1> QED BY <1>1, UnmeddledInvariant, PTL

\* For every retry limit, OK means that the object is what this call read last,
\* with the time it took, and that a move is complete (service.go:416, 450-479).
THEOREM AnswersOkWhenStored == Spec => []OkMeansStored
<1>1. AttemptInv /\ UnmeddledInv /\ MoveIsDone => OkMeansStored
  BY DEF AttemptInv, UnmeddledInv, OkMeansStored
<1> QED BY <1>1, UnmeddledInvariant, OkMovesAreDone, PTL

\* An upload without the overwrite flag stores over nothing, or over its own
\* earlier attempt (service.go:429-435).
THEOREM ReplacesOnlyWhenAsked == Spec => NoUnaskedOverwrite
<1> DEFINE Asked == phase = "sent" /\ phase' = "stored" /\ ~meddled =>
                      obj \in {NoObject, Request} \/ flags.overwrite
<1>1. TypeInv /\ AttemptInv /\ UnmeddledInv => Asked
  <2> SUFFICES ASSUME TypeInv, AttemptInv, UnmeddledInv, phase = "sent", ~meddled, ~flags.overwrite
               PROVE  obj \in {NoObject, Request}
    OBVIOUS
  <2>1. pc \in {"transfer", "stopping"}
    BY DEF TypeInv, LocalFile
  <2>2. sent = {src}
    BY <2>1 DEF UnmeddledInv, AttemptInv, Uploading
  <2> QED BY <2>1, <2>2 DEF UnmeddledInv, Uploading, Own, Request
<1> QED BY <1>1, UnmeddledInvariant, PTL DEF Spec, NoUnaskedOverwrite

\* A move removes the file only once its content and time are the object's
\* (service.go:471-478).
THEOREM MovesLoseNothing == Spec => MoveLosesNothing
<1> DEFINE Kept == src # 0 /\ src' = 0 /\ ~meddled => obj = [body |-> {src}, time |-> src]
<1>1. TypeInv /\ AttemptInv /\ UnmeddledInv /\ [Next]_vars => [Kept]_vars
  <2> SUFFICES ASSUME TypeInv, AttemptInv, UnmeddledInv, [Next]_vars, src # 0, src' = 0, ~meddled
               PROVE  obj = [body |-> {src}, time |-> src]
    OBVIOUS
  <2>1. newest \in Nat
    BY FirstVersion DEF TypeInv, TypeOK
  <2>2. pc = "remove"
    BY <2>1 DEF Next, Step, UploadWork, Call, Resolve, Stat, Head, Open, Start, Finish, RemoveLocal,
       Return, Crash, Reset, BeginAttempt, ReadChunk, ReadFails, Commit, AttemptFails, LateCommit,
       UploadReturns, Stop, TransferReturns, Edit, OtherClient, fileVars, vars
  <2>3. phase = "stored"
    BY <2>2 DEF AttemptInv
  <2>4. sent = {src} /\ stat = src /\ obj = Request
    BY <2>2, <2>3 DEF UnmeddledInv, AttemptInv, Uploading
  <2> QED BY <2>4 DEF Request
<1> QED BY <1>1, UnmeddledInvariant, PTL DEF Spec, MoveLosesNothing

-----------------------------------------------------------------------------
(* The upload is one transfer as Transfer promises it.  The mapping calls  *)
(* the transfer idle whenever putFile is outside of it and has no verdict; *)
(* then nothing of an earlier transfer may be left.                        *)

TransferInv ==
  /\ pc \in Before \cup {"transfer", "stopping"} => verdict = "none"
  /\ pc \notin {"transfer", "stopping"} /\ verdict = "none" =>
       work = "idle" /\ ctx = "live" /\ result = "none"
  /\ work = "finished" => result # "none"

LEMMA TransferInit == Init => TransferInv /\ T!Init
BY DEF Init, TransferInv, T!Init

\* A step outside of the transfer that leaves its variables alone.
LEMMA OutsideStep ==
  ASSUME TransferInv, UNCHANGED transferVars,
         pc \notin {"transfer", "stopping"}, pc' \notin {"transfer", "stopping"},
         pc' \in Before => pc \in Before
  PROVE  TransferInv' /\ UNCHANGED T!vars
BY DEF TransferInv, T!vars, transferVars

\* A step of the upload before it returns, of the server or of others.
LEMMA ForeignStep ==
  ASSUME TransferInv, UNCHANGED <<pc, transferVars>>
  PROVE  TransferInv' /\ UNCHANGED T!vars
BY DEF TransferInv, T!vars, transferVars

LEMMA TransferStep ==
  ASSUME TypeInv, TransferInv, [Next]_vars
  PROVE  TransferInv' /\ [T!Next]_(T!vars)
<1> USE DEF Answer, Goto
<1>1. ASSUME NEW f \in Flags, Call(f)
      PROVE  TransferInv' /\ UNCHANGED T!vars
  BY <1>1, OutsideStep DEF Call, Before
<1>2. ASSUME NEW b \in BOOLEAN,
             Resolve(b) \/ Stat(b) \/ Open(b) \/ Finish(b) \/ RemoveLocal(b)
      PROVE  TransferInv' /\ UNCHANGED T!vars
  BY <1>2, OutsideStep DEF Resolve, Stat, Open, Finish, RemoveLocal, Before
<1>3. ASSUME NEW err \in HeadErrors, Head(err)
      PROVE  TransferInv' /\ UNCHANGED T!vars
  BY <1>3, OutsideStep DEF Head, Before
<1>4. ASSUME NEW b \in BOOLEAN, Start(b)
      PROVE  TransferInv' /\ [T!Next]_(T!vars)
  <2>1. CASE b
    <3>1. UNCHANGED transferVars
      BY <1>4, <2>1 DEF Start, transferVars
    <3> QED BY <1>4, <2>1, <3>1, OutsideStep DEF Start, Before
  <2>2. CASE ~b
    <3>1. pc = "start" /\ pc' = "transfer" /\ work' = "running" /\ UNCHANGED <<ctx, result, verdict>>
      BY <1>4, <2>2 DEF Start
    <3>2. TransferInv'
      BY <3>1 DEF TransferInv, Before
    <3>3. T!Launch
      BY <3>1 DEF TransferInv, T!Launch, Before
    <3> QED BY <3>2, <3>3 DEF T!Next
  <2> QED BY <2>1, <2>2
<1>5. CASE BeginAttempt \/ ReadChunk \/ ReadFails \/ Commit \/ AttemptFails
  BY <1>5, ForeignStep DEF BeginAttempt, ReadChunk, ReadFails, Commit, AttemptFails
<1>6. ASSUME NEW r \in Results, UploadReturns(r)
      PROVE  TransferInv' /\ [T!Next]_(T!vars)
  <2>1. work = "running" /\ work' = "finished" /\ result' = r /\ UNCHANGED <<pc, ctx, verdict>>
    BY <1>6 DEF UploadReturns
  <2>2. TransferInv'
    BY <2>1 DEF TransferInv, Results, Before
  <2>3. T!WorkReturns(r)
    BY <2>1 DEF T!WorkReturns
  <2> QED BY <2>2, <2>3 DEF T!Next
<1>7. ASSUME NEW cause \in {"userAbort", "stalled"}, Stop(cause)
      PROVE  TransferInv' /\ [T!Next]_(T!vars)
  <2>1. /\ pc = "transfer" /\ pc' = "stopping" /\ ctx' = cause
        /\ UNCHANGED <<work, result, verdict>>
    BY <1>7 DEF Stop
  <2>2. TransferInv'
    BY <2>1 DEF TransferInv
  <2>3. T!Stop(cause)
    BY <2>1 DEF T!Stop
  <2> QED BY <2>2, <2>3 DEF T!Next, T!Causes
<1>8. CASE TransferReturns
  <2>1. /\ pc' \in {"finish", "done"} /\ pc \in {"transfer", "stopping"} /\ work = "finished"
        /\ verdict' = IF pc = "stopping" THEN ctx ELSE result
        /\ UNCHANGED <<work, ctx, result>>
    BY <1>8 DEF TransferReturns, Outcome
  <2>2. verdict' # "none"
    BY <2>1 DEF TypeInv, StopHasCause, TransferInv
  <2>3. TransferInv'
    BY <2>1, <2>2 DEF TransferInv, Before
  <2>4. pc = "stopping" => T!Reap
    BY <2>1, <2>2 DEF T!Reap
  <2>5. pc = "transfer" => T!Collect
    BY <2>1, <2>2 DEF T!Collect
  <2> QED BY <2>1, <2>3, <2>4, <2>5 DEF T!Next
<1>9. CASE Return \/ Crash
  <2>1. /\ pc' = "idle" /\ work' = "idle" /\ ctx' = "live" /\ result' = "none" /\ verdict' = "none"
    BY <1>9 DEF Return, Crash, Reset
  <2>2. TransferInv'
    BY <2>1 DEF TransferInv
  <2>3. CASE pc \in {"transfer", "stopping"} \/ verdict # "none"
    <3>1. T!Die
      BY <2>1, <2>3 DEF T!Die, T!Afresh
    <3> QED BY <2>2, <3>1 DEF T!Next
  <2>4. CASE pc \notin {"transfer", "stopping"} /\ verdict = "none"
    <3>1. UNCHANGED T!vars
      BY <2>1, <2>4 DEF T!vars, TransferInv
    <3> QED BY <2>2, <3>1
  <2> QED BY <2>3, <2>4
<1>10. CASE LateCommit \/ Edit \/ OtherClient \/ UNCHANGED vars
  BY <1>10, ForeignStep DEF LateCommit, Edit, OtherClient, vars
<1> QED
  BY <1>1, <1>2, <1>3, <1>4, <1>5, <1>6, <1>7, <1>8, <1>9, <1>10 DEF Next, Step, UploadWork

\* putFile uses runTransfer as it promises to be used, and what it promises
\* holds of the upload inside of it: a call starts one transfer at most, goes on
\* only after the upload has returned, whatever number of attempts it made, and
\* acts on its result or the cause of the cancellation
\* (service.go:450-470, 639-671).
THEOREM ImplementsTransfer == Spec => TransferRefinement
<1>1. Init => TransferInv /\ T!Init
  BY TransferInit
<1>2. TypeInv /\ TransferInv /\ [Next]_vars => TransferInv' /\ [T!Next]_(T!vars)
  BY TransferStep
<1> QED BY <1>1, <1>2, TypeInvariant, PTL DEF Spec, TransferRefinement, T!Spec
=============================================================================
