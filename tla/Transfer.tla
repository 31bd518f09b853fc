------------------------------ MODULE Transfer ------------------------------
(***************************************************************************)
(* What runTransfer promises GetFile and PutFile: it starts one piece of   *)
(* work, may cancel it for a cause, never returns before the work has      *)
(* returned, and answers the work's own result unless it cancelled it.     *)
(***************************************************************************)
CONSTANTS Results  \* what the work may return: nil and the errors told apart

Causes == {"userAbort", "stalled"}

VARIABLES
  host,     \* the calling goroutine: "idle", "waiting", "stopping", "returned"
  work,     \* the work's goroutine: "idle", "running", "finished"
  ctx,      \* "live", or the cause the context was cancelled with
  result,   \* what the work sent on the result channel
  verdict   \* what runTransfer returned

vars == <<host, work, ctx, result, verdict>>

TypeOK ==
  /\ host \in {"idle", "waiting", "stopping", "returned"}
  /\ work \in {"idle", "running", "finished"}
  /\ ctx \in Causes \cup {"live"}
  /\ result \in Results \cup {"none"}
  /\ verdict \in Results \cup Causes \cup {"none"}

Init ==
  /\ host = "idle"
  /\ work = "idle"
  /\ ctx = "live"
  /\ result = "none"
  /\ verdict = "none"

Launch ==
  /\ host = "idle"
  /\ host' = "waiting"
  /\ work' = "running"
  /\ UNCHANGED <<ctx, result, verdict>>

Stop(cause) ==
  /\ host = "waiting"
  /\ host' = "stopping"
  /\ ctx' = cause
  /\ UNCHANGED <<work, result, verdict>>

WorkReturns(r) ==
  /\ work = "running"
  /\ work' = "finished"
  /\ result' = r
  /\ UNCHANGED <<host, ctx, verdict>>

\* The result was taken from the channel before any cause to stop.
Collect ==
  /\ host = "waiting"
  /\ work = "finished"
  /\ host' = "returned"
  /\ verdict' = result
  /\ UNCHANGED <<work, ctx, result>>

\* stop discards the result: a work that finished in time is still cancelled.
Reap ==
  /\ host = "stopping"
  /\ work = "finished"
  /\ host' = "returned"
  /\ verdict' = ctx
  /\ UNCHANGED <<work, ctx, result>>

Afresh ==
  /\ host' = "idle"
  /\ work' = "idle"
  /\ ctx' = "live"
  /\ result' = "none"
  /\ verdict' = "none"

\* The caller leaves the call; its next transfer starts afresh.
Rest == host = "returned" /\ Afresh

\* The process dies, and the goroutine with it.
Die == host # "idle" /\ Afresh

Next ==
  \/ Launch
  \/ \E cause \in Causes : Stop(cause)
  \/ \E r \in Results : WorkReturns(r)
  \/ Collect
  \/ Reap
  \/ Rest
  \/ Die

Spec == Init /\ [][Next]_vars
=============================================================================
