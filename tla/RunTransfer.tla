---------------------------- MODULE RunTransfer ----------------------------
(***************************************************************************)
(* internal/wfx/service.go, runTransfer: a work goroutine moves bytes, the *)
(* calling goroutine samples the byte counter on a ticker, offers the host *)
(* a progress callback, and cancels the work when the user asks or when    *)
(* no bytes have moved for the idle timeout.                               *)
(*                                                                         *)
(* Time is discrete and every clock value is kept as an age, so that the   *)
(* state space is finite without a bound on the clock.  A tick carries the *)
(* time it was due, not the time it is taken: when the calling goroutine   *)
(* comes back late, the overdue tick is delivered with its old time and    *)
(* the next one is due on the original grid (Go 1.23 timers).              *)
(***************************************************************************)
EXTENDS Integers

CONSTANTS
  Results,           \* what the work may return
  Size,              \* bytes of the payload
  ProgressInterval,  \* progressInterval, the ticker's period
  UpdateInterval,    \* the 250 ms within which an unchanged percent is not repeated
  IdleTimeout,       \* transferIdleTimeout
  MaxBlock,          \* how long a progress callback may keep the host thread
  MaxRewinds         \* how often the transport rewinds an upload's body

ASSUME ConstantsAssumption ==
  /\ Size \in Nat
  /\ ProgressInterval \in Nat \ {0}
  /\ UpdateInterval \in Nat
  /\ IdleTimeout \in Nat \ {0}
  /\ MaxBlock \in Nat
  /\ MaxRewinds \in Nat

Causes == {"userAbort", "stalled"}

ASSUME ResultsAreNotCauses == Results \cap (Causes \cup {"none"}) = {}

VARIABLES
  hasProgress, \* whether the host has set a progress callback
  host,      \* "idle", "polling", "callback", "stopping" or "returned"
  work,      \* "idle", "running" or "finished"
  ctx,       \* "live", or the cause the context was cancelled with
  result,    \* what the work sent on the result channel
  verdict,   \* what runTransfer returned
  done,      \* the atomic byte counter
  total,     \* the atomic size: unknown (0) until a download is answered
  rewinds,   \* rewinds of the body so far
  lastDone,  \* the counter at the last sample
  movedAge,  \* age of lastMoved
  due,       \* time to the next tick; negative once it is overdue
  idleFor,   \* now.Sub(lastMoved) at the tick being handled
  callAge,   \* age of p.last, the last callback
  lastPct,   \* p.lastPct
  quiet,     \* history: time since the counter last changed
  silence    \* history: quiet at the last sample

workVars == <<work, result, done, total, rewinds>>
callVars == <<callAge, lastPct>>
sampleVars == <<lastDone, movedAge, due, idleFor, silence>>
vars == <<hasProgress, host, ctx, verdict, workVars, callVars, sampleVars, quiet>>

Percents == 0..100

TypeOK ==
  /\ hasProgress \in BOOLEAN
  /\ host \in {"idle", "polling", "callback", "stopping", "returned"}
  /\ work \in {"idle", "running", "finished"}
  /\ ctx \in Causes \cup {"live"}
  /\ result \in Results \cup {"none"}
  /\ verdict \in Results \cup Causes \cup {"none"}
  /\ done \in 0..Size
  /\ total \in {0, Size}
  /\ rewinds \in 0..MaxRewinds
  /\ lastDone \in 0..Size
  /\ movedAge \in Nat
  /\ due \in Int
  /\ idleFor \in Int
  /\ callAge \in Nat
  /\ lastPct \in Percents
  /\ quiet \in Nat
  /\ silence \in Nat

\* progress.report: the percent of n bytes; 100 is shown for an unknown size
\* only by the forced reports.
Percent(n, force) ==
  IF total > 0 THEN IF n >= total THEN 100 ELSE (n * 100) \div total
               ELSE IF force THEN 100 ELSE 0

\* An upload knows its size when it starts, a download does not.
Init ==
  /\ hasProgress \in BOOLEAN
  /\ host = "idle"
  /\ work = "idle"
  /\ ctx = "live"
  /\ result = "none"
  /\ verdict = "none"
  /\ done = 0
  /\ total \in {0, Size}
  /\ rewinds = 0
  /\ lastDone = 0
  /\ movedAge = 0
  /\ due = ProgressInterval
  /\ idleFor = 0
  /\ callAge = 0
  /\ lastPct = Percent(0, TRUE)
  /\ quiet = 0
  /\ silence = 0

-----------------------------------------------------------------------------
(* The work's goroutine. *)

\* A download's response arrived: total.Store(object.Size).
LearnSize ==
  /\ work = "running"
  /\ total # Size
  /\ total' = Size
  /\ UNCHANGED <<hasProgress, host, ctx, verdict, work, result, done, rewinds, callVars, sampleVars, quiet>>

\* countingWriter.Write or countingReader.Read.
MoveBytes ==
  /\ work = "running"
  /\ total = Size
  /\ done < Size
  /\ done' = done + 1
  /\ quiet' = 0
  /\ UNCHANGED <<hasProgress, host, ctx, verdict, work, result, total, rewinds, callVars, sampleVars>>

\* countingReader.Seek to the start, before a retry or a second pass.
Rewind ==
  /\ work = "running"
  /\ rewinds < MaxRewinds
  /\ rewinds' = rewinds + 1
  /\ done' = 0
  /\ quiet' = IF done = 0 THEN quiet ELSE 0
  /\ UNCHANGED <<hasProgress, host, ctx, verdict, work, result, total, callVars, sampleVars>>

WorkReturns(r) ==
  /\ work = "running"
  /\ work' = "finished"
  /\ result' = r
  /\ UNCHANGED <<hasProgress, host, ctx, verdict, done, total, rewinds, callVars, sampleVars, quiet>>

-----------------------------------------------------------------------------
(* The calling goroutine, which owns the host's thread. *)

Launch ==
  /\ host = "idle"
  /\ host' = "polling"
  /\ work' = "running"
  /\ UNCHANGED <<hasProgress, ctx, verdict, result, done, total, rewinds, callVars, sampleVars, quiet>>

\* The tick branch up to p.update: read the counter, date a change with the
\* tick's own time, and rearm the ticker on its grid.
Sample ==
  /\ host = "polling"
  /\ due <= 0
  /\ lastDone' = done
  /\ movedAge' = IF done # lastDone THEN -due ELSE movedAge
  /\ idleFor' = movedAge' + due
  /\ due' = due + ProgressInterval * (1 + (-due) \div ProgressInterval)
  /\ silence' = quiet

\* Mutant: an unchanged percent is never repeated.
ThrottledForEver == ~hasProgress \/ Percent(done, FALSE) = lastPct

\* progress.report returns without calling the host.
Throttled ==
  \/ ~hasProgress
  \/ Percent(done, FALSE) = lastPct /\ callAge < UpdateInterval

\* Mutant: the context is not cancelled.
StopUncancelled(cause) ==
  /\ host' = "stopping"
  /\ ctx' = ctx

\* The two ends of the tick branch.
Stop(cause) ==
  /\ host' = "stopping"
  /\ ctx' = cause

\* Mutants: the timeout is anticipated by a tick, or not looked at.
JudgeEarly(span) ==
  IF span + ProgressInterval >= IdleTimeout THEN Stop("stalled") ELSE host' = "polling" /\ ctx' = ctx
JudgeNever(span) == host' = "polling" /\ ctx' = ctx

Judge(span) ==
  IF span >= IdleTimeout THEN Stop("stalled") ELSE host' = "polling" /\ ctx' = ctx

TickQuietly ==
  /\ Sample
  /\ Throttled
  /\ Judge(idleFor')
  /\ UNCHANGED <<hasProgress, verdict, workVars, callVars, quiet>>

TickAndCall ==
  /\ Sample
  /\ ~Throttled
  /\ host' = "callback"
  /\ callAge' = 0
  /\ lastPct' = Percent(done, FALSE)
  /\ UNCHANGED <<hasProgress, ctx, verdict, workVars, quiet>>

CallbackReturns(cancel) ==
  /\ host = "callback"
  /\ IF cancel THEN Stop("userAbort") ELSE Judge(idleFor)
  /\ UNCHANGED <<hasProgress, verdict, workVars, callVars, sampleVars, quiet>>

Collect ==
  /\ host = "polling"
  /\ work = "finished"
  /\ host' = "returned"
  /\ verdict' = result
  /\ UNCHANGED <<hasProgress, ctx, workVars, callVars, sampleVars, quiet>>

\* Mutant: stop does not wait for the work.
ReapAtOnce ==
  /\ host = "stopping"
  /\ host' = "returned"
  /\ verdict' = ctx
  /\ UNCHANGED <<hasProgress, ctx, workVars, callVars, sampleVars, quiet>>

\* stop: the result is received and dropped, the cause is returned.
Reap ==
  /\ host = "stopping"
  /\ work = "finished"
  /\ host' = "returned"
  /\ verdict' = ctx
  /\ UNCHANGED <<hasProgress, ctx, workVars, callVars, sampleVars, quiet>>

-----------------------------------------------------------------------------
(* Time passes while the callback keeps the thread, or while the select    *)
(* has nothing to take.  Ages of a callback beyond the throttle are alike. *)

CallAgeBound == UpdateInterval + ProgressInterval + MaxBlock + 1

Advance ==
  /\ \/ host = "callback" /\ callAge < MaxBlock
     \/ host = "polling" /\ due > 0 /\ work = "running"
  /\ due' = due - 1
  /\ movedAge' = movedAge + 1
  /\ callAge' = IF callAge < CallAgeBound THEN callAge + 1 ELSE callAge
  /\ quiet' = quiet + 1
  /\ UNCHANGED <<hasProgress, host, ctx, verdict, workVars, lastPct, lastDone, idleFor, silence>>

Work == LearnSize \/ MoveBytes \/ Rewind \/ \E r \in Results : WorkReturns(r)
Tick == TickQuietly \/ TickAndCall
Answer == \E cancel \in BOOLEAN : CallbackReturns(cancel)

Next == Launch \/ Work \/ Tick \/ Answer \/ Collect \/ Reap \/ Advance

Spec == Init /\ [][Next]_vars

\* The select loop runs while it has something to take, a callback returns,
\* time passes, and a work whose context is cancelled gives up.  A live work
\* owes nothing: it may hang.
Fairness ==
  /\ WF_vars(Launch)
  /\ WF_vars(Tick)
  /\ WF_vars(Answer)
  /\ WF_vars(Collect)
  /\ WF_vars(Reap)
  /\ WF_vars(Advance)
  /\ WF_vars(ctx # "live" /\ \E r \in Results : WorkReturns(r))

FairSpec == Spec /\ Fairness

-----------------------------------------------------------------------------
(* Properties *)

\* A transfer is failed as stalled only when no byte had moved for the idle
\* timeout at the sample that condemned it (service.go:53-60, 666).
StallMeansSilence == ctx = "stalled" => silence >= IdleTimeout

\* What the code ensures: a callback that keeps the thread can advance the
\* alarm by as long as it blocks, and by no more, unless the body was replayed.
StallBound == ctx = "stalled" /\ rewinds = 0 => silence >= IdleTimeout - MaxBlock

\* The counterpart: a silent transfer is never polled much beyond the idle
\* timeout, whatever the phase of the ticker when the last byte moved.
StallNoticed ==
  host = "polling" => quiet < IdleTimeout + 2 * ProgressInterval + 2 * MaxBlock

\* While the code waits for its next tick, the last offer of Cancel is younger
\* than the throttle interval plus one tick, also when the network is silent (service.go:632-636).
CancelResponsive ==
  hasProgress /\ host = "polling" /\ due > 0 =>
    callAge < UpdateInterval + ProgressInterval

\* The transfer's call ends: a work that hangs is found out, and a work that
\* was cancelled is waited for and not for ever.
Returns == host = "polling" ~> host = "returned"

\* The promise the callers rely on, with the callback as part of the wait.
T == INSTANCE Transfer WITH
  host <- IF host \in {"polling", "callback"} THEN "waiting" ELSE host

Refinement == T!Spec
=============================================================================
