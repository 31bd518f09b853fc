------------------------- MODULE RunTransfer_proofs -------------------------
(***************************************************************************)
(* Proofs about RunTransfer, for every size, interval and timeout: that    *)
(* its state is well typed, that it implements Transfer, and how early a   *)
(* stall may be reported.                                                  *)
(***************************************************************************)
EXTENDS RunTransfer, TLAPS

\* The percent of progress.report is one.
LEMMA PercentRange ==
  ASSUME NEW n \in Nat, NEW b \in Nat \ {0}, n < b
  PROVE  (n * 100) \div b \in Percents
  BY DEF Percents

\* A ticker rearmed on its grid is due in the future.
LEMMA RearmPositive ==
  ASSUME NEW a \in Nat, NEW b \in Nat \ {0}
  PROVE  b * (1 + a \div b) \in Int /\ b * (1 + a \div b) > a
  OBVIOUS

LEMMA PercentType ==
  ASSUME TypeOK, NEW force \in BOOLEAN
  PROVE  Percent(done, force) \in Percents
<1>1. CASE total > 0 /\ done < total
  <2>1. done \in Nat /\ total \in Nat \ {0}
    BY <1>1, ConstantsAssumption DEF TypeOK, ConstantsAssumption
  <2> QED BY <1>1, <2>1, PercentRange DEF Percent, Percents
<1>2. CASE ~(total > 0 /\ done < total)
  <2>1. done \in Nat /\ total \in Nat
    BY ConstantsAssumption DEF TypeOK, ConstantsAssumption
  <2> QED BY <1>2, <2>1 DEF Percent, Percents
<1> QED BY <1>1, <1>2

\* The type invariant is inductive once the cause that Reap returns is known.
StopHasCause == host = "stopping" => ctx \in Causes

TypeInv == TypeOK /\ StopHasCause

LEMMA TypeInit == Init => TypeInv
<1> SUFFICES ASSUME Init PROVE TypeOK
  BY DEF TypeInv, StopHasCause, Init
<1>1. Percent(0, TRUE) \in Percents
  <2>1. CASE total > 0
    <3>1. (0 * 100) \div total \in Percents
      BY <2>1, PercentRange, ConstantsAssumption DEF Init, ConstantsAssumption
    <3> QED BY <2>1, <3>1 DEF Percent, Percents
  <2>2. CASE ~(total > 0)
    BY <2>2 DEF Percent, Percents
  <2> QED BY <2>1, <2>2
<1>2. due \in Int /\ 0 \in 0..Size /\ 0 \in 0..MaxRewinds
  BY ConstantsAssumption DEF Init, ConstantsAssumption
<1>3. /\ hasProgress \in BOOLEAN
      /\ host \in {"idle", "polling", "callback", "stopping", "returned"}
      /\ work \in {"idle", "running", "finished"}
      /\ ctx \in Causes \cup {"live"}
      /\ result \in Results \cup {"none"}
      /\ verdict \in Results \cup Causes \cup {"none"}
  BY DEF Init
<1>4. /\ done \in 0..Size /\ rewinds \in 0..MaxRewinds
      /\ lastDone \in 0..Size /\ movedAge \in Nat /\ due \in Int /\ idleFor \in Int
      /\ callAge \in Nat /\ quiet \in Nat /\ silence \in Nat
  BY <1>2 DEF Init
<1>5. total \in {0, Size} /\ lastPct \in Percents
  BY <1>1 DEF Init
<1> QED BY <1>3, <1>4, <1>5 DEF TypeOK

\* What a tick leaves in the variables it assigns.
LEMMA SampleType ==
  ASSUME TypeOK, Sample
  PROVE  /\ lastDone' \in 0..Size /\ movedAge' \in Nat /\ idleFor' \in Int
         /\ due' \in Int /\ due' > 0 /\ silence' \in Nat
<1>1. -due \in Nat /\ ProgressInterval \in Nat \ {0}
  BY ConstantsAssumption DEF Sample, TypeOK, ConstantsAssumption
<1>2. due' \in Int /\ due' > 0
  BY <1>1, RearmPositive DEF Sample, TypeOK
<1> QED BY <1>1, <1>2 DEF Sample, TypeOK

LEMMA TypeStep == TypeInv /\ [Next]_vars => TypeInv'
<1> SUFFICES ASSUME TypeInv, [Next]_vars PROVE TypeInv'
  OBVIOUS
<1> USE ConstantsAssumption DEF ConstantsAssumption, TypeInv, StopHasCause
<1>1. CASE Launch
  BY <1>1 DEF Launch, TypeOK, callVars, sampleVars
<1>2. CASE LearnSize
  BY <1>2 DEF LearnSize, TypeOK, callVars, sampleVars
<1>3. CASE MoveBytes
  BY <1>3 DEF MoveBytes, TypeOK, callVars, sampleVars
<1>4. CASE Rewind
  BY <1>4 DEF Rewind, TypeOK, callVars, sampleVars
<1>5. ASSUME NEW r \in Results, WorkReturns(r) PROVE TypeInv'
  BY <1>5 DEF WorkReturns, TypeOK, callVars, sampleVars
<1>6. CASE TickQuietly
  <2>1. Sample
    BY <1>6 DEF TickQuietly
  <2>2. \/ host' = "stopping" /\ ctx' \in Causes
        \/ host' = "polling" /\ ctx' = ctx
    BY <1>6 DEF TickQuietly, Judge, Stop, Causes
  <2> QED BY <1>6, <2>1, <2>2, SampleType DEF TickQuietly, TypeOK, workVars, callVars
<1>7. CASE TickAndCall
  <2>1. Sample
    BY <1>7 DEF TickAndCall
  <2>2. lastPct' \in Percents
    BY <1>7, PercentType DEF TickAndCall
  <2> QED BY <1>7, <2>1, <2>2, SampleType DEF TickAndCall, TypeOK, workVars
<1>8. ASSUME NEW cancel \in BOOLEAN, CallbackReturns(cancel) PROVE TypeInv'
  <2>1. \/ host' = "stopping" /\ ctx' \in Causes
        \/ host' = "polling" /\ ctx' = ctx
    BY <1>8 DEF CallbackReturns, Judge, Stop, Causes
  <2> QED BY <1>8, <2>1 DEF CallbackReturns, TypeOK, workVars, callVars, sampleVars
<1>9. CASE Collect
  BY <1>9 DEF Collect, TypeOK, workVars, callVars, sampleVars
<1>10. CASE Reap
  BY <1>10 DEF Reap, TypeOK, workVars, callVars, sampleVars
<1>11. CASE Advance
  BY <1>11 DEF Advance, TypeOK, workVars, CallAgeBound
<1>12. CASE UNCHANGED vars
  BY <1>12 DEF vars, TypeOK, workVars, callVars, sampleVars
<1> QED
  BY <1>1, <1>2, <1>3, <1>4, <1>5, <1>6, <1>7, <1>8, <1>9, <1>10, <1>11, <1>12
  DEF Next, Work, Tick, Answer

LEMMA TypeInvariant == Spec => []TypeInv
BY TypeInit, TypeStep, PTL DEF Spec

\* Every reachable state is well typed.
THEOREM TypeCorrect == Spec => []TypeOK
<1>1. TypeInv => TypeOK
  BY DEF TypeInv
<1> QED BY <1>1, TypeInvariant, PTL

-----------------------------------------------------------------------------
(* How early a stall may be reported.  The alarm compares two tick times,  *)
(* and a tick is dated at most MaxBlock before it is taken, so lastMoved   *)
(* is at most MaxBlock older than the last byte.  Before the first rewind  *)
(* the counter only grows, so a byte that has moved always shows.          *)

\* A tick is overdue only by the time the last callback has kept the thread.
OverdueBound ==
  /\ host \in {"idle", "polling"} => due >= -MaxBlock
  /\ host = "callback" => callAge <= MaxBlock /\ due > -callAge

\* lastMoved is not much older than the last byte that was sampled.
MovedBound ==
  rewinds = 0 =>
    /\ lastDone <= done
    /\ lastDone = done => movedAge <= quiet + MaxBlock

\* The verdict under way, and the verdict given.
AlarmBound ==
  /\ host = "callback" /\ rewinds = 0 => idleFor <= silence + MaxBlock
  /\ ctx = "stalled" => host \in {"stopping", "returned"}
  /\ StallBound

StallInv == OverdueBound /\ MovedBound /\ AlarmBound

LEMMA StallInit == TypeInv /\ Init => StallInv
BY ConstantsAssumption
DEF Init, StallInv, OverdueBound, MovedBound, AlarmBound, StallBound, ConstantsAssumption

\* The sample of a tick: it dates the last byte by MaxBlock early at most.
LEMMA SampleBound ==
  ASSUME TypeInv, StallInv, rewinds = 0, Sample, UNCHANGED <<done, quiet>>
  PROVE  /\ lastDone' = done' /\ movedAge' <= quiet' + MaxBlock
         /\ idleFor' <= silence' + MaxBlock
<1>1. due \in Int /\ due <= 0 /\ due >= -MaxBlock /\ quiet \in Nat /\ movedAge \in Nat /\ MaxBlock \in Nat
  BY ConstantsAssumption DEF TypeInv, TypeOK, StallInv, OverdueBound, Sample, ConstantsAssumption
<1>2. movedAge' <= quiet + MaxBlock /\ movedAge' \in Nat
  BY <1>1 DEF Sample, StallInv, MovedBound
<1> QED BY <1>1, <1>2 DEF Sample

\* An alarm that overrates the idleness by at most m is at most m too early.
LEMMA EarlyBy ==
  ASSUME NEW i \in Int, NEW s \in Nat, NEW m \in Nat, NEW d \in Nat, i <= s + m, i >= d
  PROVE  s >= d - m
  OBVIOUS

LEMMA StallStep == TypeInv /\ StallInv /\ [Next]_vars => StallInv'
<1> SUFFICES ASSUME TypeInv, StallInv, [Next]_vars PROVE StallInv'
  OBVIOUS
<1> USE ConstantsAssumption DEF ConstantsAssumption, TypeInv, TypeOK, StallInv, OverdueBound,
                               MovedBound, AlarmBound, StallBound
<1>1. CASE Launch
  BY <1>1 DEF Launch, callVars, sampleVars
<1>2. CASE LearnSize
  BY <1>2 DEF LearnSize, callVars, sampleVars
<1>3. CASE MoveBytes
  BY <1>3 DEF MoveBytes, callVars, sampleVars
<1>4. CASE Rewind
  <2>1. rewinds' # 0
    BY <1>4 DEF Rewind
  <2> QED BY <1>4, <2>1 DEF Rewind, callVars, sampleVars
<1>5. ASSUME NEW r \in Results, WorkReturns(r) PROVE StallInv'
  BY <1>5 DEF WorkReturns, callVars, sampleVars
<1>6. CASE TickQuietly
  <2>1. Sample /\ UNCHANGED <<done, quiet, rewinds>>
    BY <1>6 DEF TickQuietly, workVars
  <2>2. /\ due' > 0 /\ due' \in Int /\ idleFor' \in Int /\ silence' \in Nat
        /\ rewinds = 0 => /\ lastDone' = done' /\ movedAge' <= quiet' + MaxBlock
                          /\ idleFor' <= silence' + MaxBlock
    BY <2>1, SampleType, SampleBound
  <2>3. \/ host' = "stopping" /\ ctx' = "stalled" /\ idleFor' >= IdleTimeout
        \/ host' = "polling" /\ ctx' = ctx
    BY <1>6 DEF TickQuietly, Judge, Stop
  <2>4. host = "polling" /\ MaxBlock \in Nat /\ IdleTimeout \in Nat /\ done' \in Nat
    BY <2>1 DEF Sample
  <2>5. OverdueBound'
    BY <2>2, <2>3, <2>4
  <2>6. MovedBound'
    BY <2>1, <2>2, <2>4
  <2>7. rewinds' = rewinds /\ (ctx = "stalled" => host \in {"stopping", "returned"})
    BY <2>1
  <2>8. ctx' = "stalled" => host' = "stopping" /\ idleFor' >= IdleTimeout
    BY <2>3, <2>4, <2>7
  <2>9. rewinds' = 0 /\ idleFor' >= IdleTimeout => silence' >= IdleTimeout - MaxBlock
    BY <2>2, <2>4, <2>7, EarlyBy
  <2>10. AlarmBound'
    BY <2>3, <2>8, <2>9
  <2> QED BY <2>5, <2>6, <2>10
<1>7. CASE TickAndCall
  <2>1. /\ Sample /\ UNCHANGED <<done, quiet, rewinds, ctx>> /\ done' \in Nat
        /\ host' = "callback" /\ callAge' = 0 /\ MaxBlock \in Nat
    BY <1>7 DEF TickAndCall, workVars
  <2>2. /\ due' > 0 /\ due' \in Int /\ idleFor' \in Int /\ silence' \in Nat
        /\ rewinds = 0 => /\ lastDone' = done' /\ movedAge' <= quiet' + MaxBlock
                          /\ idleFor' <= silence' + MaxBlock
    BY <2>1, SampleType, SampleBound
  <2>3. OverdueBound'
    BY <2>1, <2>2
  <2>4. MovedBound'
    BY <2>1, <2>2
  <2>5. AlarmBound'
    BY <2>1, <2>2 DEF Sample
  <2> QED BY <2>3, <2>4, <2>5
<1>8. ASSUME NEW cancel \in BOOLEAN, CallbackReturns(cancel) PROVE StallInv'
  BY <1>8 DEF CallbackReturns, Judge, Stop, workVars, callVars, sampleVars
<1>9. CASE Collect
  BY <1>9 DEF Collect, workVars, callVars, sampleVars
<1>10. CASE Reap
  BY <1>10 DEF Reap, workVars, callVars, sampleVars
<1>11. CASE Advance
  BY <1>11 DEF Advance, workVars, CallAgeBound
<1>12. CASE UNCHANGED vars
  BY <1>12 DEF vars, workVars, callVars, sampleVars
<1> QED
  BY <1>1, <1>2, <1>3, <1>4, <1>5, <1>6, <1>7, <1>8, <1>9, <1>10, <1>11, <1>12
  DEF Next, Work, Tick, Answer

\* A stall is reported at most MaxBlock too early as long as the body has not
\* been rewound: a download is failed only when its bytes have stood still for
\* nearly the idle timeout (service.go:53-60, 658-667).
THEOREM StallsAreBounded == Spec => []StallBound
<1>1. Init => StallInv
  BY TypeInit, StallInit
<1>2. StallInv /\ TypeInv /\ [Next]_vars => StallInv'
  BY StallStep
<1>3. StallInv => StallBound
  BY DEF StallInv, AlarmBound
<1> QED BY <1>1, <1>2, <1>3, TypeInvariant, PTL DEF Spec

\* With callbacks that return at once and a body that cannot be rewound, as of
\* a download, a stall is reported for silence alone (service.go:53-60).
THEOREM PromptStallsAreTrue ==
  ASSUME MaxRewinds = 0, MaxBlock = 0 PROVE Spec => []StallMeansSilence
<1>1. TypeInv /\ StallBound => StallMeansSilence
  BY MaxRewinds = 0, MaxBlock = 0, ConstantsAssumption
  DEF TypeInv, TypeOK, StallBound, StallMeansSilence, ConstantsAssumption
<1> QED BY <1>1, StallsAreBounded, TypeInvariant, PTL

-----------------------------------------------------------------------------
(* The counterpart: how late a stall may be noticed, and how long the user *)
(* may wait for a chance to cancel.  A tick is due at most one interval    *)
(* after the last sample, so a change that was not sampled yet is no older *)
(* than that, and lastMoved is at most one interval younger than the last  *)
(* byte.  Between two samples movedAge + due and callAge + due stand still *)
(* while time passes: each is what its clock will show at the next tick.   *)

\* The counter changed at most ProgressInterval before lastMoved, or since the
\* last sample.
QuietBound ==
  /\ due <= ProgressInterval
  /\ done = lastDone => quiet <= movedAge + ProgressInterval
  /\ done # lastDone => quiet <= ProgressInterval - due

\* The age of lastMoved at the next tick: the last one did not condemn it.
IdleBound ==
  /\ host = "idle" => movedAge + due <= ProgressInterval
  /\ host = "polling" => movedAge + due < IdleTimeout + ProgressInterval + MaxBlock
  /\ host = "callback" => movedAge + due <= idleFor + ProgressInterval + MaxBlock

\* The age of the last callback at the next tick: the last one was throttled
\* or called the host.
OfferBound ==
  hasProgress /\ host \in {"idle", "polling", "callback"} => callAge + due <= UpdateInterval + ProgressInterval

NoticeInv == QuietBound /\ IdleBound /\ OfferBound

LEMMA NoticeInit == TypeInv /\ Init => NoticeInv
BY ConstantsAssumption
DEF Init, NoticeInv, QuietBound, IdleBound, OfferBound, ConstantsAssumption

\* A ticker rearmed on its grid is due within its interval.
LEMMA RearmWithin ==
  ASSUME NEW a \in Nat, NEW b \in Nat \ {0}
  PROVE  b * (1 + a \div b) <= a + b
  OBVIOUS

\* What a clock that shows m at a tick due at d will show at the next tick, due
\* at e; and that the sum stands still while time passes.  Numbers only.
LEMMA NextClock ==
  ASSUME NEW m \in Nat, NEW d \in Int, NEW e \in Int, NEW p \in Nat, NEW b \in Nat,
         d >= -b, e <= p
  PROVE  m + e <= (m + d) + p + b
  OBVIOUS

LEMMA ClockBelow ==
  ASSUME NEW x \in Int, NEW i \in Int, NEW l \in Nat, NEW p \in Nat, NEW b \in Nat,
         x <= i + p + b, i < l
  PROVE  x < l + p + b
  OBVIOUS

LEMMA ClockStands ==
  ASSUME NEW m \in Nat, NEW d \in Int, NEW c \in Nat, NEW l \in Int, c <= m + 1, m + d <= l
  PROVE  c + (d - 1) <= l
  OBVIOUS

LEMMA OfferInTime ==
  ASSUME NEW c \in Nat, NEW d \in Int, NEW u \in Nat, NEW p \in Nat, d <= p, c <= u
  PROVE  c + d <= u + p
  OBVIOUS

\* The sample of a tick: how old the last byte may be, and the next tick.
LEMMA SampleNotice ==
  ASSUME TypeInv, StallInv, NoticeInv, Sample, UNCHANGED <<done, quiet>>
  PROVE  /\ due' \in Int /\ movedAge' \in Nat /\ idleFor' \in Int /\ QuietBound'
         /\ movedAge' + due' <= idleFor' + ProgressInterval + MaxBlock
<1>1. /\ due \in Int /\ due <= 0 /\ due >= -MaxBlock /\ -due \in Nat
      /\ quiet \in Nat /\ movedAge \in Nat /\ MaxBlock \in Nat /\ ProgressInterval \in Nat \ {0}
  BY ConstantsAssumption DEF TypeInv, TypeOK, StallInv, OverdueBound, Sample, ConstantsAssumption
<1>2. due' \in Int /\ due' <= ProgressInterval
  BY <1>1, RearmPositive, RearmWithin DEF Sample
<1>3. quiet <= movedAge' + ProgressInterval /\ movedAge' \in Nat /\ lastDone' = done
  BY <1>1 DEF Sample, NoticeInv, QuietBound
<1>4. idleFor' = movedAge' + due
  BY DEF Sample
<1>5. idleFor' \in Int
  BY <1>1, <1>3, <1>4
<1>6. ProgressInterval \in Nat
  BY <1>1
<1>7. movedAge' + due' <= (movedAge' + due) + ProgressInterval + MaxBlock
  BY <1>1, <1>2, <1>3, <1>6, NextClock, Zenon
<1>8. QuietBound'
  BY <1>1, <1>2, <1>3 DEF QuietBound
<1> QED BY <1>2, <1>3, <1>4, <1>5, <1>7, <1>8

LEMMA NoticeStep == TypeInv /\ StallInv /\ NoticeInv /\ [Next]_vars => NoticeInv'
<1> SUFFICES ASSUME TypeInv, StallInv, NoticeInv, [Next]_vars PROVE NoticeInv'
  OBVIOUS
<1> USE ConstantsAssumption DEF ConstantsAssumption, NoticeInv
<1>0. /\ due \in Int /\ movedAge \in Nat /\ callAge \in Nat /\ quiet \in Nat /\ idleFor \in Int
      /\ done \in Nat /\ lastDone \in Nat
  BY DEF TypeInv, TypeOK
<1>1. CASE Launch
  BY <1>0, <1>1 DEF Launch, callVars, sampleVars, QuietBound, IdleBound, OfferBound
<1>2. CASE LearnSize
  BY <1>0, <1>2 DEF LearnSize, callVars, sampleVars, QuietBound, IdleBound, OfferBound
<1>3. CASE MoveBytes \/ Rewind
  <2>1. UNCHANGED <<hasProgress, host, callVars, sampleVars>>
    BY <1>3 DEF MoveBytes, Rewind
  <2>2. QuietBound'
    BY <1>0, <1>3, <2>1 DEF MoveBytes, Rewind, sampleVars, QuietBound
  <2> QED BY <1>0, <2>1, <2>2 DEF callVars, sampleVars, IdleBound, OfferBound
<1>4. ASSUME NEW r \in Results, WorkReturns(r) PROVE NoticeInv'
  BY <1>0, <1>4 DEF WorkReturns, callVars, sampleVars, QuietBound, IdleBound, OfferBound
<1>5. CASE TickQuietly
  <2>1. Sample /\ UNCHANGED <<done, quiet, callAge, hasProgress>>
    BY <1>5 DEF TickQuietly, workVars, callVars
  <2>2. /\ due' \in Int /\ movedAge' \in Nat /\ idleFor' \in Int /\ QuietBound'
        /\ movedAge' + due' <= idleFor' + ProgressInterval + MaxBlock
    BY <2>1, SampleNotice
  <2>3. host' = "stopping" \/ (host' = "polling" /\ idleFor' < IdleTimeout)
    BY <1>5, <2>2 DEF TickQuietly, Judge, Stop
  <2>4. IdleBound'
    <3>1. movedAge' + due' \in Int /\ IdleTimeout \in Nat /\ ProgressInterval \in Nat
      BY <2>2
    <3>2. idleFor' < IdleTimeout =>
            movedAge' + due' < IdleTimeout + ProgressInterval + MaxBlock
      BY <2>2, <3>1, ClockBelow, Zenon
    <3> QED BY <2>3, <3>2 DEF IdleBound
  <2>5. due' <= ProgressInterval
    BY <2>2 DEF QuietBound
  <2>6. hasProgress => callAge < UpdateInterval
    BY <1>5 DEF TickQuietly, Throttled
  <2>7. OfferBound'
    <3>1. hasProgress => callAge \in Nat /\ callAge <= UpdateInterval
      BY <1>0, <2>6
    <3>2. ProgressInterval \in Nat /\ UpdateInterval \in Nat
      OBVIOUS
    <3>3. hasProgress => callAge + due' <= UpdateInterval + ProgressInterval
      BY <2>2, <2>5, <3>1, <3>2, OfferInTime, Zenon
    <3> QED BY <2>1, <3>3 DEF OfferBound
  <2> QED BY <2>2, <2>4, <2>7
<1>6. CASE TickAndCall
  <2>1. Sample /\ UNCHANGED <<done, quiet>> /\ host' = "callback" /\ callAge' = 0
    BY <1>6 DEF TickAndCall, workVars
  <2>2. /\ due' \in Int /\ movedAge' \in Nat /\ idleFor' \in Int /\ QuietBound'
        /\ movedAge' + due' <= idleFor' + ProgressInterval + MaxBlock
    BY <2>1, SampleNotice
  <2>3. IdleBound'
    BY <2>1, <2>2 DEF IdleBound
  <2>4. due' <= ProgressInterval
    BY <2>2 DEF QuietBound
  <2>5. OfferBound'
    <3>1. 0 \in Nat /\ 0 <= UpdateInterval /\ ProgressInterval \in Nat /\ UpdateInterval \in Nat
      OBVIOUS
    <3>2. 0 + due' <= UpdateInterval + ProgressInterval
      BY <2>2, <2>4, <3>1, OfferInTime, Zenon
    <3> QED BY <2>1, <3>2 DEF OfferBound
  <2> QED BY <2>2, <2>3, <2>5
<1>7. ASSUME NEW cancel \in BOOLEAN, CallbackReturns(cancel) PROVE NoticeInv'
  <2>1. host = "callback" /\ UNCHANGED <<hasProgress, workVars, callVars, sampleVars, quiet>>
    BY <1>7 DEF CallbackReturns
  <2>2. host' = "stopping" \/ (host' = "polling" /\ idleFor < IdleTimeout)
    BY <1>0, <1>7 DEF CallbackReturns, Judge, Stop
  <2>3. IdleBound'
    BY <1>0, <2>1, <2>2, ClockBelow DEF sampleVars, IdleBound
  <2>4. QuietBound' /\ OfferBound'
    BY <2>1, <2>2 DEF workVars, callVars, sampleVars, QuietBound, OfferBound
  <2> QED BY <2>3, <2>4
<1>8. CASE Collect \/ Reap
  <2>1. host' = "returned" /\ host # "idle" /\ UNCHANGED <<hasProgress, workVars, callVars, sampleVars, quiet>>
    BY <1>8 DEF Collect, Reap
  <2>2. host = "polling" \/ host = "stopping"
    BY <1>8 DEF Collect, Reap
  <2> QED BY <1>0, <2>1, <2>2 DEF workVars, callVars, sampleVars, QuietBound, IdleBound, OfferBound
<1>9. CASE Advance
  <2>1. /\ host \in {"polling", "callback"} /\ due' = due - 1 /\ movedAge' = movedAge + 1
        /\ callAge' \in Nat /\ callAge' <= callAge + 1 /\ quiet' = quiet + 1
        /\ UNCHANGED <<hasProgress, host, done, lastDone, idleFor>>
    BY <1>0, <1>9 DEF Advance, workVars, CallAgeBound
  <2>2. movedAge' + due' = movedAge + due
    BY <1>0, <2>1
  <2>3. QuietBound'
    BY <1>0, <2>1 DEF QuietBound
  <2>4. IdleBound'
    BY <2>1, <2>2 DEF IdleBound
  <2>5. OfferBound'
    <3>1. UpdateInterval + ProgressInterval \in Int
      OBVIOUS
    <3>2. hasProgress => callAge + due <= UpdateInterval + ProgressInterval
      BY <2>1 DEF OfferBound
    <3>3. hasProgress => callAge' + (due - 1) <= UpdateInterval + ProgressInterval
      BY <1>0, <2>1, <3>1, <3>2, ClockStands, Zenon
    <3> QED BY <2>1, <3>3 DEF OfferBound
  <2> QED BY <2>3, <2>4, <2>5
<1>10. CASE UNCHANGED vars
  BY <1>0, <1>10 DEF vars, workVars, callVars, sampleVars, QuietBound, IdleBound, OfferBound
<1> QED
  BY <1>1, <1>2, <1>3, <1>4, <1>5, <1>6, <1>7, <1>8, <1>9, <1>10
  DEF Next, Work, Tick, Answer

LEMMA NoticeInvariant == Spec => [](TypeInv /\ StallInv /\ NoticeInv)
<1>1. Init => TypeInv /\ StallInv /\ NoticeInv
  BY TypeInit, StallInit, NoticeInit
<1>2. TypeInv /\ StallInv /\ NoticeInv /\ [Next]_vars => (TypeInv /\ StallInv /\ NoticeInv)'
  BY TypeStep, StallStep, NoticeStep
<1> QED BY <1>1, <1>2, PTL DEF Spec

\* A transfer that stays silent is never polled longer than the idle timeout,
\* two ticks and the time two callbacks may take: replays, an unknown size and
\* the phase of the ticker cannot put the alarm off (service.go:651-671).
THEOREM StallsAreNoticed == Spec => []StallNoticed
<1>1. TypeInv /\ StallInv /\ NoticeInv => StallNoticed
  <2> SUFFICES ASSUME TypeInv, StallInv, NoticeInv, host = "polling"
               PROVE  quiet < IdleTimeout + 2 * ProgressInterval + 2 * MaxBlock
    BY DEF StallNoticed
  <2>1. /\ due \in Int /\ movedAge \in Nat /\ quiet \in Nat /\ due >= -MaxBlock
        /\ movedAge + due < IdleTimeout + ProgressInterval + MaxBlock
        /\ quiet <= movedAge + ProgressInterval \/ quiet <= ProgressInterval - due
    BY DEF TypeInv, TypeOK, StallInv, OverdueBound, NoticeInv, IdleBound, QuietBound
  <2> QED BY <2>1, ConstantsAssumption DEF ConstantsAssumption
<1> QED BY <1>1, NoticeInvariant, PTL

\* The user can cancel within the throttle interval and one tick of the last
\* chance, for every interval and also while no byte moves (service.go:632-636,
\* 699-721).
THEOREM CancelIsResponsive == Spec => []CancelResponsive
<1>1. TypeInv /\ NoticeInv => CancelResponsive
  BY ConstantsAssumption
  DEF TypeInv, TypeOK, NoticeInv, OfferBound, CancelResponsive, ConstantsAssumption
<1> QED BY <1>1, NoticeInvariant, PTL

-----------------------------------------------------------------------------
(* RunTransfer implements Transfer: polling and the callback are waiting.  *)

LEMMA RefinementInit == Init => T!Init
BY DEF Init, T!Init

LEMMA RefinementStep == TypeInv /\ [Next]_vars => [T!Next]_(T!vars)
<1> SUFFICES ASSUME TypeInv, [Next]_vars PROVE [T!Next]_(T!vars)
  OBVIOUS
<1>1. CASE Launch
  BY <1>1 DEF Launch, T!Next, T!Launch
<1>2. CASE LearnSize \/ MoveBytes \/ Rewind
  BY <1>2 DEF LearnSize, MoveBytes, Rewind, T!vars
<1>3. ASSUME NEW r \in Results, WorkReturns(r) PROVE T!Next
  BY <1>3 DEF WorkReturns, T!Next, T!WorkReturns
<1>4. CASE TickQuietly
  <2>1. host = "polling" /\ UNCHANGED <<work, result, verdict>>
    BY <1>4 DEF TickQuietly, Sample, workVars
  <2>2. CASE Stop("stalled")
    <3>1. T!Stop("stalled")
      BY <2>1, <2>2 DEF Stop, T!Stop
    <3> QED BY <3>1 DEF T!Next, T!Causes
  <2>3. CASE host' = "polling" /\ ctx' = ctx
    BY <2>1, <2>3 DEF T!vars
  <2> QED BY <1>4, <2>2, <2>3 DEF TickQuietly, Judge
<1>5. CASE TickAndCall
  BY <1>5 DEF TickAndCall, Sample, workVars, T!vars
<1>6. ASSUME NEW cancel \in BOOLEAN, CallbackReturns(cancel) PROVE [T!Next]_(T!vars)
  <2>1. host = "callback" /\ UNCHANGED <<work, result, verdict>>
    BY <1>6 DEF CallbackReturns, workVars
  <2>2. ASSUME NEW cause \in Causes, Stop(cause) PROVE T!Next
    <3>1. T!Stop(cause)
      BY <2>1, <2>2 DEF Stop, T!Stop
    <3> QED BY <3>1 DEF T!Next, T!Causes, Causes
  <2>3. CASE host' = "polling" /\ ctx' = ctx
    BY <2>1, <2>3 DEF T!vars
  <2> QED BY <1>6, <2>2, <2>3 DEF CallbackReturns, Judge, Causes
<1>7. CASE Collect
  BY <1>7 DEF Collect, workVars, T!Next, T!Collect
<1>8. CASE Reap
  BY <1>8 DEF Reap, workVars, T!Next, T!Reap
<1>9. CASE Advance
  BY <1>9 DEF Advance, workVars, T!vars
<1>10. CASE UNCHANGED vars
  BY <1>10 DEF vars, workVars, T!vars
<1> QED
  BY <1>1, <1>2, <1>3, <1>4, <1>5, <1>6, <1>7, <1>8, <1>9, <1>10
  DEF Next, Work, Tick, Answer

\* runTransfer keeps the promise its callers rely on: it returns only after the
\* work has, with the work's result or the cause of the cancellation.
THEOREM ImplementsTransfer == Spec => Refinement
BY RefinementInit, RefinementStep, TypeInvariant, PTL DEF Spec, Refinement, T!Spec
=============================================================================
