------------------------- MODULE DebugDialog_proofs -------------------------
(***************************************************************************)
(* Theorems about the activity log, the connection test and its dialog,    *)
(* for any set of profiles, any number of tests and any capacity of the    *)
(* log.                                                                    *)
(***************************************************************************)
EXTENDS DebugDialog, FiniteSetTheorems, TLAPS

-----------------------------------------------------------------------------
(***************************************************************************)
(* The activity log by itself.  For every capacity, the ring keeps what    *)
(* RecentActivities promises.  The heart is arithmetic: the slots behind   *)
(* next are the newest activities, in order, and none of them but the      *)
(* oldest is the slot that the next add overwrites.                        *)
(***************************************************************************)

\* The remainder of a number below the divisor, and of one below twice it.
LEMMA ModSmall ==
  ASSUME NEW n \in Nat \ {0}, NEW x \in Nat, x < n
  PROVE  x % n = x
  BY SMT

LEMMA ModWrap ==
  ASSUME NEW n \in Nat \ {0}, NEW x \in Nat, n <= x, x < n + n
  PROVE  x % n = x - n
  BY SMT

\* Where next goes.
LEMMA NextSlot ==
  ASSUME LogTypeOK
  PROVE  (next + 1) % Capacity = IF next + 1 < Capacity THEN next + 1 ELSE 0
  <1>1. next + 1 \in Nat /\ next + 1 <= Capacity
    BY LogAssumption DEF LogTypeOK, Slots
  <1>2. CASE next + 1 < Capacity
    BY <1>1, <1>2, ModSmall, LogAssumption
  <1>3. CASE ~(next + 1 < Capacity)
    BY <1>1, <1>3, ModWrap, LogAssumption
  <1> QED BY <1>2, <1>3

\* The slot of the i-th newest activity, for a next and an i in range.
LEMMA SlotBehind ==
  ASSUME NEW n \in Slots, NEW i \in 1..Capacity
  PROVE  (n - i + Capacity) % Capacity = IF i <= n THEN n - i ELSE n - i + Capacity
  <1>1. n - i + Capacity \in Nat /\ n - i + Capacity < Capacity + Capacity
    BY LogAssumption DEF Slots
  <1>2. CASE i <= n
    <2>1. Capacity <= n - i + Capacity
      BY <1>2, LogAssumption DEF Slots
    <2>2. (n - i + Capacity) % Capacity = (n - i + Capacity) - Capacity
      BY <1>1, <2>1, ModWrap, LogAssumption
    <2> QED BY <1>2, <2>2, LogAssumption DEF Slots
  <1>3. CASE ~(i <= n)
    <2>1. n - i + Capacity < Capacity
      BY <1>3, LogAssumption DEF Slots
    <2>2. (n - i + Capacity) % Capacity = n - i + Capacity
      BY <1>1, <2>1, ModSmall, LogAssumption
    <2> QED BY <1>3, <2>2
  <1> QED BY <1>2, <1>3

-----------------------------------------------------------------------------
(* Types *)

LEMMA LogTypeInit == LogInit => LogTypeOK
  BY LogAssumption DEF LogInit, LogTypeOK, Slots

LEMMA LogTypeStep ==
  ASSUME LogTypeOK, [LogNext]_logVars
  PROVE  LogTypeOK'
  <1>1. CASE LogNext
    <2>1. PICK a \in Activities : Add(a)
      BY <1>1 DEF LogNext
    <2>2. next' \in Slots
      BY <2>1, NextSlot, LogAssumption DEF LogTypeOK, Add, Slots
    <2>3. entries' \in [Slots -> Activities \cup {Zero}]
      BY <2>1 DEF LogTypeOK, Add
    <2>4. count' \in 0..Capacity
      BY <2>1, LogAssumption DEF LogTypeOK, Add
    <2> QED BY <2>2, <2>3, <2>4 DEF LogTypeOK
  <1>2. CASE UNCHANGED logVars
    BY <1>2 DEF LogTypeOK, logVars
  <1> QED BY <1>1, <1>2

\* The ring, its index and its count keep their types (activity.go:30-45).
THEOREM LogTypeCorrect == LogSpec => []LogTypeOK
  BY LogTypeInit, LogTypeStep, PTL DEF LogSpec

-----------------------------------------------------------------------------
(* Refinement *)

LEMMA RefinementInit == LogInit => R!Init
  BY DEF LogInit, R!Init, NewestFirst

\* After an add, what was the i-th newest is the next older one, in the same
\* slot, and that slot is not the one written.
LEMMA Shifted ==
  ASSUME LogTypeOK, NEW a \in Activities, Add(a), NEW i \in 2..count'
  PROVE  /\ i - 1 \in 1..count
         /\ Slot(i)' = Slot(i - 1)
         /\ Slot(i - 1) \in Slots \ {next}
  <1>1. i - 1 \in 1..count /\ i - 1 < Capacity /\ i \in 1..Capacity /\ i - 1 \in 1..Capacity
    BY LogAssumption DEF LogTypeOK, Add
  <1>2. next \in Slots /\ next' \in Slots
    BY LogTypeStep DEF LogTypeOK, LogNext
  <1>3. next' = IF next + 1 < Capacity THEN next + 1 ELSE 0
    BY NextSlot DEF Add
  <1>4. Slot(i - 1) = IF i - 1 <= next THEN next - (i - 1) ELSE next - (i - 1) + Capacity
    BY <1>1, <1>2, SlotBehind DEF Slot
  <1>5. Slot(i)' = IF i <= next' THEN next' - i ELSE next' - i + Capacity
    BY <1>1, <1>2, SlotBehind DEF Slot
  <1>6. Slot(i)' = Slot(i - 1)
    BY <1>1, <1>2, <1>3, <1>4, <1>5, LogAssumption DEF Slots
  <1>7. Slot(i - 1) \in Slots \ {next}
    BY <1>1, <1>2, <1>4, LogAssumption DEF Slots
  <1> QED BY <1>1, <1>6, <1>7

\* The slot just behind the new next is the one written.
LEMMA Newest ==
  ASSUME LogTypeOK, NEW a \in Activities, Add(a)
  PROVE  Slot(1)' = next
  <1>1. next \in Slots /\ next' \in Slots /\ 1 \in 1..Capacity
    BY LogTypeStep, LogAssumption DEF LogTypeOK, LogNext
  <1>2. next' = IF next + 1 < Capacity THEN next + 1 ELSE 0
    BY NextSlot DEF Add
  <1>3. Slot(1)' = IF 1 <= next' THEN next' - 1 ELSE next' - 1 + Capacity
    BY <1>1, SlotBehind DEF Slot
  <1> QED BY <1>1, <1>2, <1>3, LogAssumption DEF Slots

\* The newest activity comes first and every other moves back by one; only the
\* oldest of a full log goes.
LEMMA AddShifts ==
  ASSUME LogTypeOK, NEW a \in Activities, Add(a)
  PROVE  /\ count' \in 1..Capacity
         /\ NewestFirst' = [i \in 1..count' |-> IF i = 1 THEN a ELSE NewestFirst[i - 1]]
  <1>1. count' \in 1..Capacity
    BY LogAssumption DEF LogTypeOK, Add
  <1>2. entries' = [entries EXCEPT ![next] = a] /\ entries \in [Slots -> Activities \cup {Zero}]
        /\ next \in Slots
    BY DEF Add, LogTypeOK
  <1>3. entries'[Slot(1)'] = a
    BY <1>2, Newest
  <1>4. ASSUME NEW i \in 2..count'
        PROVE  entries'[Slot(i)'] = NewestFirst[i - 1]
    <2>1. /\ i - 1 \in 1..count
          /\ Slot(i)' = Slot(i - 1)
          /\ Slot(i - 1) \in Slots \ {next}
      BY Shifted
    <2>2. entries'[Slot(i - 1)] = entries[Slot(i - 1)]
      BY <2>1, <1>2
    <2> QED BY <2>1, <2>2 DEF NewestFirst
  <1>5. ASSUME NEW i \in 1..count'
        PROVE  entries'[Slot(i)'] = IF i = 1 THEN a ELSE NewestFirst[i - 1]
    BY <1>1, <1>3, <1>4
  <1>6. NewestFirst' = [i \in 1..count' |-> entries'[Slot(i)']]
    BY DEF NewestFirst
  <1> QED BY <1>1, <1>5, <1>6

LEMMA AddStep ==
  ASSUME LogTypeOK, NEW a \in Activities, Add(a)
  PROVE  R!Add(a)
  <1>1. DOMAIN NewestFirst = 1..count
    BY DEF NewestFirst
  <1>2. \/ count' = Capacity /\ DOMAIN NewestFirst = 1..Capacity
        \/ DOMAIN NewestFirst = 1..(count' - 1)
    BY <1>1, LogAssumption DEF LogTypeOK, Add
  <1> QED BY <1>2, AddShifts DEF R!Add

LEMMA RefinementStep ==
  ASSUME LogTypeOK, [LogNext]_logVars
  PROVE  [R!Next]_NewestFirst
  <1>1. CASE LogNext
    BY <1>1, AddStep DEF LogNext, R!Next
  <1>2. CASE UNCHANGED logVars
    BY <1>2 DEF logVars, NewestFirst, Slot
  <1> QED BY <1>1, <1>2

\* The ring keeps the most recent activities, newest first, for every capacity
\* and however often it has wrapped (activity.go:37-56).
THEOREM RingKeepsRecent == LogSpec => RecentRefinement
  <1>1. LogInit => R!Init
    BY RefinementInit
  <1>2. LogTypeOK /\ [LogNext]_logVars => [R!Next]_NewestFirst
    BY RefinementStep
  <1> QED BY <1>1, <1>2, LogTypeCorrect, PTL DEF LogSpec, RecentRefinement, R!Spec

-----------------------------------------------------------------------------
(* The connection test.                                                    *)

(***************************************************************************)
(* While the caller's thread is between the first lock and the snapshot,   *)
(* the test it has begun runs and no test has goroutines.  This is what    *)
(* keeps a second set of goroutines from starting.                         *)
(***************************************************************************)
StarterAlone ==
  starter \in {"reload", "snapshot"} => test.running /\ \A t \in Tests : ~group[t].spawned

ConnInv ==
  /\ TestTypeOK
  /\ test.running => test.id \in Tests
  /\ starter = "start" => test.id < MaxTests
  /\ StarterAlone
  /\ ProbesBelongToRun
  /\ ResultsComplete

LEMMA ConnInit == TestInit => ConnInv
BY TestAssumption DEF TestInit, ConnInv, TestTypeOK, StarterAlone, ProbesBelongToRun,
                      ResultsComplete, Group

(* A step that changes neither the test nor its goroutines. *)
LEMMA ConnUnchanged ==
  ASSUME ConnInv, UNCHANGED testVars, profiles' \subseteq Profiles, others' \in 0..MaxOthers,
         \/ starter' \in {"none", starter}
         \/ starter' = "start" /\ test.id < MaxTests
  PROVE  ConnInv'
BY DEF ConnInv, testVars, TestTypeOK, StarterAlone, ProbesBelongToRun, ResultsComplete

LEMMA ConnStart ==
  ASSUME ConnInv, StartTest
  PROVE  ConnInv'
<1>1. CASE test.running
  <2>1. UNCHANGED testVars /\ starter' = "none" /\ profiles' = profiles /\ others' = others
    BY <1>1 DEF StartTest, testVars, ConnInv, TestTypeOK
  <2> QED
    BY <2>1, ConnUnchanged DEF ConnInv, TestTypeOK
<1>2. CASE ~test.running
  <2>1. /\ test' = [id |-> test.id + 1, running |-> TRUE, err |-> FALSE, results |-> {}]
        /\ starter' = "reload" /\ group' = group /\ profiles' = profiles /\ others' = 0
    BY <1>2 DEF StartTest, Begin
  <2>2. test.id + 1 \in Tests /\ 0 \in 0..MaxOthers
    BY TestAssumption DEF StartTest, ConnInv, TestTypeOK, Tests
  <2>3. \A t \in Tests : ~group[t].spawned
    BY <1>2 DEF ConnInv, ProbesBelongToRun
  <2> QED
    BY <2>1, <2>2, <2>3 DEF ConnInv, TestTypeOK, StarterAlone, ProbesBelongToRun, ResultsComplete
<1> QED
  BY <1>1, <1>2

LEMMA ConnReload ==
  ASSUME ConnInv, NEW fails \in BOOLEAN, Reload(fails)
  PROVE  ConnInv'
<1>1. CASE fails
  <2>1. /\ test' = [test EXCEPT !.running = FALSE, !.results = {}, !.err = TRUE]
        /\ starter' = "none" /\ group' = group /\ profiles' = profiles /\ others' = others
    BY <1>1 DEF Reload, FinishWith
  <2>2. \A t \in Tests : ~group[t].spawned
    BY DEF Reload, ConnInv, StarterAlone
  <2> QED
    BY <2>1, <2>2 DEF ConnInv, TestTypeOK, StarterAlone, ProbesBelongToRun, ResultsComplete
<1>2. CASE ~fails
  <2>1. /\ UNCHANGED testVars /\ starter = "reload" /\ starter' = "snapshot"
        /\ profiles' = profiles /\ others' = others
    BY <1>2 DEF Reload, testVars
  <2> QED
    BY <2>1 DEF ConnInv, testVars, TestTypeOK, StarterAlone, ProbesBelongToRun, ResultsComplete
<1> QED
  BY <1>1, <1>2

LEMMA ConnSnapshot ==
  ASSUME ConnInv, Snapshot
  PROVE  ConnInv'
<1>1. test.running /\ test.id \in Tests /\ \A t \in Tests : ~group[t].spawned
  BY DEF Snapshot, ConnInv, StarterAlone
<1>2. /\ group' = [group EXCEPT ![test.id] =
                     [spawned |-> TRUE, asked |-> profiles, recorded |-> {}, probing |-> profiles]]
      /\ starter' = "none" /\ test' = test /\ profiles' = profiles /\ others' = others
  BY DEF Snapshot, Group
<1> QED
  BY <1>1, <1>2 DEF ConnInv, TestTypeOK, StarterAlone, ProbesBelongToRun, ResultsComplete

LEMMA ConnProbe ==
  ASSUME ConnInv, NEW t \in Tests, NEW p \in Profiles, Record(t, p) \/ Done(t, p)
  PROVE  ConnInv'
<1>1. /\ \/ group' = [group EXCEPT ![t].recorded = @ \cup {p}]
         \/ group' = [group EXCEPT ![t].probing = @ \ {p}]
      /\ test' = test /\ starter' = starter /\ profiles' = profiles /\ others' = others
  BY DEF Record, Done
<1>2. \A u \in Tests : /\ group'[u].spawned = group[u].spawned
                       /\ group'[u].asked = group[u].asked
  BY <1>1 DEF ConnInv, TestTypeOK
<1>3. group' \in [Tests -> [spawned : BOOLEAN, asked : SUBSET Profiles,
                           recorded : SUBSET Profiles, probing : SUBSET Profiles]]
  BY <1>1 DEF ConnInv, TestTypeOK
<1>4. test.id # 0 => test.id \in Tests
  BY DEF ConnInv, TestTypeOK
<1> QED
  BY <1>1, <1>2, <1>3, <1>4 DEF ConnInv, TestTypeOK, StarterAlone, ProbesBelongToRun, ResultsComplete

LEMMA ConnFinish ==
  ASSUME ConnInv, NEW t \in Tests, Finish(t)
  PROVE  ConnInv'
<1>1. t = test.id /\ test.running /\ starter \notin {"reload", "snapshot"}
  BY DEF Finish, ConnInv, ProbesBelongToRun, StarterAlone
<1>2. group[t].asked \ group[t].probing = group[t].asked
  BY DEF Finish
<1>3. /\ test' = [test EXCEPT !.running = FALSE, !.results = group[t].asked, !.err = FALSE]
      /\ group' = [group EXCEPT ![t].spawned = FALSE]
      /\ starter' = starter /\ profiles' = profiles /\ others' = others
  BY <1>2 DEF Finish, FinishWith
<1>4. /\ test'.id = test.id /\ ~test'.running /\ test'.results = group[t].asked
      /\ group'[t].asked = group[t].asked /\ ~group'[t].spawned
      /\ \A u \in Tests \ {t} : group'[u] = group[u]
  BY <1>3 DEF ConnInv, TestTypeOK
<1>5. TestTypeOK'
  BY <1>3 DEF ConnInv, TestTypeOK
<1>6. \A u \in Tests : ~group'[u].spawned
  BY <1>1, <1>4 DEF ConnInv, ProbesBelongToRun
<1> QED
  BY <1>1, <1>3, <1>4, <1>5, <1>6 DEF ConnInv, StarterAlone, ProbesBelongToRun, ResultsComplete

LEMMA ConnStep ==
  ASSUME ConnInv, [TestNext]_callVars
  PROVE  ConnInv'
<1>1. CASE Enter
  BY <1>1, ConnUnchanged DEF Enter, ConnInv, TestTypeOK
<1>2. CASE Starting
  BY <1>2, ConnStart, ConnReload, ConnSnapshot DEF Starting
<1>3. CASE Probing
  BY <1>3, ConnProbe, ConnFinish DEF Probing
<1>4. CASE Reconfigure
  BY <1>4, ConnUnchanged DEF Reconfigure, ConnInv, TestTypeOK
<1>5. CASE OtherActivity
  <2>1. others' \in 0..MaxOthers
    BY <1>5, TestAssumption DEF OtherActivity, ConnInv, TestTypeOK
  <2> QED
    BY <1>5, <2>1, ConnUnchanged DEF OtherActivity, connVars, ConnInv, TestTypeOK
<1>6. CASE UNCHANGED callVars
  BY <1>6, ConnUnchanged DEF callVars, connVars, ConnInv, TestTypeOK
<1> QED
  BY <1>1, <1>2, <1>3, <1>4, <1>5, <1>6 DEF TestNext

THEOREM ConnInvariant == TestSpec => []ConnInv
BY ConnInit, ConnStep, PTL DEF TestSpec

(***************************************************************************)
(* A finished test has a result for every profile it set out to probe,     *)
(* also when the configuration has changed meanwhile.                      *)
(***************************************************************************)
THEOREM ResultsAreComplete == TestSpec => []ResultsComplete
BY ConnInvariant, PTL DEF ConnInv

(***************************************************************************)
(* No probe outlives its test, whenever the next one is asked for: what is *)
(* published is never written again.                                       *)
(***************************************************************************)
THEOREM ProbesEndWithTheirTest == TestSpec => []ProbesBelongToRun
BY ConnInvariant, PTL DEF ConnInv

(* Every step of the dialog is one of the test, of another operation, or   *)
(* leaves both alone.                                                      *)
LEMMA StepOfTest ==
  ASSUME [Next]_vars
  PROVE  [TestNext]_callVars
BY DEF Next, vars, User, Timer, DialogStep, Background, TestNext, CreationFails, Panic, RestoreFont,
       Show, ShowAgain, ClickRefresh, ClickTest, Close, ShowReport, ShowActivity, PollTest, Test,
       Initialize, Closed

(***************************************************************************)
(* The dialog is a caller of the connection test like any other: what is   *)
(* true of the test at every caller's hands is true under the dialog.      *)
(***************************************************************************)
THEOREM DialogDrivesTest == Spec => TestSpec
<1>1. Init => TestInit
  BY DEF Init
<1> QED
  BY <1>1, StepOfTest, PTL DEF Spec, TestSpec

-----------------------------------------------------------------------------
(***************************************************************************)
(* The dialog knows of a running test wherever it waits for the user with  *)
(* the timer off, or is about to: its own thread is the only one that      *)
(* starts tests, and it polls after it has.                                *)
(***************************************************************************)
Idle ==
  dlg = "ready" \/ (dlg \in {"report", "activity"} /\ after = "ready")

DialogInv ==
  /\ ConnInv
  /\ after \in {"poll", "ready"}
  /\ starter # "none" => dlg = "test"
  /\ Idle /\ ~polling => ~test.running
  /\ ClickStartsTest

(* Behind the dialog's back a test can only end. *)
LEMMA BackgroundEndsTests ==
  ASSUME DialogInv, Background
  PROVE  starter' = starter /\ (test'.running => test.running) /\ UNCHANGED dialogVars
<1>1. UNCHANGED dialogVars
  BY DEF Background
<1>2. CASE Reconfigure \/ OtherActivity
  BY <1>1, <1>2 DEF Reconfigure, OtherActivity, connVars, testVars
<1>3. ASSUME NEW t \in Tests, Finish(t) \/ \E p \in Profiles : Record(t, p) \/ Done(t, p)
      PROVE  starter' = starter /\ (test'.running => test.running)
  <2>1. CASE Finish(t)
    <3>1. starter' = starter /\ test' = [test EXCEPT !.running = FALSE, !.results = test'.results,
                                                    !.err = FALSE]
      BY <2>1 DEF Finish, FinishWith, DialogInv, ConnInv, TestTypeOK
    <3>2. ~test'.running
      BY <3>1 DEF DialogInv, ConnInv, TestTypeOK
    <3> QED
      BY <3>1, <3>2
  <2>2. CASE \E p \in Profiles : Record(t, p) \/ Done(t, p)
    BY <2>2 DEF Record, Done
  <2> QED
    BY <1>3, <2>1, <2>2
<1> QED
  BY <1>1, <1>2, <1>3 DEF Background, Probing

LEMMA DialogInit == Init => DialogInv
BY ConnInit DEF Init, TestInit, DialogInv, ClickStartsTest, Idle

LEMMA DialogStepKeeps ==
  ASSUME DialogInv, [Next]_vars
  PROVE  DialogInv'
<1>1. ConnInv'
  BY ConnStep, StepOfTest DEF DialogInv
<1>2. CASE Background
  BY <1>1, <1>2, BackgroundEndsTests
     DEF DialogInv, ClickStartsTest, Idle, dialogVars, showVars
<1>3. CASE Test
  <2>1. dlg = "test" /\ Starting
    BY <1>3 DEF Test
  <2>2. starter' # "start"
    BY <2>1 DEF Starting, StartTest, Begin, Reload, Snapshot
  <2>3. \/ starter' = "none" /\ dlg' = "report" /\ after' = "poll"
        \/ starter' # "none" /\ dlg' = "test" /\ after' = after
    BY <1>3, <2>1 DEF Test, ShowReportThen
  <2> QED
    BY <1>1, <2>2, <2>3 DEF DialogInv, ClickStartsTest, Idle
<1>4. CASE ClickTest
  <2>1. /\ dlg = "ready" /\ ~polling /\ starter' = "start" /\ dlg' = "test"
        /\ test' = test /\ after' = after
    BY <1>4 DEF ClickTest, Enter, testVars
  <2>2. ~test'.running
    BY <2>1 DEF DialogInv, Idle
  <2> QED
    BY <1>1, <2>1, <2>2 DEF DialogInv, ClickStartsTest, Idle
<1>5. CASE PollTest
  <2>1. /\ dlg = "poll" /\ starter' = starter /\ test' = test
        /\ after' \in {after, "ready"}
        /\ \/ dlg' = "ready" /\ polling'
           \/ ~test.running
    BY <1>5 DEF PollTest, ShowReportThen, callVars, connVars, testVars, DialogInv, ConnInv, TestTypeOK
  <2> QED
    BY <1>1, <2>1 DEF DialogInv, ClickStartsTest, Idle
<1>6. CASE \/ Show \/ ShowAgain \/ ClickRefresh \/ Close \/ Timer \/ CreationFails \/ Panic
           \/ RestoreFont \/ ShowReport \/ ShowActivity \/ Initialize \/ Closed
  <2>1. starter' = starter /\ test' = test /\ dlg # "test"
    BY <1>6 DEF Show, ShowAgain, ClickRefresh, Close, Timer, CreationFails, Panic, RestoreFont,
                ShowReport, ShowActivity, Initialize, Closed, ShowReportThen, callVars, connVars, testVars
  <2>2. after' \in {"poll", "ready"} /\ (Idle' /\ ~polling' => Idle /\ ~polling)
    BY <1>6 DEF DialogInv, Show, ShowAgain, ClickRefresh, Close, Timer, CreationFails, Panic, RestoreFont,
                ShowReport, ShowActivity, Initialize, Closed, ShowReportThen, Idle
  <2> QED
    BY <1>1, <2>1, <2>2 DEF DialogInv, ClickStartsTest
<1>7. CASE UNCHANGED vars
  BY <1>1, <1>7 DEF vars, callVars, connVars, testVars, dialogVars, DialogInv, ClickStartsTest, Idle
<1> QED
  BY <1>2, <1>3, <1>4, <1>5, <1>6, <1>7 DEF Next, User, DialogStep

(***************************************************************************)
(* A click on Test always begins a test, although command drops what       *)
(* StartConnectionTest answers: the timer's state, kept up to date by the  *)
(* polls, stands in for the test's.                                        *)
(***************************************************************************)
THEOREM ClicksStartTests == Spec => []ClickStartsTest
<1>1. DialogInv => ClickStartsTest
  BY DEF DialogInv
<1> QED
  BY <1>1, DialogInit, DialogStepKeeps, PTL DEF Spec

(***************************************************************************)
(* An open dialog handles its messages, whatever second dialog the host    *)
(* asks for meanwhile.                                                     *)
(***************************************************************************)
THEOREM OpenDialogAnswers == Spec => []OpenAnswers
<1>1. Init => OpenAnswers
  BY DEF Init, OpenAnswers
<1>2. OpenAnswers /\ [Next]_vars => OpenAnswers'
  BY DEF OpenAnswers, Next, vars, dialogVars, showVars, User, Timer, DialogStep, Background,
         CreationFails, Panic, RestoreFont, Show, ShowAgain, ClickRefresh, ClickTest, Close,
         ShowReport, ShowActivity, PollTest, Test, Initialize, Closed, ShowReportThen
<1> QED
  BY <1>1, <1>2, PTL DEF Spec

(***************************************************************************)
(* The text's font is made once and replaced, and goes with the dialog,    *)
(* however that ends.                                                      *)
(***************************************************************************)
FontInv ==
  \/ font = FALSE /\ fonts = 0
  \/ font = TRUE /\ fonts = 1 /\ dlg \notin {"closed", "creating"}

LEMMA FontInit == Init => FontInv
BY DEF Init, FontInv

LEMMA FontStep ==
  ASSUME DialogInv, FontInv, [Next]_vars
  PROVE  FontInv'
<1>1. CASE Closed
  BY <1>1 DEF Closed, FontInv
<1>2. CASE Initialize \/ RestoreFont
  <2>1. ApplyFont /\ dlg' \notin {"closed", "creating"}
    BY <1>2 DEF Initialize, RestoreFont, ShowReportThen
  <2> QED
    BY <2>1 DEF ApplyFont, ReplaceFont, FontInv
<1>3. CASE UNCHANGED fontVars /\ (dlg' \in {"closed", "creating"} => dlg \in {"closed", "creating"})
  BY <1>3 DEF FontInv, fontVars
<1> QED
  BY <1>1, <1>2, <1>3
     DEF DialogInv, Next, vars, dialogVars, User, Timer, DialogStep, Background, CreationFails, Panic, Show,
         ShowAgain, ClickRefresh, ClickTest, Close, ShowReport, ShowActivity, PollTest, Test,
         ShowReportThen

THEOREM FontsAreReleased == Spec => []FontsReleased
<1>1. FontInv => FontsReleased
  BY DEF FontInv, FontsReleased
<1> QED
  BY <1>1, FontInit, FontStep, DialogInit, DialogStepKeeps, PTL DEF Spec

-----------------------------------------------------------------------------
(* The activity log, in company.                                           *)

LEMMA StepOfLog ==
  ASSUME [TestNext]_callVars
  PROVE  [LogNext]_logVars
<1>1. CASE Starting \/ Enter \/ Reconfigure
  BY <1>1 DEF Starting, StartTest, Reload, Snapshot, Enter, Reconfigure
<1>2. CASE Probing
  <2>1. ASSUME NEW t \in Tests, NEW p \in Profiles, Record(t, p) PROVE LogNext
    <3>1. [test |-> t, profile |-> p] \in Activities
      BY TestAssumption DEF Probes
    <3> QED
      BY <2>1, <3>1 DEF Record, LogNext
  <2> QED
    BY <1>2, <2>1 DEF Probing, Finish, Done
<1>3. CASE OtherActivity
  BY <1>3, TestAssumption DEF OtherActivity, LogNext
<1>4. CASE UNCHANGED callVars
  BY <1>4 DEF callVars
<1> QED
  BY <1>1, <1>2, <1>3, <1>4 DEF TestNext

(***************************************************************************)
(* Beside probes that end in any order and other operations, the log shows *)
(* the most recent activities, newest first.                               *)
(***************************************************************************)
THEOREM LogKeepsRecent == TestSpec => RecentRefinement
<1>1. TestInit => LogInit
  BY DEF TestInit
<1>2. TestSpec => LogSpec
  BY <1>1, StepOfLog, PTL DEF TestSpec, LogSpec
<1> QED
  BY <1>2, RingKeepsRecent

-----------------------------------------------------------------------------
(* The report of a finished test.                                          *)

(* An activity among the newest n is among the newest n + 1 after an add,  *)
(* as long as the log has that many slots; the one added is the newest.    *)
LEMMA StaysRecent ==
  ASSUME LogTypeOK, NEW a \in Activities, Add(a),
         NEW n \in Nat, n + 1 <= Capacity,
         NEW b, \E i \in 1..count : i <= n /\ NewestFirst[i] = b
  PROVE  \E i \in 1..count' : i <= n + 1 /\ NewestFirst'[i] = b
<1>1. PICK i \in 1..count : i <= n /\ NewestFirst[i] = b
  OBVIOUS
<1>2. i + 1 \in 1..count'
  <2>1. count' = IF count < Capacity THEN count + 1 ELSE count
    BY DEF Add
  <2>2. i \in Nat \ {0} /\ i + 1 <= Capacity /\ i <= count /\ count \in Nat /\ count <= Capacity
    BY <1>1, LogAssumption DEF LogTypeOK
  <2> QED
    BY <2>1, <2>2, LogAssumption
<1>3. NewestFirst'[i + 1] = NewestFirst[i]
  BY <1>1, <1>2, AddShifts DEF LogTypeOK
<1> QED
  BY <1>1, <1>2, <1>3

LEMMA IsRecent ==
  ASSUME LogTypeOK, NEW a \in Activities, Add(a), NEW n \in Nat \ {0}
  PROVE  \E i \in 1..count' : i <= n /\ NewestFirst'[i] = a
<1>1. 1 \in 1..count' /\ NewestFirst'[1] = a
  BY AddShifts
<1> QED
  BY <1>1

(***************************************************************************)
(* The recorded probes of test t are among the newest activities, as many  *)
(* as have been recorded of it and of other operations since it began.     *)
(***************************************************************************)
Listed(t) ==
  LET newest == others + Cardinality(group[t].recorded)
  IN  newest <= Capacity =>
        \A p \in group[t].recorded : \E i \in 1..count :
          i <= newest /\ NewestFirst[i] = [test |-> t, profile |-> p]

(***************************************************************************)
(* A goroutine has recorded before it is done, and a test that has not     *)
(* begun has recorded nothing.                                             *)
(***************************************************************************)
GroupsFit ==
  \A t \in Tests :
    /\ group[t].recorded \subseteq group[t].asked
    /\ group[t].asked \ group[t].probing \subseteq group[t].recorded
    /\ group[t].probing \subseteq group[t].asked
    /\ ~group[t].spawned => group[t].probing = {}
    /\ t > test.id => group[t].asked = {}

ListedInv ==
  /\ LogTypeOK
  /\ GroupsFit
  /\ test.err => test.results = {}
  /\ test.id \in Tests => Listed(test.id)

LEMMA ListedInit == TestInit => ListedInv
<1> SUFFICES ASSUME TestInit PROVE ListedInv
  OBVIOUS
<1>1. LogTypeOK
  BY LogTypeInit DEF TestInit
<1>2. test = [id |-> 0, running |-> FALSE, err |-> FALSE, results |-> {}]
      /\ \A t \in Tests : group[t] = [spawned |-> FALSE, asked |-> {}, recorded |-> {}, probing |-> {}]
  BY DEF TestInit, Group
<1> QED
  BY <1>1, <1>2 DEF ListedInv, GroupsFit, Tests

(* A step that leaves the log alone: the test has recorded nothing yet, or *)
(* it is the same with the same recorded.                                  *)
LEMMA ListedStands ==
  ASSUME ListedInv, LogTypeOK', GroupsFit', UNCHANGED logVars,
         test'.err => test'.results = {},
         \A t \in Tests : t = test'.id =>
           \/ group'[t].recorded = {}
           \/ t = test.id /\ others' = others /\ group'[t].recorded = group[t].recorded
  PROVE  ListedInv'
<1>1. UNCHANGED <<count, NewestFirst>>
  BY DEF logVars, NewestFirst, Slot
<1>2. ASSUME NEW t \in Tests, t = test'.id PROVE Listed(t)'
  BY <1>1, <1>2 DEF Listed, ListedInv
<1> QED
  BY <1>2 DEF ListedInv

LEMMA RecordedIsFinite ==
  ASSUME ConnInv, NEW t \in Tests
  PROVE  IsFiniteSet(group[t].recorded) /\ Cardinality(group[t].recorded) \in Nat
<1>1. group[t].recorded \in SUBSET Profiles
  BY DEF ConnInv, TestTypeOK
<1>2. IsFiniteSet(group[t].recorded)
  BY <1>1, FS_Subset, TestAssumption
<1> QED
  BY <1>2, FS_CardinalityType

LEMMA ListedRecord ==
  ASSUME ConnInv, ListedInv, NEW t \in Tests, NEW p \in Profiles, Record(t, p)
  PROVE  ListedInv'
<1>1. /\ p \in group[t].asked \ group[t].recorded /\ test' = test /\ others' = others
      /\ group' = [group EXCEPT ![t].recorded = @ \cup {p}]
      /\ Add([test |-> t, profile |-> p])
  BY DEF Record
<1>2. t = test.id
  <2>1. p \in group[t].probing
    BY <1>1 DEF ListedInv, GroupsFit
  <2>2. group[t].spawned
    BY <2>1 DEF ListedInv, GroupsFit
  <2> QED
    BY <2>2 DEF ConnInv, ProbesBelongToRun
<1>3. [test |-> t, profile |-> p] \in Activities
  BY TestAssumption DEF Probes
<1>4. LogTypeOK'
  BY <1>1, <1>3, LogTypeStep DEF ListedInv, LogNext
<1>5. GroupsFit'
  BY <1>1 DEF ListedInv, GroupsFit, ConnInv, TestTypeOK
<1>6. group'[t].recorded = group[t].recorded \cup {p} /\ p \notin group[t].recorded
  BY <1>1 DEF ConnInv, TestTypeOK
<1>7. PICK n \in Nat : n = others + Cardinality(group[t].recorded)
  BY RecordedIsFinite, TestAssumption DEF ConnInv, TestTypeOK
<1>8. Cardinality(group'[t].recorded) = Cardinality(group[t].recorded) + 1
  BY <1>6, RecordedIsFinite, FS_AddElement
<1>9. others' + Cardinality(group'[t].recorded) = n + 1
  BY <1>1, <1>7, <1>8, RecordedIsFinite, TestAssumption DEF ConnInv, TestTypeOK
<1>10. ASSUME n + 1 <= Capacity, NEW q \in group'[t].recorded
       PROVE  \E i \in 1..count' : i <= n + 1 /\ NewestFirst'[i] = [test |-> t, profile |-> q]
  <2>1. CASE q = p
    BY <1>1, <1>3, <2>1, IsRecent DEF ListedInv
  <2>2. CASE q \in group[t].recorded
    <3>1. n <= Capacity
      BY <1>10, LogAssumption
    <3>2. \E i \in 1..count : i <= n /\ NewestFirst[i] = [test |-> t, profile |-> q]
      BY <1>2, <1>7, <2>2, <3>1 DEF ListedInv, Listed
    <3> QED
      BY <1>1, <1>3, <1>10, <3>2, StaysRecent DEF ListedInv
  <2> QED
    BY <1>6, <2>1, <2>2
<1>11. Listed(t)'
  BY <1>9, <1>10 DEF Listed
<1> QED
  BY <1>2, <1>1, <1>4, <1>5, <1>11 DEF ListedInv

LEMMA ListedDone ==
  ASSUME ConnInv, ListedInv, NEW t \in Tests, NEW p \in Profiles, Done(t, p)
  PROVE  ListedInv'
<1>1. /\ p \in group[t].recorded /\ UNCHANGED <<test, others, logVars>>
      /\ group' = [group EXCEPT ![t].probing = @ \ {p}]
  BY DEF Done
<1>2. \A u \in Tests : group'[u].recorded = group[u].recorded
  BY <1>1 DEF ConnInv, TestTypeOK
<1>3. GroupsFit'
  BY <1>1 DEF ListedInv, GroupsFit, ConnInv, TestTypeOK
<1>4. LogTypeOK'
  BY <1>1 DEF ListedInv, LogTypeOK, logVars
<1> QED
  BY <1>1, <1>2, <1>3, <1>4, ListedStands DEF ListedInv

LEMMA ListedOther ==
  ASSUME ConnInv, ListedInv, OtherActivity
  PROVE  ListedInv'
<1>1. /\ test' = test /\ group' = group /\ others' = others + 1 /\ Add(Other)
  BY DEF OtherActivity, connVars, testVars
<1>2. Other \in Activities
  BY TestAssumption
<1>3. LogTypeOK'
  BY <1>1, <1>2, LogTypeStep DEF ListedInv, LogNext
<1>4. GroupsFit'
  BY <1>1 DEF ListedInv, GroupsFit
<1>5. ASSUME NEW t \in Tests, t = test.id PROVE Listed(t)'
  <2>1. group'[t].recorded = group[t].recorded
    BY <1>1
  <2>2. PICK n \in Nat : n = others + Cardinality(group[t].recorded)
    BY RecordedIsFinite, TestAssumption DEF ConnInv, TestTypeOK
  <2>3. others' + Cardinality(group'[t].recorded) = n + 1
    BY <1>1, <2>1, <2>2, RecordedIsFinite, TestAssumption DEF ConnInv, TestTypeOK
  <2>4. ASSUME n + 1 <= Capacity, NEW q \in group[t].recorded
        PROVE  \E i \in 1..count' : i <= n + 1 /\ NewestFirst'[i] = [test |-> t, profile |-> q]
    <3>1. n <= Capacity
      BY <2>4, LogAssumption
    <3>2. \E i \in 1..count : i <= n /\ NewestFirst[i] = [test |-> t, profile |-> q]
      BY <1>5, <2>2, <2>4, <3>1 DEF ListedInv, Listed
    <3> QED
      BY <1>1, <1>2, <2>4, <3>2, StaysRecent DEF ListedInv
  <2> QED
    BY <2>1, <2>3, <2>4 DEF Listed
<1> QED
  BY <1>1, <1>3, <1>4, <1>5 DEF ListedInv

LEMMA ListedStarting ==
  ASSUME ConnInv, ListedInv, Starting
  PROVE  ListedInv'
<1>1. UNCHANGED logVars
  BY DEF Starting, StartTest, Reload, Snapshot
<1>2. LogTypeOK'
  BY <1>1 DEF ListedInv, LogTypeOK, logVars
<1>3. CASE StartTest
  <2>1. CASE test.running
    <3>1. UNCHANGED <<test, group, others>>
      BY <1>3, <2>1 DEF StartTest, ConnInv, TestTypeOK
    <3> QED
      BY <1>1, <1>2, <3>1, ListedStands DEF ListedInv, GroupsFit
  <2>2. CASE ~test.running
    <3>1. /\ test' = [id |-> test.id + 1, running |-> TRUE, err |-> FALSE, results |-> {}]
          /\ group' = group
      BY <1>3, <2>2 DEF StartTest, Begin
    <3>2. test.id \in Nat /\ \A t \in Tests : t \in Nat /\ (t >= test.id + 1 => t > test.id)
      BY TestAssumption DEF ConnInv, TestTypeOK, Tests
    <3>3. GroupsFit'
      BY <3>1, <3>2 DEF ListedInv, GroupsFit
    <3>4. \A t \in Tests : t = test'.id => group'[t].recorded = {}
      BY <3>1, <3>2 DEF ListedInv, GroupsFit
    <3> QED
      BY <1>1, <1>2, <3>1, <3>3, <3>4, ListedStands
  <2> QED
    BY <2>1, <2>2
<1>4. CASE \E fails \in BOOLEAN : Reload(fails)
  <2>1. /\ group' = group /\ others' = others /\ test'.id = test.id
        /\ test' = test \/ test'.results = {}
    BY <1>4 DEF Reload, FinishWith, ConnInv, TestTypeOK
  <2> QED
    BY <1>1, <1>2, <2>1, ListedStands DEF ListedInv, GroupsFit
<1>5. CASE Snapshot
  <2>1. /\ group' = [group EXCEPT ![test.id] =
                       [spawned |-> TRUE, asked |-> profiles, recorded |-> {}, probing |-> profiles]]
        /\ test' = test
    BY <1>5 DEF Snapshot, Group
  <2>2. test.id \in Tests
    BY <1>5 DEF Snapshot, ConnInv, StarterAlone
  <2>3. GroupsFit'
    BY <2>1, <2>2 DEF ListedInv, GroupsFit, ConnInv, TestTypeOK, Tests
  <2>4. group'[test.id].recorded = {}
    BY <2>1, <2>2 DEF ConnInv, TestTypeOK
  <2> QED
    BY <1>1, <1>2, <2>1, <2>3, <2>4, ListedStands DEF ListedInv
<1> QED
  BY <1>3, <1>4, <1>5 DEF Starting

LEMMA ListedFinish ==
  ASSUME ConnInv, ListedInv, NEW t \in Tests, Finish(t)
  PROVE  ListedInv'
<1>1. /\ UNCHANGED <<logVars, others>>
      /\ test' = [test EXCEPT !.running = FALSE, !.results = group[t].asked \ group[t].probing,
                              !.err = FALSE]
      /\ group' = [group EXCEPT ![t].spawned = FALSE] /\ group[t].probing = {}
  BY DEF Finish, FinishWith
<1>2. LogTypeOK'
  BY <1>1 DEF ListedInv, LogTypeOK, logVars
<1>3. \A u \in Tests : /\ group'[u].asked = group[u].asked
                       /\ group'[u].recorded = group[u].recorded
                       /\ group'[u].probing = group[u].probing
                       /\ u # t => group'[u].spawned = group[u].spawned
  BY <1>1 DEF ConnInv, TestTypeOK
<1>4. test'.id = test.id /\ ~test'.err
  BY <1>1 DEF ConnInv, TestTypeOK
<1>5. GroupsFit'
  BY <1>1, <1>3, <1>4 DEF ListedInv, GroupsFit
<1> QED
  BY <1>1, <1>2, <1>3, <1>4, <1>5, ListedStands

LEMMA ListedStep ==
  ASSUME ConnInv, ListedInv, [TestNext]_callVars
  PROVE  ListedInv'
<1>1. CASE Probing
  BY <1>1, ListedFinish, ListedRecord, ListedDone DEF Probing
<1>2. CASE Starting
  BY <1>2, ListedStarting
<1>3. CASE OtherActivity
  BY <1>3, ListedOther
<1>4. CASE Enter \/ Reconfigure \/ UNCHANGED callVars
  <2>1. UNCHANGED <<test, group, logVars, others>>
    BY <1>4 DEF Enter, Reconfigure, callVars, connVars, testVars
  <2> QED
    BY <2>1, ListedStands DEF ListedInv, GroupsFit, LogTypeOK, logVars
<1> QED
  BY <1>1, <1>2, <1>3, <1>4 DEF TestNext

(***************************************************************************)
(* Between the two sections of a report the dialog's thread starts no      *)
(* test, so what the first section called finished still is.               *)
(***************************************************************************)
ReportInv ==
  /\ DialogInv
  /\ ListedInv
  /\ dlg = "activity" /\ shown = "finished" => test.id # 0 /\ ~test.running
  /\ complete

LEMMA ReportInit == Init => ReportInv
BY DialogInit, ListedInit DEF Init, ReportInv

LEMMA FinishedIsListed ==
  ASSUME ReportInv, dlg = "activity", shown = "finished",
         others + Cardinality(test.results) <= Capacity
  PROVE  \A p \in test.results : \E i \in 1..count :
           NewestFirst[i] = [test |-> test.id, profile |-> p]
<1>1. CASE test.err
  BY <1>1 DEF ReportInv, ListedInv
<1>2. CASE ~test.err
  <2>1. test.id \in Tests /\ ~test.running
    BY DEF ReportInv, DialogInv, ConnInv, TestTypeOK
  <2>2. test.results = group[test.id].asked
    BY <1>2, <2>1 DEF ReportInv, DialogInv, ConnInv, ResultsComplete
  <2>3. group[test.id].probing = {}
    BY <2>1 DEF ReportInv, DialogInv, ConnInv, ProbesBelongToRun, ListedInv, GroupsFit
  <2>4. test.results = group[test.id].recorded
    BY <2>1, <2>2, <2>3 DEF ReportInv, ListedInv, GroupsFit
  <2> QED
    BY <2>1, <2>4 DEF ReportInv, ListedInv, Listed
<1> QED
  BY <1>1, <1>2

LEMMA ReportStep ==
  ASSUME ReportInv, [Next]_vars
  PROVE  ReportInv'
<1>1. DialogInv' /\ ListedInv'
  BY DialogStepKeeps, ListedStep, StepOfTest DEF ReportInv, DialogInv
<1>2. CASE ShowActivity
  <2>1. complete'
    BY <1>2, FinishedIsListed DEF ShowActivity
  <2>2. dlg' # "activity"
    BY <1>2 DEF ShowActivity, ReportInv, DialogInv
  <2> QED
    BY <1>1, <2>1, <2>2 DEF ReportInv
<1>3. CASE ShowReport
  BY <1>1, <1>3 DEF ShowReport, ReportInv, callVars, connVars, testVars
<1>4. CASE Background
  <2>1. UNCHANGED <<dlg, shown, complete>> /\ (test'.running => test.running)
    BY <1>4, BackgroundEndsTests DEF ReportInv, dialogVars, textVars
  <2>2. test'.id = test.id
    BY <1>4 DEF Background, Probing, Finish, FinishWith, Record, Done, Reconfigure, OtherActivity,
                connVars, testVars, ReportInv, DialogInv, ConnInv, TestTypeOK
  <2> QED
    BY <1>1, <2>1, <2>2 DEF ReportInv
<1>5. CASE UNCHANGED vars
  BY <1>1, <1>5 DEF vars, callVars, connVars, testVars, dialogVars, textVars, ReportInv
<1>6. CASE complete' = complete /\ dlg' # "activity"
  BY <1>1, <1>6 DEF ReportInv
<1> QED
  BY <1>2, <1>3, <1>4, <1>5, <1>6
     DEF Next, User, Timer, DialogStep, CreationFails, Panic, RestoreFont, Show, ShowAgain, ClickRefresh,
         ClickTest, Close, PollTest, Test, Initialize, Closed, ShowReportThen, dialogVars, textVars

(***************************************************************************)
(* A report that calls the test finished lists all its probes, although    *)
(* the test and the activities are read one after the other while probes   *)
(* return and other operations are recorded, for any capacity and whatever *)
(* was recorded before the test began: as long as the log has room for the *)
(* probes and for the other operations recorded since it began.            *)
(***************************************************************************)
THEOREM ReportsListProbes == Spec => []ProbesListed
<1>1. ReportInv => ProbesListed
  BY DEF ReportInv, ProbesListed
<1> QED
  BY <1>1, ReportInit, ReportStep, PTL DEF Spec

-----------------------------------------------------------------------------
(* Types                                                                   *)

ShowTypeOK ==
  /\ active \in BOOLEAN
  /\ dlg \in {"closed", "creating", "report", "activity", "poll", "ready", "test", "ending"}
  /\ after \in {"poll", "ready"}
  /\ polling \in BOOLEAN
  /\ shown \in {"none", "notRun", "running", "finished"}
  /\ failure \in BOOLEAN
  /\ answer \in {"none", "nil", "error", "alreadyOpen"}

LEMMA ShowTypeStep ==
  ASSUME ShowTypeOK, ConnInv, [Next]_vars
  PROVE  ShowTypeOK'
<1>1. CASE User
  BY <1>1 DEF User, Show, ShowAgain, ClickRefresh, ClickTest, Close, ShowReportThen, ShowTypeOK, showVars,
              textVars
<1>2. CASE ShowReport \/ ShowActivity
  BY <1>2 DEF ShowReport, ShowActivity, ShowTypeOK, showVars
<1>3. CASE PollTest
  BY <1>3 DEF PollTest, ShowReportThen, ShowTypeOK, showVars, textVars
<1>4. CASE Test \/ Initialize \/ Closed
  BY <1>4 DEF Test, Initialize, Closed, ShowReportThen, ShowTypeOK, showVars, textVars
<1>5. CASE Timer \/ CreationFails \/ Panic \/ RestoreFont
  BY <1>5 DEF Timer, CreationFails, Panic, RestoreFont, ShowTypeOK, showVars, textVars
<1>6. CASE UNCHANGED dialogVars
  BY <1>6 DEF dialogVars, showVars, textVars, ShowTypeOK
<1> QED
  BY <1>1, <1>2, <1>3, <1>4, <1>5, <1>6 DEF Next, DialogStep, Background, vars

(***************************************************************************)
(* Every variable of the log, the test and the dialog keeps its type.      *)
(***************************************************************************)
THEOREM TypeCorrect == Spec => []TypeOK
<1>1. Init => ShowTypeOK
  BY DEF Init, ShowTypeOK
<1>2. ReportInv /\ FontInv /\ ShowTypeOK => TypeOK
  <2>1. ASSUME FontInv PROVE font \in BOOLEAN /\ fonts \in 0..1
    <3>1. (font = FALSE \/ font = TRUE) /\ (fonts = 0 \/ fonts = 1)
      BY <2>1, Zenon DEF FontInv
    <3>2. font \in BOOLEAN
      BY <3>1, Zenon
    <3> QED
      BY <3>1, <3>2
  <2>2. ReportInv => LogTypeOK /\ TestTypeOK /\ complete \in BOOLEAN
    BY DEF ReportInv, ListedInv, DialogInv, ConnInv
  <2> QED
    BY <2>1, <2>2 DEF ShowTypeOK, TypeOK
<1>3. ReportInv => ConnInv /\ DialogInv
  BY DEF ReportInv, DialogInv
<1> QED
  BY <1>1, <1>2, <1>3, ReportInit, ReportStep, FontInit, FontStep, ShowTypeStep, PTL DEF Spec
=============================================================================
