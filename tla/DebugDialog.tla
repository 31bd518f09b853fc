---------------------------- MODULE DebugDialog ----------------------------
(***************************************************************************)
(* The debug dialog of internal/debugui/dialog.go, as showDebugDialog of   *)
(* cmd/wfxs3/main.go opens it: it starts the connection test of ConnTest,  *)
(* polls it with a window timer and shows the debug report.  The dialog    *)
(* runs on the host's thread; it may be closed and opened again while a    *)
(* test runs, and the host may ask for a second one while it is open.      *)
(***************************************************************************)
EXTENDS ConnTest

VARIABLES
  active,    \* the dialog procedure finds a dialog in `active`
  dlg,       \* where the dialog's thread is
  after,     \* where it goes on to once the report is shown
  polling,   \* d.polling: the timer runs and the Test button is disabled
  shown,     \* what the text says of the test: "none", "notRun", "running", "finished"
  complete,  \* history: a test shown as finished had all its probes in the same report
  font,      \* d.font is set
  fonts,     \* text fonts that exist
  failure,   \* d.failure: a handler has panicked
  answer     \* what Show has returned last

textVars == <<shown, complete>>
fontVars == <<font, fonts>>
showVars == <<active, failure, answer>>
dialogVars == <<dlg, after, polling, textVars, fontVars, showVars>>
vars == <<callVars, dialogVars>>

TypeOK ==
  /\ LogTypeOK
  /\ TestTypeOK
  /\ active \in BOOLEAN
  /\ dlg \in {"closed", "creating", "report", "activity", "poll", "ready", "test", "ending"}
  /\ after \in {"poll", "ready"}
  /\ polling \in BOOLEAN
  /\ shown \in {"none", "notRun", "running", "finished"}
  /\ complete \in BOOLEAN
  /\ font \in BOOLEAN
  /\ fonts \in 0..1
  /\ failure \in BOOLEAN
  /\ answer \in {"none", "nil", "error", "alreadyOpen"}

Init ==
  /\ TestInit
  /\ active = FALSE
  /\ dlg = "closed"
  /\ after = "ready"
  /\ polling = FALSE
  /\ shown = "none"
  /\ complete = TRUE
  /\ font = FALSE
  /\ fonts = 0
  /\ failure = FALSE
  /\ answer = "none"

-----------------------------------------------------------------------------
(* Show, from the compare-and-swap to the deferred store. *)

Show ==
  /\ dlg = "closed"
  /\ active' = TRUE
  /\ dlg' = "creating"
  /\ answer' = "none"
  /\ UNCHANGED <<callVars, after, polling, textVars, fontVars, failure>>

\* Mutant: the store is deferred before the swap is looked at.
ShowAgainClearing ==
  /\ dlg \in {"creating", "ready"} /\ active
  /\ active' = FALSE
  /\ answer' = "alreadyOpen"
  /\ UNCHANGED <<callVars, dlg, after, polling, textVars, fontVars, failure>>

\* The dialog runs the host's messages: a second Show finds `active` taken.
ShowAgain ==
  /\ dlg \in {"creating", "ready"} /\ active
  /\ answer' = "alreadyOpen"
  /\ UNCHANGED <<callVars, active, dlg, after, polling, textVars, fontVars, failure>>

\* DialogBoxIndirectParamW fails.
CreationFails ==
  /\ dlg = "creating"
  /\ active' = FALSE
  /\ dlg' = "closed"
  /\ answer' = "error"
  /\ UNCHANGED <<callVars, after, polling, textVars, fontVars, failure>>

\* DialogBoxIndirectParamW returns: the text's font goes, and Show tells whether
\* a handler has failed.  The timer dies with the window, the rest of d with Show.
Closed ==
  /\ dlg = "ending"
  /\ active' = FALSE
  /\ dlg' = "closed"
  /\ fonts' = IF font THEN fonts - 1 ELSE fonts
  /\ font' = FALSE
  /\ answer' = IF failure THEN "error" ELSE "nil"
  /\ failure' = FALSE
  /\ polling' = FALSE
  /\ shown' = "none"
  /\ UNCHANGED <<callVars, after, complete>>

-----------------------------------------------------------------------------
(* Messages.  They reach their handlers while `active` names the dialog. *)

ShowReportThen(place) == dlg' = "report" /\ after' = place

\* Mutant: the font that is replaced is not deleted.
ReplaceFontOnly == font' = TRUE /\ fonts' = fonts + 1

\* applyFont: a font that cannot be made leaves the old one.
ReplaceFont == font' = TRUE /\ fonts' = IF font THEN fonts ELSE fonts + 1
ApplyFont == ReplaceFont \/ UNCHANGED <<font, fonts>>

\* Mutant: a new dialog does not look for a running test.
InitializeUnpolled ==
  /\ dlg = "creating" /\ active
  /\ ApplyFont
  /\ ShowReportThen("ready")
  /\ UNCHANGED <<callVars, polling, textVars, showVars>>

\* WM_INITDIALOG: the font, the report, the first poll.
Initialize ==
  /\ dlg = "creating" /\ active
  /\ ApplyFont
  /\ ShowReportThen("poll")
  /\ UNCHANGED <<callVars, polling, textVars, showVars>>

\* WM_DPICHANGED makes the dialog manager reset the fonts; wmApplyFont, posted
\* behind it, restores the text's.
RestoreFont ==
  /\ dlg = "ready" /\ active
  /\ ApplyFont
  /\ UNCHANGED <<callVars, dlg, after, polling, textVars, showVars>>

\* A panic in a handler ends the dialog instead of the host.
Panic ==
  /\ dlg \in {"report", "poll"}
  /\ failure' = TRUE
  /\ dlg' = "ending"
  /\ after' = "ready"
  /\ UNCHANGED <<callVars, polling, textVars, fontVars, active, answer>>

\* showReport and writeConnectionTest, which copies s.test under the read lock.
ShowReport ==
  /\ dlg = "report"
  /\ shown' = IF test.running THEN "running" ELSE IF test.id = 0 THEN "notRun" ELSE "finished"
  /\ dlg' = "activity"
  /\ UNCHANGED <<callVars, after, polling, complete, fontVars, showVars>>

\* writeActivity, later in the same report.  The ring has room for the probes
\* of the test and what else was recorded since it began, if together they are no
\* more than its slots.
ShowActivity ==
  /\ dlg = "activity"
  /\ complete' = (shown = "finished" /\ others + Cardinality(test.results) <= Capacity =>
                    \A p \in test.results : \E i \in 1..count :
                      NewestFirst[i] = [test |-> test.id, profile |-> p])
  /\ dlg' = after
  /\ after' = "ready"
  /\ UNCHANGED <<callVars, polling, shown, fontVars, showVars>>

\* Mutant: the end of the test only stops the timer.
PollWithoutRefresh ==
  /\ dlg = "poll"
  /\ polling' = test.running
  /\ dlg' = "ready"
  /\ UNCHANGED <<callVars, after, textVars, fontVars, showVars>>

\* pollTest: the three cases of its switch.
PollTest ==
  /\ dlg = "poll"
  /\ \/ test.running /\ ~polling /\ polling' = TRUE /\ dlg' = "ready" /\ UNCHANGED after
     \/ ~test.running /\ polling /\ polling' = FALSE /\ ShowReportThen("ready")
     \/ test.running = polling /\ dlg' = "ready" /\ UNCHANGED <<after, polling>>
  /\ UNCHANGED <<callVars, textVars, fontVars, showVars>>

Timer ==
  /\ dlg = "ready" /\ active
  /\ polling
  /\ dlg' = "poll"
  /\ UNCHANGED <<callVars, after, polling, textVars, fontVars, showVars>>

ClickRefresh ==
  /\ dlg = "ready" /\ active
  /\ ShowReportThen("ready")
  /\ UNCHANGED <<callVars, polling, textVars, fontVars, showVars>>

\* The button is disabled while the dialog polls.
ClickTest ==
  /\ dlg = "ready" /\ active
  /\ ~polling
  /\ Enter
  /\ dlg' = "test"
  /\ UNCHANGED <<after, polling, textVars, fontVars, showVars>>

\* StartTest on the dialog's thread; command then shows the report and polls.
Test ==
  /\ dlg = "test"
  /\ Starting
  /\ IF starter' = "none" THEN ShowReportThen("poll") ELSE UNCHANGED <<dlg, after>>
  /\ UNCHANGED <<polling, textVars, fontVars, showVars>>

\* Close, Escape or WM_CLOSE; the timer goes with the window.
Close ==
  /\ dlg = "ready" /\ active
  /\ dlg' = "ending"
  /\ UNCHANGED <<callVars, after, polling, textVars, fontVars, showVars>>

DialogStep == ShowReport \/ ShowActivity \/ PollTest \/ Test \/ Initialize \/ Closed

User == Show \/ ShowAgain \/ ClickRefresh \/ ClickTest \/ Close

Background == (Probing \/ Reconfigure \/ OtherActivity) /\ UNCHANGED dialogVars

Next == User \/ Timer \/ DialogStep \/ Background \/ CreationFails \/ Panic \/ RestoreFont

Spec == Init /\ [][Next]_vars

\* A probe ends by its timeout, the dialog's thread handles what it has begun,
\* and the timer is delivered again and again, whatever else the user does.
Fairness ==
  /\ WF_vars(Probing /\ UNCHANGED dialogVars)
  /\ WF_vars(DialogStep)
  /\ SF_vars(Timer)

FairSpec == Spec /\ Fairness

-----------------------------------------------------------------------------
(* Properties *)

\* A click on Test always begins a test, although command drops StartTest's
\* answer: the button cannot be clicked while one runs, not even in a dialog
\* that was opened after the test began (dialog.go:187, 200-203, 320-328).
ClickStartsTest == dlg = "test" /\ starter = "start" => ~test.running

\* While the timer runs, the text catches up with the end of the test
\* (dialog.go:329-333).
PolledTestIsShown == polling /\ dlg = "ready" ~> shown = "finished" \/ dlg = "closed"

\* A report that calls the test finished lists all its probes as activities,
\* although the two sections are read one after the other, unless more was
\* recorded since the test began than the log has slots, however much was
\* recorded before (conntest.go:68-76, 106, debug.go:202-263).
ProbesListed == complete

\* An open dialog handles its messages, whatever second dialog the host asks for
\* meanwhile: otherwise nothing could close it (dialog.go:94-98, 116-120).
OpenAnswers == dlg \notin {"closed", "creating"} => active

\* However often the monitor changes, and however the dialog ends, no font is
\* left behind (dialog.go:101-104, 221-240).
FontsReleased == dlg = "closed" => fonts = 0

\* A dialog at rest that says a test is running keeps looking: pollTest "shows
\* the results once the test has finished" (dialog.go:315-316).
ShowsResults == dlg = "ready" /\ shown = "running" => polling
=============================================================================
