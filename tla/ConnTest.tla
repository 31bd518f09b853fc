------------------------------ MODULE ConnTest ------------------------------
(***************************************************************************)
(* The connection test of internal/wfx/conntest.go: one probe per profile, *)
(* each on a goroutine that leaves a record in the activity log, and all   *)
(* results published at once when the last has returned.  StartTest,       *)
(* Reload and Snapshot run on the caller's thread, and `starter` is where  *)
(* that thread is.  By itself (TestSpec) the module lets the caller start  *)
(* tests whenever it likes; DebugDialog puts the dialog around it.         *)
(***************************************************************************)
EXTENDS ActivityLog, FiniteSets

CONSTANTS
  Profiles,  \* the profiles an INI may name
  MaxTests,  \* bound: tests ever started
  MaxOthers  \* bound: activities of other operations, before a test and after each began

Tests == 1..MaxTests
Other == [test |-> 0, profile |-> "none"]  \* of another operation
Probes == [test : Tests, profile : Profiles]

ASSUME TestAssumption ==
  /\ MaxTests \in Nat
  /\ MaxOthers \in Nat
  /\ IsFiniteSet(Profiles)
  /\ Activities = Probes \cup {Other}

VARIABLES
  profiles,  \* the profiles of s.config
  test,      \* s.test: [id, running, err, results]; id 0 when none was started
  group,     \* per test, its goroutines: [spawned, asked, recorded, probing]
  starter,   \* in StartConnectionTest: "none", "start", "reload", "snapshot"
  others     \* history: activities of other operations since the last test began

testVars == <<test, group>>
connVars == <<profiles, testVars, starter>>
callVars == <<connVars, others, logVars>>

\* asked: the profiles copied; recorded: those whose activity is in the log;
\* probing: those whose goroutine has not reached wg.Done.
Group(spawned, asked) ==
  [spawned |-> spawned, asked |-> asked, recorded |-> {}, probing |-> asked]

TestTypeOK ==
  /\ profiles \subseteq Profiles
  /\ test \in [id : {0} \cup Tests, running : BOOLEAN, err : BOOLEAN, results : SUBSET Profiles]
  /\ group \in [Tests -> [spawned : BOOLEAN, asked : SUBSET Profiles,
                          recorded : SUBSET Profiles, probing : SUBSET Profiles]]
  /\ starter \in {"none", "start", "reload", "snapshot"}
  /\ others \in 0..MaxOthers

TestInit ==
  /\ LogInit
  /\ profiles \in SUBSET Profiles
  /\ test = [id |-> 0, running |-> FALSE, err |-> FALSE, results |-> {}]
  /\ group = [t \in Tests |-> Group(FALSE, {})]
  /\ starter = "none"
  /\ others = 0

-----------------------------------------------------------------------------
(* StartConnectionTest, on the caller's thread. *)

Enter ==
  /\ starter = "none"
  /\ test.id < MaxTests
  /\ starter' = "start"
  /\ UNCHANGED <<profiles, testVars, logVars, others>>

Begin ==
  /\ test' = [id |-> test.id + 1, running |-> TRUE, err |-> FALSE, results |-> {}]
  /\ others' = 0
  /\ starter' = "reload"

\* Mutant: a running test is not looked for.
StartTestUnchecked ==
  /\ starter = "start"
  /\ Begin
  /\ UNCHANGED <<profiles, group, logVars>>

\* The first lock: only one test runs, and the caller of another gets nil.
StartTest ==
  /\ starter = "start"
  /\ IF test.running
     THEN starter' = "none" /\ UNCHANGED <<test, others>>
     ELSE Begin
  /\ UNCHANGED <<profiles, group, logVars>>

\* finishConnectionTest.
FinishWith(results, err) ==
  test' = [test EXCEPT !.running = FALSE, !.results = results, !.err = err]

\* Mutants: a failed reload goes on to probe, or leaves the test running.
ReloadFallsThrough(fails) ==
  /\ starter = "reload"
  /\ starter' = "snapshot"
  /\ IF fails THEN FinishWith({}, TRUE) ELSE UNCHANGED test
  /\ UNCHANGED <<profiles, group, logVars, others>>
ReloadFailsSilently(fails) ==
  /\ starter = "reload"
  /\ starter' = IF fails THEN "none" ELSE "snapshot"
  /\ UNCHANGED <<profiles, testVars, logVars, others>>

\* reloadConfig(false): a failure ends the test before it has probed anything.
Reload(fails) ==
  /\ starter = "reload"
  /\ IF fails
     THEN FinishWith({}, TRUE) /\ starter' = "none"
     ELSE starter' = "snapshot" /\ UNCHANGED test
  /\ UNCHANGED <<profiles, group, logVars, others>>

\* The profiles are copied under a read lock of their own and probed.
Snapshot ==
  /\ starter = "snapshot"
  /\ group' = [group EXCEPT ![test.id] = Group(TRUE, profiles)]
  /\ starter' = "none"
  /\ UNCHANGED <<profiles, test, logVars, others>>

Starting == StartTest \/ (\E fails \in BOOLEAN : Reload(fails)) \/ Snapshot

-----------------------------------------------------------------------------
(* The test's goroutines, and everybody else. *)

\* probe: the answer, the error or the timeout goes to the log.
Record(t, p) ==
  /\ p \in group[t].asked \ group[t].recorded
  /\ group' = [group EXCEPT ![t].recorded = @ \cup {p}]
  /\ Add([test |-> t, profile |-> p])
  /\ UNCHANGED <<profiles, test, starter, others>>

\* Mutant: the activity is recorded in the background.
DoneUnrecorded(t, p) ==
  /\ p \in group[t].probing
  /\ group' = [group EXCEPT ![t].probing = @ \ {p}]
  /\ UNCHANGED <<profiles, test, starter, logVars, others>>

\* probe has returned: its result takes its slot, and wg.Done.
Done(t, p) ==
  /\ p \in group[t].probing \cap group[t].recorded
  /\ group' = [group EXCEPT ![t].probing = @ \ {p}]
  /\ UNCHANGED <<profiles, test, starter, logVars, others>>

\* Mutant: the group is not waited for.
FinishEarly(t) ==
  /\ group[t].spawned
  /\ FinishWith(group[t].asked \ group[t].probing, FALSE)
  /\ group' = [group EXCEPT ![t].spawned = FALSE]
  /\ UNCHANGED <<profiles, starter, logVars, others>>

\* wg.Wait, then all results at once; the group is then gone.
Finish(t) ==
  /\ group[t].spawned
  /\ group[t].probing = {}
  /\ FinishWith(group[t].asked \ group[t].probing, FALSE)
  /\ group' = [group EXCEPT ![t].spawned = FALSE]
  /\ UNCHANGED <<profiles, starter, logVars, others>>

Probing == \E t \in Tests : Finish(t) \/ \E p \in Profiles : Record(t, p) \/ Done(t, p)

\* A reload of another call installs other profiles at any time.
Reconfigure ==
  /\ profiles' \in SUBSET Profiles \ {profiles}
  /\ UNCHANGED <<testVars, starter, logVars, others>>

\* record and recordTransfer of other calls.
OtherActivity ==
  /\ others < MaxOthers
  /\ others' = others + 1
  /\ Add(Other)
  /\ UNCHANGED connVars

TestNext == Enter \/ Starting \/ Probing \/ Reconfigure \/ OtherActivity

\* A caller that does not care whether a test runs.
TestSpec == TestInit /\ [][TestNext]_callVars

-----------------------------------------------------------------------------
(* Properties *)

\* A finished test has a result for every profile it set out to probe, also
\* when the configuration has changed meanwhile (conntest.go:63-77).
ResultsComplete ==
  test.id # 0 /\ ~test.running /\ ~test.err => test.results = group[test.id].asked

\* No probe outlives its test: what is published is never written again
\* (conntest.go:43-46, 75-76).
ProbesBelongToRun ==
  \A t \in Tests : group[t].spawned => test.running /\ t = test.id

\* Every test ends (conntest.go:73-77, 88-90).
TestEnds == test.running ~> ~test.running
=============================================================================
