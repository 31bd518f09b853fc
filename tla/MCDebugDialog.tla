--------------------------- MODULE MCDebugDialog ---------------------------
(* DebugDialog on a small instance: two profiles.  The run has either the   *)
(* dialog or another caller of StartConnectionTest, which starts a test     *)
(* whenever it likes, also while one runs, as the dialog's button does not. *)
EXTENDS DebugDialog
CONSTANTS p1, p2
TwoProfiles == {p1, p2}
AllActivities == Probes \cup {Other}

VARIABLE alone  \* there is another caller, and no dialog

EitherInit == Init /\ alone \in BOOLEAN
EitherNext ==
  /\ UNCHANGED alone
  /\ \/ alone /\ TestNext /\ UNCHANGED dialogVars
     \/ ~alone /\ Next
EitherSpec ==
  /\ EitherInit /\ [][EitherNext]_<<vars, alone>>
  /\ Fairness
  /\ WF_vars(alone /\ Starting /\ UNCHANGED dialogVars)
=============================================================================
