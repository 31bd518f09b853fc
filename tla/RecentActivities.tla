-------------------------- MODULE RecentActivities --------------------------
(***************************************************************************)
(* What the activity log promises the debug report: the most recent        *)
(* activities, newest first, as many as its capacity.                      *)
(***************************************************************************)
EXTENDS Naturals

CONSTANTS
  Activities,  \* the records operations make
  Capacity     \* how many are kept

VARIABLES recent  \* the newest first: recent[1] is the last one recorded

Init == recent = [i \in {} |-> i]

\* The new record comes first; the oldest falls off a full log.
Add(a) ==
  \E kept \in 1..Capacity :
    /\ \/ kept = Capacity /\ DOMAIN recent = 1..Capacity
       \/ DOMAIN recent = 1..(kept - 1)
    /\ recent' = [i \in 1..kept |-> IF i = 1 THEN a ELSE recent[i - 1]]

Next == \E a \in Activities : Add(a)

Spec == Init /\ [][Next]_recent
=============================================================================
