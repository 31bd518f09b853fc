---------------------------- MODULE ActivityLog ----------------------------
(***************************************************************************)
(* internal/wfx/activity.go: the ring of the most recent activities.  Host *)
(* threads and probing goroutines add to it and the debug report reads it, *)
(* each under the log's own lock, so that add and newestFirst are steps.   *)
(***************************************************************************)
EXTENDS Integers

CONSTANTS
  Activities,  \* the records operations make
  Capacity     \* activityCapacity, 100 in the code

ASSUME LogAssumption == Capacity \in Nat \ {0}

Slots == 0..(Capacity - 1)

VARIABLES
  entries,  \* the ring; the zero Activity where nothing was added yet
  next,     \* the slot the next activity goes to
  count     \* activities kept

logVars == <<entries, next, count>>

Zero == "zero"

LogTypeOK ==
  /\ entries \in [Slots -> Activities \cup {Zero}]
  /\ next \in Slots
  /\ count \in 0..Capacity

LogInit ==
  /\ entries = [s \in Slots |-> Zero]
  /\ next = 0
  /\ count = 0

\* add, at the end of record, recordTransfer and probe.
Add(a) ==
  /\ entries' = [entries EXCEPT ![next] = a]
  /\ next' = (next + 1) % Capacity
  /\ count' = IF count < Capacity THEN count + 1 ELSE count

\* Mutant: the oldest activity comes first.
SlotFromOldest(i) == (next - count + i - 1 + Capacity) % Capacity

\* newestFirst: the slot of the i-th newest activity, and all of them.
Slot(i) == (next - i + Capacity) % Capacity
NewestFirst == [i \in 1..count |-> entries[Slot(i)]]

LogNext == \E a \in Activities : Add(a)

LogSpec == LogInit /\ [][LogNext]_logVars

-----------------------------------------------------------------------------
(* Properties *)

\* Reading the ring backwards from next gives the most recent activities, newest
\* first, before and after the ring has wrapped (activity.go:37-56).
R == INSTANCE RecentActivities WITH recent <- NewestFirst
RecentRefinement == R!Spec
=============================================================================
