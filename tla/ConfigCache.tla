---------------------------- MODULE ConfigCache ----------------------------
(***************************************************************************)
(* internal/wfx/service.go, reloadConfig: the parsed INI is kept with the  *)
(* stamp (time and size) of the file it was read from.  A listing always   *)
(* reloads; every other operation reloads only when the stamp has changed. *)
(* Each call takes the lock several times, so calls of two host threads,   *)
(* edits of the file and ResetConfig fall between its steps.               *)
(***************************************************************************)
EXTENDS Naturals

CONSTANTS
  Threads,     \* host threads that call the plugin
  MaxVersion,  \* bound: versions of the INI file
  Valid,       \* the versions config.Load accepts
  SameStamp,   \* whether an edit may keep both time and size
  Resets       \* whether the host initialises the plugin again

ASSUME ConstantsAssumption ==
  /\ MaxVersion \in Nat \ {0}
  /\ Valid \subseteq 1..MaxVersion
  /\ SameStamp \in BOOLEAN
  /\ Resets \in BOOLEAN

Versions == 1..MaxVersion

VARIABLES
  file,        \* version of the INI on disk; 0 when it cannot be read, or no path is set
  stamp,       \* its stamp: the version that gave the file this time and size
  newest,      \* the last version written
  config,      \* version of s.config; 0 is the empty configuration
  configInfo,  \* s.configInfo, the stamp kept with it; 0 is the zero stamp
  loaded,      \* s.loaded
  configErr,   \* whether s.configErr is set
  pc,          \* per thread: "idle", "stat", "load", "commit", "fail", "look" or "done"
  force,       \* per thread: reloadConfig's argument
  was,         \* per thread: loaded and configInfo as read at the start
  current,     \* per thread: the stamp os.Stat returned
  cfg,         \* per thread: what config.Load returned
  answer,      \* per thread: version used; 0 for none, with failed for an error
  failed,      \* per thread: reloadConfig returned an error
  began,       \* history, per thread: the INI when the call began, as far as its
               \* stamp tells for a call that is not forced
  overtaken    \* history, per thread: another thread's reload committed meanwhile

diskVars == <<file, stamp, newest>>
cacheVars == <<config, configInfo, loaded, configErr>>
callVars == <<force, was, current, cfg, began, overtaken>>
vars == <<diskVars, cacheVars, callVars, pc, answer, failed>>

Places == {"idle", "stat", "load", "commit", "fail", "look", "done"}

TypeOK ==
  /\ file \in {0} \cup Versions
  /\ stamp \in Versions
  /\ newest \in Versions
  /\ config \in {0} \cup Versions
  /\ configInfo \in {0} \cup Versions
  /\ loaded \in BOOLEAN
  /\ configErr \in BOOLEAN
  /\ pc \in [Threads -> Places]
  /\ force \in [Threads -> BOOLEAN]
  /\ was \in [Threads -> [loaded : BOOLEAN, stamp : {0} \cup Versions]]
  /\ current \in [Threads -> {0} \cup Versions]
  /\ cfg \in [Threads -> {0} \cup Versions]
  /\ answer \in [Threads -> {0} \cup Versions]
  /\ failed \in [Threads -> BOOLEAN]
  /\ began \in [Threads -> {0} \cup Versions]
  /\ overtaken \in [Threads -> BOOLEAN]

Init ==
  /\ file \in {0, 1}
  /\ stamp = 1
  /\ newest = 1
  /\ config = 0
  /\ configInfo = 0
  /\ loaded = FALSE
  /\ configErr = FALSE
  /\ pc = [t \in Threads |-> "idle"]
  /\ force = [t \in Threads |-> FALSE]
  /\ was = [t \in Threads |-> [loaded |-> FALSE, stamp |-> 0]]
  /\ current = [t \in Threads |-> 0]
  /\ cfg = [t \in Threads |-> 0]
  /\ answer = [t \in Threads |-> 0]
  /\ failed = [t \in Threads |-> FALSE]
  /\ began = [t \in Threads |-> 0]
  /\ overtaken = [t \in Threads |-> FALSE]

Goto(t, p) == pc' = [pc EXCEPT ![t] = p] /\ UNCHANGED failed

\* A listing (forced) or another operation begins: the first read lock.
Begin(t, forced) ==
  /\ pc[t] = "idle"
  /\ force' = [force EXCEPT ![t] = forced]
  /\ was' = [was EXCEPT ![t] = [loaded |-> loaded, stamp |-> configInfo]]
  /\ began' = [began EXCEPT ![t] = IF forced THEN file ELSE stamp]
  /\ Goto(t, "stat")
  /\ UNCHANGED <<diskVars, cacheVars, current, cfg, overtaken, answer>>

\* Mutant: a listing trusts the stamp.
StatUnforced(t) ==
  /\ pc[t] = "stat"
  /\ file # 0
  /\ current' = [current EXCEPT ![t] = stamp]
  /\ IF was[t].loaded /\ was[t].stamp = stamp THEN Goto(t, "look") ELSE Goto(t, "load")
  /\ UNCHANGED <<diskVars, cacheVars, force, was, cfg, began, overtaken, answer>>

\* os.Stat, and the return without a load when nothing has changed.
Stat(t) ==
  /\ pc[t] = "stat"
  /\ file # 0
  /\ current' = [current EXCEPT ![t] = stamp]
  /\ IF was[t].loaded /\ ~force[t] /\ was[t].stamp = stamp
     THEN Goto(t, "look") ELSE Goto(t, "load")
  /\ UNCHANGED <<diskVars, cacheVars, force, was, cfg, began, overtaken, answer>>

\* The file cannot be read now: os.Stat or config.Load's open fails.
Unreadable(t) ==
  /\ pc[t] \in {"stat", "load"}
  /\ file = 0
  /\ Goto(t, "fail")
  /\ UNCHANGED <<diskVars, cacheVars, callVars, answer>>

\* Mutant: what could be parsed of a refused INI is used.
LoadAnyway(t) ==
  /\ pc[t] = "load"
  /\ file # 0
  /\ cfg' = [cfg EXCEPT ![t] = file]
  /\ Goto(t, "commit")
  /\ UNCHANGED <<diskVars, cacheVars, force, was, current, began, overtaken, answer>>

\* config.Load of the file as it is now, which may be newer than the stamp.
Load(t) ==
  /\ pc[t] = "load"
  /\ file \in Valid
  /\ cfg' = [cfg EXCEPT ![t] = file]
  /\ Goto(t, "commit")
  /\ UNCHANGED <<diskVars, cacheVars, force, was, current, began, overtaken, answer>>

LoadFails(t) ==
  /\ pc[t] = "load"
  /\ file \in Versions \ Valid
  /\ Goto(t, "fail")
  /\ UNCHANGED <<diskVars, cacheVars, callVars, answer>>

\* configFailed, under a lock of its own, and the error returned to the caller.
ConfigFailed(t) ==
  /\ pc[t] = "fail"
  /\ configErr' = TRUE
  /\ failed' = [failed EXCEPT ![t] = TRUE]
  /\ pc' = [pc EXCEPT ![t] = "done"]
  /\ UNCHANGED <<diskVars, config, configInfo, loaded, callVars, answer>>

\* Mutant: the stamp is taken after the content.
CommitStampLast(t) ==
  /\ pc[t] = "commit"
  /\ config' = cfg[t]
  /\ configInfo' = stamp
  /\ loaded' = TRUE
  /\ configErr' = FALSE
  /\ Goto(t, "look")
  /\ overtaken' = [u \in Threads |-> overtaken[u] \/ (u # t /\ pc[u] # "idle")]
  /\ UNCHANGED <<diskVars, force, was, current, cfg, began, answer>>

\* The write lock.
Commit(t) ==
  /\ pc[t] = "commit"
  /\ config' = cfg[t]
  /\ configInfo' = current[t]
  /\ loaded' = TRUE
  /\ configErr' = FALSE
  /\ Goto(t, "look")
  /\ overtaken' = [u \in Threads |-> overtaken[u] \/ (u # t /\ pc[u] # "idle")]
  /\ UNCHANGED <<diskVars, force, was, current, cfg, began, answer>>

\* profile, or the root listing: a read lock of its own.
Look(t) ==
  /\ pc[t] = "look"
  /\ answer' = [answer EXCEPT ![t] = config]
  /\ Goto(t, "done")
  /\ UNCHANGED <<diskVars, cacheVars, callVars>>

\* The call's locals are gone.
Return(t) ==
  /\ pc[t] = "done"
  /\ pc' = [pc EXCEPT ![t] = "idle"]
  /\ answer' = [answer EXCEPT ![t] = 0]
  /\ failed' = [failed EXCEPT ![t] = FALSE]
  /\ force' = [force EXCEPT ![t] = FALSE]
  /\ was' = [was EXCEPT ![t] = [loaded |-> FALSE, stamp |-> 0]]
  /\ current' = [current EXCEPT ![t] = 0]
  /\ cfg' = [cfg EXCEPT ![t] = 0]
  /\ began' = [began EXCEPT ![t] = 0]
  /\ overtaken' = [overtaken EXCEPT ![t] = FALSE]
  /\ UNCHANGED <<diskVars, cacheVars>>

ResetConfig ==
  /\ Resets
  /\ config' = 0
  /\ configInfo' = 0
  /\ loaded' = FALSE
  /\ configErr' = FALSE
  /\ UNCHANGED <<diskVars, callVars, pc, answer, failed>>

-----------------------------------------------------------------------------
(* The user edits the INI; for a while it may be out of reach. *)

Edit ==
  /\ newest < MaxVersion
  /\ newest' = newest + 1
  /\ file' = newest'
  /\ stamp' \in (IF SameStamp THEN {stamp, newest'} ELSE {newest'})
  /\ UNCHANGED <<cacheVars, callVars, pc, answer, failed>>

Disappear ==
  /\ file # 0
  /\ file' = 0
  /\ UNCHANGED <<stamp, newest, cacheVars, callVars, pc, answer, failed>>

Reappear ==
  /\ file = 0
  /\ file' = newest
  /\ UNCHANGED <<stamp, newest, cacheVars, callVars, pc, answer, failed>>

Step(t) ==
  \/ Stat(t)
  \/ Unreadable(t)
  \/ Load(t)
  \/ LoadFails(t)
  \/ ConfigFailed(t)
  \/ Commit(t)
  \/ Look(t)
  \/ Return(t)

Next ==
  \/ \E t \in Threads, forced \in BOOLEAN : Begin(t, forced)
  \/ \E t \in Threads : Step(t)
  \/ ResetConfig
  \/ Edit
  \/ Disappear
  \/ Reappear

Spec == Init /\ [][Next]_vars

-----------------------------------------------------------------------------
(* Properties *)

Used(t) == pc[t] = "done" /\ ~failed[t] /\ answer[t] # 0

\* The cache may be trusted as long as the stamp agrees: what is kept with the
\* stamp of the file on disk is the content on disk, for any interleaving of
\* reloads, provided the last edit changed the stamp (service.go:541-556: the
\* stamp is taken before the content, never after it).
CacheCoherent ==
  loaded /\ file # 0 /\ stamp = newest /\ configInfo = stamp => config = file

\* Nothing is used that config.Load refused, by any thread and on any later call
\* that trusts the stamp (service.go:541-556).
OnlyValidUsed == \A t \in Threads : Used(t) => answer[t] \in Valid

\* A call uses a valid INI as it was when the call began, or newer, unless another
\* thread's reload committed in between: a listing whatever the edit did, every
\* other operation as far as the stamp tells (service.go:185-188, 541-556).
CallReflectsIni ==
  /\ OnlyValidUsed
  /\ \A t \in Threads : Used(t) /\ ~overtaken[t] => answer[t] >= began[t]

\* After a successful reload no old failure is left to be reported
\* (service.go:105, "why the last load failed; nil once one succeeds").
ErrorIsCurrent == \A t \in Threads : pc[t] = "look" => ~configErr
=============================================================================
