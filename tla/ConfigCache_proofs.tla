------------------------- MODULE ConfigCache_proofs -------------------------
(***************************************************************************)
(* Proofs about ConfigCache, for every set of threads and every number of  *)
(* edits: its state is well typed, and the stamp of the cached INI can be  *)
(* trusted.                                                                *)
(***************************************************************************)
EXTENDS ConfigCache, TLAPS

LEMMA TypeInit == Init => TypeOK
<1> SUFFICES ASSUME Init PROVE TypeOK
  OBVIOUS
<1>1. 1 \in Versions
  BY ConstantsAssumption DEF ConstantsAssumption, Versions
<1>2. /\ file \in {0} \cup Versions /\ stamp \in Versions /\ newest \in Versions
      /\ config \in {0} \cup Versions /\ configInfo \in {0} \cup Versions
      /\ loaded \in BOOLEAN /\ configErr \in BOOLEAN
  BY <1>1 DEF Init
<1>3. /\ pc \in [Threads -> Places]
      /\ was \in [Threads -> [loaded : BOOLEAN, stamp : {0} \cup Versions]]
      /\ force \in [Threads -> BOOLEAN] /\ failed \in [Threads -> BOOLEAN]
  BY DEF Init, Places
<1>4. /\ current \in [Threads -> {0} \cup Versions] /\ cfg \in [Threads -> {0} \cup Versions]
      /\ answer \in [Threads -> {0} \cup Versions] /\ began \in [Threads -> {0} \cup Versions]
      /\ overtaken \in [Threads -> BOOLEAN]
  BY DEF Init
<1> QED BY <1>2, <1>3, <1>4 DEF TypeOK

LEMMA TypeStep == TypeOK /\ [Next]_vars => TypeOK'
<1> SUFFICES ASSUME TypeOK, [Next]_vars PROVE TypeOK'
  OBVIOUS
<1> USE DEF TypeOK, Places, Goto
<1>1. ASSUME NEW t \in Threads, NEW forced \in BOOLEAN, Begin(t, forced) PROVE TypeOK'
  BY <1>1 DEF Begin, diskVars, cacheVars
<1>2. ASSUME NEW t \in Threads, Stat(t) PROVE TypeOK'
  BY <1>2 DEF Stat, diskVars, cacheVars
<1>3. ASSUME NEW t \in Threads, Unreadable(t) PROVE TypeOK'
  BY <1>3 DEF Unreadable, diskVars, cacheVars, callVars
<1>4. ASSUME NEW t \in Threads, Load(t) PROVE TypeOK'
  BY <1>4 DEF Load, diskVars, cacheVars
<1>5. ASSUME NEW t \in Threads, LoadFails(t) \/ ConfigFailed(t) PROVE TypeOK'
  BY <1>5 DEF LoadFails, ConfigFailed, diskVars, cacheVars, callVars
<1>6. ASSUME NEW t \in Threads, Commit(t) PROVE TypeOK'
  BY <1>6 DEF Commit, diskVars, callVars
<1>7. ASSUME NEW t \in Threads, Look(t) PROVE TypeOK'
  BY <1>7 DEF Look, diskVars, cacheVars, callVars
<1>8. ASSUME NEW t \in Threads, Return(t) PROVE TypeOK'
  BY <1>8 DEF Return, diskVars, cacheVars
<1>9. CASE ResetConfig
  BY <1>9 DEF ResetConfig, diskVars, callVars
<1>10. CASE Edit
  <2>1. newest' \in Versions /\ file' \in Versions /\ stamp' \in Versions
    BY <1>10, ConstantsAssumption DEF Edit, Versions, ConstantsAssumption
  <2> QED BY <1>10, <2>1 DEF Edit, cacheVars, callVars
<1>11. CASE Disappear \/ Reappear
  BY <1>11 DEF Disappear, Reappear, cacheVars, callVars
<1>12. CASE UNCHANGED vars
  BY <1>12 DEF vars, diskVars, cacheVars, callVars
<1> QED
  BY <1>1, <1>2, <1>3, <1>4, <1>5, <1>6, <1>7, <1>8, <1>9, <1>10, <1>11, <1>12
  DEF Next, Step

\* Every reachable state is well typed.
THEOREM TypeCorrect == Spec => []TypeOK
BY TypeInit, TypeStep, PTL DEF Spec

-----------------------------------------------------------------------------
(* The cache.  Stamps are the versions that brought them, so a stamp equal  *)
(* to the newest version can only be taken of that version's content.  A   *)
(* reload takes the stamp before it reads the content, so what it commits  *)
(* is at least as new as the stamp it keeps with it, no matter which other *)
(* reload commits in between.                                              *)

DiskInv == file \in {0, newest} /\ stamp <= newest

CacheInv == loaded => configInfo <= config /\ config <= newest

ReloadInv ==
  \A t \in Threads :
    /\ pc[t] \in {"load", "commit"} => current[t] <= newest
    /\ pc[t] = "commit" => current[t] <= cfg[t] /\ cfg[t] <= newest

CoherenceInv == DiskInv /\ CacheInv /\ ReloadInv

LEMMA CoherenceInit == Init => CoherenceInv
BY DEF Init, CoherenceInv, DiskInv, CacheInv, ReloadInv

LEMMA VersionsAreNumbers == TypeOK => newest \in Nat /\ stamp \in Nat /\ file \in Nat
BY ConstantsAssumption DEF TypeOK, Versions, ConstantsAssumption

LEMMA CoherenceStep ==
  ASSUME TypeOK, CoherenceInv, [Next]_vars
  PROVE  CoherenceInv'
<1> USE DEF CoherenceInv, DiskInv, CacheInv, ReloadInv, Goto
<1>0. /\ pc \in [Threads -> Places]
      /\ current \in [Threads -> {0} \cup Versions] /\ cfg \in [Threads -> {0} \cup Versions]
  BY DEF TypeOK
<1>1. ASSUME NEW t \in Threads, NEW forced \in BOOLEAN, Begin(t, forced) PROVE CoherenceInv'
  BY <1>0, <1>1 DEF Begin, diskVars, cacheVars
<1>2. ASSUME NEW t \in Threads, Stat(t) PROVE CoherenceInv'
  BY <1>0, <1>2, VersionsAreNumbers DEF Stat, diskVars, cacheVars
<1>3. ASSUME NEW t \in Threads, Unreadable(t) \/ LoadFails(t) \/ ConfigFailed(t)
      PROVE  CoherenceInv'
  BY <1>0, <1>3 DEF Unreadable, LoadFails, ConfigFailed, diskVars, cacheVars, callVars
<1>4. ASSUME NEW t \in Threads, Load(t) PROVE CoherenceInv'
  <2>1. file # 0
    BY <1>4, ConstantsAssumption DEF Load, ConstantsAssumption, Versions
  <2>2. file = newest
    BY <2>1
  <2> QED BY <1>0, <1>4, <2>2, VersionsAreNumbers DEF Load, diskVars, cacheVars
<1>5. ASSUME NEW t \in Threads, Commit(t) PROVE CoherenceInv'
  BY <1>0, <1>5 DEF Commit, diskVars, callVars
<1>6. ASSUME NEW t \in Threads, Look(t) \/ Return(t) PROVE CoherenceInv'
  BY <1>0, <1>6 DEF Look, Return, diskVars, cacheVars, callVars
<1>7. CASE ResetConfig
  BY <1>7 DEF ResetConfig, diskVars, callVars
<1>8. CASE Edit
  <2>1. newest' = newest + 1 /\ newest \in Nat /\ stamp' <= newest' /\ file' = newest'
    BY <1>8, VersionsAreNumbers DEF Edit
  <2>2. loaded => config \in Nat
    BY ConstantsAssumption DEF TypeOK, Versions, ConstantsAssumption
  <2>3. \A t \in Threads : current[t] \in Nat /\ cfg[t] \in Nat
    BY <1>0, ConstantsAssumption DEF Versions, ConstantsAssumption
  <2>4. UNCHANGED <<cacheVars, callVars, pc>>
    BY <1>8 DEF Edit
  <2>5. CacheInv'
    BY <2>1, <2>2, <2>4 DEF cacheVars
  <2>6. ReloadInv'
    BY <2>1, <2>3, <2>4 DEF callVars
  <2> QED BY <2>1, <2>5, <2>6
<1>9. CASE Disappear \/ Reappear
  BY <1>9 DEF Disappear, Reappear, cacheVars, callVars
<1>10. CASE UNCHANGED vars
  BY <1>10 DEF vars, diskVars, cacheVars, callVars
<1> QED
  BY <1>1, <1>2, <1>3, <1>4, <1>5, <1>6, <1>7, <1>8, <1>9, <1>10
  DEF Next, Step

LEMMA CoherenceImplies == ASSUME TypeOK, CoherenceInv PROVE CacheCoherent
<1> SUFFICES ASSUME loaded, file # 0, stamp = newest, configInfo = stamp PROVE config = file
  BY DEF CacheCoherent
<1>1. file = newest /\ configInfo = newest /\ configInfo <= config /\ config <= newest
  BY DEF CoherenceInv, DiskInv, CacheInv
<1>2. newest \in Nat /\ config \in Nat
  BY ConstantsAssumption DEF TypeOK, Versions, ConstantsAssumption
<1> QED BY <1>1, <1>2

\* When the last edit changed the stamp, the cache may be trusted as long as
\* the stamp agrees, for any number of threads that reload at once
\* (service.go:541-556).
THEOREM CacheAlwaysCoherent == Spec => []CacheCoherent
<1>1. TypeOK /\ CoherenceInv /\ [Next]_vars => CoherenceInv'
  BY CoherenceStep
<1>2. TypeOK /\ CoherenceInv => CacheCoherent
  BY CoherenceImplies
<1> QED BY <1>1, <1>2, CoherenceInit, TypeCorrect, PTL DEF Spec

-----------------------------------------------------------------------------
(* What a call uses.  A call that reloads commits content read after it    *)
(* began; a call that does not keeps what was cached when it began, whose  *)
(* stamp was still the file's.  Either way the cache is new enough for it, *)
(* until another reload commits or the plugin is reset.                    *)

CallInv ==
  \A t \in Threads : ~overtaken[t] =>
    /\ pc[t] = "stat" =>
         /\ began[t] <= newest
         /\ ~force[t] => began[t] <= stamp
         /\ was[t].loaded /\ loaded => was[t].stamp <= config
    /\ pc[t] = "load" => began[t] <= newest
    /\ pc[t] = "commit" => began[t] <= cfg[t]
    /\ pc[t] = "look" => config = 0 \/ began[t] <= config
    /\ pc[t] # "done" => answer[t] = 0
    /\ pc[t] = "done" => answer[t] = 0 \/ began[t] <= answer[t]

EmptyInv == ~loaded => config = 0

LEMMA CallInit == Init => CallInv /\ EmptyInv
BY DEF Init, CallInv, EmptyInv

LEMMA EmptyStep == EmptyInv /\ [Next]_vars => EmptyInv'
BY DEF EmptyInv, Next, Step, Begin, Stat, Unreadable, Load, LoadFails, ConfigFailed, Commit, Look,
       Return, ResetConfig, Edit, Disappear, Reappear, Goto, vars, diskVars, cacheVars, callVars

LEMMA CallStep ==
  ASSUME TypeOK, CoherenceInv, EmptyInv, CallInv, [Next]_vars
  PROVE  CallInv'
<1> USE DEF CallInv, Goto
<1>0. /\ pc \in [Threads -> Places]
      /\ force \in [Threads -> BOOLEAN] /\ overtaken \in [Threads -> BOOLEAN]
      /\ was \in [Threads -> [loaded : BOOLEAN, stamp : {0} \cup Versions]]
      /\ cfg \in [Threads -> {0} \cup Versions] /\ answer \in [Threads -> {0} \cup Versions]
      /\ began \in [Threads -> {0} \cup Versions]
  BY DEF TypeOK
<1>a. \A t \in Threads : /\ began[t] \in Nat /\ cfg[t] \in Nat /\ answer[t] \in Nat
                         /\ was[t].stamp \in Nat
  BY <1>0, ConstantsAssumption DEF ConstantsAssumption, Versions
<1>b. newest \in Nat /\ stamp \in Nat /\ file \in Nat /\ config \in Nat /\ configInfo \in Nat
  BY ConstantsAssumption DEF TypeOK, ConstantsAssumption, Versions
<1>1. ASSUME NEW t \in Threads, NEW forced \in BOOLEAN, Begin(t, forced) PROVE CallInv'
  BY <1>0, <1>a, <1>b, <1>1 DEF Begin, diskVars, cacheVars, CoherenceInv, DiskInv, CacheInv
<1>2. ASSUME NEW t \in Threads, Stat(t) PROVE CallInv'
  BY <1>0, <1>a, <1>b, <1>2 DEF Stat, diskVars, cacheVars, EmptyInv
<1>3. ASSUME NEW t \in Threads, Unreadable(t) \/ LoadFails(t) \/ ConfigFailed(t) PROVE CallInv'
  <2>1. pc[t] \in {"stat", "load", "fail"} /\ UNCHANGED <<diskVars, config, loaded, callVars, answer>>
    BY <1>3 DEF Unreadable, LoadFails, ConfigFailed, diskVars, cacheVars, callVars
  <2>2. pc' = [pc EXCEPT ![t] = "fail"] \/ pc' = [pc EXCEPT ![t] = "done"]
    BY <1>3 DEF Unreadable, LoadFails, ConfigFailed
  <2> QED BY <1>0, <2>1, <2>2 DEF diskVars, callVars
<1>4. ASSUME NEW t \in Threads, Load(t) PROVE CallInv'
  <2>1. file = newest
    BY <1>4, ConstantsAssumption DEF Load, ConstantsAssumption, Versions, CoherenceInv, DiskInv
  <2> QED BY <1>0, <1>a, <1>b, <1>4, <2>1 DEF Load, diskVars, cacheVars
<1>5. ASSUME NEW t \in Threads, Commit(t) PROVE CallInv'
  BY <1>0, <1>a, <1>5 DEF Commit, diskVars
<1>6. ASSUME NEW t \in Threads, Look(t) PROVE CallInv'
  BY <1>0, <1>a, <1>b, <1>6 DEF Look, diskVars, cacheVars, callVars
<1>7. ASSUME NEW t \in Threads, Return(t) PROVE CallInv'
  BY <1>0, <1>7 DEF Return, diskVars, cacheVars
<1>8. CASE ResetConfig
  BY <1>0, <1>8 DEF ResetConfig, diskVars, callVars
<1>9. CASE Edit
  <2>1. newest' = newest + 1 /\ stamp' \in {stamp, newest + 1}
    BY <1>9 DEF Edit
  <2>2. stamp <= newest
    BY DEF CoherenceInv, DiskInv
  <2> QED BY <1>0, <1>a, <1>b, <1>9, <2>1, <2>2 DEF Edit, cacheVars, callVars
<1>10. CASE Disappear \/ Reappear
  BY <1>10 DEF Disappear, Reappear, cacheVars, callVars
<1>11. CASE UNCHANGED vars
  BY <1>11 DEF vars, diskVars, cacheVars, callVars
<1> QED
  BY <1>1, <1>2, <1>3, <1>4, <1>5, <1>6, <1>7, <1>8, <1>9, <1>10, <1>11
  DEF Next, Step

-----------------------------------------------------------------------------
(* What config.Load refused never gets into the cache.                     *)

ValidInv ==
  /\ config \in {0} \cup Valid
  /\ \A t \in Threads :
       /\ pc[t] = "commit" => cfg[t] \in Valid
       /\ answer[t] \in {0} \cup Valid

LEMMA ValidInit == Init => ValidInv
BY DEF Init, ValidInv

LEMMA ValidStep ==
  ASSUME TypeOK, ValidInv, [Next]_vars
  PROVE  ValidInv'
<1> USE DEF ValidInv, Goto
<1>0. /\ pc \in [Threads -> Places]
      /\ cfg \in [Threads -> {0} \cup Versions] /\ answer \in [Threads -> {0} \cup Versions]
  BY DEF TypeOK
<1>1. ASSUME NEW t \in Threads, NEW forced \in BOOLEAN, Begin(t, forced) PROVE ValidInv'
  BY <1>0, <1>1 DEF Begin, cacheVars
<1>2. ASSUME NEW t \in Threads, Stat(t) PROVE ValidInv'
  BY <1>0, <1>2 DEF Stat, cacheVars
<1>3. ASSUME NEW t \in Threads, Unreadable(t) \/ LoadFails(t) \/ ConfigFailed(t) PROVE ValidInv'
  BY <1>0, <1>3 DEF Unreadable, LoadFails, ConfigFailed, cacheVars, callVars
<1>4. ASSUME NEW t \in Threads, Load(t) PROVE ValidInv'
  BY <1>0, <1>4 DEF Load, cacheVars
<1>5. ASSUME NEW t \in Threads, Commit(t) PROVE ValidInv'
  BY <1>0, <1>5 DEF Commit
<1>6. ASSUME NEW t \in Threads, Look(t) \/ Return(t) PROVE ValidInv'
  BY <1>0, <1>6 DEF Look, Return, cacheVars, callVars
<1>7. CASE ResetConfig \/ Edit \/ Disappear \/ Reappear \/ UNCHANGED vars
  BY <1>7 DEF ResetConfig, Edit, Disappear, Reappear, vars, cacheVars, callVars
<1> QED
  BY <1>1, <1>2, <1>3, <1>4, <1>5, <1>6, <1>7
  DEF Next, Step

\* No call uses an INI that config.Load refused, also when a refused one
\* replaces the one in use (service.go:545-548).
THEOREM OnlyValidIsUsed == Spec => []OnlyValidUsed
<1>1. TypeOK /\ ValidInv /\ [Next]_vars => ValidInv'
  BY ValidStep
<1>2. ValidInv => OnlyValidUsed
  BY DEF ValidInv, OnlyValidUsed, Used
<1> QED BY <1>1, <1>2, ValidInit, TypeCorrect, PTL DEF Spec

\* A call whose reload is not overtaken by another thread's uses a valid
\* INI as it was when the call began, or a newer one (service.go:185-188, 541-556).
THEOREM CallsReflectIni == Spec => []CallReflectsIni
<1>1. TypeOK /\ CoherenceInv /\ [Next]_vars => CoherenceInv'
  BY CoherenceStep
<1>2. TypeOK /\ CoherenceInv /\ EmptyInv /\ CallInv /\ [Next]_vars => CallInv'
  BY CallStep
<1>3. TypeOK /\ CallInv /\ OnlyValidUsed => CallReflectsIni
  <2>1. ASSUME TypeOK, CallInv, NEW t \in Threads, Used(t), ~overtaken[t]
        PROVE  answer[t] >= began[t]
    <3>1. answer[t] \in Nat /\ began[t] \in Nat
      BY <2>1, ConstantsAssumption DEF TypeOK, ConstantsAssumption, Versions
    <3> QED BY <2>1, <3>1 DEF CallInv, Used
  <2> QED BY <2>1 DEF CallReflectsIni
<1> QED BY <1>1, <1>2, <1>3, CoherenceInit, CallInit, EmptyStep,
             OnlyValidIsUsed, TypeCorrect, PTL DEF Spec
=============================================================================
