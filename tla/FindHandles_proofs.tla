------------------------ MODULE FindHandles_proofs ------------------------
(***************************************************************************)
(* What FindHandles promises for any number of threads, any set of names   *)
(* and any size of the token space: the token a new enumeration draws is   *)
(* nobody else's, although the counter wraps, because the place of every   *)
(* open enumeration on the counter's circle is known (Placed).             *)
(***************************************************************************)
EXTENDS FindHandles, TLAPS

Walkers == {h \in Threads : Walking(h)}

\* Where the counter stands: opens[h] + 1 tokens beyond h's own, 0 left out.
Placed ==
  \A h \in Walkers :
    \/ FreshToken = token[h] + opens[h] + 1
    \/ FreshToken = token[h] + opens[h] + 2 - TokenSpace

Owned ==
  /\ \A h \in Walkers : token[h] \in DOMAIN handles \ NoHandles
  /\ \A h, k \in Walkers : token[h] = token[k] => h = k

Snapped ==
  \A h \in Walkers :
    /\ handles[token[h]].entries = listing[h]
    /\ handles[token[h]].next = Len(given[h]) + 1
    /\ Len(given[h]) <= Len(listing[h])
    /\ \A i \in 1..Len(given[h]) : given[h][i] = listing[h][i]
    /\ pc[h] = "ended" => Len(given[h]) = Len(listing[h])

IInv == TypeOK /\ Placed /\ Owned /\ Snapped /\ NoLeakedHandle

LEMMA SnapshotsAreSeqs == Snapshots \subseteq Seq(Names)
  BY DEF Snapshots

\* The counter on its circle: numbers only.
LEMMA FreshInRange ==
  ASSUME NEW N \in Nat \ 0..2, NEW n \in 0..(N - 1)
  PROVE  LET f == IF n = 0 THEN 1 ELSE n IN
         /\ f \in 1..(N - 1)
         /\ (f + 1) % N = IF f = N - 1 THEN 0 ELSE f + 1
  OBVIOUS

LEMMA InitIInv == Init => IInv
  <1> SUFFICES ASSUME Init PROVE IInv
    OBVIOUS
  <1> USE ConstantsAssumption DEF Init
  <1>1. Walkers = {}
    BY DEF Walkers, Walking
  <1>2. TypeOK
    BY DEF TypeOK, Tokens, LastErrors, Failures, NoToken
  <1> QED
    BY <1>1, <1>2 DEF IInv, Placed, Owned, Snapped, NoLeakedHandle, Walkers

\* Steps that leave the table, the tokens and the open enumerations alone.
LEMMA QuietKeepsIInv ==
  ASSUME IInv, TypeOK', UNCHANGED <<handles, nextToken, token, given, opens>>,
         Walkers' = Walkers,
         \A k \in Walkers : listing'[k] = listing[k] /\ pc'[k] = pc[k]
  PROVE  IInv'
  <1>1. Placed'
    BY DEF IInv, Placed, FreshToken
  <1>2. Owned'
    BY DEF IInv, Owned
  <1>3. Snapped'
    BY DEF IInv, Snapped
  <1>4. NoLeakedHandle'
    BY DEF IInv, NoLeakedHandle, Walkers
  <1> QED
    BY <1>1, <1>2, <1>3, <1>4 DEF IInv

\* A step of a thread that walks neither before nor after it.
Outside(h) ==
  /\ UNCHANGED <<handles, nextToken, token, given, opens>>
  /\ ~Walking(h)
  /\ pc'[h] \notin {"walking", "ended"}
  /\ \A k \in Threads \ {h} : pc'[k] = pc[k] /\ listing'[k] = listing[k]

LEMMA OutsideKeepsIInv ==
  ASSUME IInv, TypeOK', NEW h \in Threads, Outside(h)
  PROVE  IInv'
  <1>1. Walkers' = Walkers
    BY DEF Walkers, Walking, Outside
  <1>2. \A k \in Walkers : listing'[k] = listing[k] /\ pc'[k] = pc[k]
    BY DEF Walkers, Outside
  <1> QED
    BY <1>1, <1>2, QuietKeepsIInv DEF Outside

LEMMA FindKeepsIInv ==
  ASSUME IInv, NEW h \in Threads, Find(h)
  PROVE  IInv'
  <1>0. TypeOK
    BY DEF IInv
  <1>1. CASE \E entries \in Snapshots : List(h, entries)
    <2>1. PICK entries \in Snapshots : List(h, entries)
      BY <1>1
    <2>2. TypeOK'
      BY <1>0, <2>1, SnapshotsAreSeqs DEF List, TypeOK, Goto, tableVars, LastErrors
    <2>3. Outside(h)
      BY <1>0, <2>1 DEF List, Outside, Walking, TypeOK, Goto, tableVars
    <2> QED
      BY <2>2, <2>3, OutsideKeepsIInv
  <1>2. CASE \E why \in {"notExist", "error"} : ListFails(h, why)
    <2>1. PICK why \in {"notExist", "error"} : ListFails(h, why)
      BY <1>2
    <2>2. TypeOK'
      BY <1>0, <2>1 DEF ListFails, TypeOK, Goto, tableVars, LastErrors, Failures
    <2>3. Outside(h)
      BY <1>0, <2>1 DEF ListFails, Outside, Walking, TypeOK, Goto, tableVars
    <2> QED
      BY <2>2, <2>3, OutsideKeepsIInv
  <1> QED
    BY <1>1, <1>2 DEF Find

LEMMA FailureKeepsIInv ==
  ASSUME IInv, NEW h \in Threads,
         OpenEmpty(h) \/ Report(h) \/ SetFindError(h) \/ FindNextClosed(h)
  PROVE  IInv'
  <1>0. TypeOK
    BY DEF IInv
  <1>1. CASE OpenEmpty(h)
    <2>1. TypeOK'
      BY <1>0, <1>1 DEF OpenEmpty, TypeOK, Goto, tableVars, LastErrors, Failures
    <2>2. Outside(h)
      BY <1>0, <1>1 DEF OpenEmpty, Outside, Walking, TypeOK, Goto, tableVars
    <2> QED
      BY <2>1, <2>2, OutsideKeepsIInv
  <1>2. CASE Report(h)
    <2>1. TypeOK'
      BY <1>0, <1>2 DEF Report, TypeOK, Goto, tableVars, LastErrors, Failures
    <2>2. Outside(h)
      BY <1>0, <1>2 DEF Report, Outside, Walking, TypeOK, Goto, tableVars
    <2> QED
      BY <2>1, <2>2, OutsideKeepsIInv
  <1>3. CASE SetFindError(h)
    <2>1. TypeOK'
      BY <1>0, <1>3 DEF SetFindError, FindError, TypeOK, Goto, tableVars, LastErrors, Failures
    <2>2. Outside(h)
      BY <1>0, <1>3 DEF SetFindError, FindError, Outside, Walking, TypeOK, Goto, tableVars
    <2> QED
      BY <2>1, <2>2, OutsideKeepsIInv
  <1>4. CASE FindNextClosed(h)
    <2>1. TypeOK'
      BY <1>0, <1>4 DEF FindNextClosed, TypeOK, Goto, tableVars, LastErrors, Failures
    <2>2. Outside(h)
      BY <1>0, <1>4 DEF FindNextClosed, Outside, Walking, TypeOK, Goto, tableVars
    <2> QED
      BY <2>1, <2>2, OutsideKeepsIInv
  <1> QED
    BY <1>1, <1>2, <1>3, <1>4

\* The new token is nobody's: the counter would have to go all the way round.
LEMMA FreshIsFree ==
  ASSUME IInv, NEW h \in Threads, NoneLasts(h), NEW k \in Walkers, k # h
  PROVE  FreshToken # token[k] /\ opens[k] < TokenSpace - 2
  <1>1. opens[k] \in Nat /\ opens[k] < TokenSpace - 2
    BY ConstantsAssumption DEF IInv, TypeOK, NoneLasts, Walkers
  <1>2. token[k] \in Nat
    BY ConstantsAssumption DEF IInv, TypeOK, Owned, NoHandles, Tokens, InvalidHandle, NoToken, Walkers
  <1> QED
    BY <1>1, <1>2, ConstantsAssumption DEF IInv, Placed

\* One more token is drawn, or 0 is left out: numbers only.
LEMMA OnePlaceOn ==
  ASSUME NEW N \in Nat \ 0..2, NEW f \in 1..(N - 1), NEW t \in 1..(N - 2),
         NEW k \in 0..(N - 3), f = t + k + 1 \/ f = t + k + 2 - N
  PROVE  LET n == IF f = N - 1 THEN 0 ELSE f + 1
             g == IF n = 0 THEN 1 ELSE n IN
         \/ g = t + (k + 1) + 1
         \/ g = t + (k + 1) + 2 - N
  OBVIOUS

LEMMA OpenKeepsIInv ==
  ASSUME IInv, NEW h \in Threads, OpenFind(h)
  PROVE  IInv'
  <1> DEFINE f == FreshToken
  <1> DEFINE lost == f = InvalidHandle
  <1> DEFINE Others == Walkers \ {h}
  <1> USE ConstantsAssumption
  <1>1. nextToken \in Tokens
    BY DEF IInv, TypeOK
  <1>2. f \in 1..(TokenSpace - 1) /\ nextToken' = IF f = TokenSpace - 1 THEN 0 ELSE f + 1
    BY <1>1, FreshInRange DEF FreshToken, OpenFind, Tokens
  <1>3. h \notin Walkers
    BY DEF OpenFind, Walkers, Walking
  <1>4. Walkers' = IF lost THEN Walkers ELSE Walkers \cup {h}
    BY DEF OpenFind, Walkers, Walking, Goto, IInv, TypeOK
  <1>5. \A k \in Others : f # token[k] /\ opens[k] < TokenSpace - 2
    BY FreshIsFree DEF OpenFind
  <1>6. \A k \in Others : token'[k] = token[k] /\ given'[k] = given[k] /\ pc'[k] = pc[k]
    BY DEF OpenFind, Walkers, Goto, IInv, TypeOK
  <1>7. \A k \in Others : opens'[k] = opens[k] + 1
    BY DEF OpenFind, Aged, Walkers
  <1>8. opens'[h] = 0
    BY DEF OpenFind, Aged
  <1>9. DOMAIN handles' = DOMAIN handles \cup {f} /\ handles'[f] = NewState(listing[h])
    BY DEF OpenFind
  <1>10. \A k \in Others : token[k] \in DOMAIN handles /\ handles'[token[k]] = handles[token[k]]
    BY <1>5 DEF OpenFind, IInv, Owned
  <1>11. ~lost => token'[h] = f /\ given'[h] = <<listing[h][1]>> /\ pc'[h] = "walking"
    BY DEF OpenFind, Goto, IInv, TypeOK
  <1>12. listing' = listing
    BY DEF OpenFind
  <1>13. listing[h] \in Seq(Names) /\ Len(listing[h]) \in Nat \ {0} /\ listing[h][1] \in Names
    BY DEF OpenFind, IInv, TypeOK
  <1>19. \/ token' = token /\ given' = given
         \/ token' = [token EXCEPT ![h] = f] /\ given' = [given EXCEPT ![h] = <<listing[h][1]>>]
    BY DEF OpenFind
  <1>14. TypeOK'
    <2>1. DOMAIN handles' \subseteq Tokens /\ nextToken' \in Tokens
      BY <1>2, <1>9 DEF IInv, TypeOK, Tokens
    <2>2. handles' \in [DOMAIN handles' -> [entries : Seq(Names), next : Nat \ {0}]]
      BY <1>13 DEF IInv, TypeOK, OpenFind, NewState
    <2>3. opens' \in [Threads -> 0..(TokenSpace - 2)]
      <3>1. \A k \in Threads : opens'[k] \in 0..(TokenSpace - 2)
        <4>1. \A k \in Threads : opens[k] \in 0..(TokenSpace - 2)
          BY DEF IInv, TypeOK
        <4> QED
          BY <4>1, <1>5, <1>8 DEF OpenFind, Aged, Walkers
      <3> QED
        BY <3>1 DEF OpenFind, Aged
    <2>4. token' \in [Threads -> Tokens \cup {NoToken}]
      <3>1. f \in Tokens
        BY <1>2 DEF Tokens
      <3> QED
        BY <3>1, <1>19 DEF IInv, TypeOK
    <2>5. given' \in [Threads -> Seq(Names)]
      <3>1. <<listing[h][1]>> \in Seq(Names)
        BY <1>13
      <3> QED
        BY <3>1, <1>19 DEF IInv, TypeOK
    <2> QED
      BY <2>1, <2>2, <2>3, <2>4, <2>5 DEF IInv, TypeOK, OpenFind, Goto
  <1>15. Placed'
    <2>1. \A k \in Others : \/ FreshToken' = token[k] + opens'[k] + 1
                            \/ FreshToken' = token[k] + opens'[k] + 2 - TokenSpace
      <3> SUFFICES ASSUME NEW k \in Others
                   PROVE  \/ FreshToken' = token[k] + opens'[k] + 1
                          \/ FreshToken' = token[k] + opens'[k] + 2 - TokenSpace
        OBVIOUS
      <3>1. token[k] \in 1..(TokenSpace - 2)
        <4>1. token[k] \in DOMAIN handles /\ token[k] \notin {0, TokenSpace - 1}
          BY DEF IInv, Owned, NoHandles, InvalidHandle
        <4>2. DOMAIN handles \subseteq 0..(TokenSpace - 1)
          BY DEF IInv, TypeOK, Tokens
        <4> QED
          BY <4>1, <4>2
      <3>2. opens[k] \in 0..(TokenSpace - 3)
        BY <1>5 DEF IInv, TypeOK, Walkers
      <3>3. f = token[k] + opens[k] + 1 \/ f = token[k] + opens[k] + 2 - TokenSpace
        BY DEF IInv, Placed
      <3>4. FreshToken' = IF nextToken' = 0 THEN 1 ELSE nextToken'
        BY DEF FreshToken
      <3> QED
        BY <3>1, <3>2, <3>3, <3>4, <1>2, <1>7, OnePlaceOn
    <2>2. ~lost => FreshToken' = f + 1
      BY <1>2 DEF FreshToken, InvalidHandle
    <2> QED
      BY <2>1, <2>2, <1>2, <1>3, <1>4, <1>6, <1>8, <1>11 DEF Placed
  <1>16. Owned'
    <2>1. ~lost => f \notin NoHandles
      BY <1>2 DEF NoHandles
    <2>2. \A k \in Others : token[k] \in DOMAIN handles \ NoHandles
      BY DEF IInv, Owned
    <2>3. \A j, k \in Others : token[j] = token[k] => j = k
      BY DEF IInv, Owned
    <2> QED
      BY <2>1, <2>2, <2>3, <1>3, <1>4, <1>5, <1>6, <1>9, <1>11 DEF Owned
  <1>17. Snapped'
    <2>2. ASSUME NEW k \in Walkers', k # h
          PROVE  /\ handles'[token'[k]].entries = listing'[k]
                 /\ handles'[token'[k]].next = Len(given'[k]) + 1
                 /\ Len(given'[k]) <= Len(listing'[k])
                 /\ \A i \in 1..Len(given'[k]) : given'[k][i] = listing'[k][i]
                 /\ pc'[k] = "ended" => Len(given'[k]) = Len(listing'[k])
      <3>1. k \in Others
        BY <1>4, <2>2
      <3> QED
        BY <3>1, <1>6, <1>10, <1>12 DEF IInv, Snapped
    <2>3. h \in Walkers' => ~lost
      BY <1>3, <1>4
    <2>4. ~lost => /\ handles'[token'[h]].entries = listing'[h]
                   /\ handles'[token'[h]].next = Len(given'[h]) + 1
                   /\ Len(given'[h]) <= Len(listing'[h])
                   /\ \A i \in 1..Len(given'[h]) : given'[h][i] = listing'[h][i]
                   /\ pc'[h] # "ended"
      <3> SUFFICES ASSUME ~lost
                   PROVE  /\ handles'[token'[h]].entries = listing'[h]
                          /\ handles'[token'[h]].next = Len(given'[h]) + 1
                          /\ Len(given'[h]) <= Len(listing'[h])
                          /\ \A i \in 1..Len(given'[h]) : given'[h][i] = listing'[h][i]
                          /\ pc'[h] # "ended"
        OBVIOUS
      <3>1. token'[h] = f /\ listing'[h] = listing[h] /\ given'[h] = <<listing[h][1]>>
        BY <1>11, <1>12
      <3>2. Len(given'[h]) = 1 /\ given'[h][1] = listing[h][1]
        BY <3>1
      <3>3. handles'[token'[h]] = NewState(listing[h])
        BY <3>1, <1>9
      <3>4. handles'[token'[h]].entries = listing'[h]
        BY <3>1, <3>3 DEF NewState
      <3>5. handles'[token'[h]].next = Len(given'[h]) + 1
        BY <3>2, <3>3 DEF NewState
      <3>6. Len(given'[h]) <= Len(listing'[h])
        BY <3>1, <3>2, <1>13
      <3>7. \A i \in 1..Len(given'[h]) : given'[h][i] = listing'[h][i]
        BY <3>1, <3>2
      <3>8. pc'[h] # "ended"
        BY <1>11
      <3> QED
        BY <3>4, <3>5, <3>6, <3>7, <3>8
    <2> QED
      BY <2>2, <2>3, <2>4 DEF Snapped
  <1>18. NoLeakedHandle'
    BY <1>3, <1>4, <1>6, <1>9, <1>11 DEF IInv, NoLeakedHandle, Walkers
  <1> QED
    BY <1>14, <1>15, <1>16, <1>17, <1>18 DEF IInv

\* A thread keeps walking; only its own place in its own enumeration moves.
LEMMA NextKeepsIInv ==
  ASSUME IInv, NEW h \in Threads, FindNext(h)
  PROVE  IInv'
  <1> DEFINE state == handles[token[h]]
  <1> USE DEF FindNext, Goto, tableVars
  <1>1. h \in Walkers /\ pc[h] = "walking" /\ token[h] \in DOMAIN handles
    BY DEF Walkers, Walking
  <1>2. UNCHANGED <<nextToken, listing, failure, token, lastError, opens>>
    OBVIOUS
  <1>3. /\ state.entries = listing[h] /\ state.next = Len(given[h]) + 1
        /\ listing[h] \in Seq(Names) /\ given[h] \in Seq(Names) /\ Len(given[h]) <= Len(listing[h])
        /\ \A i \in 1..Len(given[h]) : given[h][i] = listing[h][i]
    BY <1>1 DEF IInv, TypeOK, Snapped
  <1>4. Walkers' = Walkers
    BY <1>1 DEF Walkers, Walking, IInv, TypeOK
  <1>5. DOMAIN handles' = DOMAIN handles
    OBVIOUS
  <1>6. Placed' /\ Owned' /\ NoLeakedHandle'
    BY <1>2, <1>4, <1>5 DEF IInv, Placed, FreshToken, Owned, NoLeakedHandle, Walkers
  <1>7. CASE state.next > Len(state.entries)
    <2>1. UNCHANGED <<handles, given>> /\ pc' = [pc EXCEPT ![h] = "ended"]
      BY <1>7
    <2>2. TypeOK'
      BY <1>2, <2>1 DEF IInv, TypeOK
    <2>3. Len(given[h]) = Len(listing[h])
      BY <1>3, <1>7
    <2>4. \A k \in Threads : k # h => pc'[k] = pc[k]
      BY <2>1 DEF IInv, TypeOK
    <2>5. Snapped'
      BY <1>2, <1>4, <2>1, <2>3, <2>4 DEF IInv, Snapped
    <2> QED
      BY <1>6, <2>2, <2>5 DEF IInv
  <1>8. CASE ~(state.next > Len(state.entries))
    <2>1. /\ given' = [given EXCEPT ![h] = Append(@, listing[h][state.next])]
          /\ handles' = [handles EXCEPT ![token[h]].next = @ + 1]
          /\ pc' = pc
      BY <1>3, <1>8
    <2>2. state.next \in 1..Len(listing[h])
      BY <1>3, <1>8
    <2>3. /\ given'[h] \in Seq(Names)
          /\ Len(given'[h]) = Len(given[h]) + 1
          /\ \A i \in 1..Len(given'[h]) : given'[h][i] = listing[h][i]
      BY <1>3, <2>1, <2>2 DEF IInv, TypeOK
    <2>4. handles'[token[h]].entries = listing[h] /\ handles'[token[h]].next = Len(given'[h]) + 1
      BY <1>1, <1>3, <2>1, <2>3 DEF IInv, TypeOK
    <2>5. TypeOK'
      <3>1. given' \in [Threads -> Seq(Names)]
        BY <2>1, <2>3 DEF IInv, TypeOK
      <3>2. handles' \in [DOMAIN handles' -> [entries : Seq(Names), next : Nat \ {0}]]
        <4>0. state \in [entries : Seq(Names), next : Nat \ {0}]
          BY <1>1 DEF IInv, TypeOK
        <4>1. [state EXCEPT !.next = @ + 1] \in [entries : Seq(Names), next : Nat \ {0}]
          <5> HIDE DEF FindNext, Goto, tableVars, state
          <5> QED
            BY <4>0
        <4>2. handles' = [handles EXCEPT ![token[h]] = [state EXCEPT !.next = @ + 1]]
          BY <2>1, <1>8
        <4> QED
          BY <4>1, <4>2, <1>1 DEF IInv, TypeOK
      <3> QED
        BY <1>2, <1>5, <2>1, <3>1, <3>2 DEF IInv, TypeOK
    <2>6. \A k \in Walkers \ {h} : handles'[token[k]] = handles[token[k]] /\ given'[k] = given[k]
      BY <1>1, <2>1 DEF IInv, Owned, TypeOK, Walkers
    <2>7. Snapped'
      <3>1. Len(given'[h]) <= Len(listing'[h])
        BY <1>2, <1>3, <2>2, <2>3
      <3>2. ASSUME NEW k \in Walkers \ {h}
            PROVE  /\ handles'[token[k]].entries = listing[k]
                   /\ handles'[token[k]].next = Len(given'[k]) + 1
                   /\ Len(given'[k]) <= Len(listing[k])
                   /\ \A i \in 1..Len(given'[k]) : given'[k][i] = listing[k][i]
                   /\ pc[k] = "ended" => Len(given'[k]) = Len(listing[k])
        <4>1. /\ handles[token[k]].entries = listing[k]
              /\ handles[token[k]].next = Len(given[k]) + 1
              /\ Len(given[k]) <= Len(listing[k])
              /\ \A i \in 1..Len(given[k]) : given[k][i] = listing[k][i]
              /\ pc[k] = "ended" => Len(given[k]) = Len(listing[k])
          BY DEF IInv, Snapped
        <4>2. handles'[token[k]] = handles[token[k]] /\ given'[k] = given[k]
          BY <2>6
        <4> HIDE DEF FindNext, Goto, tableVars
        <4> QED
          BY <4>1, <4>2
      <3>3. \A i \in 1..Len(given'[h]) : given'[h][i] = listing'[h][i]
        BY <1>2, <2>3
      <3>4. pc'[h] # "ended"
        BY <1>1, <2>1
      <3>5. handles'[token'[h]].entries = listing'[h] /\ handles'[token'[h]].next = Len(given'[h]) + 1
        BY <1>2, <2>4
      <3> HIDE DEF FindNext, Goto, tableVars
      <3> QED
        BY <1>2, <1>4, <2>1, <3>1, <3>2, <3>3, <3>4, <3>5 DEF Snapped
    <2> QED
      BY <1>6, <2>5, <2>7 DEF IInv
  <1> QED
    BY <1>7, <1>8

LEMMA CloseKeepsIInv ==
  ASSUME IInv, NEW h \in Threads, FindClose(h)
  PROVE  IInv'
  <1> USE DEF FindClose, Goto
  <1>1. h \in Walkers /\ token[h] \notin NoHandles
    BY DEF IInv, Owned, Walkers
  <1>2. Walkers' = Walkers \ {h}
    BY DEF Walkers, Walking, IInv, TypeOK
  <1>3. \A k \in Threads \ {h} : /\ given'[k] = given[k] /\ listing'[k] = listing[k]
                                 /\ opens'[k] = opens[k] /\ pc'[k] = pc[k]
    BY DEF IInv, TypeOK
  <1>4. \A k \in Walkers \ {h} : token[k] # token[h]
    BY <1>1 DEF IInv, Owned
  <1>5. /\ DOMAIN handles' = DOMAIN handles \ {token[h]}
        /\ \A t \in DOMAIN handles' : handles'[t] = handles[t]
    BY <1>1
  <1>6. TypeOK'
    BY <1>5, ConstantsAssumption DEF IInv, TypeOK, LastErrors
  <1>7. Placed'
    BY <1>2, <1>3 DEF IInv, Placed, FreshToken, Walkers
  <1>8. Owned'
    BY <1>2, <1>4, <1>5 DEF IInv, Owned
  <1>9. Snapped'
    <2>1. \A k \in Walkers \ {h} : handles'[token[k]] = handles[token[k]]
      BY <1>4, <1>5 DEF IInv, Owned
    <2>2. token' = token
      OBVIOUS
    <2> SUFFICES ASSUME NEW k \in Walkers \ {h}
                 PROVE  /\ handles'[token[k]].entries = listing'[k]
                        /\ handles'[token[k]].next = Len(given'[k]) + 1
                        /\ Len(given'[k]) <= Len(listing'[k])
                        /\ \A i \in 1..Len(given'[k]) : given'[k][i] = listing'[k][i]
                        /\ pc'[k] = "ended" => Len(given'[k]) = Len(listing'[k])
      BY <1>2, <2>2 DEF Snapped
    <2>3. given'[k] = given[k] /\ listing'[k] = listing[k] /\ pc'[k] = pc[k]
      BY <1>3 DEF Walkers
    <2>4. /\ handles[token[k]].entries = listing[k]
          /\ handles[token[k]].next = Len(given[k]) + 1
          /\ Len(given[k]) <= Len(listing[k])
          /\ \A i \in 1..Len(given[k]) : given[k][i] = listing[k][i]
          /\ pc[k] = "ended" => Len(given[k]) = Len(listing[k])
      BY DEF IInv, Snapped
    <2> HIDE DEF FindClose, Goto
    <2> QED
      BY <2>1, <2>3, <2>4
  <1>10. NoLeakedHandle'
    BY <1>2, <1>5 DEF IInv, NoLeakedHandle, Walkers
  <1> QED
    BY <1>6, <1>7, <1>8, <1>9, <1>10 DEF IInv

LEMMA NextKeepsAll == IInv /\ [Next]_vars => IInv'
  <1> SUFFICES ASSUME IInv, [Next]_vars PROVE IInv'
    OBVIOUS
  <1>1. CASE UNCHANGED vars
    BY <1>1 DEF vars, tableVars, threadVars, IInv, TypeOK, Placed, Owned, Snapped, NoLeakedHandle,
                Walkers, Walking, FreshToken
  <1>2. CASE Next
    <2>1. PICK h \in Threads : Find(h) \/ Walk(h) \/ FindClose(h) \/ FindNextClosed(h)
      BY <1>2 DEF Next
    <2> QED
      BY <2>1, FindKeepsIInv, FailureKeepsIInv, OpenKeepsIInv, NextKeepsIInv, CloseKeepsIInv DEF Walk
  <1> QED
    BY <1>1, <1>2

LEMMA Inductive == Spec => []IInv
  BY InitIInv, NextKeepsAll, PTL DEF Spec

\* Every variable of the enumerations keeps its type.
THEOREM TypeCorrect == Spec => []TypeOK
  BY Inductive, PTL DEF IInv

\* Every enumeration gives exactly what its FindFirst has listed, whatever other
\* threads do and however often the counter wraps (service.go:239-263).
THEOREM EnumerationsKeepApart == Spec => []OwnSnapshot
  <1>1. IInv => OwnSnapshot
    <2> SUFFICES ASSUME IInv, NEW h \in Threads, Walking(h)
                 PROVE  /\ Len(given[h]) <= Len(listing[h])
                        /\ \A i \in DOMAIN given[h] : given[h][i] = listing[h][i]
                        /\ pc[h] = "ended" => Len(given[h]) = Len(listing[h])
      BY DEF OwnSnapshot
    <2>1. h \in Walkers /\ given[h] \in Seq(Names)
      BY DEF Walkers, IInv, TypeOK
    <2> QED
      BY <2>1 DEF IInv, Snapped
  <1> QED
    BY <1>1, Inductive, PTL

\* No handle but the invalid one is left without an owner (service.go:241-244,
\* main.go:199-203).
THEOREM HandlesAreOwned == Spec => []NoLeakedHandle
  BY Inductive, PTL DEF IInv

\* The host learns why a find failed (main.go:167-173).
THEOREM FailuresAreTold == Spec => FailureIsTold
  <1>1. IInv /\ [Next]_vars =>
          [\A h \in Threads : pc[h] # "idle" /\ ~Walking(h) /\ pc'[h] = "idle" =>
             \/ /\ lastError'[h] \in {"noMoreFiles", "pathNotFound", "badNetResp"}
                /\ lastError'[h] = "noMoreFiles" <=> failure[h] = "empty"
             \/ pc[h] = "listed" /\ FreshToken = InvalidHandle]_vars
    <2> SUFFICES ASSUME IInv, Next, NEW h \in Threads,
                        pc[h] # "idle", ~Walking(h), pc'[h] = "idle"
                 PROVE  \/ /\ lastError'[h] \in {"noMoreFiles", "pathNotFound", "badNetResp"}
                           /\ lastError'[h] = "noMoreFiles" <=> failure[h] = "empty"
                        \/ pc[h] = "listed" /\ FreshToken = InvalidHandle
      OBVIOUS
    <2>1. PICK k \in Threads : Find(k) \/ Walk(k) \/ FindClose(k) \/ FindNextClosed(k)
      BY DEF Next
    <2> USE DEF Goto, IInv, TypeOK
    <2>2. CASE Find(k)
      BY <2>2 DEF Find, List, ListFails
    <2>3. CASE FindClose(k) \/ FindNextClosed(k)
      BY <2>3 DEF FindClose, FindNextClosed
    <2>4. CASE OpenFind(k)
      BY <2>4 DEF OpenFind
    <2>5. CASE OpenEmpty(k) \/ Report(k) \/ FindNext(k)
      BY <2>5 DEF OpenEmpty, Report, FindNext, tableVars
    <2>6. CASE SetFindError(k)
      BY <2>6 DEF SetFindError, FindError
    <2> QED
      BY <2>1, <2>2, <2>3, <2>4, <2>5, <2>6 DEF Walk
  <1> QED
    BY <1>1, Inductive, PTL DEF Spec, FailureIsTold
=============================================================================
