-------------------------- MODULE LoginLockProofs --------------------------
(* Proofs about LoginLock, for any number of web threads and codes. *)
EXTENDS LoginLock, FiniteSetTheorems, TLAPS

USE DEF Goto, Answer, Idle, Matching

\* The initial state is well typed.
LEMMA InitTyped == Init => LoginTypeOK
<1> SUFFICES ASSUME Init PROVE LoginTypeOK
  OBVIOUS
<1>1. login \in [Login -> LoginState]
  BY DEF Init, LoginState
<1>2. codes \subseteq Code /\ (expiring => count > 0) /\ expiring \in BOOLEAN
  BY Zenon DEF Init
<1>3. count \in Nat /\ loginCount \in Nat /\ failed \in Nat /\ succeeded \in Nat /\ crashes \in Nat
  BY DEF Init
<1> QED
  BY <1>1, <1>2, <1>3 DEF LoginTypeOK

\* What doCredentialsMatch keeps in its locals may change, and stays a state of a login.
LEMMA MatchingTyped ==
    ASSUME NEW s \in LoginState, s.pc \in {"hasKey", "count"},
           NEW p \in {"count", "check"}, NEW b \in BOOLEAN, NEW n \in Nat
    PROVE  /\ [s EXCEPT !.pc = p, !.isExit = b] \in LoginState
           /\ [s EXCEPT !.pc = p, !.retryCount = n] \in LoginState
<1>1. s \in Matching({"hasKey", "count", "check", "getExpire", "expire", "compare", "update"})
  BY DEF LoginState
<1> QED
  BY <1>1 DEF LoginState

\* A step of a login keeps the types.
LEMMA LoginStepTyped ==
    ASSUME LoginTypeOK, NEW l \in Login, LoginStep(l)
    PROVE  LoginTypeOK'
<1>0. login[l] \in LoginState
  BY DEF LoginTypeOK
<1>1. CASE HasCode(l)
  BY <1>0, <1>1 DEF LoginTypeOK, LoginState, HasCode
<1>2. CASE GetCode(l)
  BY <1>0, <1>2 DEF LoginTypeOK, LoginState, GetCode
<1>3. CASE DeleteCode(l)
  BY <1>0, <1>3 DEF LoginTypeOK, LoginState, DeleteCode
<1>4. CASE ReadAccount(l)
  BY <1>0, <1>4 DEF LoginTypeOK, LoginState, ReadAccount
<1>5. CASE HasKey(l)
  <2>1. (count > 0) \in BOOLEAN
    OBVIOUS
  <2>2. [login[l] EXCEPT !.pc = "count", !.isExit = (count > 0)] \in LoginState
    BY <1>0, <1>5, <2>1, MatchingTyped DEF HasKey
  <2>3. login' \in [Login -> LoginState]
    BY <1>5, <2>2, Zenon DEF LoginTypeOK, HasKey
  <2> QED
    BY <1>5, <2>3 DEF LoginTypeOK, HasKey
<1>6. CASE FirstIncrement(l)
  <2>1. count' \in Nat /\ count' > 0
    <3>1. count \in Nat /\ count' = count + 1
      BY <1>6 DEF LoginTypeOK, FirstIncrement
    <3> QED
      BY <3>1
  <2>2. [login[l] EXCEPT !.pc = "check", !.retryCount = count'] \in LoginState
    BY <1>0, <1>6, <2>1, MatchingTyped DEF FirstIncrement
  <2>3. login' \in [Login -> LoginState]
    BY <1>6, <2>2, Zenon DEF LoginTypeOK, FirstIncrement
  <2> QED
    BY <1>6, <2>1, <2>3 DEF LoginTypeOK, FirstIncrement
<1>7. CASE ReadCount(l)
  <2>1. login' \in [Login -> LoginState]
    BY <1>0, <1>7 DEF LoginTypeOK, LoginState, ReadCount
  <2> QED
    BY <1>7, <2>1 DEF LoginTypeOK, ReadCount
<1>8. CASE Check(l)
  BY <1>0, <1>8 DEF LoginTypeOK, LoginState, Check
<1>9. CASE GetExpire(l)
  BY <1>0, <1>9 DEF LoginTypeOK, LoginState, GetExpire
<1>10. CASE Expire(l)
  <2>1. (count > 0) \in BOOLEAN
    OBVIOUS
  <2>2. login' \in [Login -> LoginState]
    BY <1>0, <1>10 DEF LoginTypeOK, LoginState, Expire
  <2>3. expiring' \in BOOLEAN /\ (expiring' => count' > 0)
    BY <1>10, <2>1, Zenon DEF Expire
  <2> QED
    BY <1>10, <2>2, <2>3 DEF LoginTypeOK, Expire
<1>11. CASE CompareRight(l)
  <2>1. login' \in [Login -> LoginState]
    BY <1>0, <1>11 DEF LoginTypeOK, LoginState, CompareRight
  <2> QED
    BY <1>11, <2>1 DEF LoginTypeOK, CompareRight, RemoveKey
<1>12. CASE CompareWrong(l)
  <2>1. count' \in Nat /\ (count > 0 => count' > 0)
    BY <1>12 DEF LoginTypeOK, CompareWrong
  <2>2. login' \in [Login -> LoginState]
    BY <1>0, <1>12 DEF LoginTypeOK, LoginState, CompareWrong
  <2> QED
    BY <1>12, <2>1, <2>2 DEF LoginTypeOK, CompareWrong
<1>13. CASE UpdateLoginUser(l)
  BY <1>0, <1>13 DEF LoginTypeOK, LoginState, UpdateLoginUser
<1> QED
  BY <1>1, <1>2, <1>3, <1>4, <1>5, <1>6, <1>7, <1>8, <1>9, <1>10, <1>11, <1>12, <1>13
  DEF LoginStep

\* Every step keeps the types.
LEMMA StepTyped == LoginTypeOK /\ [Next]_vars => LoginTypeOK'
<1> SUFFICES ASSUME LoginTypeOK, [Next]_vars PROVE LoginTypeOK'
  OBVIOUS
<1>1. ASSUME NEW v \in Code, GetVerify(v) \/ CodeExpires(v) PROVE LoginTypeOK'
  BY <1>1 DEF LoginTypeOK, LoginState, GetVerify, CodeExpires
<1>2. ASSUME NEW l \in Login, NEW v \in Code, Submit(l, v) PROVE LoginTypeOK'
  BY <1>2 DEF LoginTypeOK, LoginState, Submit
<1>3. ASSUME NEW l \in Login, LoginStep(l) PROVE LoginTypeOK'
  BY <1>3, LoginStepTyped
<1>4. ASSUME NEW l \in Login, Crash(l) PROVE LoginTypeOK'
  BY <1>4 DEF LoginTypeOK, LoginState, Crash
<1>5. CASE KeyExpires
  BY <1>5 DEF LoginTypeOK, LoginState, KeyExpires, RemoveKey
<1>6. CASE UNCHANGED vars
  BY <1>6 DEF LoginTypeOK, vars
<1> QED
  BY <1>1, <1>2, <1>3, <1>4, <1>5, <1>6 DEF Next

\* Type correctness of logins, codes and counter (adminLogin, doCredentialsMatch);
\* in particular only a key that exists has an expiry.
THEOREM LoginTypeCorrect == Spec => []LoginTypeOK
<1>1. Init => LoginTypeOK
  BY InitTyped
<1>2. LoginTypeOK /\ [Next]_vars => LoginTypeOK'
  BY StepTyped
<1> QED
  BY <1>1, <1>2, PTL DEF Spec

-----------------------------------------------------------------------------
\* A step of login k keeps CodeIsSpent: the codes only shrink, and a login gets
\* past its code only by the step that deletes it.
LEMMA LoginStepSpends ==
    ASSUME LoginTypeOK, CodeIsSpent, NEW k \in Login, LoginStep(k)
    PROVE  CodeIsSpent'
<1> SUFFICES ASSUME NEW l \in Login,
                    login'[l].pc \notin {"idle", "hasCode", "getCode", "deleteCode"}
             PROVE  login'[l].code \notin codes'
  BY DEF CodeIsSpent
<1>0. login[k] \in LoginState /\ login \in [Login -> LoginState]
  BY DEF LoginTypeOK
<1>1. CASE DeleteCode(k)
  BY <1>0, <1>1 DEF CodeIsSpent, LoginState, DeleteCode
<1>2. CASE HasCode(k) \/ GetCode(k)
  BY <1>0, <1>2 DEF CodeIsSpent, LoginState, HasCode, GetCode
<1>3. CASE ReadAccount(k) \/ HasKey(k) \/ FirstIncrement(k)
  BY <1>0, <1>3 DEF CodeIsSpent, LoginState, ReadAccount, HasKey, FirstIncrement
<1>4. CASE ReadCount(k) \/ Check(k) \/ GetExpire(k)
  BY <1>0, <1>4 DEF CodeIsSpent, LoginState, ReadCount, Check, GetExpire
<1>5. CASE Expire(k) \/ CompareRight(k) \/ CompareWrong(k) \/ UpdateLoginUser(k)
  BY <1>0, <1>5
  DEF CodeIsSpent, LoginState, Expire, CompareRight, CompareWrong, UpdateLoginUser
<1> QED
  BY <1>1, <1>2, <1>3, <1>4, <1>5 DEF LoginStep

\* A login that got past the verification code (adminLogin) has used it up, for
\* any number of logins, codes and nodes.
THEOREM CodeIsSpentAlways == Spec => []CodeIsSpent
<1>1. Init => CodeIsSpent
  BY DEF Init, CodeIsSpent
<1>2. ASSUME LoginTypeOK, CodeIsSpent, [Next]_vars PROVE CodeIsSpent'
  <2>1. ASSUME NEW v \in Code, GetVerify(v) PROVE CodeIsSpent'
    BY <1>2, <2>1 DEF CodeIsSpent, GetVerify
  <2>2. ASSUME NEW v \in Code, CodeExpires(v) PROVE CodeIsSpent'
    BY <1>2, <2>2 DEF CodeIsSpent, CodeExpires
  <2>3. ASSUME NEW l \in Login, NEW v \in Code, Submit(l, v) PROVE CodeIsSpent'
    BY <1>2, <2>3 DEF CodeIsSpent, Submit, LoginTypeOK
  <2>4. ASSUME NEW l \in Login, LoginStep(l) PROVE CodeIsSpent'
    BY <1>2, <2>4, LoginStepSpends
  <2>5. ASSUME NEW l \in Login, Crash(l) PROVE CodeIsSpent'
    BY <1>2, <2>5 DEF CodeIsSpent, Crash, LoginTypeOK
  <2>6. CASE KeyExpires
    BY <1>2, <2>6 DEF CodeIsSpent, KeyExpires
  <2>7. CASE UNCHANGED vars
    BY <1>2, <2>7 DEF CodeIsSpent, vars
  <2> QED
    BY <1>2, <2>1, <2>2, <2>3, <2>4, <2>5, <2>6, <2>7 DEF Next
<1> QED
  BY <1>1, <1>2, LoginTypeCorrect, PTL DEF Spec

-----------------------------------------------------------------------------
(* The counter.  A step of one thread moves at most that thread into or out  *)
(* of the sets that CountingInv counts.                                      *)

\* How the size of a set of threads changes with thread k.
Moves(X, Y, k) ==
    /\ Cardinality(Login) \in Nat \ {0}
    /\ Cardinality(X) \in 0 .. Cardinality(Login)
    /\ Cardinality(Y) \in 0 .. Cardinality(Login)
    /\ (k \in X <=> k \in Y) => Cardinality(Y) = Cardinality(X)
    /\ k \in X /\ k \notin Y => Cardinality(Y) = Cardinality(X) - 1
    /\ k \notin X /\ k \in Y => Cardinality(Y) = Cardinality(X) + 1
    /\ X # Login => Cardinality(X) <= Cardinality(Login) - 1
    /\ Y # Login => Cardinality(Y) <= Cardinality(Login) - 1

\* Sets of threads that differ in k only.
LEMMA OneThread ==
    ASSUME NEW X \in SUBSET Login, NEW Y \in SUBSET Login, NEW k \in Login,
           X \ {k} = Y \ {k}
    PROVE  Moves(X, Y, k)
<1>1. IsFiniteSet(Login) /\ Cardinality(Login) \in Nat \ {0}
  BY LoginAssumption, FS_CardinalityType, FS_EmptySet
<1>2. IsFiniteSet(X) /\ Cardinality(X) \in Nat /\ Cardinality(X) <= Cardinality(Login)
  BY <1>1, FS_Subset, FS_CardinalityType
<1>3. IsFiniteSet(Y) /\ Cardinality(Y) \in Nat /\ Cardinality(Y) <= Cardinality(Login)
  BY <1>1, FS_Subset, FS_CardinalityType
<1>4. X # Login => Cardinality(X) <= Cardinality(Login) - 1
  BY <1>1, <1>2, FS_Subset
<1>5. Y # Login => Cardinality(Y) <= Cardinality(Login) - 1
  BY <1>1, <1>3, FS_Subset
<1>6. (k \in X <=> k \in Y) => X = Y
  OBVIOUS
<1>7. k \in X /\ k \notin Y => Y = X \ {k}
  OBVIOUS
<1>8. k \notin X /\ k \in Y => Y = X \union {k}
  OBVIOUS
<1>9. /\ Cardinality(X \ {k}) = IF k \in X THEN Cardinality(X) - 1 ELSE Cardinality(X)
      /\ Cardinality(X \union {k}) = IF k \in X THEN Cardinality(X) ELSE Cardinality(X) + 1
  BY <1>2, FS_AddElement, FS_RemoveElement
<1>10. k \in X /\ k \notin Y => Cardinality(Y) = Cardinality(X) - 1
  BY <1>7, <1>9
<1>11. k \notin X /\ k \in Y => Cardinality(Y) = Cardinality(X) + 1
  BY <1>8, <1>9
<1>12. Cardinality(X) \in 0 .. Cardinality(Login) /\ Cardinality(Y) \in 0 .. Cardinality(Login)
  BY <1>1, <1>2, <1>3
<1> QED
  BY <1>1, <1>4, <1>5, <1>6, <1>10, <1>11, <1>12 DEF Moves

\* A step of thread k changes the sets of CountingInv in k only.
OthersStay(k) == \A l \in Login \ {k} : login'[l] = login[l]

LEMMA SetsMove ==
    ASSUME NEW k \in Login, OthersStay(k)
    PROVE  /\ Moves(Starting, Starting', k)
           /\ Moves(CountedFirst, CountedFirst', k)
           /\ Moves(Admitted, Admitted', k)
<1>1. Starting \ {k} = Starting' \ {k}
  BY DEF OthersStay, Starting
<1>2. CountedFirst \ {k} = CountedFirst' \ {k}
  BY DEF OthersStay, CountedFirst
<1>3. Admitted \ {k} = Admitted' \ {k}
  BY DEF OthersStay, Admitted
<1>4. /\ Starting \in SUBSET Login /\ Starting' \in SUBSET Login
      /\ CountedFirst \in SUBSET Login /\ CountedFirst' \in SUBSET Login
      /\ Admitted \in SUBSET Login /\ Admitted' \in SUBSET Login
  BY DEF Starting, CountedFirst, Admitted
<1> QED
  BY <1>1, <1>2, <1>3, <1>4, OneThread

\* A thread that is in none of the sets afterwards, and leaves the counter alone
\* or sets its expiry.
LEMMA LeavesTheSets ==
    ASSUME LoginTypeOK, CountingInv, NEW k \in Login, OthersStay(k),
           UNCHANGED <<count, failed>>, expiring' \in BOOLEAN,
           login'[k].pc \notin {"count", "check", "compare"}
    PROVE  CountingInv'
<1>1. k \notin Starting' /\ k \notin CountedFirst' /\ k \notin Admitted'
  BY DEF Starting, CountedFirst, Admitted
<1>2. /\ Cardinality(Starting') \in Nat /\ Cardinality(Starting) \in Nat
      /\ Cardinality(CountedFirst') \in Nat /\ Cardinality(CountedFirst) \in Nat
      /\ Cardinality(Admitted') \in Nat /\ Cardinality(Admitted) \in Nat
      /\ Cardinality(Login) \in Nat
      /\ Cardinality(Starting') <= Cardinality(Starting)
      /\ Cardinality(CountedFirst') <= Cardinality(CountedFirst)
      /\ Cardinality(Admitted') <= Cardinality(Admitted)
  BY <1>1, SetsMove DEF Moves
<1>3. count \in Nat /\ failed \in Nat /\ maxRetry \in Nat
  BY RetryAssumption DEF LoginTypeOK
<1>4. count' = 0 \/ count' + Cardinality(Starting') <= failed' + Cardinality(Login)
  BY <1>2, <1>3 DEF CountingInv
<1>5. expiring' => Starting' \union CountedFirst' # Login
  BY <1>1
<1>6. failed' + Cardinality(CountedFirst') <= count' + Cardinality(Login) - 1
  BY <1>2, <1>3 DEF CountingInv
<1>7. failed' + Cardinality(Admitted') <= maxRetry + 2 * Cardinality(Login) - 1
  BY <1>2, <1>3 DEF CountingInv
<1>8. \A l \in Login : login'[l].pc = "compare" => l \in Admitted'
  BY DEF CountingInv, OthersStay, Admitted
<1> QED
  BY <1>4, <1>5, <1>6, <1>7, <1>8 DEF CountingInv

\* What a step of a thread leaves alone.
LEMMA StepFrame ==
    ASSUME LoginTypeOK, NEW k \in Login,
           LoginStep(k) \/ Crash(k) \/ \E v \in Code : Submit(k, v)
    PROVE  OthersStay(k)
BY DEF LoginTypeOK, OthersStay, LoginStep, Crash, Submit, HasCode, GetCode, DeleteCode, ReadAccount,
       HasKey, FirstIncrement, ReadCount, Check, GetExpire, Expire, CompareRight, CompareWrong,
       UpdateLoginUser

\* The ranges of what CountingInv adds up.
LEMMA Sizes ==
    ASSUME LoginTypeOK, NEW k \in Login, OthersStay(k)
    PROVE  /\ count \in Nat /\ failed \in Nat /\ maxRetry \in Nat
           /\ Cardinality(Login) \in Nat \ {0}
           /\ Cardinality(Starting) \in 0 .. Cardinality(Login)
           /\ Cardinality(Starting') \in 0 .. Cardinality(Login)
           /\ Cardinality(CountedFirst) \in 0 .. Cardinality(Login)
           /\ Cardinality(CountedFirst') \in 0 .. Cardinality(Login)
           /\ Cardinality(Admitted) \in 0 .. Cardinality(Login)
           /\ Cardinality(Admitted') \in 0 .. Cardinality(Login)
  BY SetsMove, RetryAssumption DEF Moves, LoginTypeOK

\* hasKey: without a counter the thread is about to create one; there is no
\* expiry then.
LEMMA HasKeyCounts ==
    ASSUME LoginTypeOK, CountingInv, NEW k \in Login, HasKey(k)
    PROVE  CountingInv'
<1>0. OthersStay(k) /\ login \in [Login -> LoginState]
  BY StepFrame DEF LoginStep, LoginTypeOK
<1>1. /\ login'[k].pc = "count" /\ login'[k].isExit = (count > 0)
      /\ UNCHANGED <<count, expiring, failed>>
  BY <1>0 DEF HasKey, LoginState
<1>2. k \notin Starting /\ k \notin CountedFirst /\ k \notin CountedFirst'
      /\ k \notin Admitted /\ k \notin Admitted'
  BY <1>1 DEF HasKey, Starting, CountedFirst, Admitted
<1>3. count > 0 => k \notin Starting'
  BY <1>1 DEF Starting
<1>4. /\ count > 0 => Cardinality(Starting') = Cardinality(Starting)
      /\ Cardinality(CountedFirst') = Cardinality(CountedFirst)
      /\ Cardinality(Admitted') = Cardinality(Admitted)
  BY <1>0, <1>2, <1>3, SetsMove DEF Moves
<1>5. count' = 0 \/ count' + Cardinality(Starting') <= failed' + Cardinality(Login)
  BY <1>0, <1>1, <1>4, Sizes DEF CountingInv
<1>6. expiring' => Starting' \union CountedFirst' # Login
  <2>1. expiring' => k \notin Starting'
    BY <1>1, <1>3 DEF LoginTypeOK
  <2> QED
    BY <1>2, <2>1
<1>7. \A l \in Login : login'[l].pc = "compare" => l \in Admitted'
  BY <1>0, <1>1 DEF CountingInv, OthersStay, Admitted
<1> QED
  BY <1>1, <1>4, <1>5, <1>6, <1>7 DEF CountingInv

\* INCR by a thread that found no counter.
LEMMA FirstIncrementCounts ==
    ASSUME LoginTypeOK, CountingInv, NEW k \in Login, FirstIncrement(k)
    PROVE  CountingInv'
<1>0. OthersStay(k) /\ login \in [Login -> LoginState]
  BY StepFrame DEF LoginStep, LoginTypeOK
<1>1. /\ login[k].pc = "count" /\ ~login[k].isExit
      /\ login'[k].pc = "check" /\ ~login'[k].isExit /\ login'[k].retryCount = count'
      /\ count' = count + 1 /\ UNCHANGED <<expiring, failed>>
  BY <1>0 DEF FirstIncrement, LoginState
<1>2. k \in Starting /\ k \notin Starting' /\ k \notin CountedFirst /\ k \in CountedFirst'
      /\ k \notin Admitted /\ (k \in Admitted' <=> count' <= maxRetry)
  BY <1>1 DEF Starting, CountedFirst, Admitted
<1>3. /\ Cardinality(Starting') = Cardinality(Starting) - 1
      /\ Cardinality(CountedFirst') = Cardinality(CountedFirst) + 1
      /\ Cardinality(Admitted') = IF count' <= maxRetry THEN Cardinality(Admitted) + 1
                                                       ELSE Cardinality(Admitted)
  BY <1>0, <1>2, SetsMove DEF Moves
<1>4. count' = 0 \/ count' + Cardinality(Starting') <= failed' + Cardinality(Login)
  BY <1>0, <1>1, <1>3, Sizes DEF CountingInv
<1>5. expiring' => Starting' \union CountedFirst' # Login
  <2>1. Starting' \union CountedFirst' = Starting \union CountedFirst
    BY <1>0, <1>1 DEF OthersStay, Starting, CountedFirst
  <2> QED
    BY <1>1, <2>1 DEF CountingInv
<1>6. failed' + Cardinality(CountedFirst') <= count' + Cardinality(Login) - 1
  BY <1>0, <1>1, <1>3, Sizes DEF CountingInv
<1>7. failed' + Cardinality(Admitted') <= maxRetry + 2 * Cardinality(Login) - 1
  BY <1>0, <1>1, <1>3, <1>6, Sizes DEF CountingInv
<1>8. \A l \in Login : login'[l].pc = "compare" => l \in Admitted'
  BY <1>0, <1>1 DEF CountingInv, OthersStay, Admitted
<1> QED
  BY <1>4, <1>5, <1>6, <1>7, <1>8 DEF CountingInv

\* GET: the thread is admitted while the counter is within the limit.
LEMMA ReadCountCounts ==
    ASSUME LoginTypeOK, CountingInv, NEW k \in Login, ReadCount(k)
    PROVE  CountingInv'
<1>0. OthersStay(k) /\ login \in [Login -> LoginState]
  BY StepFrame DEF LoginStep, LoginTypeOK
<1>1. CASE count = 0
  <2>1. UNCHANGED <<count, failed, expiring>> /\ login'[k].pc = "idle"
    BY <1>0, <1>1 DEF ReadCount
  <2> QED
    BY <1>0, <2>1, LeavesTheSets DEF LoginTypeOK
<1>2. CASE count # 0
  <2>1. /\ login[k].pc = "count" /\ login[k].isExit
        /\ login'[k].pc = "check" /\ login'[k].isExit /\ login'[k].retryCount = count
        /\ UNCHANGED <<count, expiring, failed>>
    BY <1>0, <1>2 DEF ReadCount, LoginState
  <2>2. k \notin Starting /\ k \notin Starting' /\ k \notin CountedFirst /\ k \notin CountedFirst'
        /\ k \notin Admitted /\ (k \in Admitted' <=> count <= maxRetry)
    BY <2>1 DEF Starting, CountedFirst, Admitted
  <2>3. /\ Cardinality(Starting') = Cardinality(Starting)
        /\ Cardinality(CountedFirst') = Cardinality(CountedFirst)
        /\ Cardinality(Admitted') = IF count <= maxRetry THEN Cardinality(Admitted) + 1
                                                        ELSE Cardinality(Admitted)
    BY <1>0, <2>2, SetsMove DEF Moves
  <2>4. count' = 0 \/ count' + Cardinality(Starting') <= failed' + Cardinality(Login)
    BY <1>0, <2>1, <2>3, Sizes DEF CountingInv
  <2>5. expiring' => Starting' \union CountedFirst' # Login
    BY <2>1, <2>2
  <2>6. failed' + Cardinality(CountedFirst') <= count' + Cardinality(Login) - 1
    BY <1>0, <2>1, <2>3, Sizes DEF CountingInv
  <2>7. failed' + Cardinality(Admitted') <= maxRetry + 2 * Cardinality(Login) - 1
    BY <1>0, <2>1, <2>3, <2>6, Sizes DEF CountingInv
  <2>8. \A l \in Login : login'[l].pc = "compare" => l \in Admitted'
    BY <1>0, <2>1 DEF CountingInv, OthersStay, Admitted
  <2> QED
    BY <2>4, <2>5, <2>6, <2>7, <2>8 DEF CountingInv
<1> QED
  BY <1>1, <1>2

\* The limit is checked: the thread goes on only if it is admitted.
LEMMA CheckCounts ==
    ASSUME LoginTypeOK, CountingInv, NEW k \in Login, Check(k)
    PROVE  CountingInv'
<1>0. OthersStay(k) /\ login \in [Login -> LoginState]
  BY StepFrame DEF LoginStep, LoginTypeOK
<1>1. CASE login[k].retryCount > maxRetry
  <2>1. UNCHANGED <<count, failed, expiring>> /\ login'[k].pc = "getExpire"
    BY <1>0, <1>1 DEF Check, LoginState
  <2> QED
    BY <1>0, <2>1, LeavesTheSets DEF LoginTypeOK
<1>2. CASE ~(login[k].retryCount > maxRetry)
  <2>1. /\ login[k].pc = "check" /\ login'[k].pc = "compare"
        /\ login'[k].isExit = login[k].isExit /\ login'[k].retryCount = login[k].retryCount
        /\ login[k].retryCount \in Nat
        /\ UNCHANGED <<count, expiring, failed>>
    BY <1>0, <1>2 DEF Check, LoginState
  <2>2. k \in Admitted /\ k \in Admitted'
    BY <1>2, <2>1, RetryAssumption DEF Admitted
  <2>3. (k \in Starting <=> k \in Starting') /\ (k \in CountedFirst <=> k \in CountedFirst')
    BY <2>1 DEF Starting, CountedFirst
  <2>4. /\ Cardinality(Starting') = Cardinality(Starting)
        /\ Cardinality(CountedFirst') = Cardinality(CountedFirst)
        /\ Cardinality(Admitted') = Cardinality(Admitted)
    BY <1>0, <2>2, <2>3, SetsMove DEF Moves
  <2>5. expiring' => Starting' \union CountedFirst' # Login
    <3>1. Starting' \union CountedFirst' = Starting \union CountedFirst
      BY <1>0, <2>1 DEF OthersStay, Starting, CountedFirst
    <3> QED
      BY <2>1, <3>1 DEF CountingInv
  <2>6. \A l \in Login : login'[l].pc = "compare" => l \in Admitted'
    BY <1>0, <2>2 DEF CountingInv, OthersStay, Admitted
  <2> QED
    BY <2>1, <2>4, <2>5, <2>6 DEF CountingInv
<1> QED
  BY <1>1, <1>2

\* A removal of the counter: nothing is counted, and one thread at least is in
\* neither of the two sets of threads that came first.
LEMMA RemovalCounts ==
    ASSUME LoginTypeOK, LoginTypeOK', NEW k \in Login, OthersStay(k), RemoveKey,
           Starting' \union CountedFirst' # Login,
           \A l \in Login : login'[l].pc = "compare" => l \in Admitted'
    PROVE  CountingInv'
<1>1. count' = 0 /\ failed' = 0 /\ expiring' = FALSE
  BY DEF RemoveKey
<1>2. Cardinality(CountedFirst') <= Cardinality(Login) - 1
  <2>1. CountedFirst' # Login
    BY DEF Starting, CountedFirst
  <2> QED
    BY <2>1, SetsMove DEF Moves
<1>3. failed' + Cardinality(CountedFirst') <= count' + Cardinality(Login) - 1
  BY <1>1, <1>2, Sizes
<1>4. failed' + Cardinality(Admitted') <= maxRetry + 2 * Cardinality(Login) - 1
  BY <1>1, Sizes
<1> QED
  BY <1>1, <1>3, <1>4 DEF CountingInv

\* The password is right: the thread that removes the counter is done comparing.
LEMMA CompareRightCounts ==
    ASSUME LoginTypeOK, LoginTypeOK', CountingInv, NEW k \in Login, CompareRight(k)
    PROVE  CountingInv'
<1>0. OthersStay(k) /\ login \in [Login -> LoginState]
  BY StepFrame DEF LoginStep, LoginTypeOK
<1>1. login'[k].pc = "update" /\ RemoveKey
  BY <1>0 DEF CompareRight, LoginState
<1>2. k \notin Starting' \union CountedFirst'
  BY <1>1 DEF Starting, CountedFirst
<1>3. \A l \in Login : login'[l].pc = "compare" => l \in Admitted'
  BY <1>0, <1>1 DEF CountingInv, OthersStay, Admitted
<1> QED
  BY <1>0, <1>1, <1>2, <1>3, RemovalCounts

\* It is wrong: counted, now or before.
LEMMA CompareWrongCounts ==
    ASSUME LoginTypeOK, CountingInv, NEW k \in Login, CompareWrong(k)
    PROVE  CountingInv'
<1>0. OthersStay(k) /\ login \in [Login -> LoginState]
  BY StepFrame DEF LoginStep, LoginTypeOK
<1>1. /\ login[k].pc = "compare" /\ login'[k].pc = "idle"
      /\ failed' = failed + 1 /\ UNCHANGED expiring
      /\ count' = IF login[k].isExit THEN count + 1 ELSE count
  BY <1>0 DEF CompareWrong
<1>2. k \notin Starting /\ k \notin Starting' /\ k \notin CountedFirst'
      /\ (k \in CountedFirst <=> ~login[k].isExit)
      /\ k \in Admitted /\ k \notin Admitted'
  BY <1>1 DEF CountingInv, Starting, CountedFirst, Admitted
<1>3. /\ Cardinality(Starting') = Cardinality(Starting)
      /\ Cardinality(CountedFirst') = IF login[k].isExit THEN Cardinality(CountedFirst)
                                                         ELSE Cardinality(CountedFirst) - 1
      /\ Cardinality(Admitted') = Cardinality(Admitted) - 1
  BY <1>0, <1>2, SetsMove DEF Moves
<1>4. count' = 0 \/ count' + Cardinality(Starting') <= failed' + Cardinality(Login)
  BY <1>0, <1>1, <1>3, Sizes DEF CountingInv
<1>5. expiring' => Starting' \union CountedFirst' # Login
  BY <1>2
<1>6. failed' + Cardinality(CountedFirst') <= count' + Cardinality(Login) - 1
  BY <1>0, <1>1, <1>3, Sizes DEF CountingInv
<1>7. failed' + Cardinality(Admitted') <= maxRetry + 2 * Cardinality(Login) - 1
  BY <1>0, <1>1, <1>3, Sizes DEF CountingInv
<1>8. \A l \in Login : login'[l].pc = "compare" => l \in Admitted'
  BY <1>0, <1>1 DEF CountingInv, OthersStay, Admitted
<1> QED
  BY <1>4, <1>5, <1>6, <1>7, <1>8 DEF CountingInv

\* A step of one thread keeps CountingInv.
LEMMA LoginStepCounts ==
    ASSUME LoginTypeOK, LoginTypeOK', CountingInv, NEW k \in Login, LoginStep(k)
    PROVE  CountingInv'
<1>0. OthersStay(k) /\ login \in [Login -> LoginState] /\ expiring' \in BOOLEAN
  BY StepFrame DEF LoginTypeOK
<1>1. CASE HasCode(k) \/ GetCode(k) \/ DeleteCode(k) \/ ReadAccount(k)
  <2>1. UNCHANGED <<count, failed>> /\ login'[k].pc \notin {"count", "check", "compare"}
    BY <1>0, <1>1 DEF HasCode, GetCode, DeleteCode, ReadAccount, LoginState
  <2> QED
    BY <1>0, <2>1, LeavesTheSets
<1>2. CASE GetExpire(k) \/ Expire(k) \/ UpdateLoginUser(k)
  <2>1. UNCHANGED <<count, failed>> /\ login'[k].pc \notin {"count", "check", "compare"}
    BY <1>0, <1>2 DEF GetExpire, Expire, UpdateLoginUser, LoginState
  <2> QED
    BY <1>0, <2>1, LeavesTheSets
<1> QED
  BY <1>1, <1>2, HasKeyCounts, FirstIncrementCounts, ReadCountCounts, CheckCounts,
     CompareRightCounts, CompareWrongCounts DEF LoginStep

\* Nothing has been counted at the start.
LEMMA InitCounts == Init => CountingInv
<1> SUFFICES ASSUME Init PROVE CountingInv
  OBVIOUS
<1>1. Starting = {} /\ CountedFirst = {} /\ Admitted = {}
  BY DEF Init, Starting, CountedFirst, Admitted
<1>2. Cardinality({}) = 0 /\ Cardinality(Login) \in Nat \ {0}
  BY LoginAssumption, FS_CardinalityType, FS_EmptySet
<1>3. count = 0 /\ failed = 0 /\ expiring = FALSE /\ \A l \in Login : login[l].pc = "idle"
  BY DEF Init
<1> QED
  BY <1>1, <1>2, <1>3, RetryAssumption DEF CountingInv

\* CountingInv is inductive.
LEMMA StepCounts == LoginTypeOK /\ CountingInv /\ [Next]_vars => CountingInv'
<1> SUFFICES ASSUME LoginTypeOK, CountingInv, [Next]_vars PROVE CountingInv'
  OBVIOUS
<1>0. LoginTypeOK'
  BY StepTyped
<1>1. ASSUME UNCHANGED <<login, count, failed, expiring>> PROVE CountingInv'
  BY <1>1 DEF CountingInv, Starting, CountedFirst, Admitted
<1>2. ASSUME NEW v \in Code, GetVerify(v) \/ CodeExpires(v) PROVE CountingInv'
  BY <1>1, <1>2 DEF GetVerify, CodeExpires
<1>3. ASSUME NEW l \in Login, NEW v \in Code, Submit(l, v) PROVE CountingInv'
  <2>1. UNCHANGED <<count, failed, expiring>> /\ login'[l].pc = "hasCode"
    BY <1>3 DEF Submit, LoginTypeOK
  <2>2. OthersStay(l)
    BY <1>3, StepFrame
  <2> QED
    BY <2>1, <2>2, LeavesTheSets DEF LoginTypeOK
<1>4. ASSUME NEW l \in Login, LoginStep(l) PROVE CountingInv'
  BY <1>0, <1>4, LoginStepCounts
<1>5. ASSUME NEW l \in Login, Crash(l) PROVE CountingInv'
  <2>1. UNCHANGED <<count, failed, expiring>> /\ login'[l].pc = "idle"
    BY <1>5 DEF Crash, LoginTypeOK
  <2>2. OthersStay(l)
    BY <1>5, StepFrame
  <2> QED
    BY <2>1, <2>2, LeavesTheSets DEF LoginTypeOK
<1>6. CASE KeyExpires
  <2>1. PICK k : k \in Login
    BY LoginAssumption
  <2>2. UNCHANGED login /\ RemoveKey /\ expiring
    BY <1>6 DEF KeyExpires
  <2>3. OthersStay(k) /\ UNCHANGED <<Starting, CountedFirst, Admitted>>
    BY <2>2 DEF OthersStay, Starting, CountedFirst, Admitted
  <2>4. Starting' \union CountedFirst' # Login
    BY <2>2, <2>3 DEF CountingInv
  <2>5. \A l \in Login : login'[l].pc = "compare" => l \in Admitted'
    BY <2>2, <2>3 DEF CountingInv
  <2> QED
    BY <1>0, <2>1, <2>2, <2>3, <2>4, <2>5, RemovalCounts
<1>7. CASE UNCHANGED vars
  BY <1>1, <1>7 DEF vars
<1> QED
  BY <1>2, <1>3, <1>4, <1>5, <1>6, <1>7 DEF Next

\* CountingInv holds of every behaviour.
LEMMA CountingAlways == Spec => []CountingInv
  BY InitCounts, StepCounts, LoginTypeCorrect, PTL DEF Spec

\* However the commands of doCredentialsMatch interleave, with removals by right
\* passwords and expiry, the wrong passwords compared between two removals are
\* at most maxRetry + 2 * N - 1 for N web threads.
THEOREM AttemptsAreBoundedAlways == Spec => []AttemptsAreBounded
<1>1. LoginTypeOK /\ CountingInv => AttemptsAreBounded
  <2> SUFFICES ASSUME LoginTypeOK, CountingInv PROVE AttemptsAreBounded
    OBVIOUS
  <2>1. IsFiniteSet(Login) /\ Admitted \in SUBSET Login
    BY LoginAssumption DEF Admitted
  <2>2. Cardinality(Admitted) \in Nat /\ Cardinality(Login) \in Nat
    BY <2>1, FS_Subset, FS_CardinalityType
  <2> QED
    BY <2>2, RetryAssumption DEF CountingInv, AttemptsAreBounded, LoginTypeOK
<1> QED
  BY <1>1, LoginTypeCorrect, CountingAlways, PTL

\* The counter of doCredentialsMatch exceeds the wrong passwords compared since
\* it was created by at most the number of web threads.
THEOREM CountIsEarnedAlways == Spec => []CountIsEarned
<1>1. LoginTypeOK /\ CountingInv => CountIsEarned
  <2> SUFFICES ASSUME LoginTypeOK, CountingInv PROVE CountIsEarned
    OBVIOUS
  <2>1. IsFiniteSet(Login) /\ Starting \in SUBSET Login
    BY LoginAssumption DEF Starting
  <2>2. Cardinality(Starting) \in Nat /\ Cardinality(Login) \in Nat
    BY <2>1, FS_Subset, FS_CardinalityType
  <2> QED
    BY <2>2 DEF CountingInv, CountIsEarned, LoginTypeOK
<1> QED
  BY <1>1, LoginTypeCorrect, CountingAlways, PTL
=============================================================================
