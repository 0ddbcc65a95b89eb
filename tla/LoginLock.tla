----------------------------- MODULE LoginLock -----------------------------
(***************************************************************************)
(* Logins to one administrator account: the verification code, the         *)
(* counter of wrong passwords and the lock it leads to, the login count.   *)
(*                                                                         *)
(* SystemAdminService.adminLogin runs in the web threads of every consumer *)
(* node; CredentialsMatcherRdis.doCredentialsMatch runs inside it. They    *)
(* share redis (the codes, the counter and its expiry) and the user's row, *)
(* and every command to them is a step of its own.                         *)
(***************************************************************************)
EXTENDS Integers, FiniteSets

CONSTANTS Login,       \* the web threads
          Code,        \* the keys of verification codes (random UUIDs)
          maxRetry,    \* shrio.login.maxRetry
          MaxRight,    \* bound: right passwords
          MaxCrashes   \* bound: web threads lost with their node

ASSUME LoginAssumption == IsFiniteSet(Login) /\ Login # {}
ASSUME RetryAssumption == maxRetry \in Nat
ASSUME BoundAssumption == MaxRight \in Nat /\ MaxCrashes \in Nat

VARIABLES
    codes,       \* the codes stored in redis
    count,       \* the value of the account's counter; 0: there is no such key
    expiring,    \* that key has an expiry
    loginCount,  \* sys_user.login_count
    login,       \* what each thread is doing, and its local variables
    failed,      \* history: wrong passwords compared since the key was last removed
    succeeded,   \* history: completed logins
    crashes      \* crashes so far (bound)

vars == <<codes, count, expiring, loginCount, login, failed, succeeded, crashes>>

-----------------------------------------------------------------------------
Idle == [pc |-> "idle"]

\* seen: login_count in the row the realm read; isExit, retryCount: the locals
\* of doCredentialsMatch.
Matching(pcs) == [pc : pcs, code : Code, seen : Nat, isExit : BOOLEAN, retryCount : Nat]

LoginState ==
    {Idle}
      \union [pc : {"hasCode", "getCode", "deleteCode", "account"}, code : Code]
      \union Matching({"hasKey", "count", "check", "getExpire", "expire", "compare", "update"})

LoginTypeOK ==
    /\ codes \subseteq Code
    /\ count \in Nat /\ expiring \in BOOLEAN
    /\ expiring => count > 0
    /\ loginCount \in Nat
    /\ login \in [Login -> LoginState]
    /\ failed \in Nat /\ succeeded \in Nat /\ crashes \in Nat

Init ==
    /\ codes = {}
    /\ count = 0 /\ expiring = FALSE
    /\ loginCount = 0
    /\ login = [l \in Login |-> Idle]
    /\ failed = 0 /\ succeeded = 0 /\ crashes = 0

-----------------------------------------------------------------------------
(* adminLogin, up to subject.login *)

Goto(l, p) == login' = [login EXCEPT ![l].pc = p]

Answer(l) == login' = [login EXCEPT ![l] = Idle]

\* getVerify: a code under a key nobody holds.
GetVerify(v) ==
    /\ v \notin codes
    /\ \A l \in Login : login[l] # Idle => login[l].code # v
    /\ codes' = codes \union {v}
    /\ UNCHANGED <<count, expiring, loginCount, login, failed, succeeded, crashes>>

\* Its five minutes are over.
CodeExpires(v) ==
    /\ v \in codes
    /\ codes' = codes \ {v}
    /\ UNCHANGED <<count, expiring, loginCount, login, failed, succeeded, crashes>>

\* A request that carries the key of a code, still stored or not. What was typed
\* as code and as password is settled when it is compared.
Submit(l, v) ==
    /\ login[l] = Idle
    /\ login' = [login EXCEPT ![l] = [pc |-> "hasCode", code |-> v]]
    /\ UNCHANGED <<codes, count, expiring, loginCount, failed, succeeded, crashes>>

\* hasKey(verifyToken), otherwise SYS_LOGIN_VERIFY_ERROR.
HasCode(l) ==
    /\ login[l].pc = "hasCode"
    /\ IF login[l].code \in codes THEN Goto(l, "getCode") ELSE Answer(l)
    /\ UNCHANGED <<codes, count, expiring, loginCount, failed, succeeded, crashes>>

\* get(verifyToken).toString(), which throws if the code has gone meanwhile.
GetCode(l) ==
    /\ login[l].pc = "getCode"
    /\ IF login[l].code \in codes THEN Goto(l, "deleteCode") ELSE Answer(l)
    /\ UNCHANGED <<codes, count, expiring, loginCount, failed, succeeded, crashes>>

\* Mutant: a code that was typed correctly is kept.
DeleteCodeUnlessTyped(l) ==
    /\ login[l].pc = "deleteCode"
    /\ \/ UNCHANGED codes /\ Goto(l, "account")
       \/ codes' = codes \ {login[l].code} /\ Answer(l)
    /\ UNCHANGED <<count, expiring, loginCount, failed, succeeded, crashes>>

\* The code is deleted and then compared with the one typed: right or wrong.
DeleteCode(l) ==
    /\ login[l].pc = "deleteCode"
    /\ codes' = codes \ {login[l].code}
    /\ Goto(l, "account") \/ Answer(l)
    /\ UNCHANGED <<count, expiring, loginCount, failed, succeeded, crashes>>

\* The realm reads the user's row. (An unknown or disabled account ends the
\* login here; the account of the model is neither.)
ReadAccount(l) ==
    /\ login[l].pc = "account"
    /\ login' = [login EXCEPT ![l] = [pc |-> "hasKey", code |-> @.code, seen |-> loginCount,
                                      isExit |-> FALSE, retryCount |-> 0]]
    /\ UNCHANGED <<codes, count, expiring, loginCount, failed, succeeded, crashes>>

-----------------------------------------------------------------------------
(* doCredentialsMatch *)

HasKey(l) ==
    /\ login[l].pc = "hasKey"
    /\ login' = [login EXCEPT ![l].pc = "count", ![l].isExit = count > 0]
    /\ UNCHANGED <<codes, count, expiring, loginCount, failed, succeeded, crashes>>

\* No key a moment ago: INCR creates it, or adds to the one created meanwhile.
FirstIncrement(l) ==
    /\ login[l].pc = "count" /\ ~login[l].isExit
    /\ count' = count + 1
    /\ login' = [login EXCEPT ![l].pc = "check", ![l].retryCount = count']
    /\ UNCHANGED <<codes, expiring, loginCount, failed, succeeded, crashes>>

\* Mutant: every login is counted when it comes, and again if it is wrong.
ReadCountIncrements(l) ==
    /\ login[l].pc = "count" /\ login[l].isExit
    /\ count' = count + 1
    /\ login' = [login EXCEPT ![l].pc = "check", ![l].retryCount = count']
    /\ UNCHANGED <<codes, expiring, loginCount, failed, succeeded, crashes>>

\* GET; if the key has gone, Long.valueOf(null) throws and the login is answered
\* as one with a wrong password.
ReadCount(l) ==
    /\ login[l].pc = "count" /\ login[l].isExit
    /\ IF count = 0 THEN Answer(l)
       ELSE login' = [login EXCEPT ![l].pc = "check", ![l].retryCount = count]
    /\ UNCHANGED <<codes, count, expiring, loginCount, failed, succeeded, crashes>>

Check(l) ==
    /\ login[l].pc = "check"
    /\ Goto(l, IF login[l].retryCount > maxRetry THEN "getExpire" ELSE "compare")
    /\ UNCHANGED <<codes, count, expiring, loginCount, failed, succeeded, crashes>>

\* getExpire is -1 for a key without an expiry; either way the login ends with
\* LockedAccountException.
GetExpire(l) ==
    /\ login[l].pc = "getExpire"
    /\ IF count > 0 /\ ~expiring THEN Goto(l, "expire") ELSE Answer(l)
    /\ UNCHANGED <<codes, count, expiring, loginCount, failed, succeeded, crashes>>

\* Mutant: the expiry is forgotten.
ExpireForgotten(l) ==
    /\ login[l].pc = "expire"
    /\ Answer(l)
    /\ UNCHANGED <<codes, count, expiring, loginCount, failed, succeeded, crashes>>

\* Mutant: EXPIRE is taken to have effect on a key that has gone.
ExpireAlways(l) ==
    /\ login[l].pc = "expire"
    /\ expiring' = TRUE
    /\ Answer(l)
    /\ UNCHANGED <<codes, count, loginCount, failed, succeeded, crashes>>

\* EXPIRE has no effect on a key that has gone.
Expire(l) ==
    /\ login[l].pc = "expire"
    /\ expiring' = (count > 0)
    /\ Answer(l)
    /\ UNCHANGED <<codes, count, loginCount, failed, succeeded, crashes>>

RemoveKey == count' = 0 /\ expiring' = FALSE /\ failed' = 0

\* The password is right: the counter is deleted.
CompareRight(l) ==
    /\ login[l].pc = "compare"
    /\ succeeded + Cardinality({k \in Login : login[k].pc = "update"}) < MaxRight
    /\ RemoveKey
    /\ Goto(l, "update")
    /\ UNCHANGED <<codes, loginCount, succeeded, crashes>>

\* Mutant: only the first wrong password is counted.
CompareWrongUncounted(l) ==
    /\ login[l].pc = "compare"
    /\ failed' = failed + 1
    /\ Answer(l)
    /\ UNCHANGED <<codes, count, expiring, loginCount, succeeded, crashes>>

\* It is wrong: counted now, unless this login created the counter.
CompareWrong(l) ==
    /\ login[l].pc = "compare"
    /\ count' = IF login[l].isExit THEN count + 1 ELSE count
    /\ failed' = failed + 1
    /\ Answer(l)
    /\ UNCHANGED <<codes, expiring, loginCount, succeeded, crashes>>

\* redis removes the counter when its lockTime is over.
KeyExpires ==
    /\ expiring
    /\ RemoveKey
    /\ UNCHANGED <<codes, loginCount, login, succeeded, crashes>>

-----------------------------------------------------------------------------
\* updateLoginUser writes the count that was read before the password was
\* compared, plus one.
UpdateLoginUser(l) ==
    /\ login[l].pc = "update"
    /\ loginCount' = login[l].seen + 1
    /\ succeeded' = succeeded + 1
    /\ Answer(l)
    /\ UNCHANGED <<codes, count, expiring, failed, crashes>>

\* The node of a login stops.
Crash(l) ==
    /\ login[l] # Idle
    /\ crashes < MaxCrashes
    /\ crashes' = crashes + 1
    /\ Answer(l)
    /\ UNCHANGED <<codes, count, expiring, loginCount, failed, succeeded>>

LoginStep(l) ==
    \/ HasCode(l) \/ GetCode(l) \/ DeleteCode(l) \/ ReadAccount(l)
    \/ HasKey(l) \/ FirstIncrement(l) \/ ReadCount(l) \/ Check(l) \/ GetExpire(l) \/ Expire(l)
    \/ CompareRight(l) \/ CompareWrong(l) \/ UpdateLoginUser(l)

Next ==
    \/ \E v \in Code : GetVerify(v) \/ CodeExpires(v)
    \/ \E l \in Login :
         \/ \E v \in Code : Submit(l, v)
         \/ LoginStep(l)
         \/ Crash(l)
    \/ KeyExpires

Spec == Init /\ [][Next]_vars

\* A thread goes on with its login, and redis removes expired keys. Nobody has
\* to log in.
FairSpec == Spec /\ (\A l \in Login : WF_vars(LoginStep(l))) /\ WF_vars(KeyExpires)

-----------------------------------------------------------------------------
(* Properties *)

\* The counter is read and incremented in separate commands, and a right
\* password or an expiry removes it under logins that are half done. Still, no
\* more wrong passwords are compared between two removals than the limit allows,
\* one more for each login in flight when it is reached, and one for each other
\* login that was counted before the last removal.
AttemptsAreBounded == failed <= maxRetry + 2 * Cardinality(Login) - 1

\* The lock is earned: the counter exceeds the wrong passwords compared since it
\* was created by at most one for each thread, which incremented it before the
\* comparison and then crashed, found the account locked or is still to compare.
CountIsEarned == count <= failed + Cardinality(Login)

\* A login that got past the verification code has used it up: the code is
\* deleted before anything else depends on it, so no later login can present it.
CodeIsSpent ==
    \A l \in Login :
        login[l].pc \notin {"idle", "hasCode", "getCode", "deleteCode"} => login[l].code \notin codes

\* A login that is refused because of the counter is the beginning of the end of
\* the lock: the counter is removed, whoever set its expiry and whatever the
\* logins in flight add to it, unless a node stops first.
LockEnds ==
    \A l \in Login, n \in 0 .. MaxCrashes :
        (login[l].pc = "getExpire" /\ crashes = n) ~> (count = 0 \/ crashes > n)

\* What SysUser says of loginCount ("the total number of logins, plus one for
\* each login").
EveryLoginIsCounted == (\A l \in Login : login[l] = Idle) => loginCount = succeeded

-----------------------------------------------------------------------------
(* The inductive invariant behind the two bounds (LoginLockProofs) *)

\* The logins that found no counter and have yet to increment it.
Starting == {l \in Login : login[l].pc = "count" /\ ~login[l].isExit}

\* Those that incremented it before their password is compared.
CountedFirst == {l \in Login : login[l].pc \in {"check", "compare"} /\ ~login[l].isExit}

\* Those whose password will be compared, whatever becomes of the counter.
Admitted == {l \in Login : login[l].pc \in {"check", "compare"} /\ login[l].retryCount <= maxRetry}

CountingInv ==
    \* A thread creates the counter, or is late in doing so, once between two removals.
    /\ count = 0 \/ count + Cardinality(Starting) <= failed + Cardinality(Login)
    \* The thread that set the expiry found the counter.
    /\ expiring => Starting \union CountedFirst # Login
    \* So a removal leaves at least one thread that was not counted before it.
    /\ failed + Cardinality(CountedFirst) <= count + Cardinality(Login) - 1
    /\ \A l \in Login : login[l].pc = "compare" => l \in Admitted
    /\ failed + Cardinality(Admitted) <= maxRetry + 2 * Cardinality(Login) - 1
=============================================================================
