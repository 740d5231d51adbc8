----------------------------- MODULE SessionsProofs -----------------------------
(***************************************************************************)
(* Theorems about Sessions, for every set of tokens, every validity and    *)
(* every choice of the bounds.                                             *)
(***************************************************************************)
EXTENDS Sessions, TLAPS

(***************************************************************************)
(* The rounding of column expiration.                                      *)
(***************************************************************************)
\* Rounding moves an expiry by half a second at most.
LEMMA Rounding ==
  ASSUME NEW e \in Nat
  PROVE  /\ Floor(e) \in Nat /\ Ceiling(e) \in Nat
         /\ Floor(e) <= e /\ Ceiling(e) <= e + 1
  <1>1. e % 2 \in 0..1
    BY SMT
  <1>2. e % 2 <= e
    BY SMT
  <1> QED  BY <1>1, <1>2, SMT DEF Floor, Ceiling

\* What the database stores for a statement.
LEMMA StoredType ==
  ASSUME NEW w \in Statement, NEW e \in Stored(w)
  PROVE  /\ e \in Nat \cup {NoExpiry}
         /\ e <= w.expires + 1
  <1>1. CASE w.verb = "insert"
    <2>1. w.expires \in Nat /\ e \in {Floor(w.expires), Ceiling(w.expires)}
      BY <1>1 DEF Statement, Stored
    <2>2. /\ Floor(w.expires) \in Nat /\ Ceiling(w.expires) \in Nat
          /\ Floor(w.expires) <= w.expires /\ Ceiling(w.expires) <= w.expires + 1
      BY <2>1, Rounding
    <2> QED  BY <2>1, <2>2, SMT
  <1>2. CASE w.verb = "update"
    <2>1. w.expires \in Nat /\ e \in {Floor(w.expires)}
      BY <1>2 DEF Statement, Stored
    <2>2. Floor(w.expires) \in Nat /\ Floor(w.expires) <= w.expires
      BY <2>1, Rounding
    <2> QED  BY <2>1, <2>2, SMT
  <1>3. CASE w.verb = "delete"
    BY <1>3, SMT DEF Statement, Stored, NoExpiry
  <1> QED  BY <1>1, <1>2, <1>3 DEF Statement
-----------------------------------------------------------------------------
(***************************************************************************)
(* The type invariant.                                                     *)
(***************************************************************************)
LEMMA InitType == Init => TypeOK
  BY SessionsAssumption
     DEF Init, TypeOK, NoRows, NoExpiry, Run, Idle, Statement

\* verifyToken keeps the types of what it changes.
LEMMA VerifyType ==
  ASSUME TypeOK, NEW t \in Token, verifyToken(t)
  PROVE  /\ accessTokens' \in [Token -> Nat \cup {NoExpiry}]
         /\ writes' \subseteq Statement
         /\ use' \in [Token -> [at : 0..MaxTime, run : Run]]
  <1>1. now + Validity \in Nat /\ ThisRun \in Run
    BY SessionsAssumption DEF TypeOK, ThisRun, Run
  <1>2. Delete(t) \in Statement /\ Update(t, now + Validity) \in Statement
    BY <1>1 DEF Delete, Update, Statement, NoExpiry
  <1>3. CASE ~Cached(t) /\ UNCHANGED <<accessTokens, writes, use>>
    BY <1>3 DEF TypeOK
  <1>4. CASE /\ accessTokens' = [accessTokens EXCEPT ![t] = NoExpiry]
             /\ writes' = writes \cup {Delete(t)}
             /\ UNCHANGED use
    BY <1>2, <1>4 DEF TypeOK
  <1>5. CASE /\ accessTokens' = [accessTokens EXCEPT ![t] = now + Validity]
             /\ writes' = writes \cup {Update(t, now + Validity)}
             /\ Used(t)
    BY <1>1, <1>2, <1>5 DEF TypeOK, Used
  <1> QED  BY <1>3, <1>4, <1>5 DEF verifyToken, Forget, Renew

LEMMA NextType == TypeOK /\ [Next]_vars => TypeOK'
  <1> SUFFICES ASSUME TypeOK, [Next]_vars  PROVE TypeOK'
    OBVIOUS
  <1> USE DEF dbVars, bootVars
  <1>1. ASSUME NEW t \in Token, registerNewUserSession(t)  PROVE TypeOK'
    <2>1. now + Validity \in Nat /\ ThisRun \in Run
      BY SessionsAssumption DEF TypeOK, ThisRun, Run
    <2>2. Insert(t, now + Validity) \in Statement
      BY <2>1 DEF Insert, Statement
    <2> QED  BY <1>1, <2>1, <2>2 DEF registerNewUserSession, TypeOK, Used
  <1>2. ASSUME NEW t \in Token, Request(t)  PROVE TypeOK'
    BY <1>2, VerifyType DEF Request, TypeOK
  <1>3. ASSUME NEW s \in Slot, NEW t \in Token, LogoutVerifies(s, t)  PROVE TypeOK'
    <2>1. [pc |-> "verified", token |-> t] \in Logout
      BY DEF Logout
    <2> QED  BY <1>3, <2>1, VerifyType DEF LogoutVerifies, TypeOK
  <1>4. ASSUME NEW s \in Slot, removeUserSession(s)  PROVE TypeOK'
    <2>1. logouts[s].token \in Token
      BY <1>4 DEF removeUserSession, TypeOK, Logout, Idle
    <2>2. [pc |-> "removing", token |-> logouts[s].token] \in Logout
      BY <2>1 DEF Logout
    <2>3. verifyToken(logouts[s].token)
      BY <1>4 DEF removeUserSession
    <2>4. logouts' \in [Slot -> Logout \cup {Idle}]
      BY <1>4, <2>2 DEF removeUserSession, TypeOK
    <2> QED  BY <1>4, <2>1, <2>3, <2>4, VerifyType DEF removeUserSession, TypeOK
  <1>5. ASSUME NEW s \in Slot, SessionRemoved(s)  PROVE TypeOK'
    <2>1. logouts[s].token \in Token
      BY <1>5 DEF SessionRemoved, Forget, TypeOK, Logout, Idle
    <2>2. Delete(logouts[s].token) \in Statement /\ ThisRun \in Run
      BY <2>1, SessionsAssumption DEF Delete, Statement, TypeOK, ThisRun, Run
    <2> QED  BY <1>5, <2>1, <2>2 DEF SessionRemoved, Forget, TypeOK
  <1>6. ASSUME Select  PROVE TypeOK'
    BY <1>6 DEF Select, TypeOK, NoRows
  <1>7. ASSUME Load  PROVE TypeOK'
    BY <1>7 DEF Load, TypeOK, NoRows
  <1>8. ASSUME NEW w \in writes, ExecuteWrite(w)  PROVE TypeOK'
    <2>1. w \in Statement /\ w.token \in Token
      BY DEF TypeOK, Statement
    <2>2. rows' \in [Token -> Nat \cup {NoExpiry}]
      BY <1>8, <2>1, StoredType DEF ExecuteWrite, TypeOK
    <2> QED  BY <1>8, <2>2 DEF ExecuteWrite, TypeOK
  <1>9. ASSUME Tick  PROVE TypeOK'
    BY <1>9, SessionsAssumption DEF Tick, TypeOK
  <1>10. ASSUME Restart  PROVE TypeOK'
    BY <1>10, SessionsAssumption DEF Restart, TypeOK, NoRows
  <1>11. ASSUME UNCHANGED vars  PROVE TypeOK'
    BY <1>11 DEF vars, TypeOK
  <1> QED  BY <1>1, <1>2, <1>3, <1>4, <1>5, <1>6, <1>7, <1>8, <1>9, <1>10, <1>11
              DEF Next

\* The variables of Sessions have their types in every reachable state.
THEOREM TypeCorrectness == Spec => []TypeOK
  BY InitType, NextType, PTL DEF Spec
-----------------------------------------------------------------------------
(***************************************************************************)
(* No lease outlasts the last use.                                         *)
(***************************************************************************)
LEMMA InitLease == Init => LeaseInv
  BY SessionsAssumption DEF Init, LeaseInv, Limit, NoRows, NoExpiry

\* A use at the present time leaves every limit where it is or moves it up.
LEMMA UsedLimits ==
  ASSUME TypeOK, LeaseInv, NEW t \in Token, Used(t)
  PROVE  /\ Limit(t)' = now + Validity + 1
         /\ \A u \in Token : use'[u].at <= now /\ Limit(u) <= Limit(u)'
  <1>1. \A u \in Token : use'[u] = IF u = t THEN [at |-> now, run |-> ThisRun] ELSE use[u]
    BY DEF Used, TypeOK
  <1>2. \A u \in Token : use[u].at \in Nat /\ now \in Nat /\ use[u].at <= now
    BY DEF TypeOK, LeaseInv
  <1>3. \A u \in Token : use'[u].at <= now /\ use[u].at <= use'[u].at /\ use'[u].at \in Nat
    BY <1>1, <1>2
  <1>4. use'[t].at = now
    BY <1>1
  <1> QED  BY <1>2, <1>3, <1>4, SessionsAssumption DEF Limit

\* A token gets a new lease: in registerNewUserSession, and when verifyToken
\* accepts it.
LEMMA RenewedLease ==
  ASSUME TypeOK, LeaseInv, NEW t \in Token, NEW w,
         w.token = t, w.expires = now + Validity,
         accessTokens' = [accessTokens EXCEPT ![t] = now + Validity],
         writes' = writes \cup {w}, Used(t),
         UNCHANGED <<rows, snapshot, now>>
  PROVE  LeaseInv'
  <1>1. /\ Limit(t)' = now + Validity + 1
        /\ \A u \in Token : use'[u].at <= now /\ Limit(u) <= Limit(u)'
    BY UsedLimits
  <1>2. \A u \in Token : Limit(u) \in Int /\ Limit(u)' \in Int
    <2>1. \A u \in Token : use[u].at \in Int /\ use'[u].at \in Int
      BY DEF TypeOK, Used
    <2> QED  BY <2>1, SessionsAssumption DEF Limit
  <1>3. now + Validity \in Int /\ now + Validity < now + Validity + 1
    BY SessionsAssumption DEF TypeOK
  <1>4. \A u \in Token : accessTokens[u] \in Int /\ rows[u] \in Int /\ snapshot[u] \in Int
    BY DEF TypeOK, NoExpiry
  <1>5. ASSUME NEW u \in Token
        PROVE  /\ accessTokens'[u] <= Limit(u)'
               /\ rows'[u] <= Limit(u)' /\ snapshot'[u] <= Limit(u)'
    <2>1. accessTokens'[u] = IF u = t THEN now + Validity ELSE accessTokens[u]
      BY DEF TypeOK
    <2>2. accessTokens[u] <= Limit(u) /\ rows[u] <= Limit(u) /\ snapshot[u] <= Limit(u)
      BY DEF LeaseInv
    <2> QED  BY <1>1, <1>2, <1>3, <1>4, <2>1, <2>2
  <1>6. ASSUME NEW v \in writes'  PROVE v.expires < Limit(v.token)'
    <2>1. CASE v \in writes
      <3>1. v.token \in Token /\ v.expires \in Int
        BY <2>1 DEF TypeOK, Statement, NoExpiry
      <3>2. v.expires < Limit(v.token)
        BY <2>1 DEF LeaseInv
      <3> QED  BY <1>1, <1>2, <3>1, <3>2
    <2>2. CASE v = w
      BY <1>1, <1>3, <2>2
    <2> QED  BY <2>1, <2>2
  <1> QED  BY <1>1, <1>5, <1>6 DEF LeaseInv

\* A token is forgotten: when it has expired, and at the end of a logout.
LEMMA ForgottenLease ==
  ASSUME TypeOK, LeaseInv, NEW t \in Token,
         accessTokens' = [accessTokens EXCEPT ![t] = NoExpiry],
         writes' = writes \cup {Delete(t)},
         UNCHANGED <<rows, snapshot, now, use>>
  PROVE  LeaseInv'
  <1>1. \A u \in Token : Limit(u)' = Limit(u) /\ Limit(u) \in Nat
    <2>1. \A u \in Token : use[u].at \in Nat
      BY DEF TypeOK
    <2> QED  BY <2>1, SessionsAssumption DEF Limit
  <1>2. \A u \in Token : accessTokens'[u] = IF u = t THEN NoExpiry ELSE accessTokens[u]
    BY DEF TypeOK
  <1>3. Delete(t).token = t /\ Delete(t).expires = -1
    BY DEF Delete, NoExpiry
  <1>4. \A v \in writes' : v.expires < Limit(v.token)'
    <2> SUFFICES ASSUME NEW v \in writes'  PROVE v.expires < Limit(v.token)'
      OBVIOUS
    <2>1. CASE v \in writes
      BY <1>1, <2>1 DEF LeaseInv, TypeOK, Statement
    <2>2. CASE v = Delete(t)
      BY <1>1, <1>3, <2>2
    <2> QED  BY <2>1, <2>2
  <1> QED  BY <1>1, <1>2, <1>4 DEF LeaseInv, NoExpiry

LEMMA VerifyLease ==
  ASSUME TypeOK, LeaseInv, NEW t \in Token, verifyToken(t),
         UNCHANGED <<rows, snapshot, now>>
  PROVE  LeaseInv'
  <1>1. CASE ~Cached(t) /\ UNCHANGED <<accessTokens, writes, use>>
    BY <1>1 DEF LeaseInv, Limit
  <1>2. CASE /\ accessTokens' = [accessTokens EXCEPT ![t] = NoExpiry]
             /\ writes' = writes \cup {Delete(t)}
             /\ UNCHANGED use
    BY <1>2, ForgottenLease
  <1>3. CASE /\ accessTokens' = [accessTokens EXCEPT ![t] = now + Validity]
             /\ writes' = writes \cup {Update(t, now + Validity)}
             /\ Used(t)
    BY <1>3, RenewedLease DEF Update
  <1> QED  BY <1>1, <1>2, <1>3 DEF verifyToken, Forget, Renew

LEMMA NextLease == TypeOK /\ LeaseInv /\ [Next]_vars => LeaseInv'
  <1> SUFFICES ASSUME TypeOK, LeaseInv, [Next]_vars  PROVE LeaseInv'
    OBVIOUS
  <1> USE DEF dbVars, bootVars
  <1>1. ASSUME NEW t \in Token, registerNewUserSession(t)  PROVE LeaseInv'
    BY <1>1, RenewedLease DEF registerNewUserSession, Insert
  <1>2. ASSUME NEW t \in Token, Request(t)  PROVE LeaseInv'
    BY <1>2, VerifyLease DEF Request
  <1>3. ASSUME NEW s \in Slot, NEW t \in Token, LogoutVerifies(s, t)  PROVE LeaseInv'
    BY <1>3, VerifyLease DEF LogoutVerifies
  <1>4. ASSUME NEW s \in Slot, removeUserSession(s)  PROVE LeaseInv'
    <2>1. logouts[s].token \in Token
      BY <1>4 DEF removeUserSession, TypeOK, Logout, Idle
    <2> QED  BY <1>4, <2>1, VerifyLease DEF removeUserSession
  <1>5. ASSUME NEW s \in Slot, SessionRemoved(s)  PROVE LeaseInv'
    <2>1. logouts[s].token \in Token
      BY <1>5 DEF SessionRemoved, Forget, TypeOK, Logout, Idle
    <2> QED  BY <1>5, <2>1, ForgottenLease DEF SessionRemoved, Forget
  <1>6. ASSUME NEW t \in Token  PROVE NoRows[t] <= Limit(t)
    <2>1. use[t].at \in Nat
      BY DEF TypeOK
    <2> QED  BY <2>1, SessionsAssumption DEF NoRows, NoExpiry, Limit
  <1>7. ASSUME Select  PROVE LeaseInv'
    <2>1. snapshot' = rows \/ snapshot' = NoRows
      BY <1>7 DEF Select
    <2> QED  BY <1>6, <1>7, <2>1 DEF Select, LeaseInv, Limit
  <1>8. ASSUME Load  PROVE LeaseInv'
    <2>1. \A t \in Token : accessTokens'[t] \in {snapshot[t], accessTokens[t]}
      BY <1>8 DEF Load
    <2>2. \A t \in Token : Limit(t)' = Limit(t)
      BY <1>8 DEF Load, Limit
    <2>3. snapshot' = NoRows
      BY <1>8 DEF Load
    <2>4. UNCHANGED <<rows, writes, now, use>>
      BY <1>8 DEF Load
    <2>5. \A w \in writes : w.token \in Token
      BY DEF TypeOK, Statement
    <2>6. \A t \in Token : accessTokens'[t] <= Limit(t)'
      BY <2>1, <2>2 DEF LeaseInv
    <2> QED  BY <1>6, <2>2, <2>3, <2>4, <2>5, <2>6 DEF LeaseInv
  <1>9. ASSUME NEW w \in writes, ExecuteWrite(w)  PROVE LeaseInv'
    <2>1. w \in Statement /\ w.token \in Token /\ w.expires \in Int
      BY DEF TypeOK, Statement, NoExpiry
    <2>2. Limit(w.token) \in Int /\ w.expires < Limit(w.token)
      <3>1. use[w.token].at \in Nat
        BY <2>1 DEF TypeOK
      <3> QED  BY <3>1, SessionsAssumption DEF LeaseInv, Limit
    <2>3. \A e \in Stored(w) : e \in Int /\ e <= Limit(w.token)
      BY <2>1, <2>2, StoredType DEF NoExpiry
    <2>4. \A t \in Token : rows'[t] <= Limit(t)
      <3>1. CASE \E e \in Stored(w) : rows' = [rows EXCEPT ![w.token] = e]
        BY <2>1, <2>3, <3>1 DEF LeaseInv, TypeOK
      <3>2. CASE UNCHANGED rows
        BY <3>2 DEF LeaseInv
      <3> QED  BY <1>9, <3>1, <3>2 DEF ExecuteWrite
    <2> QED  BY <1>9, <2>4 DEF ExecuteWrite, LeaseInv, Limit
  <1>10. ASSUME Tick  PROVE LeaseInv'
    <2>1. \A t \in Token : use[t].at \in Nat /\ now \in Nat
      BY DEF TypeOK
    <2> QED  BY <1>10, <2>1 DEF Tick, LeaseInv, Limit
  <1>11. ASSUME Restart  PROVE LeaseInv'
    BY <1>6, <1>11 DEF Restart, LeaseInv, Limit
  <1>12. ASSUME UNCHANGED vars  PROVE LeaseInv'
    BY <1>12 DEF vars, LeaseInv, Limit
  <1> QED  BY <1>1, <1>2, <1>3, <1>4, <1>5, <1>7, <1>8, <1>9, <1>10, <1>11, <1>12
              DEF Next

LEMMA LeaseInvariance == Spec => [](TypeOK /\ LeaseInv)
  <1>1. Init => TypeOK /\ LeaseInv
    BY InitType, InitLease
  <1>2. TypeOK /\ LeaseInv /\ [Next]_vars => (TypeOK /\ LeaseInv)'
    BY NextType, NextLease
  <1> QED  BY <1>1, <1>2, PTL DEF Spec

\* Wherever the end of a lease is written down, in the map, in a row, in the
\* snapshot of initTokens() or in a statement on its way, it is at most the
\* validity (and the rounding of DATETIME) after the last use of the token.
\* (registerNewUserSession, verifyToken, initTokens)
THEOREM LeasesAreBounded == Spec => []LeaseInv
  <1>1. TypeOK /\ LeaseInv => LeaseInv
    OBVIOUS
  <1> QED  BY <1>1, LeaseInvariance, PTL

\* Only a token whose lease has not ended is used again.
LEMMA VerifiedInTime ==
  ASSUME TypeOK, LeaseInv, NEW u \in Token, verifyToken(u),
         NEW t \in Token, use'[t] # use[t]
  PROVE  now <= use[t].at + Validity
  <1>1. Valid(u) /\ Used(u)
    BY DEF verifyToken, Forget, Renew
  <1>2. t = u
    BY <1>1 DEF Used, TypeOK
  <1>3. accessTokens[u] \in Int /\ use[u].at \in Nat /\ now \in Nat
    BY DEF TypeOK, NoExpiry
  <1>4. accessTokens[u] - now > 0 /\ accessTokens[u] <= use[u].at + Validity + 1
    BY <1>1 DEF Valid, LeaseInv, Limit
  <1> QED  BY <1>2, <1>3, <1>4, SessionsAssumption

LEMMA StepInTime ==
  ASSUME TypeOK, LeaseInv, [Next]_vars,
         NEW t \in Token, use[t].run # 0, use'[t] # use[t]
  PROVE  now <= use[t].at + Validity
  <1>1. ASSUME NEW u \in Token, registerNewUserSession(u)
        PROVE  now <= use[t].at + Validity
    BY <1>1 DEF registerNewUserSession, Used, TypeOK
  <1>2. ASSUME NEW u \in Token, Request(u)
        PROVE  now <= use[t].at + Validity
    BY <1>2, VerifiedInTime DEF Request
  <1>3. ASSUME NEW s \in Slot, NEW u \in Token, LogoutVerifies(s, u)
        PROVE  now <= use[t].at + Validity
    BY <1>3, VerifiedInTime DEF LogoutVerifies
  <1>4. ASSUME NEW s \in Slot, removeUserSession(s)
        PROVE  now <= use[t].at + Validity
    <2>1. logouts[s].token \in Token
      BY <1>4 DEF removeUserSession, TypeOK, Logout, Idle
    <2> QED  BY <1>4, <2>1, VerifiedInTime DEF removeUserSession
  <1>5. ASSUME \/ \E s \in Slot : SessionRemoved(s)
               \/ Select \/ Load \/ \E w \in writes : ExecuteWrite(w)
               \/ Tick \/ Restart \/ UNCHANGED vars
        PROVE  use' = use
    BY <1>5 DEF SessionRemoved, Forget, Select, Load, ExecuteWrite, Tick, Restart, vars
  <1> QED  BY <1>1, <1>2, <1>3, <1>4, <1>5 DEF Next

\* A session that is idle for longer than its validity is over, whatever the
\* database does with the statements and however often the server restarts.
THEOREM IdleSessionsAreOver == Spec => IdleSessionsExpire
  <1>1. TypeOK /\ LeaseInv /\ [Next]_vars =>
          [\A t \in Token :
             use[t].run # 0 /\ use'[t] # use[t] => now <= use[t].at + Validity]_vars
    BY StepInTime
  <1> QED  BY <1>1, LeaseInvariance, PTL DEF Spec, IdleSessionsExpire
-----------------------------------------------------------------------------
(***************************************************************************)
(* What sessions promise within one run of the server, if no request comes *)
(* before initTokens() has finished.                                       *)
(***************************************************************************)
LEMMA InitService == Init => ServiceInv
  BY SessionsAssumption
     DEF Init, ServiceInv, FreshIsUnknown, BootIsAlone, RunsPass, DeletedIsUncached,
         LeaseIsExact, LogoutHolds, Cached, ThisRun, NoRows, Idle

\* A token gets a new lease while initTokens() is not running.
LEMMA RenewedService ==
  ASSUME TypeOK, ServiceInv, boot = "done", NEW t \in Token,
         loggedOut[t] # ThisRun,
         NEW w, w.token = t, w.verb # "delete", ~\E v \in writes : v = Delete(t),
         accessTokens' = [accessTokens EXCEPT ![t] = now + Validity],
         writes' = writes \cup {w}, Used(t),
         \A r \in Slot : logouts'[r] # Idle =>
                         logouts'[r].token = t \/ logouts'[r] = logouts[r],
         UNCHANGED <<rows, boot, snapshot, restarts, now, loggedOut>>
  PROVE  ServiceInv'
  <1>1. /\ \A u \in Token : use'[u] = IF u = t THEN [at |-> now, run |-> ThisRun] ELSE use[u]
        /\ \A u \in Token : accessTokens'[u] = IF u = t THEN now + Validity
                                                       ELSE accessTokens[u]
    BY DEF Used, TypeOK
  <1>2. restarts \in Nat /\ now \in Nat /\ now + Validity \in Nat
    BY SessionsAssumption DEF TypeOK
  <1>3. ThisRun # 0 /\ ThisRun' = ThisRun
    BY <1>2 DEF ThisRun
  <1>4. FreshIsUnknown'
    BY <1>1, <1>3 DEF ServiceInv, FreshIsUnknown, Cached
  <1>5. BootIsAlone'
    BY DEF BootIsAlone
  <1>6. RunsPass'
    BY <1>1, <1>2, <1>3 DEF ServiceInv, RunsPass, ThisRun
  <1>7. DeletedIsUncached'
    <2>1. \A v \in writes : v.verb = "delete" => v = Delete(v.token)
      BY DEF TypeOK, Statement, Delete
    <2>2. \A v \in writes : v.token \in Token
      BY DEF TypeOK, Statement
    <2> QED  BY <1>1, <2>1, <2>2 DEF ServiceInv, DeletedIsUncached, Cached
  <1>8. LeaseIsExact'
    BY <1>1, <1>3 DEF ServiceInv, LeaseIsExact
  <1>9. LogoutHolds'
    BY <1>1, <1>3 DEF ServiceInv, LogoutHolds, Cached
  <1> QED  BY <1>4, <1>5, <1>6, <1>7, <1>8, <1>9 DEF ServiceInv

\* A token is forgotten while initTokens() is not running: it has expired, or is
\* being logged out.
LEMMA ForgottenService ==
  ASSUME TypeOK, ServiceInv, boot = "done", NEW t \in Token, use[t].run # 0,
         \/ UNCHANGED loggedOut /\ now >= accessTokens[t] /\ Cached(t)
         \/ loggedOut' = [loggedOut EXCEPT ![t] = ThisRun],
         accessTokens' = [accessTokens EXCEPT ![t] = NoExpiry],
         writes' = writes \cup {Delete(t)},
         \A r \in Slot : logouts'[r] \in {Idle, logouts[r]},
         UNCHANGED <<rows, boot, snapshot, restarts, now, use>>
  PROVE  ServiceInv'
  <1>1. \A u \in Token : accessTokens'[u] = IF u = t THEN NoExpiry ELSE accessTokens[u]
    BY DEF TypeOK
  <1>2. \A u \in Token \ {t} : loggedOut'[u] = loggedOut[u]
    BY DEF TypeOK
  <1>3. loggedOut'[t] = loggedOut[t] \/ loggedOut'[t] = ThisRun
    BY DEF TypeOK
  <1>4. restarts \in Nat /\ ThisRun' = ThisRun /\ ThisRun # 0
    BY DEF TypeOK, ThisRun
  <1>5. Delete(t).token = t
    BY DEF Delete
  <1>6. FreshIsUnknown'
    BY <1>1, <1>2, <1>5 DEF ServiceInv, FreshIsUnknown, Cached
  <1>7. BootIsAlone'
    BY DEF BootIsAlone
  <1>8. RunsPass'
    BY <1>2, <1>3, <1>4 DEF ServiceInv, RunsPass, ThisRun
  <1>9. DeletedIsUncached'
    <2>1. \A v \in writes : v.token \in Token
      BY DEF TypeOK, Statement
    <2> QED  BY <1>1, <1>5, <2>1 DEF ServiceInv, DeletedIsUncached, Cached
  <1>10. LeaseIsExact'
    <2> SUFFICES ASSUME NEW u \in Token, use[u].run = ThisRun, loggedOut'[u] = 0
                 PROVE  accessTokens'[u] = use[u].at + Validity \/ now >= use[u].at + Validity
      BY <1>4 DEF LeaseIsExact
    <2>1. CASE u # t
      BY <1>1, <1>2, <2>1 DEF ServiceInv, LeaseIsExact
    <2>2. CASE u = t
      <3>1. loggedOut'[t] # ThisRun
        BY <1>4, <2>2
      <3>2. UNCHANGED loggedOut /\ now >= accessTokens[t]
        BY <3>1 DEF TypeOK
      <3> QED  BY <2>2, <3>2 DEF ServiceInv, LeaseIsExact
    <2> QED  BY <2>1, <2>2
  <1>11. LogoutHolds'
    BY <1>1, <1>2, <1>4 DEF ServiceInv, LogoutHolds, Cached
  <1> QED  BY <1>6, <1>7, <1>8, <1>9, <1>10, <1>11 DEF ServiceInv

LEMMA VerifyService ==
  ASSUME TypeOK, ServiceInv, boot = "done", NEW t \in Token, verifyToken(t),
         \A r \in Slot : \/ logouts'[r] \in {Idle, logouts[r]}
                         \/ Valid(t) /\ logouts'[r].token = t,
         UNCHANGED <<rows, boot, snapshot, restarts, now, loggedOut>>
  PROVE  ServiceInv'
  <1>1. CASE ~Cached(t) /\ UNCHANGED <<accessTokens, writes, use>>
    <2>1. ~Valid(t)
      BY <1>1 DEF Valid
    <2> QED  BY <1>1, <2>1
                DEF ServiceInv, FreshIsUnknown, BootIsAlone, RunsPass, DeletedIsUncached,
                    LeaseIsExact, LogoutHolds, Cached, ThisRun
  <1>2. CASE /\ Cached(t) /\ ~Valid(t)
             /\ accessTokens' = [accessTokens EXCEPT ![t] = NoExpiry]
             /\ writes' = writes \cup {Delete(t)}
             /\ UNCHANGED use
    <2>1. use[t].run # 0
      BY <1>2 DEF ServiceInv, FreshIsUnknown
    <2>2. now >= accessTokens[t]
      <3>1. accessTokens[t] \in Int /\ now \in Int
        BY DEF TypeOK, NoExpiry
      <3> QED  BY <1>2, <3>1 DEF Valid
    <2> QED  BY <1>2, <2>1, <2>2, ForgottenService
  <1>3. CASE /\ Valid(t)
             /\ accessTokens' = [accessTokens EXCEPT ![t] = now + Validity]
             /\ writes' = writes \cup {Update(t, now + Validity)}
             /\ Used(t)
    <2>1. Cached(t)
      BY <1>3 DEF Valid
    <2>2. loggedOut[t] # ThisRun
      BY <2>1 DEF ServiceInv, LogoutHolds
    <2>3. ~\E v \in writes : v = Delete(t)
      BY <2>1 DEF ServiceInv, DeletedIsUncached, Delete
    <2>4. Update(t, now + Validity).token = t /\ Update(t, now + Validity).verb # "delete"
      BY DEF Update
    <2> QED  BY <1>3, <2>2, <2>3, <2>4, RenewedService
  <1> QED  BY <1>1, <1>2, <1>3 DEF verifyToken, Forget, Renew

LEMMA NextService ==
  ASSUME EarlyRequests = FALSE, TypeOK, ServiceInv, [Next]_vars
  PROVE  ServiceInv'
  <1> USE DEF dbVars, bootVars
  <1>1. ASSUME NEW t \in Token, registerNewUserSession(t)  PROVE ServiceInv'
    <2>1. boot = "done"
      BY <1>1 DEF registerNewUserSession, Arrives
    <2>2. loggedOut[t] # ThisRun /\ ~\E v \in writes : v = Delete(t)
      BY <1>1 DEF registerNewUserSession, ServiceInv, FreshIsUnknown, Delete, TypeOK, ThisRun
    <2>3. Insert(t, now + Validity).token = t /\ Insert(t, now + Validity).verb # "delete"
      BY DEF Insert
    <2> QED  BY <1>1, <2>1, <2>2, <2>3, RenewedService DEF registerNewUserSession
  <1>2. ASSUME NEW t \in Token, Request(t)  PROVE ServiceInv'
    BY <1>2, VerifyService DEF Request, Arrives
  <1>3. ASSUME NEW s \in Slot, NEW t \in Token, LogoutVerifies(s, t)  PROVE ServiceInv'
    <2>1. \A r \in Slot : \/ logouts'[r] \in {Idle, logouts[r]}
                          \/ Valid(t) /\ logouts'[r].token = t
      BY <1>3 DEF LogoutVerifies, TypeOK
    <2> QED  BY <1>3, <2>1, VerifyService DEF LogoutVerifies, Arrives
  <1>4. ASSUME NEW s \in Slot, removeUserSession(s)  PROVE ServiceInv'
    <2>1. logouts[s].token \in Token /\ boot = "done"
      BY <1>4 DEF removeUserSession, TypeOK, Logout, Idle, ServiceInv, BootIsAlone
    <2>2. \A r \in Slot : \/ logouts'[r] \in {Idle, logouts[r]}
                          \/ Valid(logouts[s].token) /\ logouts'[r].token = logouts[s].token
      BY <1>4 DEF removeUserSession, TypeOK
    <2> QED  BY <1>4, <2>1, <2>2, VerifyService DEF removeUserSession
  <1>5. ASSUME NEW s \in Slot, SessionRemoved(s)  PROVE ServiceInv'
    <2>1. logouts[s].token \in Token /\ boot = "done" /\ use[logouts[s].token].run # 0
      BY <1>5 DEF SessionRemoved, Forget, TypeOK, Logout, Idle, ServiceInv, BootIsAlone,
                  FreshIsUnknown
    <2>2. \A r \in Slot : logouts'[r] \in {Idle, logouts[r]}
      BY <1>5 DEF SessionRemoved, Forget, TypeOK
    <2> QED  BY <1>5, <2>1, <2>2, ForgottenService DEF SessionRemoved, Forget
  <1>6. ASSUME Select  PROVE ServiceInv'
    <2>1. snapshot' \in {rows, NoRows}
      BY <1>6 DEF Select
    <2>2. FreshIsUnknown'
      BY <1>6, <2>1 DEF Select, ServiceInv, FreshIsUnknown, Cached, NoRows
    <2>3. BootIsAlone'
      BY <1>6, <2>1 DEF Select, ServiceInv, BootIsAlone, Cached, ThisRun, NoRows
    <2> QED  BY <1>6, <2>2, <2>3
                DEF Select, ServiceInv, RunsPass, DeletedIsUncached, LeaseIsExact,
                    LogoutHolds, Cached, ThisRun
  <1>7. ASSUME Load  PROVE ServiceInv'
    <2>1. /\ boot # "done" /\ boot' = "done" /\ snapshot' = NoRows
          /\ \A t \in Token : accessTokens'[t] \in {snapshot[t], accessTokens[t]}
          /\ UNCHANGED <<rows, writes, restarts, logouts, now, use, loggedOut>>
      BY <1>7 DEF Load
    <2>2. \A t \in Token : use[t].run < ThisRun /\ loggedOut[t] < ThisRun
      BY <2>1 DEF ServiceInv, BootIsAlone
    <2>3. \A t \in Token : use[t].run # ThisRun /\ loggedOut[t] # ThisRun
      BY <2>2 DEF TypeOK, ThisRun, Run
    <2>4. FreshIsUnknown'
      BY <2>1 DEF ServiceInv, FreshIsUnknown, Cached, NoRows
    <2>5. BootIsAlone'
      BY <2>1 DEF BootIsAlone
    <2>6. DeletedIsUncached'
      BY <2>1 DEF ServiceInv, BootIsAlone, DeletedIsUncached
    <2> QED  BY <2>1, <2>3, <2>4, <2>5, <2>6
                DEF ServiceInv, RunsPass, LeaseIsExact, LogoutHolds, ThisRun
  <1>8. ASSUME NEW w \in writes, ExecuteWrite(w)  PROVE ServiceInv'
    <2>1. boot = "done" /\ boot' = "done"
      BY <1>8 DEF ExecuteWrite, ServiceInv, BootIsAlone
    <2>2. BootIsAlone'
      BY <2>1 DEF BootIsAlone
    <2>3. \A t \in Token : t # w.token => rows'[t] = rows[t]
      BY <1>8 DEF ExecuteWrite, TypeOK
    <2>4. FreshIsUnknown'
      BY <1>8, <2>3 DEF ExecuteWrite, ServiceInv, FreshIsUnknown, Cached
    <2> QED  BY <1>8, <2>2, <2>4
                DEF ExecuteWrite, ServiceInv, RunsPass, DeletedIsUncached, LeaseIsExact,
                    LogoutHolds, Cached, ThisRun
  <1>9. ASSUME Tick  PROVE ServiceInv'
    <2>1. LeaseIsExact'
      <3>1. \A t \in Token : use[t].at + Validity \in Int /\ now \in Int
        BY SessionsAssumption DEF TypeOK
      <3> QED  BY <1>9, <3>1 DEF Tick, ServiceInv, LeaseIsExact, ThisRun
    <2> QED  BY <1>9, <2>1
                DEF Tick, ServiceInv, FreshIsUnknown, BootIsAlone, RunsPass,
                    DeletedIsUncached, LogoutHolds, Cached, ThisRun
  <1>10. ASSUME Restart  PROVE ServiceInv'
    <2>1. \A t \in Token : /\ use[t].run \in Int /\ loggedOut[t] \in Int
                           /\ use[t].run <= ThisRun /\ loggedOut[t] <= ThisRun
      BY DEF TypeOK, Run, ServiceInv, RunsPass
    <2>2. ThisRun \in Int /\ ThisRun' = ThisRun + 1
      BY <1>10 DEF Restart, ThisRun, TypeOK
    <2>3. \A t \in Token : /\ use'[t].run < ThisRun' /\ loggedOut'[t] < ThisRun'
                           /\ use'[t].run <= ThisRun' /\ loggedOut'[t] <= ThisRun'
                           /\ use'[t].run # ThisRun' /\ loggedOut'[t] # ThisRun'
      BY <1>10, <2>1, <2>2 DEF Restart
    <2>4. FreshIsUnknown'
      BY <1>10 DEF Restart, ServiceInv, FreshIsUnknown, Cached, NoRows
    <2>5. BootIsAlone'
      BY <1>10, <2>3 DEF Restart, BootIsAlone, Cached, NoRows
    <2> QED  BY <1>10, <2>3, <2>4, <2>5
                DEF Restart, ServiceInv, RunsPass, DeletedIsUncached, LeaseIsExact,
                    LogoutHolds
  <1>11. ASSUME UNCHANGED vars  PROVE ServiceInv'
    BY <1>11 DEF vars, ServiceInv, FreshIsUnknown, BootIsAlone, RunsPass,
                 DeletedIsUncached, LeaseIsExact, LogoutHolds, Cached, ThisRun
  <1> QED  BY <1>1, <1>2, <1>3, <1>4, <1>5, <1>6, <1>7, <1>8, <1>9, <1>10, <1>11
              DEF Next

LEMMA ServiceInvariance ==
  ASSUME EarlyRequests = FALSE
  PROVE  Spec => [](TypeOK /\ ServiceInv)
  <1>1. Init => TypeOK /\ ServiceInv
    BY InitType, InitService
  <1>2. TypeOK /\ ServiceInv /\ [Next]_vars => TypeOK' /\ ServiceInv'
    BY NextType, NextService
  <1> QED  BY <1>1, <1>2, PTL DEF Spec

\* What the map, the statements on their way and the snapshot of initTokens()
\* say of a token agrees with how it was used last. (authenticator.js)
THEOREM SessionsAreConsistent ==
  ASSUME EarlyRequests = FALSE
  PROVE  Spec => []ServiceInv
  <1>1. TypeOK /\ ServiceInv => ServiceInv
    OBVIOUS
  <1> QED  BY <1>1, ServiceInvariance, PTL

\* A token that was logged out is not accepted again in the same run of the
\* server. (removeUserSession)
THEOREM LogoutsHold ==
  ASSUME EarlyRequests = FALSE
  PROVE  Spec => []LogoutHolds
  <1>1. ServiceInv => LogoutHolds
    BY DEF ServiceInv
  <1> QED  BY <1>1, ServiceInvariance, PTL

\* No other request ends the session of an active user. (verifyToken)
THEOREM SessionsLast ==
  ASSUME EarlyRequests = FALSE
  PROVE  Spec => []ActiveSessionsLast
  <1>1. ASSUME TypeOK, ServiceInv  PROVE ActiveSessionsLast
    <2> SUFFICES ASSUME NEW t \in Token, use[t].run = ThisRun, loggedOut[t] = 0,
                        now - use[t].at < Validity
                 PROVE  Valid(t)
      BY DEF ActiveSessionsLast
    <2>1. now \in Int /\ use[t].at \in Int /\ Validity \in Int
      BY <1>1, SessionsAssumption DEF TypeOK
    <2>2. accessTokens[t] = use[t].at + Validity \/ now >= use[t].at + Validity
      BY <1>1 DEF ServiceInv, LeaseIsExact
    <2>3. accessTokens[t] = use[t].at + Validity /\ accessTokens[t] - now > 0
      BY <2>1, <2>2
    <2>4. now >= 0
      BY <1>1 DEF TypeOK
    <2> QED  BY <2>1, <2>3, <2>4 DEF Valid, Cached, NoExpiry
  <1> QED  BY <1>1, ServiceInvariance, PTL
-----------------------------------------------------------------------------
(***************************************************************************)
(* The map and the table.                                                  *)
(***************************************************************************)
\* verifyToken never puts a token in the map, and forgets no INSERT.
LEMMA VerifyStored ==
  ASSUME TypeOK, CachedIsStored, NEW t \in Token, verifyToken(t), UNCHANGED rows
  PROVE  CachedIsStored'
  <1>1. \A u \in Token : Cached(u)' => Cached(u)
    BY DEF verifyToken, Forget, Renew, Valid, Cached, TypeOK
  <1>2. writes \subseteq writes'
    BY DEF verifyToken, Forget, Renew
  <1> QED  BY <1>1, <1>2 DEF CachedIsStored

LEMMA NextStored ==
  ASSUME DbMayFail = FALSE, TypeOK, ServiceInv, CachedIsStored, [Next]_vars
  PROVE  CachedIsStored'
  <1> USE DEF dbVars, bootVars
  <1>1. ASSUME NEW t \in Token, registerNewUserSession(t)  PROVE CachedIsStored'
    <2>1. \A u \in Token \ {t} : accessTokens'[u] = accessTokens[u]
      BY <1>1 DEF registerNewUserSession, TypeOK
    <2>2. writes' = writes \cup {Insert(t, now + Validity)} /\ UNCHANGED rows
      BY <1>1 DEF registerNewUserSession
    <2>3. Insert(t, now + Validity).verb = "insert" /\ Insert(t, now + Validity).token = t
      BY DEF Insert
    <2> QED  BY <2>1, <2>2, <2>3 DEF CachedIsStored, Cached
  <1>2. ASSUME NEW t \in Token, Request(t)  PROVE CachedIsStored'
    BY <1>2, VerifyStored DEF Request
  <1>3. ASSUME NEW s \in Slot, NEW t \in Token, LogoutVerifies(s, t)  PROVE CachedIsStored'
    BY <1>3, VerifyStored DEF LogoutVerifies
  <1>4. ASSUME NEW s \in Slot, removeUserSession(s)  PROVE CachedIsStored'
    <2>1. logouts[s].token \in Token
      BY <1>4 DEF removeUserSession, TypeOK, Logout, Idle
    <2> QED  BY <1>4, <2>1, VerifyStored DEF removeUserSession
  <1>5. ASSUME NEW s \in Slot, SessionRemoved(s)  PROVE CachedIsStored'
    <2>1. \A u \in Token : Cached(u)' => Cached(u)
      BY <1>5 DEF SessionRemoved, Forget, Cached, TypeOK
    <2>2. writes \subseteq writes' /\ UNCHANGED rows
      BY <1>5 DEF SessionRemoved, Forget
    <2> QED  BY <2>1, <2>2 DEF CachedIsStored
  <1>6. CASE Load
    <2>1. \A t \in Token : snapshot[t] # NoExpiry => rows[t] # NoExpiry
      BY <1>6 DEF Load, ServiceInv, BootIsAlone
    <2>2. \A t \in Token : Cached(t)' => snapshot[t] # NoExpiry \/ Cached(t)
      BY <1>6 DEF Load, Cached
    <2> QED  BY <1>6, <2>1, <2>2 DEF Load, CachedIsStored
  <1>7. ASSUME NEW w \in writes, ExecuteWrite(w)  PROVE CachedIsStored'
    <2> SUFFICES ASSUME NEW t \in Token, Cached(t)
                 PROVE  \/ rows'[t] # NoExpiry
                        \/ \E v \in writes' : v.verb = "insert" /\ v.token = t
      BY <1>7 DEF ExecuteWrite, CachedIsStored, Cached
    <2>1. CASE w.token # t
      <3>1. rows'[t] = rows[t]
        BY <1>7, <2>1 DEF ExecuteWrite, TypeOK
      <3>2. \A v \in writes : v.token = t => v \in writes'
        BY <1>7, <2>1 DEF ExecuteWrite
      <3> QED  BY <3>1, <3>2 DEF CachedIsStored
    <2>2. CASE w.token = t
      <3>1. w.verb \in {"insert", "update"}
        BY <2>2 DEF TypeOK, Statement, ServiceInv, DeletedIsUncached
      <3>2. CASE ~Executes(w) /\ UNCHANGED rows
        <4>1. CASE w.verb = "insert"
          BY <2>2, <3>2, <4>1 DEF Executes
        <4>2. CASE w.verb = "update"
          <5>1. rows[t] = NoExpiry
            BY <2>2, <3>2, <4>2 DEF Executes
          <5>2. PICK v \in writes : v.verb = "insert" /\ v.token = t
            BY <5>1 DEF CachedIsStored
          <5>3. v \in writes'
            BY <1>7, <4>2, <5>2 DEF ExecuteWrite
          <5> QED  BY <5>2, <5>3
        <4> QED  BY <3>1, <4>1, <4>2
      <3>3. CASE \E e \in Stored(w) : rows' = [rows EXCEPT ![w.token] = e]
        <4>1. PICK e \in Stored(w) : rows' = [rows EXCEPT ![w.token] = e]
          BY <3>3
        <4>2. w.expires \in Nat
          BY <3>1 DEF TypeOK, Statement
        <4>3. e \in {Floor(w.expires), Ceiling(w.expires)}
          BY <3>1 DEF Stored
        <4>4. e \in Nat
          BY <4>2, <4>3, Rounding
        <4> QED  BY <2>2, <4>1, <4>4 DEF TypeOK, NoExpiry
      <3> QED  BY <1>7, <3>2, <3>3 DEF ExecuteWrite
    <2> QED  BY <2>1, <2>2
  <1>8. CASE Restart
    BY <1>8 DEF Restart, CachedIsStored, Cached, NoRows
  <1>9. CASE Select \/ Tick \/ UNCHANGED vars
    BY <1>9 DEF Select, Tick, vars, CachedIsStored, Cached
  <1> QED  BY <1>1, <1>2, <1>3, <1>4, <1>5, <1>6, <1>7, <1>8, <1>9 DEF Next

\* A session in the map survives a restart: its row is there or on its way, and
\* no statement of another request deletes it. (registerNewUserSession,
\* verifyToken, removeUserSession, initTokens)
THEOREM CachedSessionsAreStored ==
  ASSUME EarlyRequests = FALSE, DbMayFail = FALSE
  PROVE  Spec => []CachedIsStored
  <1>1. Init => CachedIsStored
    BY DEF Init, CachedIsStored, Cached, NoRows
  <1>2. TypeOK /\ ServiceInv /\ CachedIsStored /\ [Next]_vars => CachedIsStored'
    BY NextStored
  <1> QED  BY <1>1, <1>2, ServiceInvariance, PTL DEF Spec
=============================================================================
