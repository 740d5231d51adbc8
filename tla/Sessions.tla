-------------------------------- MODULE Sessions --------------------------------
(***************************************************************************)
(* src/util/authenticator.js: the sessions of the users, with the two      *)
(* access-token statements of src/util/db/db-controller.js and the logout  *)
(* endpoint of src/socket-setup.js.                                        *)
(*                                                                         *)
(* The map `accessTokens' is a cache of table AccessTokens that every      *)
(* request goes through.  The INSERT of a login, the UPDATE of every later *)
(* request and the DELETE at the end are sent without being awaited, each  *)
(* on a connection of its own, so the database executes those pending in   *)
(* any order.  initTokens() fills the cache when the module is required.   *)
(*                                                                         *)
(* Usernames are left out: a token keeps the one it was registered with.   *)
(* Logins draw tokens that were never used before (token-generator.js).    *)
(***************************************************************************)
EXTENDS Integers, FiniteSets

CONSTANTS
  Token,          \* access tokens
  Slot,           \* logout requests in progress at the same time (a bound)
  Validity,       \* ACCESS_TOKEN_VALIDITY_DAYS, in ticks
  MaxTime,        \* the last time the clock shows (a bound)
  EarlyRequests,  \* do clients send requests before initTokens() has finished?
  DbLag,          \* unexecuted writes at which no new request arrives (a bound)
  DbMayFail,      \* can a statement fail for a reason that is not in the table?
  MaxRestarts     \* crashes followed by a restart (a bound)

ASSUME SessionsAssumption ==
  /\ Validity \in Nat \ {0}
  /\ MaxTime \in Nat
  /\ EarlyRequests \in BOOLEAN
  /\ DbLag \in Nat
  /\ DbMayFail \in BOOLEAN
  /\ MaxRestarts \in Nat

VARIABLES
  accessTokens,  \* the expiry of each token in the map
  rows,          \* table AccessTokens: the expiry of each token
  writes,        \* statements sent and not yet executed
  boot,          \* where initTokens() is suspended
  snapshot,      \* the result of its SELECT
  logouts,       \* the logout requests in progress
  now,           \* the clock, in half seconds
  restarts,
  use,           \* history: when, and in which run of the server, each token
                 \*   was last accepted or registered
  loggedOut      \* history: the run in which each token was logged out

dbVars == <<rows, writes>>
bootVars == <<boot, snapshot, restarts>>
vars == <<accessTokens, dbVars, bootVars, logouts, now, use, loggedOut>>
-----------------------------------------------------------------------------
NoExpiry == -1
NoRows == [t \in Token |-> NoExpiry]

Cached(t) == accessTokens[t] # NoExpiry
Valid(t) == Cached(t) /\ accessTokens[t] - now > 0

Statement == [verb : {"insert", "update"}, token : Token, expires : Nat]
               \cup [verb : {"delete"}, token : Token, expires : {NoExpiry}]
Insert(t, e) == [verb |-> "insert", token |-> t, expires |-> e]
Update(t, e) == [verb |-> "update", token |-> t, expires |-> e]
Delete(t) == [verb |-> "delete", token |-> t, expires |-> NoExpiry]

\* The server runs, and 0 for a token that has not been used or logged out.
Run == 0..MaxRestarts + 1
ThisRun == restarts + 1

Idle == [pc |-> "idle"]
Logout == [pc : {"verified", "removing"}, token : Token]

TypeOK ==
  /\ accessTokens \in [Token -> Nat \cup {NoExpiry}]
  /\ rows \in [Token -> Nat \cup {NoExpiry}]
  /\ writes \subseteq Statement
  /\ boot \in {"selecting", "loading", "done"}
  /\ snapshot \in [Token -> Nat \cup {NoExpiry}]
  /\ logouts \in [Slot -> Logout \cup {Idle}]
  /\ now \in 0..MaxTime
  /\ restarts \in 0..MaxRestarts
  /\ use \in [Token -> [at : 0..MaxTime, run : Run]]
  /\ loggedOut \in [Token -> Run]

Init ==
  /\ accessTokens = NoRows
  /\ rows = NoRows
  /\ writes = {}
  /\ boot = "selecting"
  /\ snapshot = NoRows
  /\ logouts = [s \in Slot |-> Idle]
  /\ now = 0
  /\ restarts = 0
  /\ use = [t \in Token |-> [at |-> 0, run |-> 0]]
  /\ loggedOut = [t \in Token |-> 0]
-----------------------------------------------------------------------------
Arrives ==
  /\ EarlyRequests \/ boot = "done"
  /\ Cardinality(writes) <= DbLag

Used(t) == use' = [use EXCEPT ![t] = [at |-> now, run |-> ThisRun]]

\* Mutants: the session expires before it starts, or is not stored.
BackdatedSession(t) ==
  /\ Arrives
  /\ use[t].run = 0
  /\ accessTokens' = [accessTokens EXCEPT ![t] = now - Validity]
  /\ writes' = writes \cup {Insert(t, now - Validity)}
  /\ Used(t)
  /\ UNCHANGED <<rows, bootVars, logouts, now, loggedOut>>

CachedSession(t) ==
  /\ Arrives
  /\ use[t].run = 0
  /\ accessTokens' = [accessTokens EXCEPT ![t] = now + Validity]
  /\ Used(t)
  /\ UNCHANGED <<dbVars, bootVars, logouts, now, loggedOut>>

\* registerNewUserSession, at the end of a login whose password matches.
registerNewUserSession(t) ==
  /\ Arrives
  /\ use[t].run = 0
  /\ accessTokens' = [accessTokens EXCEPT ![t] = now + Validity]
  /\ writes' = writes \cup {Insert(t, now + Validity)}
  /\ Used(t)
  /\ UNCHANGED <<rows, bootVars, logouts, now, loggedOut>>

\* Mutants: the session stays in the map, a lease is added to the one before, or
\* it is renewed in the table only.
ForgetRow(t) == writes' = writes \cup {Delete(t)} /\ UNCHANGED accessTokens

Extend(t) ==
  /\ accessTokens' = [accessTokens EXCEPT ![t] = @ + Validity]
  /\ writes' = writes \cup {Update(t, accessTokens[t] + Validity)}
  /\ Used(t)

RenewRow(t) ==
  writes' = writes \cup {Update(t, now + Validity)} /\ Used(t) /\ UNCHANGED accessTokens

\* The session leaves the map, and a DELETE is sent.
Forget(t) ==
  /\ accessTokens' = [accessTokens EXCEPT ![t] = NoExpiry]
  /\ writes' = writes \cup {Delete(t)}

\* The session gets a new lease, and an UPDATE is sent.
Renew(t) ==
  /\ accessTokens' = [accessTokens EXCEPT ![t] = now + Validity]
  /\ writes' = writes \cup {Update(t, now + Validity)}
  /\ Used(t)

\* An unknown token is refused, one that has expired is also forgotten.
verifyToken(t) ==
  \/ ~Cached(t) /\ UNCHANGED <<accessTokens, writes, use>>
  \/ Cached(t) /\ ~Valid(t) /\ Forget(t) /\ UNCHANGED use
  \/ Valid(t) /\ Renew(t)

\* A request with an access token, which is refused with BAD_AUTH or goes on
\* to an endpoint that does nothing more about the session.
Request(t) ==
  /\ Arrives
  /\ verifyToken(t)
  /\ UNCHANGED <<rows, bootVars, logouts, now, loggedOut>>
-----------------------------------------------------------------------------
(***************************************************************************)
(* logout: processIncomingMsg verifies the token, then removeUserSession   *)
(* verifies it again and, another await later, removes it.  The response   *)
(* OK is sent while removeUserSession is suspended, whatever comes of it.  *)
(***************************************************************************)
LogoutVerifies(s, t) ==
  /\ Arrives
  /\ logouts[s] = Idle
  /\ verifyToken(t)
  /\ logouts' = [logouts EXCEPT ![s] =
                   IF Valid(t) THEN [pc |-> "verified", token |-> t] ELSE Idle]
  /\ UNCHANGED <<rows, bootVars, now, loggedOut>>

removeUserSession(s) ==
  /\ logouts[s].pc = "verified"
  /\ LET t == logouts[s].token
     IN /\ verifyToken(t)
        /\ logouts' = [logouts EXCEPT ![s] =
                         IF Valid(t) THEN [pc |-> "removing", token |-> t] ELSE Idle]
  /\ UNCHANGED <<rows, bootVars, now, loggedOut>>

SessionRemoved(s) ==
  /\ logouts[s].pc = "removing"
  /\ LET t == logouts[s].token
     IN /\ Forget(t)
        /\ loggedOut' = [loggedOut EXCEPT ![t] = ThisRun]
  /\ logouts' = [logouts EXCEPT ![s] = Idle]
  /\ UNCHANGED <<rows, bootVars, now, use>>
-----------------------------------------------------------------------------
(***************************************************************************)
(* initTokens: what the SELECT found is put in the map when it arrives.  A *)
(* SELECT that fails finds nothing.                                        *)
(***************************************************************************)
Select ==
  /\ boot = "selecting"
  /\ boot' = "loading"
  /\ snapshot' \in {rows} \cup (IF DbMayFail THEN {NoRows} ELSE {})
  /\ UNCHANGED <<accessTokens, dbVars, restarts, logouts, now, use, loggedOut>>

Load ==
  /\ boot = "loading"
  /\ boot' = "done"
  /\ accessTokens' = [t \in Token |-> IF snapshot[t] # NoExpiry
                                      THEN snapshot[t] ELSE accessTokens[t]]
  /\ snapshot' = NoRows
  /\ UNCHANGED <<dbVars, restarts, logouts, now, use, loggedOut>>
-----------------------------------------------------------------------------
(***************************************************************************)
(* The database executes a statement.  Column expiration holds seconds: an *)
(* UPDATE is sent without the milliseconds (dateformat), an INSERT with    *)
(* them, and the database rounds them or cuts them off.                    *)
(***************************************************************************)
Floor(e) == e - (e % 2)
Ceiling(e) == e + (e % 2)

Executes(w) ==
  \/ w.verb = "insert" /\ rows[w.token] = NoExpiry
  \/ w.verb = "update" /\ rows[w.token] # NoExpiry
  \/ w.verb = "delete"

Stored(w) ==
  CASE w.verb = "insert" -> {Floor(w.expires), Ceiling(w.expires)}
    [] w.verb = "update" -> {Floor(w.expires)}
    [] w.verb = "delete" -> {NoExpiry}

ExecuteWrite(w) ==
  /\ w \in writes
  /\ writes' = writes \ {w}
  /\ \/ Executes(w) /\ \E e \in Stored(w) : rows' = [rows EXCEPT ![w.token] = e]
     \/ (~Executes(w) \/ DbMayFail) /\ UNCHANGED rows
  /\ UNCHANGED <<accessTokens, bootVars, logouts, now, use, loggedOut>>

Tick ==
  /\ now < MaxTime
  /\ now' = now + 1
  /\ UNCHANGED <<accessTokens, dbVars, bootVars, logouts, use, loggedOut>>

\* The process ends at any point and is started again; statements on their way
\* to the database are lost.
Restart ==
  /\ restarts < MaxRestarts
  /\ restarts' = restarts + 1
  /\ accessTokens' = NoRows
  /\ writes' = {}
  /\ boot' = "selecting"
  /\ snapshot' = NoRows
  /\ logouts' = [s \in Slot |-> Idle]
  /\ UNCHANGED <<rows, now, use, loggedOut>>

Next ==
  \/ \E t \in Token : registerNewUserSession(t) \/ Request(t)
  \/ \E s \in Slot :
        (\E t \in Token : LogoutVerifies(s, t)) \/ removeUserSession(s) \/ SessionRemoved(s)
  \/ Select \/ Load
  \/ \E w \in writes : ExecuteWrite(w)
  \/ Tick
  \/ Restart

Spec == Init /\ [][Next]_vars
-----------------------------------------------------------------------------
(***************************************************************************)
(* Properties.                                                             *)
(***************************************************************************)
\* A session that was not used for ACCESS_TOKEN_VALIDITY_DAYS is over: whatever
\* the order of the statements, lost statements, restarts and the rounding of
\* expiration, its token is not accepted again. (verifyToken, initTokens)
IdleSessionsExpire ==
  [][\A t \in Token :
       use[t].run # 0 /\ use'[t] # use[t] => now <= use[t].at + Validity]_vars

\* A session in the map has a row or will get one, so that a restart does not
\* end it: no statement of another request deletes the row of a live session.
\* (registerNewUserSession, verifyToken, removeUserSession, initTokens)
CachedIsStored ==
  \A t \in Token : Cached(t) =>
     rows[t] # NoExpiry \/ \E w \in writes : w.verb = "insert" /\ w.token = t

\* In the run in which it was used last, a session lasts for as long as
\* promised unless its user logs out, whatever other requests do. (verifyToken)
ActiveSessionsLast ==
  \A t \in Token :
     use[t].run = ThisRun /\ now - use[t].at < Validity /\ loggedOut[t] = 0
       => Valid(t)

\* A token that was logged out is not accepted again in the same run, whatever
\* requests with it were in progress. (removeUserSession)
LogoutHolds == \A t \in Token : loggedOut[t] = ThisRun => ~Cached(t)

\* A token that was logged out is never accepted again. (The comment of
\* removeUserSession: delete access token for this user)
LogoutIsFinal == \A t \in Token : loggedOut[t] # 0 => ~Cached(t)
-----------------------------------------------------------------------------
(***************************************************************************)
(* Why they hold.                                                          *)
(***************************************************************************)
\* No lease, wherever it is kept or on its way to, outlasts the last use by more
\* than the rounding.
Limit(t) == use[t].at + Validity + 1

LeaseInv ==
  /\ \A t \in Token :
       /\ use[t].at <= now
       /\ accessTokens[t] <= Limit(t) /\ rows[t] <= Limit(t) /\ snapshot[t] <= Limit(t)
  /\ \A w \in writes : w.expires < Limit(w.token)

\* A token that was never used is known nowhere.
FreshIsUnknown ==
  \A t \in Token : use[t].run = 0 =>
    /\ ~Cached(t) /\ rows[t] = NoExpiry /\ snapshot[t] = NoExpiry
    /\ loggedOut[t] = 0
    /\ \A w \in writes : w.token # t
    /\ \A s \in Slot : logouts[s] # Idle => logouts[s].token # t

\* initTokens() has the server for itself.
BootIsAlone ==
  boot # "done" =>
    /\ writes = {}
    /\ \A s \in Slot : logouts[s] = Idle
    /\ \A t \in Token :
         /\ ~Cached(t)
         /\ use[t].run < ThisRun /\ loggedOut[t] < ThisRun
         /\ snapshot[t] # NoExpiry => rows[t] # NoExpiry

RunsPass == \A t \in Token : use[t].run <= ThisRun /\ loggedOut[t] <= ThisRun

\* A row is deleted after its token has left the map.
DeletedIsUncached == \A w \in writes : w.verb = "delete" => ~Cached(w.token)

\* The map holds the lease of the last use.
LeaseIsExact ==
  \A t \in Token :
     use[t].run = ThisRun /\ loggedOut[t] = 0 =>
       accessTokens[t] = use[t].at + Validity \/ now >= use[t].at + Validity

ServiceInv ==
  /\ FreshIsUnknown /\ BootIsAlone /\ RunsPass /\ DeletedIsUncached /\ LeaseIsExact
  /\ LogoutHolds
=============================================================================
