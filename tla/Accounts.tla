-------------------------------- MODULE Accounts --------------------------------
(***************************************************************************)
(* Who may log in: table Users with the script that adds users             *)
(* (src/setup-new-user.js), the operator who removes them (README.md), and *)
(* the login endpoint of src/socket-setup.js with the statements on        *)
(* AccessTokens of src/util/authenticator.js.                              *)
(*                                                                         *)
(* They meet in the database only, so statements are modelled with their   *)
(* connections and transactions (Database).  A row of Users holds the      *)
(* password (hashing is left out), a row of AccessTokens its user (leases  *)
(* are the subject of Sessions).                                           *)
(***************************************************************************)
EXTENDS Database, TokenGenerator

CONSTANTS
  User, Password,
  Slot  \* login requests in progress at the same time (a bound)

Token == Pair

ASSUME AccountsAssumption ==
  /\ Key = User \cup Token
  /\ Value = Password \cup User
  /\ User \cap Token = {} /\ Password \cap Key = {}

VARIABLES
  accessTokens,  \* the user of each token in the map
  logins,        \* the login requests in progress
  script,        \* npm run newuser
  promised       \* history: the password of each account that is known to exist

vars == <<dbVars, tokenVars, accessTokens, logins, script, promised>>

Idle == [pc |-> "idle"]
Selecting == [pc : {"selecting"}, user : User, password : Password, conn : Conn]

\* The INSERT has been sent, or it has been answered.  "created" is history: was
\* it reported that the account exists, without an error or a removal since?
NoScript == [pc |-> "none"]
Script == [pc : {"inserting", "finished"}, user : User, password : Password,
           conn : Conn, created : BOOLEAN]

Awaits(c, client, stmt) ==
  conn[c].pc \in {"sent", "executed"} /\ conn[c].client = client /\ conn[c].stmt = stmt

\* What is awaited is on its way, so that a promise is not pending for ever.
AwaitedIsUnderWay ==
  /\ \A l \in Slot : logins[l] # Idle =>
       Awaits(logins[l].conn, "server", Select(logins[l].user))
  /\ script.pc = "inserting" =>
       Awaits(script.conn, "script", Insert(script.user, script.password))

AccountsTypeOK ==
  /\ DatabaseTypeOK
  /\ GeneratorTypeOK
  /\ accessTokens \in [Token -> User \cup {None}]
  /\ logins \in [Slot -> Selecting \cup {Idle}]
  /\ script \in Script \cup {NoScript}
  /\ promised \in [User -> Password \cup {None}]
  /\ AwaitedIsUnderWay

\* A database without sessions, and with any users (db_setup/insert.sql).
Init ==
  /\ \E users \in [User -> Password \cup {None}] :
       /\ table = [k \in Key |-> IF k \in User THEN users[k] ELSE None]
       /\ promised = users
  /\ conn = [c \in Conn |-> NoConnection]
  /\ GeneratorInit
  /\ accessTokens = [t \in Token |-> None]
  /\ logins = [l \in Slot |-> Idle]
  /\ script = NoScript
-----------------------------------------------------------------------------
(***************************************************************************)
(* The login endpoint, and the sessions it begins.                         *)
(***************************************************************************)
\* verifyUser sends its SELECT.  While the clock still goes on (a bound).
Login(l, u, p) ==
  /\ reading < MaxReading
  /\ logins[l] = Idle
  /\ \E c \in Conn :
       /\ Send(c, "server", Select(u))
       /\ logins' = [logins EXCEPT ![l] =
            [pc |-> "selecting", user |-> u, password |-> p, conn |-> c]]
  /\ UNCHANGED <<tokenVars, accessTokens, script, promised>>

\* What the SELECT found, when it is answered.
Matches(l) == conn[logins[l].conn].row = logins[l].password

\* Mutant: nobody catches what verifyUser throws when the SELECT failed.
RefusedByPassword(l) ==
  /\ logins[l] # Idle
  /\ ~Matches(l)
  /\ conn[logins[l].conn].ok
  /\ Answer(logins[l].conn)
  /\ logins' = [logins EXCEPT ![l] = Idle]
  /\ UNCHANGED <<tokenVars, accessTokens, script, promised>>

LoginRefused(l) ==
  /\ logins[l] # Idle
  /\ ~Matches(l)
  /\ Answer(logins[l].conn)
  /\ logins' = [logins EXCEPT ![l] = Idle]
  /\ UNCHANGED <<tokenVars, accessTokens, script, promised>>

\* registerNewUserSession: the session is in the map before its INSERT is sent,
\* which is not awaited.
LoginGranted(l) ==
  /\ logins[l] # Idle
  /\ Matches(l)
  /\ \E n \in Rand, c \in Conn :
       LET t == <<reading, n>>
       IN /\ generateAccessToken(n)
          /\ accessTokens' = [accessTokens EXCEPT ![t] = logins[l].user]
          /\ AnswerAndSend(logins[l].conn, c, "server", Insert(t, logins[l].user))
  /\ logins' = [logins EXCEPT ![l] = Idle]
  /\ UNCHANGED <<script, promised>>

\* verifyToken finds that the session has expired, or the user logs out.
EndSession(t) ==
  /\ accessTokens[t] # None
  /\ accessTokens' = [accessTokens EXCEPT ![t] = None]
  /\ \E c \in Conn : Send(c, "server", Delete(t))
  /\ UNCHANGED <<tokenVars, logins, script, promised>>

\* The process ends at any point and is started again; initTokens() loads what
\* is stored.  Bounded, because the clock goes on.
Restart ==
  /\ Crash("server")
  /\ GeneratorRestarts
  /\ accessTokens' = [t \in Token |-> table[t]]
  /\ logins' = [l \in Slot |-> Idle]
  /\ UNCHANGED <<script, promised>>
-----------------------------------------------------------------------------
(***************************************************************************)
(* setup-new-user.js.                                                      *)
(***************************************************************************)
\* checkUsername tests the promise that getUser returns, not the user.
checkUsername(u) == TRUE

\* getData, from valid input to the INSERT.
NewUser(u, p) ==
  /\ script = NoScript
  /\ checkUsername(u)
  /\ \E c \in Conn :
       /\ Send(c, "script", Insert(u, p))
       /\ script' = [pc |-> "inserting", user |-> u, password |-> p, conn |-> c,
                     created |-> FALSE]
  /\ UNCHANGED <<tokenVars, accessTokens, logins, promised>>

\* Mutant: whatever the answer, it says that the user was created.
SaysCreated ==
  /\ script.pc = "inserting"
  /\ Answer(script.conn)
  /\ script' = [script EXCEPT !.pc = "finished", !.created = TRUE]
  /\ UNCHANGED <<tokenVars, accessTokens, logins, promised>>

Report ==
  /\ script.pc = "inserting"
  /\ Answer(script.conn)
  /\ script' = [script EXCEPT !.pc = "finished", !.created = conn[script.conn].ok]
  /\ UNCHANGED <<tokenVars, accessTokens, logins, promised>>

\* Node ends the process when nothing is left to do: its connection is closed.
ScriptExits ==
  /\ script.pc = "finished"
  /\ \A c \in Conn : conn[c].client # "script"
  /\ promised' = IF script.created
                 THEN [promised EXCEPT ![script.user] = script.password] ELSE promised
  /\ script' = NoScript
  /\ UNCHANGED <<dbVars, tokenVars, accessTokens, logins>>

\* Ctrl+C, at any time.
ScriptKilled ==
  /\ script # NoScript
  /\ Crash("script")
  /\ script' = NoScript
  /\ UNCHANGED <<tokenVars, accessTokens, logins, promised>>
-----------------------------------------------------------------------------
\* DELETE FROM Users WHERE username = u, in the mysql shell, one at a time.
RemoveUser(u) ==
  /\ \A c \in Conn : conn[c].client # "operator"
  /\ \E c \in Conn : Send(c, "operator", Delete(u))
  /\ UNCHANGED <<tokenVars, accessTokens, logins, script, promised>>

\* Mutant: the promise of query() is not settled.
AnswerLost(c) ==
  /\ Answer(c)
  /\ UNCHANGED <<tokenVars, accessTokens, logins, script, promised>>

\* An answer that nobody awaits.
Awaited(c) ==
  \/ \E l \in Slot : logins[l] # Idle /\ logins[l].conn = c
  \/ script.pc = "inserting" /\ script.conn = c

AnswerIgnored(c) ==
  /\ ~Awaited(c)
  /\ Answer(c)
  /\ UNCHANGED <<tokenVars, accessTokens, logins, script, promised>>

DatabasePerforms(c) ==
  /\ Perform(c)
  /\ UNCHANGED <<tokenVars, accessTokens, logins, script, promised>>

\* A user that is removed is no longer promised.
Removes(c, u) == Pending(c) /\ conn[c].stmt = Delete(u)

DatabaseCommits(c) ==
  /\ Commit(c)
  /\ promised' = [u \in User |-> IF Removes(c, u) THEN None ELSE promised[u]]
  /\ script' = IF script # NoScript /\ Removes(c, script.user)
               THEN [script EXCEPT !.created = FALSE] ELSE script
  /\ UNCHANGED <<tokenVars, accessTokens, logins>>

\* The rejection that nobody handles is shown on the terminal of the script.
ConnectionBreaks(c) ==
  /\ Break(c)
  /\ script' = IF conn[c].client = "script"
               THEN [script EXCEPT !.created = FALSE] ELSE script
  /\ UNCHANGED <<tokenVars, accessTokens, logins, promised>>

ClockTicks ==
  /\ Tick
  /\ UNCHANGED <<dbVars, accessTokens, logins, script, promised>>

\* What becomes of a connection when nobody awaits its answer.
Proceeds(c) ==
  AnswerIgnored(c) \/ DatabasePerforms(c) \/ DatabaseCommits(c) \/ ConnectionBreaks(c)

LoginAnswered(l) == LoginRefused(l) \/ LoginGranted(l)

Next ==
  \/ \E l \in Slot : (\E u \in User, p \in Password : Login(l, u, p)) \/ LoginAnswered(l)
  \/ \E t \in Token : EndSession(t)
  \/ \E u \in User : (\E p \in Password : NewUser(u, p)) \/ RemoveUser(u)
  \/ Report \/ ScriptExits \/ ScriptKilled
  \/ \E c \in Conn : Proceeds(c)
  \/ ClockTicks
  \/ Restart

\* The database gives locks in the order they were asked for, and answers; the
\* callbacks run; the clock goes on.  A login that is granted always gets a
\* connection for its INSERT: only the model has few of them.
Fairness ==
  /\ \A l \in Slot : SF_vars(LoginAnswered(l))
  /\ \A c \in Conn : SF_vars(Proceeds(c))
  /\ WF_vars(Report \/ ScriptExits)
  /\ WF_vars(ClockTicks)

Spec == Init /\ [][Next]_vars
FairSpec == Spec /\ Fairness
-----------------------------------------------------------------------------
(***************************************************************************)
(* Properties.                                                             *)
(***************************************************************************)
\* A user who was reported as created, by a script that ended without an error,
\* can log in with that password until the account is removed: nothing that is
\* sent before or after, refused, lost or undone takes it away or replaces it.
\* (getData, addUser, PRIMARY KEY of Users)
AccountsLast == \A u \in User : promised[u] # None => table[u] = promised[u]

\* A session that is stored is one of an account, also if its user was removed
\* while the login was in progress: what a restart loads is in order.
\* (registerNewUserSession, FOREIGN KEY of AccessTokens)
StoredSessionsHaveAccounts ==
  \A t \in Token : table[t] # None => table[table[t]] # None

\* Every login is answered, and the script ends, whoever waits for whose locks
\* and whichever connection breaks. (verifyUser, getData)
EverybodyIsAnswered ==
  /\ \A l \in Slot : logins[l] # Idle ~> logins[l] = Idle
  /\ script # NoScript ~> script = NoScript
=============================================================================
