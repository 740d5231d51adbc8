----------------------------- MODULE AccountsProofs -----------------------------
(***************************************************************************)
(* The server, the script and the operator use the database as             *)
(* DatabaseProofs describes it, and the generator as TokenGeneratorProofs  *)
(* does.  What these modules prove therefore holds for them together, and  *)
(* with it that accounts last and that sessions belong to accounts, for    *)
(* any users, passwords, connections and requests.                         *)
(***************************************************************************)
EXTENDS Accounts, DatabaseProofs, TokenGeneratorProofs

Variables ==
  /\ accessTokens \in [Token -> User \cup {None}]
  /\ logins \in [Slot -> Selecting \cup {Idle}]
  /\ script \in Script \cup {NoScript}
  /\ promised \in [User -> Password \cup {None}]

\* No two logins await the same answer.
AwaitedOnce ==
  \A l, m \in Slot :
    logins[l] # Idle /\ logins[m] # Idle /\ logins[l].conn = logins[m].conn => l = m

\* Nobody sends an UPDATE; what is stored with a token is a user.
Issued(q) ==
  /\ q.verb # "update"
  /\ q.verb = "insert" /\ q.key \in Token => q.value \in User

\* What is stored: a row that refers to another one refers to a row that exists.
References ==
  /\ \A c \in Conn : Issued(conn[c].stmt)
  /\ \A t \in Token : table[t] \in User \cup {None}
  /\ \A k \in Key : table[k] \in Key => table[table[k]] # None

\* The INSERT of the script's user was executed, but not committed so far.
InFlight(c, u, p) ==
  conn[c].ok /\ conn[c].client = "script" /\ conn[c].stmt = Insert(u, p)

\* What was reported is stored, or on its way; what was promised is stored.
Promises ==
  /\ script # NoScript /\ script.created =>
       \/ table[script.user] = script.password
       \/ InFlight(script.conn, script.user, script.password)
  /\ AccountsLast

AccountsInv ==
  /\ LockInv
  /\ GeneratorTypeOK
  /\ Variables
  /\ AwaitedIsUnderWay
  /\ AwaitedOnce
  /\ References
  /\ Promises
-----------------------------------------------------------------------------
LEMMA Names ==
  /\ None \notin User /\ None \notin Token /\ None \notin Password
  /\ User \subseteq Key /\ Token \subseteq Key
  /\ Password \subseteq Value /\ User \subseteq Value
  /\ User \cap Token = {} /\ Password \cap Key = {}
  BY DatabaseAssumption, AccountsAssumption

LEMMA StatementTypes ==
  /\ \A k \in Key : Select(k) \in Query /\ Delete(k) \in Query
                    /\ Issued(Select(k)) /\ Issued(Delete(k))
  /\ \A u \in User, p \in Password : Insert(u, p) \in Query /\ Issued(Insert(u, p))
  /\ \A t \in Token, u \in User : Insert(t, u) \in Query /\ Issued(Insert(t, u))
  /\ Issued(Select(None))
  BY Names DEF Query, Select, Delete, Insert, Issued

LEMMA LoginType ==
  ASSUME Variables, NEW l \in Slot, logins[l] # Idle
  PROVE  /\ logins[l].user \in User /\ logins[l].password \in Password
         /\ logins[l].conn \in Conn
  BY DEF Variables, Selecting

LEMMA ScriptType ==
  ASSUME Variables, script # NoScript
  PROVE  /\ script \in Script /\ script.pc \in {"inserting", "finished"}
         /\ script.user \in User /\ script.password \in Password
         /\ script.conn \in Conn /\ script.created \in BOOLEAN
  BY DEF Variables, Script

LEMMA NoScriptType ==
  script.pc = "inserting" \/ script.pc = "finished" => script # NoScript
  BY DEF NoScript

\* The steps that send something.
Sends ==
  \E q \in Query, client \in Client, d \in Conn :
    /\ Issued(q)
    /\ Send(d, client, q) \/ \E c \in Conn : AnswerAndSend(c, d, client, q)

LEMMA GrantSends ==
  ASSUME AccountsInv, NEW l \in Slot, LoginGranted(l)
  PROVE  Sends
<1>1. PICK n \in Rand, c \in Conn :
        AnswerAndSend(logins[l].conn, c, "server", Insert(<<reading, n>>, logins[l].user))
  BY DEF LoginGranted
<1>2. <<reading, n>> \in Token
  BY DEF AccountsInv, GeneratorTypeOK, Token, Pair
<1>3. logins[l].user \in User /\ logins[l].conn \in Conn
  BY LoginType DEF AccountsInv, LoginGranted
<1>4. Insert(<<reading, n>>, logins[l].user) \in Query
      /\ Issued(Insert(<<reading, n>>, logins[l].user))
  BY <1>2, <1>3, StatementTypes
<1> QED
  BY <1>1, <1>3, <1>4 DEF Sends, Client

\* What each step is to the database.
LEMMA StepOfDatabase ==
  ASSUME AccountsInv, Next
  PROVE  \/ Sends
         \/ \E c \in Conn : Perform(c) \/ Answer(c) \/ Commit(c) \/ Break(c)
         \/ \E client \in Client : Crash(client)
         \/ UNCHANGED dbVars
<1> USE StatementTypes, Names DEF AccountsInv
<1>1. ASSUME NEW l \in Slot, NEW u \in User, NEW p \in Password, Login(l, u, p)
      PROVE  Sends
  BY <1>1 DEF Login, Sends, Client
<1>2. ASSUME NEW l \in Slot, LoginRefused(l)
      PROVE  \E c \in Conn : Answer(c)
  BY <1>2, LoginType DEF LoginRefused
<1>3. ASSUME NEW l \in Slot, LoginGranted(l)
      PROVE  Sends
  BY <1>3, GrantSends
<1>4. ASSUME NEW t \in Token, EndSession(t)
      PROVE  Sends
  BY <1>4 DEF EndSession, Sends, Client
<1>5. ASSUME NEW u \in User, NEW p \in Password, NewUser(u, p)
      PROVE  Sends
  BY <1>5 DEF NewUser, Sends, Client
<1>6. ASSUME NEW u \in User, RemoveUser(u)
      PROVE  Sends
  BY <1>6 DEF RemoveUser, Sends, Client
<1>7. CASE Report
  BY <1>7, ScriptType, NoScriptType DEF Report
<1>8. CASE ScriptKilled \/ Restart
  BY <1>8 DEF ScriptKilled, Restart, Client
<1>9. CASE ScriptExits \/ ClockTicks
  BY <1>9 DEF ScriptExits, ClockTicks
<1>10. ASSUME NEW c \in Conn, Proceeds(c)
       PROVE  Perform(c) \/ Answer(c) \/ Commit(c) \/ Break(c)
  BY <1>10 DEF Proceeds, AnswerIgnored, DatabasePerforms, DatabaseCommits, ConnectionBreaks
<1> QED
  BY <1>1, <1>2, <1>3, <1>4, <1>5, <1>6, <1>7, <1>8, <1>9, <1>10 DEF Next, LoginAnswered

LEMMA StepOfGenerator ==
  ASSUME Next
  PROVE  [GeneratorNext]_tokenVars
<1>1. ASSUME NEW l \in Slot, LoginGranted(l)
      PROVE  GeneratorNext
  BY <1>1 DEF LoginGranted, GeneratorNext
<1>2. CASE Restart \/ ClockTicks
  BY <1>2 DEF Restart, ClockTicks, GeneratorNext
<1> QED
  BY <1>1, <1>2
     DEF Next, Login, LoginAnswered, LoginRefused, EndSession, NewUser, RemoveUser, Report,
         ScriptExits, ScriptKilled, Proceeds, AnswerIgnored, DatabasePerforms,
         DatabaseCommits, ConnectionBreaks, tokenVars

LEMMA DatabaseStep ==
  ASSUME AccountsInv, [Next]_vars
  PROVE  [DbNext]_dbVars
<1>1. CASE Next
  BY <1>1, StepOfDatabase DEF Sends, DbNext
<1> QED
  BY <1>1 DEF vars, dbVars
-----------------------------------------------------------------------------
LEMMA GeneratorTypeStep ==
  ASSUME GeneratorTypeOK, [GeneratorNext]_tokenVars
  PROVE  GeneratorTypeOK'
<1>1. ASSUME NEW n \in Rand, generateAccessToken(n)
      PROVE  GeneratorTypeOK'
  <2>1. PICK r \in Reading, n2 \in Rand :
          /\ map' = Draw(Draw(map, reading, n), r, n2)
          /\ reading' = r
          /\ drawn' = [drawn EXCEPT ![<<reading, n>>] = @ + 1, ![<<r, n2>>] = @ + 1]
    BY <1>1 DEF generateAccessToken
  <2>2. map' \in [at : Reading, used : SUBSET Rand]
    BY <2>1, DrawType DEF GeneratorTypeOK
  <2> QED
    BY <2>1, <2>2 DEF GeneratorTypeOK, Pair
<1> QED
  BY <1>1 DEF GeneratorTypeOK, GeneratorNext, Tick, GeneratorRestarts, tokenVars

LEMMA VariablesStep ==
  ASSUME AccountsInv, [Next]_vars
  PROVE  Variables'
<1> USE DEF AccountsInv, Variables
<1>1. ASSUME NEW l \in Slot, NEW u \in User, NEW p \in Password, Login(l, u, p)
      PROVE  Variables'
  BY <1>1 DEF Login, Selecting
<1>2. ASSUME NEW l \in Slot, LoginRefused(l)
      PROVE  Variables'
  BY <1>2 DEF LoginRefused
<1>3. ASSUME NEW l \in Slot, LoginGranted(l)
      PROVE  Variables'
  BY <1>3, LoginType DEF LoginGranted
<1>4. ASSUME NEW t \in Token, EndSession(t)
      PROVE  Variables'
  BY <1>4 DEF EndSession
<1>5. ASSUME NEW u \in User, NEW p \in Password, NewUser(u, p)
      PROVE  Variables'
  BY <1>5 DEF NewUser, Script
<1>6. ASSUME NEW u \in User, RemoveUser(u)
      PROVE  Variables'
  BY <1>6 DEF RemoveUser
<1>7. CASE Report
  <2>1. conn[script.conn].ok \in BOOLEAN
    BY <1>7, ScriptType, NoScriptType, ConnectionType DEF Report, LockInv, DatabaseTypeOK
  <2> QED
    BY <1>7, <2>1, ScriptType, NoScriptType DEF Report, Script
<1>8. CASE ScriptKilled
  BY <1>8 DEF ScriptKilled
<1>9. CASE ScriptExits
  BY <1>9, ScriptType, NoScriptType DEF ScriptExits
<1>10. CASE Restart
  BY <1>10 DEF Restart, References
<1>11. CASE ClockTicks
  BY <1>11 DEF ClockTicks
<1>12. ASSUME NEW c \in Conn, Proceeds(c)
       PROVE  Variables'
  <2>1. CASE AnswerIgnored(c) \/ DatabasePerforms(c)
    BY <2>1 DEF AnswerIgnored, DatabasePerforms
  <2>2. CASE DatabaseCommits(c)
    <3>1. promised' \in [User -> Password \cup {None}]
      BY <2>2 DEF DatabaseCommits
    <3>2. script' \in Script \cup {NoScript}
      BY <2>2, ScriptType DEF DatabaseCommits, Script
    <3> QED
      BY <2>2, <3>1, <3>2 DEF DatabaseCommits
  <2>3. CASE ConnectionBreaks(c)
    <3>1. script' \in Script \cup {NoScript}
      <4>1. CASE script = NoScript
        BY <2>3, <4>1 DEF ConnectionBreaks, NoScript
      <4>2. CASE script # NoScript
        BY <2>3, <4>2, ScriptType DEF ConnectionBreaks, Script
      <4> QED
        BY <4>1, <4>2
    <3> QED
      BY <2>3, <3>1 DEF ConnectionBreaks
  <2> QED
    BY <1>12, <2>1, <2>2, <2>3 DEF Proceeds
<1>13. CASE UNCHANGED vars
  BY <1>13 DEF vars
<1> QED
  BY <1>1, <1>2, <1>3, <1>4, <1>5, <1>6, <1>7, <1>8, <1>9, <1>10, <1>11, <1>12, <1>13
     DEF Next, LoginAnswered
-----------------------------------------------------------------------------
(***************************************************************************)
(* What a step does to the other connections, and to its own.              *)
(***************************************************************************)
LEMMA AfterSend ==
  ASSUME LockInv, NEW d \in Conn, NEW client \in Client, NEW q \in Query,
         Send(d, client, q)
  PROVE  /\ conn[d] = NoConnection /\ conn'[d] = Opened(client, q)
         /\ \A e \in Conn \ {d} : conn'[e] = conn[e]
         /\ UNCHANGED table
  BY DEF LockInv, DatabaseTypeOK, Send, Free

LEMMA AfterAnswer ==
  ASSUME LockInv, NEW c \in Conn, Answer(c)
  PROVE  /\ conn'[c].pc = "answered" /\ conn'[c].ok = conn[c].ok
         /\ conn'[c].stmt = conn[c].stmt /\ conn'[c].client = conn[c].client
         /\ \A e \in Conn \ {c} : conn'[e] = conn[e]
         /\ UNCHANGED table
  BY DEF LockInv, DatabaseTypeOK, Answer, NoConnection, Connection

LEMMA AfterAnswerAndSend ==
  ASSUME LockInv, NEW c \in Conn, NEW d \in Conn, NEW client \in Client, NEW q \in Query,
         AnswerAndSend(c, d, client, q)
  PROVE  /\ c # d
         /\ conn[d] = NoConnection /\ conn'[d] = Opened(client, q)
         /\ conn'[c].pc = "answered" /\ conn'[c].ok = conn[c].ok
         /\ conn'[c].stmt = conn[c].stmt /\ conn'[c].client = conn[c].client
         /\ \A e \in Conn \ {c, d} : conn'[e] = conn[e]
         /\ UNCHANGED table
  BY DEF LockInv, DatabaseTypeOK, AnswerAndSend, Free, NoConnection, Connection

LEMMA AfterPerform ==
  ASSUME LockInv, NEW c \in Conn, Perform(c)
  PROVE  /\ conn[c].pc = "sent" /\ ~conn[c].ok
         /\ conn'[c].pc = "executed"
         /\ conn'[c].stmt = conn[c].stmt /\ conn'[c].client = conn[c].client
         /\ \A e \in Conn \ {c} : conn'[e] = conn[e]
         /\ UNCHANGED table
<1>1. PICK ok \in BOOLEAN : Executed(c, ok)
  BY DEF Perform
<1> QED
  BY <1>1 DEF LockInv, DatabaseTypeOK, Perform, Executed, NoConnection, Connection

LEMMA AfterClose ==
  ASSUME LockInv, NEW c \in Conn, Commit(c) \/ Break(c)
  PROVE  /\ conn[c].pc = "answered" /\ conn'[c] = NoConnection
         /\ conn[c].stmt \in Query
         /\ \A e \in Conn \ {c} : conn'[e] = conn[e]
         /\ Break(c) => UNCHANGED table
  BY ConnectionType DEF LockInv, DatabaseTypeOK, Commit, Break, NoConnection

LEMMA AfterCrash ==
  ASSUME LockInv, NEW client \in Client, Crash(client)
  PROVE  /\ \A e \in Conn : conn'[e] = IF conn[e].client = client
                                       THEN NoConnection ELSE conn[e]
         /\ UNCHANGED table
  BY DEF Crash

\* What a COMMIT changes: a row that was not there is inserted, or one that
\* nothing refers to is deleted.
LEMMA AfterCommit ==
  ASSUME LockInv, References, NEW c \in Conn, Commit(c), Pending(c)
  PROVE  LET s == conn[c].stmt
         IN /\ s \in Query /\ conn[c].ok /\ Issued(s)
            /\ \A k \in Key \ {s.key} : table'[k] = table[k]
            /\ \/ /\ s = Insert(s.key, s.value)
                  /\ table[s.key] = None /\ table'[s.key] = s.value
                  /\ s.value \in Key => table[s.value] # None
               \/ /\ s = Delete(s.key)
                  /\ table'[s.key] = None
                  /\ \A k \in Key : table[k] # s.key
<1> DEFINE s == conn[c].stmt
<1>1. /\ s \in Query /\ conn[c].ok /\ Issued(s) /\ s.verb \in {"insert", "delete"}
      /\ ~Atomic!Violates(table, s)
  BY AfterClose, QueryType DEF Commit, Pending, LockInv, References, Issued
<1>2. s.key \in Key /\ s.value \in Value \cup {None}
  BY <1>1, QueryType
<1>3. table' = Atomic!Effect(table, s)
  BY DEF Commit
<1> HIDE DEF s
<1>4. /\ \A k \in Key \ {s.key} : table'[k] = table[k]
      /\ table'[s.key] = s.value
  BY <1>1, <1>2, <1>3 DEF Atomic!Effect, LockInv, DatabaseTypeOK
<1>5. CASE s.verb = "insert"
  <2>1. s = Insert(s.key, s.value)
    BY <1>1, <1>5 DEF Query, Insert, Select, Delete
  <2> QED
    BY <1>1, <1>4, <1>5, <2>1 DEF Atomic!Violates, s
<1>6. CASE s.verb = "delete"
  <2>1. s = Delete(s.key) /\ s.value = None
    BY <1>1, <1>6 DEF Query, Select, Delete
  <2> QED
    BY <1>1, <1>4, <1>6, <2>1 DEF Atomic!Violates, s
<1> QED
  BY <1>1, <1>5, <1>6
-----------------------------------------------------------------------------
LEMMA ReferencesStep ==
  ASSUME AccountsInv, [Next]_vars
  PROVE  References'
<1> USE DEF AccountsInv
<1>1. CASE Sends
  <2>1. PICK q \in Query, client \in Client, d \in Conn, c \in Conn :
          /\ Issued(q)
          /\ Send(d, client, q) \/ AnswerAndSend(c, d, client, q)
    BY <1>1 DEF Sends
  <2>2. /\ \A e \in Conn : conn'[e].stmt \in {q, conn[e].stmt}
        /\ UNCHANGED table
    BY <2>1, AfterSend, AfterAnswerAndSend, OpenedType
  <2> QED
    BY <2>1, <2>2 DEF References
<1>2. ASSUME NEW c \in Conn, Perform(c) \/ Answer(c) \/ Break(c) \/ (Commit(c) /\ ~Pending(c))
      PROVE  References'
  <2>1. /\ \A e \in Conn : conn'[e].stmt \in {conn[e].stmt, Select(None)}
        /\ UNCHANGED table
    BY <1>2, AfterPerform, AfterAnswer, AfterClose DEF NoConnection, Commit
  <2> QED
    BY <2>1, StatementTypes DEF References
<1>3. ASSUME NEW c \in Conn, Commit(c), Pending(c)
      PROVE  References'
  <2> DEFINE s == conn[c].stmt
  <2>1. \A e \in Conn : conn'[e].stmt \in {conn[e].stmt, Select(None)}
    BY <1>3, AfterClose DEF NoConnection
  <2>2. /\ s \in Query /\ Issued(s)
        /\ \A k \in Key \ {s.key} : table'[k] = table[k]
        /\ \/ /\ s = Insert(s.key, s.value)
              /\ table[s.key] = None /\ table'[s.key] = s.value
              /\ s.value \in Key => table[s.value] # None
           \/ /\ s = Delete(s.key)
              /\ table'[s.key] = None
              /\ \A k \in Key : table[k] # s.key
    BY <1>3, AfterCommit
  <2>3. s.key \in Key /\ s.value \in Value \cup {None}
    BY <2>2, QueryType
  <2> HIDE DEF s
  <2>4. \A t \in Token : table'[t] \in User \cup {None}
    BY <2>2, <2>3, Names DEF References, Issued, Insert
  <2>5. \A k \in Key : table'[k] \in Key => table'[table'[k]] # None
    <3> SUFFICES ASSUME NEW k \in Key, table'[k] \in Key
                 PROVE  table'[table'[k]] # None
      OBVIOUS
    <3>1. table'[k] # None
      BY DatabaseAssumption
    <3>2. CASE s = Delete(s.key)
      BY <2>2, <3>1 DEF References, Delete, Insert
    <3>3. CASE s # Delete(s.key)
      BY <2>2, <2>3, <3>1, <3>3, DatabaseAssumption DEF References
    <3> QED
      BY <3>2, <3>3
  <2> QED
    BY <2>1, <2>4, <2>5, StatementTypes DEF References
<1>4. ASSUME NEW client \in Client, Crash(client)
      PROVE  References'
  <2>1. /\ \A e \in Conn : conn'[e].stmt \in {conn[e].stmt, Select(None)}
        /\ UNCHANGED table
    BY <1>4, AfterCrash DEF NoConnection
  <2> QED
    BY <2>1, StatementTypes DEF References
<1>5. CASE UNCHANGED dbVars
  BY <1>5 DEF dbVars, References
<1>6. CASE UNCHANGED vars
  BY <1>5, <1>6 DEF vars, dbVars
<1> QED
  BY <1>1, <1>2, <1>3, <1>4, <1>5, <1>6, StepOfDatabase
-----------------------------------------------------------------------------
\* The connections of logins and of the script are awaited by them alone.
LEMMA ScriptIsNotLogin ==
  ASSUME AwaitedIsUnderWay, NEW l \in Slot, logins[l] # Idle, script.pc = "inserting"
  PROVE  logins[l].conn # script.conn
  BY DEF AwaitedIsUnderWay, Awaits

UnderWay == AwaitedIsUnderWay /\ AwaitedOnce

LEMMA UnderWayStep ==
  ASSUME AccountsInv, [Next]_vars
  PROVE  UnderWay'
<1> USE DEF AccountsInv
<1>0. /\ \A c \in Conn : conn[c] = NoConnection => conn[c].pc \notin {"sent", "executed"}
      /\ \A l \in Slot : logins[l] # Idle => logins[l].conn \in Conn
                           /\ conn[logins[l].conn].pc \in {"sent", "executed"}
      /\ script.pc = "inserting" => script # NoScript /\ script.conn \in Conn
                           /\ conn[script.conn].pc \in {"sent", "executed"}
  BY LoginType, ScriptType, NoScriptType DEF NoConnection, AwaitedIsUnderWay, Awaits
<1>1. ASSUME NEW l \in Slot, NEW u \in User, NEW p \in Password, Login(l, u, p)
      PROVE  UnderWay'
  <2>1. PICK c \in Conn :
          /\ Send(c, "server", Select(u))
          /\ logins' = [logins EXCEPT ![l] =
               [pc |-> "selecting", user |-> u, password |-> p, conn |-> c]]
    BY <1>1 DEF Login
  <2>2. /\ conn[c] = NoConnection /\ conn'[c] = Opened("server", Select(u))
        /\ \A e \in Conn \ {c} : conn'[e] = conn[e]
    BY <2>1, AfterSend, StatementTypes, Names DEF Client
  <2>3. logins[l] = Idle /\ UNCHANGED script
    BY <1>1 DEF Login
  <2>4. /\ logins'[l].conn = c /\ logins'[l].user = u
        /\ \A m \in Slot \ {l} : logins'[m] = logins[m]
    BY <2>1 DEF Variables
  <2>5. /\ \A m \in Slot \ {l} : logins[m] # Idle => logins[m].conn # c
        /\ script.pc = "inserting" => script.conn # c
    BY <1>0, <2>2
  <2>6. AwaitedIsUnderWay'
    BY <1>0, <2>2, <2>3, <2>4, <2>5 DEF AwaitedIsUnderWay, Awaits, Opened
  <2>7. AwaitedOnce'
    BY <2>3, <2>4, <2>5 DEF AwaitedOnce
  <2> QED
    BY <2>6, <2>7 DEF UnderWay
<1>2. ASSUME NEW l \in Slot, LoginRefused(l) \/ LoginGranted(l)
      PROVE  UnderWay'
  <2>1. /\ logins[l] # Idle /\ logins' = [logins EXCEPT ![l] = Idle]
        /\ UNCHANGED script /\ logins[l].conn \in Conn
    BY <1>2, <1>0 DEF LoginRefused, LoginGranted
  <2>2. \A e \in Conn \ {logins[l].conn} :
          conn[e].pc \in {"sent", "executed"} => conn'[e] = conn[e]
    <3>1. CASE LoginRefused(l)
      BY <2>1, <3>1, AfterAnswer DEF LoginRefused
    <3>2. CASE LoginGranted(l)
      <4>1. PICK n \in Rand, d \in Conn :
              AnswerAndSend(logins[l].conn, d, "server",
                            Insert(<<reading, n>>, logins[l].user))
        BY <3>2 DEF LoginGranted
      <4>2. <<reading, n>> \in Token /\ logins[l].user \in User
        BY <2>1, LoginType DEF GeneratorTypeOK, Token, Pair
      <4> QED
        BY <1>0, <2>1, <4>1, <4>2, AfterAnswerAndSend, StatementTypes DEF Client
    <3> QED
      BY <1>2, <3>1, <3>2
  <2>3. /\ \A m \in Slot \ {l} : logins[m] # Idle => logins[m].conn # logins[l].conn
        /\ script.pc = "inserting" => script.conn # logins[l].conn
    BY <2>1, ScriptIsNotLogin DEF AwaitedOnce
  <2>4. \A m \in Slot : logins'[m] = IF m = l THEN Idle ELSE logins[m]
    BY <2>1 DEF Variables
  <2>5. AwaitedIsUnderWay'
    BY <1>0, <2>1, <2>2, <2>3, <2>4 DEF AwaitedIsUnderWay, Awaits
  <2>6. AwaitedOnce'
    BY <2>4 DEF AwaitedOnce
  <2> QED
    BY <2>5, <2>6 DEF UnderWay
<1>3. ASSUME NEW t \in Token, EndSession(t)
      PROVE  UnderWay'
  <2>1. PICK c \in Conn : Send(c, "server", Delete(t))
    BY <1>3 DEF EndSession
  <2>2. /\ conn[c] = NoConnection
        /\ \A e \in Conn \ {c} : conn'[e] = conn[e]
    BY <2>1, AfterSend, StatementTypes, Names DEF Client
  <2> QED
    BY <1>0, <1>3, <2>2 DEF EndSession, UnderWay, AwaitedIsUnderWay, AwaitedOnce, Awaits
<1>4. ASSUME NEW u \in User, RemoveUser(u)
      PROVE  UnderWay'
  <2>1. PICK c \in Conn : Send(c, "operator", Delete(u))
    BY <1>4 DEF RemoveUser
  <2>2. /\ conn[c] = NoConnection
        /\ \A e \in Conn \ {c} : conn'[e] = conn[e]
    BY <2>1, AfterSend, StatementTypes, Names DEF Client
  <2> QED
    BY <1>0, <1>4, <2>2 DEF RemoveUser, UnderWay, AwaitedIsUnderWay, AwaitedOnce, Awaits
<1>5. ASSUME NEW u \in User, NEW p \in Password, NewUser(u, p)
      PROVE  UnderWay'
  <2>1. PICK c \in Conn :
          /\ Send(c, "script", Insert(u, p))
          /\ script' = [pc |-> "inserting", user |-> u, password |-> p, conn |-> c,
                        created |-> FALSE]
    BY <1>5 DEF NewUser
  <2>2. /\ conn[c] = NoConnection /\ conn'[c] = Opened("script", Insert(u, p))
        /\ \A e \in Conn \ {c} : conn'[e] = conn[e]
    BY <2>1, AfterSend, StatementTypes DEF Client
  <2>3. AwaitedIsUnderWay'
    BY <1>0, <1>5, <2>1, <2>2 DEF NewUser, AwaitedIsUnderWay, Awaits, Opened
  <2>4. AwaitedOnce'
    BY <1>5 DEF NewUser, AwaitedOnce
  <2> QED
    BY <2>3, <2>4 DEF UnderWay
<1>6. CASE Report
  <2>1. /\ script.pc = "inserting" /\ script'.pc = "finished" /\ UNCHANGED logins
        /\ \A e \in Conn \ {script.conn} : conn'[e] = conn[e]
    BY <1>0, <1>6, AfterAnswer, ScriptType DEF Report, Script
  <2> QED
    BY <1>0, <2>1, ScriptIsNotLogin DEF UnderWay, AwaitedIsUnderWay, AwaitedOnce, Awaits
<1>7. CASE ScriptKilled
  <2>1. /\ script' = NoScript /\ UNCHANGED logins
        /\ \A e \in Conn : conn[e].client # "script" => conn'[e] = conn[e]
    BY <1>7, AfterCrash DEF ScriptKilled, Client
  <2> QED
    BY <1>0, <2>1 DEF UnderWay, AwaitedIsUnderWay, AwaitedOnce, Awaits, NoScript
<1>8. CASE Restart
  <2>1. /\ UNCHANGED script /\ \A l \in Slot : logins'[l] = Idle
        /\ \A e \in Conn : conn[e].client # "server" => conn'[e] = conn[e]
    BY <1>8, AfterCrash DEF Restart, Client
  <2> QED
    BY <1>0, <2>1 DEF UnderWay, AwaitedIsUnderWay, AwaitedOnce, Awaits
<1>9. CASE ScriptExits
  BY <1>9 DEF ScriptExits, dbVars, UnderWay, AwaitedIsUnderWay, AwaitedOnce, Awaits, NoScript
<1>10. ASSUME NEW c \in Conn, AnswerIgnored(c)
       PROVE  UnderWay'
  <2>1. \A e \in Conn \ {c} : conn'[e] = conn[e]
    BY <1>10, AfterAnswer DEF AnswerIgnored
  <2> QED
    BY <1>0, <1>10, <2>1
       DEF AnswerIgnored, Awaited, UnderWay, AwaitedIsUnderWay, AwaitedOnce, Awaits
<1>11. ASSUME NEW c \in Conn, DatabasePerforms(c)
       PROVE  UnderWay'
  <2>1. /\ conn'[c].pc = "executed"
        /\ conn'[c].stmt = conn[c].stmt /\ conn'[c].client = conn[c].client
        /\ \A e \in Conn \ {c} : conn'[e] = conn[e]
    BY <1>11, AfterPerform DEF DatabasePerforms
  <2> QED
    BY <1>0, <1>11, <2>1
       DEF DatabasePerforms, UnderWay, AwaitedIsUnderWay, AwaitedOnce, Awaits
<1>12. ASSUME NEW c \in Conn, DatabaseCommits(c) \/ ConnectionBreaks(c)
       PROVE  UnderWay'
  <2>1. /\ conn[c].pc = "answered" /\ UNCHANGED logins
        /\ \A e \in Conn \ {c} : conn'[e] = conn[e]
    BY <1>12, AfterClose DEF DatabaseCommits, ConnectionBreaks
  <2>2. script'.pc = "inserting" =>
          /\ script.pc = "inserting" /\ script'.conn = script.conn
          /\ script'.user = script.user /\ script'.password = script.password
    <3>1. CASE script = NoScript
      BY <1>12, <3>1 DEF DatabaseCommits, ConnectionBreaks, NoScript
    <3>2. CASE script # NoScript
      BY <1>12, <3>2, ScriptType DEF DatabaseCommits, ConnectionBreaks, Script
    <3> QED
      BY <3>1, <3>2
  <2> QED
    BY <1>0, <2>1, <2>2 DEF UnderWay, AwaitedIsUnderWay, AwaitedOnce, Awaits
<1>13. CASE ClockTicks \/ UNCHANGED vars
  BY <1>13 DEF ClockTicks, vars, dbVars, UnderWay, AwaitedIsUnderWay, AwaitedOnce, Awaits
<1> QED
  BY <1>1, <1>2, <1>3, <1>4, <1>5, <1>6, <1>7, <1>8, <1>9, <1>10, <1>11, <1>12, <1>13
     DEF Next, LoginAnswered, Proceeds
-----------------------------------------------------------------------------
\* What was reported is not lost while its transaction is left alone.
LEMMA PromisesStay ==
  ASSUME AccountsInv, UNCHANGED <<table, script, promised>>,
         \A e \in Conn : conn[e].ok /\ conn[e].client = "script" =>
           conn'[e].ok /\ conn'[e].client = conn[e].client /\ conn'[e].stmt = conn[e].stmt
  PROVE  Promises'
<1>1. script # NoScript => script.conn \in Conn
  BY ScriptType DEF AccountsInv
<1> QED
  BY <1>1 DEF AccountsInv, Promises, InFlight, AccountsLast

\* The rows of users that a COMMIT leaves alone, unless it removes the user.
LEMMA CommitKeepsAccounts ==
  ASSUME AccountsInv, NEW c \in Conn, Commit(c), NEW u \in User, NEW p \in Password,
         table[u] = p, ~Removes(c, u)
  PROVE  table'[u] = p
<1>1. CASE ~Pending(c)
  BY <1>1 DEF Commit
<1>2. CASE Pending(c)
  <2>1. conn[c].stmt.key # u
    BY <1>2, AfterCommit, Names DEF AccountsInv, Removes
  <2> QED
    BY <1>2, <2>1, AfterCommit, Names DEF AccountsInv
<1> QED
  BY <1>1, <1>2

LEMMA PromisesStep ==
  ASSUME AccountsInv, [Next]_vars
  PROVE  Promises'
<1> USE DEF AccountsInv
<1>0. script # NoScript => script.conn \in Conn /\ script.user \in User
                             /\ script.password \in Password
  BY ScriptType
<1>1. CASE Sends /\ UNCHANGED <<script, promised>>
  <2>1. PICK q \in Query, client \in Client, d \in Conn, c \in Conn :
          Send(d, client, q) \/ AnswerAndSend(c, d, client, q)
    BY <1>1 DEF Sends
  <2>2. /\ UNCHANGED table
        /\ \A e \in Conn : conn[e].ok =>
             conn'[e].ok /\ conn'[e].client = conn[e].client /\ conn'[e].stmt = conn[e].stmt
    BY <2>1, AfterSend, AfterAnswerAndSend DEF NoConnection
  <2> QED
    BY <1>1, <2>2, PromisesStay
<1>2. ASSUME NEW c \in Conn, Answer(c) \/ Perform(c), UNCHANGED <<script, promised>>
      PROVE  Promises'
  <2>1. /\ UNCHANGED table
        /\ \A e \in Conn : conn[e].ok =>
             conn'[e].ok /\ conn'[e].client = conn[e].client /\ conn'[e].stmt = conn[e].stmt
    BY <1>2, AfterAnswer, AfterPerform
  <2> QED
    BY <1>2, <2>1, PromisesStay
<1>3. CASE Restart
  <2>1. /\ UNCHANGED <<table, script, promised>>
        /\ \A e \in Conn : conn[e].client = "script" => conn'[e] = conn[e]
    BY <1>3, AfterCrash DEF Restart, Client
  <2> QED
    BY <2>1, PromisesStay
<1>4. CASE ClockTicks \/ UNCHANGED vars
  BY <1>4, PromisesStay DEF ClockTicks, vars, dbVars
<1>5. ASSUME NEW u \in User, NEW p \in Password, NewUser(u, p)
      PROVE  Promises'
  <2>1. UNCHANGED <<table, promised>> /\ ~script'.created
    BY <1>5 DEF NewUser, Send
  <2> QED
    BY <2>1 DEF Promises, AccountsLast
<1>6. CASE Report
  <2>1. /\ script.pc = "inserting" /\ script # NoScript
        /\ script' = [script EXCEPT !.pc = "finished", !.created = conn[script.conn].ok]
        /\ Answer(script.conn) /\ UNCHANGED promised
    BY <1>6, NoScriptType DEF Report
  <2>2. /\ script'.user = script.user /\ script'.password = script.password
        /\ script'.conn = script.conn /\ script'.created = conn[script.conn].ok
    BY <2>1, ScriptType DEF Script
  <2>3. /\ UNCHANGED table
        /\ conn'[script.conn].ok = conn[script.conn].ok
        /\ conn'[script.conn].client = "script"
        /\ conn'[script.conn].stmt = Insert(script.user, script.password)
    BY <1>0, <2>1, AfterAnswer DEF AwaitedIsUnderWay, Awaits
  <2> QED
    BY <2>1, <2>2, <2>3 DEF Promises, InFlight, AccountsLast
<1>7. CASE ScriptExits
  <2>1. /\ UNCHANGED <<table, conn>> /\ script' = NoScript /\ script # NoScript
        /\ \A c \in Conn : conn[c].client # "script"
        /\ promised' = IF script.created
                       THEN [promised EXCEPT ![script.user] = script.password]
                       ELSE promised
    BY <1>7, NoScriptType DEF ScriptExits, dbVars
  <2>2. script.created => table[script.user] = script.password
    BY <1>0, <2>1 DEF Promises, InFlight
  <2>3. AccountsLast'
    BY <1>0, <2>1, <2>2 DEF Promises, AccountsLast, Variables
  <2> QED
    BY <2>1, <2>3 DEF Promises
<1>8. CASE ScriptKilled
  BY <1>8, AfterCrash DEF ScriptKilled, Client, Promises, AccountsLast
<1>9. ASSUME NEW c \in Conn, DatabaseCommits(c)
      PROVE  Promises'
  <2>1. /\ Commit(c)
        /\ promised' = [u \in User |-> IF Removes(c, u) THEN None ELSE promised[u]]
        /\ script' = IF script # NoScript /\ Removes(c, script.user)
                     THEN [script EXCEPT !.created = FALSE] ELSE script
    BY <1>9 DEF DatabaseCommits
  <2>2. AccountsLast'
    <3> SUFFICES ASSUME NEW u \in User, promised'[u] # None
                 PROVE  table'[u] = promised'[u]
      BY DEF AccountsLast
    <3>1. ~Removes(c, u) /\ promised'[u] = promised[u]
      BY <2>1
    <3>2. promised[u] \in Password /\ table[u] = promised[u]
      BY <3>1 DEF Variables, Promises, AccountsLast
    <3> QED
      BY <2>1, <3>1, <3>2, CommitKeepsAccounts
  <2>3. CASE script' # NoScript /\ script'.created
    <3>1. script' = script /\ ~Removes(c, script.user)
      BY <2>1, <2>3, ScriptType DEF NoScript, Script
    <3>2. CASE table[script.user] = script.password
      BY <1>0, <2>1, <2>2, <2>3, <3>1, <3>2, CommitKeepsAccounts DEF Promises
    <3>3. CASE InFlight(script.conn, script.user, script.password) /\ script.conn = c
      <4>1. conn[c].stmt = Insert(script.user, script.password) /\ Pending(c)
        BY <3>3 DEF InFlight, Pending, Insert
      <4>2. table'[script.user] = script.password
        <5>1. /\ conn[c].stmt.key = script.user /\ conn[c].stmt.value = script.password
              /\ conn[c].stmt.verb = "insert"
          BY <4>1 DEF Insert
        <5>2. conn[c].stmt # Delete(conn[c].stmt.key)
          BY <5>1 DEF Delete
        <5>3. Commit(c)
          BY <2>1
        <5>4. table'[conn[c].stmt.key] = conn[c].stmt.value
          BY <4>1, <5>2, <5>3, AfterCommit
        <5> QED
          BY <5>1, <5>4
      <4> QED
        BY <2>2, <3>1, <4>2 DEF Promises
    <3>4. CASE InFlight(script.conn, script.user, script.password) /\ script.conn # c
      <4>1. conn'[script.conn] = conn[script.conn]
        BY <1>0, <2>1, <2>3, <3>1, <3>4, AfterClose
      <4> QED
        BY <2>2, <3>1, <3>4, <4>1 DEF Promises, InFlight
    <3> QED
      BY <2>3, <3>1, <3>2, <3>3, <3>4 DEF Promises
  <2> QED
    BY <2>2, <2>3 DEF Promises
<1>10. ASSUME NEW c \in Conn, ConnectionBreaks(c)
       PROVE  Promises'
  <2>1. /\ UNCHANGED <<table, promised>>
        /\ \A e \in Conn \ {c} : conn'[e] = conn[e]
        /\ script' = IF conn[c].client = "script"
                     THEN [script EXCEPT !.created = FALSE] ELSE script
    BY <1>10, AfterClose DEF ConnectionBreaks
  <2>2. CASE conn[c].client # "script"
    <3>1. UNCHANGED <<table, script, promised>>
      BY <2>1, <2>2
    <3> QED
      BY <2>1, <2>2, <3>1, PromisesStay
  <2>3. CASE conn[c].client = "script"
    <3>1. script' # NoScript => ~script'.created
      <4>1. CASE script = NoScript
        BY <2>1, <2>3, <4>1 DEF NoScript
      <4>2. CASE script # NoScript
        BY <2>1, <2>3, <4>2, ScriptType DEF Script
      <4> QED
        BY <4>1, <4>2
    <3> QED
      BY <2>1, <3>1 DEF Promises, AccountsLast
  <2> QED
    BY <2>2, <2>3
<1>11. ASSUME NEW l \in Slot, LoginAnswered(l) \/ (\E u \in User, p \in Password : Login(l, u, p))
       PROVE  (Sends \/ \E c \in Conn : Answer(c)) /\ UNCHANGED <<script, promised>>
  <2>1. \/ LoginRefused(l)
        \/ LoginGranted(l)
        \/ \E u \in User, p \in Password : Login(l, u, p)
    BY <1>11 DEF LoginAnswered
  <2>2. UNCHANGED <<script, promised>>
    BY <2>1 DEF LoginRefused, LoginGranted, Login
  <2>3. CASE LoginRefused(l)
    BY <2>2, <2>3, LoginType DEF LoginRefused
  <2>4. CASE LoginGranted(l)
    BY <2>2, <2>4, GrantSends
  <2>5. CASE \E u \in User, p \in Password : Login(l, u, p)
    BY <2>2, <2>5, StatementTypes, Names DEF Login, Sends, Client
  <2> QED
    BY <2>1, <2>3, <2>4, <2>5
<1>12. (\E t \in Token : EndSession(t)) \/ (\E u \in User : RemoveUser(u))
         => Sends /\ UNCHANGED <<script, promised>>
  BY StatementTypes, Names DEF EndSession, RemoveUser, Sends, Client
<1>13. ASSUME NEW c \in Conn, AnswerIgnored(c) \/ DatabasePerforms(c)
       PROVE  Promises'
  BY <1>2, <1>13 DEF AnswerIgnored, DatabasePerforms
<1> QED
  BY <1>1, <1>2, <1>3, <1>4, <1>5, <1>6, <1>7, <1>8, <1>9, <1>10, <1>11, <1>12, <1>13
     DEF Next, Proceeds
-----------------------------------------------------------------------------
LEMMA InvAtFirst ==
  Init => AccountsInv
<1> SUFFICES ASSUME Init PROVE AccountsInv
  OBVIOUS
<1>1. PICK users \in [User -> Password \cup {None}] :
        /\ table = [k \in Key |-> IF k \in User THEN users[k] ELSE None]
        /\ promised = users
  BY DEF Init
<1>2. /\ table \in [Key -> Value \cup {None}]
      /\ \A u \in User : table[u] = users[u] /\ table[u] \in Password \cup {None}
      /\ \A t \in Token : table[t] = None
      /\ \A k \in Key : table[k] \in Password \cup {None}
  BY <1>1, Names
<1>3. DbInit
  BY <1>2 DEF Init, DbInit
<1>4. GeneratorTypeOK
  BY TokenGeneratorAssumption DEF Init, GeneratorInit, GeneratorTypeOK, Reading
<1>5. Variables
  BY <1>1 DEF Init, Variables
<1>6. AwaitedIsUnderWay /\ AwaitedOnce
  BY DEF Init, AwaitedIsUnderWay, AwaitedOnce, NoScript
<1>7. References
  <2>1. \A c \in Conn : Issued(conn[c].stmt)
    BY StatementTypes DEF Init, NoConnection
  <2>2. \A k \in Key : table[k] \notin Key
    BY <1>2, DatabaseAssumption, AccountsAssumption
  <2> QED
    BY <1>2, <2>1, <2>2 DEF References
<1>8. Promises
  BY <1>1, <1>2 DEF Init, Promises, AccountsLast
<1> QED
  BY <1>3, <1>4, <1>5, <1>6, <1>7, <1>8, LocksAtFirst DEF AccountsInv

LEMMA InvStep ==
  AccountsInv /\ [Next]_vars => AccountsInv'
<1> SUFFICES ASSUME AccountsInv, [Next]_vars PROVE AccountsInv'
  OBVIOUS
<1>1. LockInv'
  BY DatabaseStep, LocksAreKept DEF AccountsInv
<1>2. GeneratorTypeOK'
  BY GeneratorTypeStep, StepOfGenerator DEF AccountsInv, vars, tokenVars
<1> QED
  BY <1>1, <1>2, VariablesStep, UnderWayStep, ReferencesStep, PromisesStep
     DEF AccountsInv, UnderWay

LEMMA InvHolds == Spec => []AccountsInv
  BY InvAtFirst, InvStep, PTL DEF Spec

\* Every variable keeps its type, and every answer that is awaited is one that
\* will be given. (executeQuery, verifyUser, getData)
THEOREM TypeCorrectness == Spec => []AccountsTypeOK
<1>1. AccountsInv => AccountsTypeOK
  BY DEF AccountsInv, AccountsTypeOK, LockInv, Variables
<1> QED
  BY <1>1, InvHolds, PTL

\* Who was reported as created can log in until the account is removed, whatever
\* else is sent, refused or undone. (getData, addUser, PRIMARY KEY of Users)
THEOREM AccountsAreKept == Spec => []AccountsLast
<1>1. AccountsInv => AccountsLast
  BY DEF AccountsInv, Promises
<1> QED
  BY <1>1, InvHolds, PTL

\* What a restart loads is a session of an account, however logins, removals and
\* the end of the server interleave. (registerNewUserSession, FOREIGN KEY)
THEOREM SessionsHaveAccounts == Spec => []StoredSessionsHaveAccounts
<1>1. AccountsInv => StoredSessionsHaveAccounts
  BY Names DEF AccountsInv, References, StoredSessionsHaveAccounts
<1> QED
  BY <1>1, InvHolds, PTL

\* The statements of server, script and operator are atomic to each other.
\* (executeQuery, close)
THEOREM AccountsUseAtomicStatements == Spec => ImplementsAtomicTable
<1>1. Init => DbInit
  BY InvAtFirst DEF Init, DbInit, AccountsInv, LockInv, DatabaseTypeOK
<1>2. AccountsInv /\ [Next]_vars => [DbNext]_dbVars
  BY DatabaseStep
<1>3. Spec => DbSpec
  BY <1>1, <1>2, InvHolds, PTL DEF Spec, DbSpec
<1> QED
  BY <1>3, StatementsAreAtomic

\* No token of a session is issued again, whenever the server ends and is started
\* again, if the clock is not set back. (generateAccessToken)
THEOREM SessionTokensAreUnique ==
  ASSUME ~ClockMayStepBack
  PROVE  Spec => []TokensAreIssuedOnce
<1>1. Init => GeneratorInit
  BY DEF Init
<1>2. [Next]_vars => [GeneratorNext]_tokenVars
  BY StepOfGenerator DEF vars, tokenVars
<1>3. Spec => GeneratorSpec
  BY <1>1, <1>2, PTL DEF Spec, GeneratorSpec
<1> QED
  BY <1>3, TokensAreUnique
=============================================================================
