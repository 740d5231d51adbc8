-------------------------------- MODULE Database --------------------------------
(***************************************************************************)
(* src/util/db/Database.js and src/util/db/db-controller.js: how a         *)
(* statement is executed.                                                  *)
(*                                                                         *)
(* Every statement has a connection and a transaction of its own.  The     *)
(* caller's promise is settled when the statement itself is answered;      *)
(* close() sends the COMMIT only then, and nobody waits for it.            *)
(*                                                                         *)
(* The database (MariaDB, InnoDB) is modelled from the statements and the  *)
(* schema: a transaction locks the rows it touches until it ends, a SELECT *)
(* reads what is committed, and a transaction without COMMIT is undone.    *)
(***************************************************************************)
EXTENDS FiniteSets

CONSTANTS
  Conn,                        \* the connections open at the same time (a bound)
  Key, Value, None, DbMayFail  \* as in AtomicTable

VARIABLES
  table,  \* what is committed: the row of each key
  conn    \* the connections

dbVars == <<table, conn>>

\* A statement that changes the table, and has not been refused.
Pending(c) ==
  /\ conn[c].stmt.verb # "select"
  /\ conn[c].pc = "sent" \/ conn[c].ok

Atomic == INSTANCE AtomicTable
            WITH pending <- [c \in Conn |-> IF Pending(c) THEN conn[c].stmt ELSE None]

ASSUME DatabaseAssumption ==
  /\ None \notin Value \cup Key \cup Atomic!Statement
  /\ DbMayFail \in BOOLEAN

Select(k) == [verb |-> "select", key |-> k, value |-> None]
Insert(k, v) == [verb |-> "insert", key |-> k, value |-> v]
Update(k, v) == [verb |-> "update", key |-> k, value |-> v]
Delete(k) == [verb |-> "delete", key |-> k, value |-> None]

\* The processes: the server, the script of setup-new-user.js, and the mysql
\* shell of the operator.
Client == {"server", "script", "operator"}
Query == {Select(k) : k \in Key} \cup {Delete(k) : k \in Key}
           \cup [verb : {"insert", "update"}, key : Key, value : Value]

\* A connection: its transaction has been sent, has executed the statement, or
\* has been answered and sent the COMMIT; what came of it; the row a SELECT found.
Connection == [pc : {"sent", "executed", "answered"}, client : Client,
               stmt : Query, ok : BOOLEAN, row : Value \cup {None}]
NoConnection == [pc |-> "closed", client |-> None, stmt |-> Select(None),
                 ok |-> FALSE, row |-> None]

DatabaseTypeOK ==
  /\ table \in [Key -> Value \cup {None}]
  /\ conn \in [Conn -> Connection \cup {NoConnection}]

DbInit ==
  /\ table \in [Key -> Value \cup {None}]
  /\ conn = [c \in Conn |-> NoConnection]
-----------------------------------------------------------------------------
Free(c) == conn[c] = NoConnection

Opened(client, stmt) ==
  [pc |-> "sent", client |-> client, stmt |-> stmt, ok |-> FALSE, row |-> None]

\* new Database(), and the query.
Send(c, client, stmt) ==
  /\ Free(c)
  /\ conn' = [conn EXCEPT ![c] = Opened(client, stmt)]
  /\ UNCHANGED table

\* The rows that a statement changes, and those it must find as they are: the
\* row it refers to, or the rows that refer to the one it deletes.
Changes(s) == IF s.verb = "select" THEN {} ELSE {s.key}
Keeps(s) ==
  ({s.value} \cap Key)
    \cup {k \in Key : s.verb = "delete" /\ table[k] = s.key}

Conflict(s, r) ==
  \/ Changes(s) \cap (Changes(r) \cup Keeps(r)) # {}
  \/ Keeps(s) \cap Changes(r) # {}

\* An INSERT that was refused shares a lock on the row it found, which others may
\* find, too, but not change.
Found(c) ==
  /\ conn[c].pc \in {"executed", "answered"}
  /\ ~conn[c].ok
  /\ conn[c].stmt.verb = "insert"
  /\ table[conn[c].stmt.key] # None

\* Every other transaction leaves the rows of this one alone.
HasLocks(c) ==
  \A d \in Conn \ {c} :
     /\ conn[d].ok => ~Conflict(conn[c].stmt, conn[d].stmt)
     /\ Found(d) /\ conn[c].stmt.verb # "insert" => conn[d].stmt.key \notin Changes(conn[c].stmt)

Executed(c, ok) ==
  conn' = [conn EXCEPT ![c].pc = "executed", ![c].ok = ok,
                       ![c].row = IF ok /\ conn[c].stmt.verb = "select"
                                  THEN table[conn[c].stmt.key] ELSE None]

\* Mutant: a row that is in the way is deleted first (REPLACE INTO).
PerformReplacing(c) ==
  LET stmt == conn[c].stmt
      rest == IF stmt.verb = "insert" THEN [table EXCEPT ![stmt.key] = None] ELSE table
  IN /\ conn[c].pc = "sent"
     /\ HasLocks(c)
     /\ \/ ~Atomic!Violates(rest, stmt) /\ Executed(c, TRUE)
        \/ (Atomic!Violates(rest, stmt) \/ DbMayFail) /\ Executed(c, FALSE)
     /\ UNCHANGED table

\* The database executes the statement, or refuses it.
Perform(c) ==
  /\ conn[c].pc = "sent"
  /\ HasLocks(c)
  /\ \/ ~Atomic!Violates(table, conn[c].stmt) /\ Executed(c, TRUE)
     \/ (Atomic!Violates(table, conn[c].stmt) \/ DbMayFail) /\ Executed(c, FALSE)
  /\ UNCHANGED table

\* The callback of query() settles the promise, and close() is called before the
\* caller goes on.
Answer(c) ==
  /\ conn[c].pc = "executed"
  /\ conn' = [conn EXCEPT ![c].pc = "answered"]
  /\ UNCHANGED table

\* The caller sends another statement when it goes on.
AnswerAndSend(c, d, client, stmt) ==
  /\ conn[c].pc = "executed"
  /\ Free(d)
  /\ conn' = [conn EXCEPT ![c].pc = "answered", ![d] = Opened(client, stmt)]
  /\ UNCHANGED table

\* COMMIT is executed, and the connection is closed.
Commit(c) ==
  /\ conn[c].pc = "answered"
  /\ conn' = [conn EXCEPT ![c] = NoConnection]
  /\ table' = IF Pending(c) THEN Atomic!Effect(table, conn[c].stmt) ELSE table

\* The connection is lost after the answer: the promise of close(), which nobody
\* handles, is rejected, and the transaction is undone.
Break(c) ==
  /\ DbMayFail
  /\ conn[c].pc = "answered"
  /\ conn' = [conn EXCEPT ![c] = NoConnection]
  /\ UNCHANGED table

\* A process ends; the database undoes what it has not committed.
Crash(client) ==
  /\ conn' = [c \in Conn |-> IF conn[c].client = client THEN NoConnection ELSE conn[c]]
  /\ UNCHANGED table

DbNext ==
  \/ \E client \in Client : Crash(client)
  \/ \E c \in Conn :
       \/ \E client \in Client, q \in Query :
             Send(c, client, q) \/ \E d \in Conn : AnswerAndSend(d, c, client, q)
       \/ Perform(c) \/ Answer(c) \/ Commit(c) \/ Break(c)

DbSpec == DbInit /\ [][DbNext]_dbVars

\* Seen from outside, a statement is executed as a whole or not at all, after it
\* was sent and by the keys that hold then, although it is answered before it is
\* committed and others come in between. (Database.close, executeQuery)
ImplementsAtomicTable == Atomic!Spec
=============================================================================
