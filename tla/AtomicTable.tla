------------------------------ MODULE AtomicTable ------------------------------
(***************************************************************************)
(* What the other modules take for granted of a statement that             *)
(* src/util/db/db-controller.js sends: the database executes it as a whole *)
(* or not at all, at some time after it was sent, and refuses it if it     *)
(* would break a key at that time.                                         *)
(***************************************************************************)
CONSTANTS
  Key,       \* the rows there may be, of all tables
  Value,     \* what a row may hold; one that is a Key refers to that row
  None,      \* no row, no statement
  Conn,      \* the connections that statements are sent on
  DbMayFail  \* can a statement fail for a reason that is not in the tables?

VARIABLES
  table,   \* the row of each key
  pending  \* the statement sent on each connection and not yet executed

Statement == [verb : {"insert", "update", "delete"}, key : Key, value : Value \cup {None}]

\* Mutant: the schema has no FOREIGN KEY.
ViolatesPrimary(rows, s) == s.verb = "insert" /\ rows[s.key] # None

\* PRIMARY KEY and FOREIGN KEY (which a DELETE must not leave dangling).
Violates(rows, s) ==
  \/ s.verb = "insert" /\ rows[s.key] # None
  \/ /\ s.verb = "insert" \/ (s.verb = "update" /\ rows[s.key] # None)
     /\ s.value \in Key /\ rows[s.value] = None
  \/ s.verb = "delete" /\ \E k \in Key : rows[k] = s.key

\* An UPDATE of a row that is not there changes nothing.
Effect(rows, s) ==
  IF s.verb = "update" /\ rows[s.key] = None THEN rows
  ELSE [rows EXCEPT ![s.key] = s.value]
-----------------------------------------------------------------------------
Init ==
  /\ table \in [Key -> Value \cup {None}]
  /\ pending = [c \in Conn |-> None]

Send(c) ==
  /\ pending[c] = None
  /\ \E s \in Statement : pending' = [pending EXCEPT ![c] = s]
  /\ UNCHANGED table

Execute(c) ==
  /\ pending[c] # None
  /\ pending' = [pending EXCEPT ![c] = None]
  /\ table' = IF Violates(table, pending[c]) THEN table ELSE Effect(table, pending[c])

Fail(c) ==
  /\ DbMayFail
  /\ pending' = [pending EXCEPT ![c] = None]
  /\ UNCHANGED table

\* A client is gone, and with it what it has sent.
Crash ==
  /\ \E C \in SUBSET Conn :
        pending' = [c \in Conn |-> IF c \in C THEN None ELSE pending[c]]
  /\ UNCHANGED table

Next == Crash \/ \E c \in Conn : Send(c) \/ Execute(c) \/ Fail(c)

Spec == Init /\ [][Next]_<<table, pending>>
=============================================================================
