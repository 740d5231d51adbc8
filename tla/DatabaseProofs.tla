----------------------------- MODULE DatabaseProofs -----------------------------
(***************************************************************************)
(* A transaction for each statement, committed after the answer, makes the *)
(* statements atomic, for any rows, connections and clients, and whatever  *)
(* fails.                                                                  *)
(***************************************************************************)
EXTENDS Database, TLAPS

\* The key that a statement writes into a row, if any.
Refers(s) == {s.value} \cap Key

\* Two statements that can be executed in either order.
Apart(s, r) ==
  /\ Changes(s) \cap (Changes(r) \cup Refers(r)) = {}
  /\ Refers(s) \cap Changes(r) = {}

\* The statements that were executed, and not yet committed, are apart, and each
\* can still be committed: that is what the locks are for.
LockInv ==
  /\ DatabaseTypeOK
  /\ \A c \in Conn : conn[c].pc = "sent" => ~conn[c].ok
  /\ \A c \in Conn : conn[c].ok => ~Atomic!Violates(table, conn[c].stmt)
  /\ \A c, d \in Conn :
       c # d /\ conn[c].ok /\ conn[d].ok => Apart(conn[c].stmt, conn[d].stmt)

\* The statements sent and not executed, as the abstract table sees them.
Sent == [c \in Conn |-> IF Pending(c) THEN conn[c].stmt ELSE None]
-----------------------------------------------------------------------------
LEMMA QueryType ==
  ASSUME NEW q \in Query
  PROVE  /\ q.verb \in {"select", "insert", "update", "delete"}
         /\ q.key \in Key
         /\ q.value \in Value \cup {None}
         /\ q.verb # "select" => q \in Atomic!Statement /\ q # None
  BY DatabaseAssumption DEF Query, Select, Delete, Atomic!Statement

LEMMA OpenedType ==
  ASSUME NEW client \in Client, NEW q \in Query
  PROVE  /\ Opened(client, q) \in Connection
         /\ Opened(client, q).pc = "sent" /\ ~Opened(client, q).ok
         /\ Opened(client, q).stmt = q
  BY DEF Opened, Connection

LEMMA ConnectionType ==
  ASSUME NEW k \in Connection \cup {NoConnection}
  PROVE  /\ k.ok \in BOOLEAN
         /\ k.pc # "closed" => k \in Connection /\ k.stmt \in Query
         /\ k.ok => k \in Connection /\ k.stmt \in Query
<1>1. CASE k \in Connection
  BY <1>1 DEF Connection
<1>2. CASE k = NoConnection
  BY <1>2 DEF NoConnection
<1> QED
  BY <1>1, <1>2

\* A statement does not make another one impossible that is apart from it.
LEMMA EffectIsApart ==
  ASSUME NEW s \in Query, NEW r \in Query, NEW rows \in [Key -> Value \cup {None}],
         s.verb # "select", Apart(s, r), ~Atomic!Violates(rows, r)
  PROVE  ~Atomic!Violates(Atomic!Effect(rows, s), r)
<1> DEFINE new == Atomic!Effect(rows, s)
<1>1. /\ s.key \in Key /\ s.value \in Value \cup {None}
      /\ r.verb \in {"select", "insert", "update", "delete"}
      /\ r.key \in Key /\ r.value \in Value \cup {None}
  BY QueryType
<1>2. \A k \in Key : new[k] = rows[k] \/ (k = s.key /\ new[k] = s.value)
  BY <1>1 DEF Atomic!Effect
<1>3. CASE r.verb = "select"
  BY <1>3 DEF Atomic!Violates
<1>4. CASE r.verb \in {"insert", "update"}
  <2>1. s.key # r.key /\ ~(r.value \in Key /\ r.value = s.key)
    BY <1>1, <1>4 DEF Apart, Changes, Refers
  <2> HIDE DEF new
  <2>2. new[r.key] = rows[r.key] /\ (r.value \in Key => new[r.value] = rows[r.value])
    BY <1>1, <1>2, <2>1
  <2>3. ~Atomic!Violates(new, r)
    BY <1>4, <2>2 DEF Atomic!Violates
  <2> QED
    BY <2>3 DEF new
<1>5. CASE r.verb = "delete"
  <2>1. ~(s.value \in Key /\ s.value = r.key)
    BY <1>1, <1>5 DEF Apart, Changes, Refers
  <2> HIDE DEF new
  <2>2. \A k \in Key : new[k] # r.key
    BY <1>1, <1>2, <1>5, <2>1 DEF Atomic!Violates
  <2>3. ~Atomic!Violates(new, r)
    BY <1>5, <2>2 DEF Atomic!Violates
  <2> QED
    BY <2>3 DEF new
<1> QED
  BY <1>1, <1>3, <1>4, <1>5

LEMMA EffectType ==
  ASSUME NEW s \in Query, NEW rows \in [Key -> Value \cup {None}]
  PROVE  Atomic!Effect(rows, s) \in [Key -> Value \cup {None}]
  BY QueryType DEF Atomic!Effect

\* What the locks ensure.
LEMMA NoConflictIsApart ==
  ASSUME NEW s, NEW r, ~Conflict(s, r)
  PROVE  Apart(s, r) /\ Apart(r, s)
  BY DEF Conflict, Apart, Keeps, Refers
-----------------------------------------------------------------------------
\* The locks are kept by each step.
LEMMA SendLocks ==
  ASSUME LockInv, NEW d \in Conn, NEW client \in Client, NEW q \in Query,
         NEW c \in Conn, Send(d, client, q) \/ AnswerAndSend(c, d, client, q)
  PROVE  LockInv'
<1>1. /\ conn' \in [Conn -> Connection \cup {NoConnection}]
      /\ conn'[d] = Opened(client, q)
      /\ \A e \in Conn \ {d} :
           /\ conn'[e].ok = conn[e].ok /\ conn'[e].stmt = conn[e].stmt
           /\ conn'[e].pc = "sent" => conn[e].pc = "sent"
      /\ UNCHANGED table
  BY OpenedType DEF LockInv, DatabaseTypeOK, Send, AnswerAndSend, Free, NoConnection,
                    Connection
<1>2. conn'[d].pc = "sent" /\ ~conn'[d].ok
  BY <1>1, OpenedType
<1> QED
  BY <1>1, <1>2 DEF LockInv, DatabaseTypeOK, Atomic!Violates

LEMMA PerformLocks ==
  ASSUME LockInv, NEW c \in Conn, Perform(c)
  PROVE  LockInv'
<1>1. /\ conn[c] \in Connection /\ conn[c].stmt \in Query
      /\ \A d \in Conn : conn[d].ok \in BOOLEAN
  BY ConnectionType DEF LockInv, DatabaseTypeOK, Perform
<1>2. PICK ok \in BOOLEAN :
        Executed(c, ok) /\ (ok => ~Atomic!Violates(table, conn[c].stmt))
  BY DEF Perform
<1>3. table[conn[c].stmt.key] \in Value \cup {None}
  BY <1>1, QueryType DEF LockInv, DatabaseTypeOK
<1>4. /\ conn' \in [Conn -> Connection \cup {NoConnection}]
      /\ conn'[c].pc = "executed" /\ conn'[c].ok = ok /\ conn'[c].stmt = conn[c].stmt
      /\ \A e \in Conn \ {c} : conn'[e] = conn[e]
      /\ UNCHANGED table
  BY <1>1, <1>2, <1>3 DEF LockInv, DatabaseTypeOK, Executed, Perform, Connection
<1>5. \A d \in Conn \ {c} : conn[d].ok =>
         Apart(conn[c].stmt, conn[d].stmt) /\ Apart(conn[d].stmt, conn[c].stmt)
  BY NoConflictIsApart DEF Perform, HasLocks
<1> QED
  BY <1>2, <1>4, <1>5 DEF LockInv, DatabaseTypeOK, Atomic!Violates, Apart, Changes, Refers

LEMMA CloseLocks ==
  ASSUME LockInv, NEW c \in Conn, Answer(c) \/ Commit(c) \/ Break(c)
  PROVE  LockInv'
<1>1. /\ conn[c] \in Connection /\ conn[c].stmt \in Query
      /\ \A d \in Conn : conn[d].ok \in BOOLEAN
                           /\ (conn[d].ok => conn[d].stmt \in Query)
  BY ConnectionType DEF LockInv, DatabaseTypeOK, Answer, Commit, Break
<1>2. /\ conn' \in [Conn -> Connection \cup {NoConnection}]
      /\ \A e \in Conn :
           /\ conn'[e].ok => conn[e].ok /\ conn'[e].stmt = conn[e].stmt
           /\ conn'[e].pc = "sent" => conn[e].pc = "sent" /\ conn'[e].ok = conn[e].ok
  BY <1>1 DEF LockInv, DatabaseTypeOK, Answer, Commit, Break, NoConnection, Connection
<1>3. CASE UNCHANGED table
  BY <1>2, <1>3 DEF LockInv, DatabaseTypeOK, Atomic!Violates
<1>4. CASE Commit(c) /\ Pending(c)
  <2>1. /\ conn[c].ok /\ conn[c].stmt.verb # "select"
        /\ table' = Atomic!Effect(table, conn[c].stmt)
        /\ ~conn'[c].ok
    BY <1>4 DEF Commit, Pending, LockInv, DatabaseTypeOK, NoConnection
  <2>2. table' \in [Key -> Value \cup {None}]
    BY <1>1, <2>1, EffectType DEF LockInv, DatabaseTypeOK
  <2>3. \A d \in Conn : conn'[d].ok => ~Atomic!Violates(table', conn[d].stmt)
    <3> SUFFICES ASSUME NEW d \in Conn, conn'[d].ok
                 PROVE  ~Atomic!Violates(table', conn[d].stmt)
      OBVIOUS
    <3>1. d # c /\ conn[d].ok
      BY <1>2, <2>1
    <3>2. Apart(conn[c].stmt, conn[d].stmt) /\ ~Atomic!Violates(table, conn[d].stmt)
      BY <2>1, <3>1 DEF LockInv
    <3> QED
      BY <1>1, <2>1, <3>1, <3>2, EffectIsApart DEF LockInv, DatabaseTypeOK
  <2>4. \A d \in Conn : conn'[d].ok => ~Atomic!Violates(table', conn'[d].stmt)
    BY <1>2, <2>3
  <2>5. \A d, e \in Conn :
          d # e /\ conn'[d].ok /\ conn'[e].ok => Apart(conn'[d].stmt, conn'[e].stmt)
    BY <1>2 DEF LockInv
  <2>6. \A d \in Conn : conn'[d].pc = "sent" => ~conn'[d].ok
    BY <1>2 DEF LockInv
  <2>7. (\A d \in Conn : conn[d].ok => ~Atomic!Violates(table, conn[d].stmt))'
    BY <2>4 DEF Atomic!Violates
  <2>8. (\A d, e \in Conn :
           d # e /\ conn[d].ok /\ conn[e].ok => Apart(conn[d].stmt, conn[e].stmt))'
    BY <2>5 DEF Apart, Changes, Refers
  <2> QED
    BY <1>2, <2>2, <2>6, <2>7, <2>8 DEF LockInv, DatabaseTypeOK
<1> QED
  BY <1>3, <1>4 DEF Answer, Commit, Break

LEMMA CrashLocks ==
  ASSUME LockInv, NEW client \in Client, Crash(client)
  PROVE  LockInv'
<1>1. /\ conn' \in [Conn -> Connection \cup {NoConnection}]
      /\ \A e \in Conn : conn'[e] \in {conn[e], NoConnection}
      /\ UNCHANGED table
  BY DEF LockInv, DatabaseTypeOK, Crash
<1>2. \A e \in Conn :
        /\ conn'[e].ok => conn[e].ok /\ conn'[e].stmt = conn[e].stmt
        /\ conn'[e].pc = "sent" => conn[e].pc = "sent" /\ conn'[e].ok = conn[e].ok
  BY <1>1 DEF NoConnection
<1> QED
  BY <1>1, <1>2 DEF LockInv, DatabaseTypeOK, Atomic!Violates

LEMMA StutterLocks ==
  ASSUME LockInv, UNCHANGED dbVars
  PROVE  LockInv'
  BY DEF LockInv, DatabaseTypeOK, dbVars, Atomic!Violates

LEMMA LocksAreKept ==
  LockInv /\ [DbNext]_dbVars => LockInv'
  BY SendLocks, PerformLocks, CloseLocks, CrashLocks, StutterLocks DEF DbNext

LEMMA LocksAtFirst ==
  DbInit => LockInv
  BY DEF DbInit, LockInv, DatabaseTypeOK, NoConnection

\* The locks are kept: what is executed and not committed is apart, and can be
\* committed. (Database.close)
THEOREM LocksHold == DbSpec => []LockInv
  BY LocksAtFirst, LocksAreKept, PTL DEF DbSpec
-----------------------------------------------------------------------------
(***************************************************************************)
(* The refinement: how each step looks to those who see statements only.   *)
(***************************************************************************)
AbstractStep == [Atomic!Next]_<<table, Sent>>

\* A step that sends a statement on connection d, and does no more.
LEMMA SendRefines ==
  ASSUME LockInv, NEW d \in Conn, NEW client \in Client, NEW q \in Query,
         NEW c \in Conn, Send(d, client, q) \/ AnswerAndSend(c, d, client, q)
  PROVE  AbstractStep
<1>1. /\ conn[d] = NoConnection /\ conn'[d] = Opened(client, q)
      /\ \A e \in Conn \ {d} :
           /\ conn'[e].ok = conn[e].ok /\ conn'[e].stmt = conn[e].stmt
           /\ conn'[e].pc = "sent" <=> conn[e].pc = "sent"
      /\ UNCHANGED table
  BY DEF LockInv, DatabaseTypeOK, Send, AnswerAndSend, Free, NoConnection, Connection
<1>2. \A e \in Conn \ {d} : Pending(e)' = Pending(e)
  BY <1>1 DEF Pending
<1>3. ~Pending(d) /\ (Pending(d)' <=> q.verb # "select")
  BY <1>1, OpenedType DEF Pending, NoConnection, Select
<1>4. conn'[d].stmt = q
  BY <1>1, OpenedType
<1>5. CASE q.verb = "select"
  <2>1. Sent' = Sent
    BY <1>1, <1>2, <1>3, <1>5 DEF Sent
  <2> QED
    BY <1>1, <2>1 DEF AbstractStep
<1>6. CASE q.verb # "select"
  <2>1. Sent' = [Sent EXCEPT ![d] = q] /\ Sent[d] = None
    BY <1>1, <1>2, <1>3, <1>4, <1>6 DEF Sent
  <2>2. q \in Atomic!Statement
    BY <1>6, QueryType
  <2>3. Atomic!Send(d)
    BY <1>1, <2>1, <2>2 DEF Atomic!Send, Sent
  <2> QED
    BY <2>3 DEF AbstractStep, Atomic!Next
<1> QED
  BY <1>5, <1>6

\* The database executes a statement, which shows only when it is refused.
LEMMA PerformRefines ==
  ASSUME LockInv, NEW c \in Conn, Perform(c)
  PROVE  AbstractStep
<1>1. /\ conn[c] \in Connection /\ conn[c].stmt \in Query /\ conn[c].pc = "sent"
      /\ UNCHANGED table
  BY ConnectionType DEF LockInv, DatabaseTypeOK, Perform
<1>2. PICK ok \in BOOLEAN :
        /\ Executed(c, ok)
        /\ ok \/ Atomic!Violates(table, conn[c].stmt) \/ DbMayFail
  BY DEF Perform
<1>3. /\ conn'[c].pc = "executed" /\ conn'[c].ok = ok /\ conn'[c].stmt = conn[c].stmt
      /\ \A e \in Conn \ {c} : conn'[e] = conn[e]
  BY <1>1, <1>2 DEF LockInv, DatabaseTypeOK, Executed, Connection
<1>4. /\ \A e \in Conn \ {c} : Pending(e)' = Pending(e)
      /\ Pending(c) <=> conn[c].stmt.verb # "select"
      /\ Pending(c)' <=> conn[c].stmt.verb # "select" /\ ok
  BY <1>1, <1>3 DEF Pending
<1>5. CASE ok \/ conn[c].stmt.verb = "select"
  <2>1. Sent' = Sent
    BY <1>3, <1>4, <1>5 DEF Sent
  <2> QED
    BY <1>1, <2>1 DEF AbstractStep
<1>6. CASE ~ok /\ conn[c].stmt.verb # "select"
  <2>1. /\ Sent' = [Sent EXCEPT ![c] = None]
        /\ Sent[c] = conn[c].stmt /\ Sent[c] # None
    BY <1>1, <1>3, <1>4, <1>6, QueryType DEF Sent
  <2>2. Atomic!Execute(c) \/ Atomic!Fail(c)
    BY <1>1, <1>2, <1>6, <2>1 DEF Atomic!Execute, Atomic!Fail, Sent
  <2> QED
    BY <2>2 DEF AbstractStep, Atomic!Next
<1> QED
  BY <1>5, <1>6

LEMMA AnswerRefines ==
  ASSUME LockInv, NEW c \in Conn, Answer(c)
  PROVE  AbstractStep
<1>1. /\ \A e \in Conn : /\ conn'[e].ok = conn[e].ok /\ conn'[e].stmt = conn[e].stmt
                         /\ conn'[e].pc = "sent" <=> conn[e].pc = "sent"
      /\ UNCHANGED table
  BY DEF LockInv, DatabaseTypeOK, Answer, NoConnection, Connection
<1>2. Sent' = Sent
  BY <1>1 DEF Sent, Pending
<1> QED
  BY <1>1, <1>2 DEF AbstractStep

\* A connection is closed: the statement takes effect, if there is one.
LEMMA CloseRefines ==
  ASSUME LockInv, NEW c \in Conn, Commit(c) \/ Break(c)
  PROVE  AbstractStep
<1>1. /\ conn[c] \in Connection /\ conn[c].stmt \in Query
      /\ conn' = [conn EXCEPT ![c] = NoConnection]
      /\ conn[c].pc = "answered"
  BY ConnectionType DEF LockInv, DatabaseTypeOK, Commit, Break
<1>2. /\ \A e \in Conn \ {c} : Pending(e)' = Pending(e) /\ conn'[e] = conn[e]
      /\ ~Pending(c)'
  BY <1>1 DEF Pending, LockInv, DatabaseTypeOK, NoConnection, Select
<1>3. CASE ~Pending(c)
  <2>1. Sent' = Sent /\ UNCHANGED table
    BY <1>2, <1>3 DEF Sent, Commit, Break
  <2> QED
    BY <2>1 DEF AbstractStep
<1>4. CASE Pending(c)
  <2>0. /\ conn[c].stmt.verb # "select"
        /\ conn[c].stmt # None
    BY <1>1, <1>4, QueryType DEF Pending
  <2>1. /\ Sent' = [Sent EXCEPT ![c] = None]
        /\ Sent[c] = conn[c].stmt /\ Sent[c] # None
    <3>1. Sent[c] = conn[c].stmt /\ Sent[c] # None
      BY <1>4, <2>0 DEF Sent
    <3>2. \A e \in Conn : Sent'[e] = IF e = c THEN None ELSE Sent[e]
      BY <1>2 DEF Sent
    <3>3. Sent' = [e \in Conn |-> Sent'[e]] /\ Sent = [e \in Conn |-> Sent[e]]
      BY DEF Sent
    <3> HIDE DEF Sent
    <3>4. Sent' = [Sent EXCEPT ![c] = None]
      BY <3>2, <3>3
    <3> QED
      BY <3>1, <3>4
  <2>2. CASE Commit(c)
    <3>1. ~Atomic!Violates(table, conn[c].stmt)
      BY <1>1, <1>4 DEF LockInv, Pending
    <3>2. Atomic!Execute(c)
      BY <1>4, <2>1, <2>2, <3>1 DEF Atomic!Execute, Commit, Sent
    <3> QED
      BY <3>2 DEF AbstractStep, Atomic!Next
  <2>3. CASE Break(c)
    <3>1. Atomic!Fail(c)
      BY <2>1, <2>3 DEF Atomic!Fail, Break, Sent
    <3> QED
      BY <3>1 DEF AbstractStep, Atomic!Next
  <2> QED
    BY <2>2, <2>3
<1> QED
  BY <1>3, <1>4

LEMMA CrashRefines ==
  ASSUME LockInv, NEW client \in Client, Crash(client)
  PROVE  AbstractStep
<1> DEFINE C == {c \in Conn : conn[c].client = client}
<1>1. \A c \in Conn : conn'[c] = IF c \in C THEN NoConnection ELSE conn[c]
  BY DEF Crash
<1>2. \A c \in Conn : Pending(c)' <=> c \notin C /\ Pending(c)
  BY <1>1 DEF Pending, NoConnection, Select
<1>3. Sent' = [c \in Conn |-> IF c \in C THEN None ELSE Sent[c]] /\ UNCHANGED table
  BY <1>1, <1>2 DEF Sent, Crash
<1>4. C \in SUBSET Conn
  OBVIOUS
<1> HIDE DEF C
<1>5. Atomic!Crash
  BY <1>3, <1>4 DEF Atomic!Crash, Sent
<1> QED
  BY <1>5 DEF AbstractStep, Atomic!Next

LEMMA StepRefines ==
  ASSUME LockInv, [DbNext]_dbVars
  PROVE  AbstractStep
<1>1. CASE UNCHANGED dbVars
  BY <1>1 DEF dbVars, AbstractStep, Sent, Pending
<1> QED
  BY <1>1, SendRefines, PerformRefines, AnswerRefines, CloseRefines, CrashRefines DEF DbNext

\* Statements that each have a transaction of their own, answered before it is
\* committed, are atomic to those who send them: each takes effect as a whole or
\* not at all, and only if no key is broken at that time. (executeQuery, close)
THEOREM StatementsAreAtomic == DbSpec => ImplementsAtomicTable
<1>1. DbInit => Atomic!Init
  BY DEF DbInit, Atomic!Init, Pending, NoConnection, Select
<1>2. LockInv /\ [DbNext]_dbVars => [Atomic!Next]_<<table, Sent>>
  BY StepRefines DEF AbstractStep
<1> QED
  BY <1>1, <1>2, LocksHold, PTL DEF DbSpec, ImplementsAtomicTable, Atomic!Spec, Sent
=============================================================================
