-------------------------- MODULE ComponentLifecycle --------------------------
(***************************************************************************)
(* What components-manager.js promises about the ids it hands out: an id   *)
(* is stored before it is served and no longer served when it is deleted;  *)
(* a deleted id never comes back, not even after a restart.  Only an id    *)
(* whose row is not committed yet may lose it, and then for good.          *)
(***************************************************************************)
CONSTANT Id

VARIABLES
  life,    \* how far each id has come
  unsaved  \* the ids whose rows are not committed yet

\* "unused": not handed out; "stored": a row that is not served (not loaded
\* yet, or impossible to drive); "served": in the cache; "dropped": out of the
\* cache, with its row still there; "deleted": no row; "undone": the row that the
\* client was told of was lost before it was committed, in the cache or not.
Stage == {"unused", "stored", "served", "dropped", "deleted", "undone"}

Init ==
  /\ life \in [Id -> {"unused", "stored", "deleted"}]
  /\ unsaved = {}

\* One id moves on.
Move(id, from, to) == life[id] = from /\ life' = [life EXCEPT ![id] = to]

Store(id) == Move(id, "unused", "stored") /\ unsaved' = unsaved \cup {id}
Save(id) == id \in unsaved /\ unsaved' = unsaved \ {id} /\ UNCHANGED life
Serve(id) == Move(id, "stored", "served") /\ UNCHANGED unsaved
Drop(id) == Move(id, "served", "dropped") /\ UNCHANGED unsaved
Delete(id) == id \notin unsaved /\ Move(id, "dropped", "deleted") /\ UNCHANGED unsaved

\* The DELETE is refused: the row is there, and will be served after a restart.
KeepRow(id) == Move(id, "dropped", "stored") /\ UNCHANGED unsaved

\* A second request to delete it sends another DELETE.
DropAgain(id) == Move(id, "stored", "dropped") /\ UNCHANGED unsaved

\* The COMMIT is lost.
Undo(id) ==
  /\ id \in unsaved
  /\ unsaved' = unsaved \ {id}
  /\ \E stage \in {"stored", "served", "dropped"} : Move(id, stage, "undone")

\* The cache is lost, and so is every statement and COMMIT on its way to the
\* database.
Crash ==
  /\ life' = [id \in Id |-> IF id \in unsaved \/ life[id] = "undone" THEN "deleted"
                          ELSE IF life[id] \in {"served", "dropped"} THEN "stored"
                          ELSE life[id]]
  /\ unsaved' = {}

Next ==
  \/ \E id \in Id :
       \/ Store(id) \/ Save(id) \/ Serve(id) \/ Drop(id) \/ Delete(id)
       \/ KeepRow(id) \/ DropAgain(id) \/ Undo(id)
  \/ Crash

Spec == Init /\ [][Next]_<<life, unsaved>>
=============================================================================
