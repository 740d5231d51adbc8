--------------------------- MODULE ComponentsManager ---------------------------
(***************************************************************************)
(* src/modules/components-manager.js, with the component endpoints of      *)
(* src/socket-setup.js that call it and the statements that                *)
(* src/util/db/query-controller.js runs for it.                            *)
(*                                                                         *)
(* Node runs one piece of code at a time, but a request gives way to       *)
(* others at every await: an action is what one request does between two   *)
(* awaits.  The rows of table Components are cached in the map             *)
(* `components', whose entries refer to mutable objects.  Each statement   *)
(* has a connection and a transaction of its own.  UPDATE and DELETE are   *)
(* sent without being awaited, and executed in any order.  An INSERT is    *)
(* awaited, but its COMMIT is not: the row may still be undone.            *)
(***************************************************************************)
EXTENDS Gpio

CONSTANTS
  Slot,           \* requests in progress at the same time (a bound)
  Boot,           \* init(), which loads the table when the module is required
  Spelling,       \* the directions that requests mention
  MaxId,          \* the last id that AUTO_INCREMENT hands out (a bound)
  Preloaded,      \* ids handed out before the server first starts, at most
  Operation,      \* the endpoints that clients use
  Shared,         \* do clients work on a component that another request works on?
  Contested,      \* do clients ask for a pin that another component has or is to get?
  EarlyRequests,  \* do clients send requests before init() has finished?
  DbLag,          \* statements not executed, or not committed, with which requests
                  \*   still arrive (a bound)
  DbMayFail,      \* can a statement fail for a reason that is not in the table?
  MaxRestarts     \* crashes followed by a restart (a bound)

ASSUME ComponentsManagerAssumption ==
  /\ Slot \cup {Boot} \subseteq Proc
  /\ Boot \notin Slot
  /\ Direction \subseteq Spelling
  /\ Spelling \subseteq {"in", "out", "IN", "OUT"}
  /\ MaxId \in Nat
  /\ Preloaded \in 0..MaxId
  /\ Operation \subseteq {"toggle", "update", "add", "remove", "list"}
  /\ Shared \in BOOLEAN
  /\ Contested \in BOOLEAN
  /\ EarlyRequests \in BOOLEAN
  /\ DbLag \in Nat
  /\ DbMayFail \in BOOLEAN
  /\ MaxRestarts \in Nat

VARIABLES
  components,  \* the map from ids to references to component objects
  objects,     \* the component objects themselves
  rows,        \* table Components, with the rows that are not committed yet
  nextId,      \* its AUTO_INCREMENT counter
  uncommitted, \* the ids of those
  undone,      \* history: ids of this run whose INSERT was answered and then undone
  unserved,    \* history: ids of this run that addComponent stored but could not serve
  writes,      \* UPDATE and DELETE statements sent and not yet executed
  resent,      \* the UPDATEs among them that were sent twice (a third that is the
               \*   same counts as the second; two DELETEs do no more than one)
  doubtful,    \* history: ids in the map whose last UPDATE was sent while another was
               \*   pending, or that had an UPDATE since that was not executed
  snapshot,    \* the result of init()'s SELECT, while init() works through it
  h,           \* where each request in progress, and init(), is suspended
  answer,      \* the response that the last step sent, if it finished a request
  restarts

tableVars == <<rows, nextId, uncommitted, undone, unserved>>
sentVars == <<writes, resent, doubtful>>
dbVars == <<tableVars, sentVars>>
cacheVars == <<components, objects>>
bootVars == <<snapshot, restarts>>
vars == <<gpioVars, cacheVars, dbVars, bootVars, h, answer>>
-----------------------------------------------------------------------------
Id == 1..MaxId

\* Name and description are left out: they are copied as the other two are.
Row == [physicalPin : PhysicalPin, direction : Spelling]
NoRow == [physicalPin |-> 0, direction |-> "none"]

\* What the table makes of a row: an INTEGER and an ENUM, which matches in any case.
\* (An INSERT with another direction is refused; in an update it is a bad pin.)
Stored(row) ==
  [physicalPin |-> PinNumber(row.physicalPin),
   direction |-> IF row.direction \in {"out", "OUT"} THEN DIR_OUT ELSE DIR_IN]

StoredRow == [physicalPin : PhysicalPin \cap Nat, direction : Direction]

\* init() and addComponent() each create at most one object for an id.
Ref == Id \X {"init", "add"}
Undefined == <<0, "none">>

Component == [row : Row, gpio : GpioObject]
NoComponent == [row |-> NoRow, gpio |-> [pinNo |-> 0, direction |-> "none"]]

Known(id) == components[id] # Undefined
Comp(id) == objects[components[id]]
KnownIds == {id \in Id : Known(id)}
StoredIds(table) == {id \in Id : table[id] # NoRow}

\* physicalPin is UNIQUE: no other row may hold it.
PinFree(pin, id) == \A i \in Id \ {id} : rows[i].physicalPin # pin

NoRows == [id \in Id |-> NoRow]

\* A request or init() between two awaits: what it awaits (pc), the request,
\* the object `c' it holds, the data it was given, the ids it has yet to visit.
Handler == [pc : {"idle", "toggling", "turning off", "unexporting", "exporting",
                  "setting direction", "cleaning up", "inserting", "inserted",
                  "isOn", "readValue", "selecting"},
            op : {"none", "toggle", "update", "add", "remove", "list", "init"},
            id : Id \cup {0}, c : Ref \cup {Undefined},
            row : Row \cup {NoRow}, todo : SUBSET Id]

Idle == [pc |-> "idle", op |-> "none", id |-> 0, c |-> Undefined,
         row |-> NoRow, todo |-> {}]

\* "silent": the handler threw, so the client never gets a response.
Reply == {"OK", "SERVER_ERR", "INVALID_FORMAT", "silent"}
Answer == [op : {"toggle", "update", "add", "remove", "list"}, id : Id \cup {0}, reply : Reply]
NoAnswer == [op |-> "none", id |-> 0, reply |-> "none"]

TypeOK ==
  /\ GpioTypeOK
  /\ components \in [Id -> Ref \cup {Undefined}]
  /\ objects \in [Ref -> Component \cup {NoComponent}]
  /\ rows \in [Id -> StoredRow \cup {NoRow}]
  /\ nextId \in 1..MaxId + 1
  /\ uncommitted \subseteq Id /\ undone \subseteq Id
  /\ unserved \subseteq Id /\ doubtful \subseteq Id
  /\ writes \subseteq [id : Id, row : StoredRow \cup {NoRow}]
  /\ resent \subseteq writes
  /\ snapshot \in [Id -> StoredRow \cup {NoRow}]
  /\ h \in [Slot \cup {Boot} -> Handler]
  /\ answer \in Answer \cup {NoAnswer}
  /\ restarts \in 0..MaxRestarts

Booting == [Idle EXCEPT !.pc = "selecting", !.op = "init"]

Init ==
  /\ GpioInit
  /\ components = [id \in Id |-> Undefined]
  /\ objects = [ref \in Ref |-> NoComponent]
  /\ nextId \in 1..Preloaded + 1
  /\ rows \in [Id -> StoredRow \cup {NoRow}]
  /\ \A id \in StoredIds(rows) : id < nextId /\ PinFree(rows[id].physicalPin, id)
  /\ uncommitted = {} /\ undone = {} /\ unserved = {}
  /\ writes = {} /\ resent = {} /\ doubtful = {}
  /\ snapshot = NoRows
  /\ h = [p \in Slot \cup {Boot} |-> IF p = Boot THEN Booting ELSE Idle]
  /\ answer = NoAnswer
  /\ restarts = 0
-----------------------------------------------------------------------------
(***************************************************************************)
(* Suspending and finishing.                                               *)
(***************************************************************************)
Await(p, handler, verb, line) ==
  /\ h' = [h EXCEPT ![p] = handler]
  /\ Issue(p, verb, line)
  /\ answer' = NoAnswer

Goto(p, handler) ==
  /\ h' = [h EXCEPT ![p] = handler]
  /\ exec' = [exec EXCEPT ![p] = NoExec]
  /\ answer' = NoAnswer

Finish(s, op, id, reply) ==
  /\ h' = [h EXCEPT ![s] = Idle]
  /\ exec' = [exec EXCEPT ![s] = NoExec]
  /\ answer' = [op |-> op, id |-> id, reply |-> reply]

At(p, pc) == h[p].pc = pc

Arrives(s, op) ==
  /\ op \in Operation
  /\ h[s] = Idle
  /\ EarlyRequests \/ h[Boot] = Idle
  /\ Cardinality(writes) + Cardinality(uncommitted) <= DbLag

-----------------------------------------------------------------------------
(***************************************************************************)
(* toggleComponent                                                         *)
(***************************************************************************)
\* "1" is the request's "on" and "0" its "off"; any other status is rejected.
Status == {"1", "0", "invalid"}

Drivable(id) ==
  Known(id) /\ Comp(id).row.direction = DIR_OUT /\ Comp(id).gpio.direction = DIR_OUT

Toggle(s, id, status) ==
  /\ Arrives(s, "toggle")
  /\ \/ /\ Drivable(id)
        /\ status # "invalid"
        /\ Await(s, [Idle EXCEPT !.pc = "toggling", !.op = "toggle", !.id = id],
                 status, Comp(id).gpio.pinNo)
     \/ /\ ~Drivable(id) \/ status = "invalid"
        /\ Finish(s, "toggle", id, "INVALID_FORMAT")
  /\ UNCHANGED <<kernel, cacheVars, dbVars, bootVars>>

Toggled(s) ==
  /\ At(s, "toggling")
  /\ Answered(s)
  /\ Finish(s, "toggle", h[s].id, IF Ok(s) THEN "OK" ELSE "SERVER_ERR")
  /\ UNCHANGED <<kernel, cacheVars, dbVars, bootVars>>
-----------------------------------------------------------------------------
(***************************************************************************)
(* updateComponent and executeUpdate                                       *)
(***************************************************************************)
\* Mutant: a field that data leaves out is overwritten.
MergeBlank(data, row) == data

\* A field that data leaves out keeps the value it has when the request comes.
Merge(data, row) ==
  [physicalPin |-> IF data.physicalPin = NoRow.physicalPin
                   THEN row.physicalPin ELSE data.physicalPin,
   direction |-> IF data.direction = NoRow.direction
                 THEN row.direction ELSE data.direction]

UpdateData == [physicalPin : PhysicalPin \cup {NoRow.physicalPin},
               direction : Spelling \cup {NoRow.direction}]

\* Mutant: only a new direction rewires the component.
RewiresDirection(row, old) == row.direction # old.direction

\* Does the line have to be exported anew?  (24 != "24" is false.)
Rewires(row, old) ==
  \/ row.direction # old.direction
  \/ PinNumber(row.physicalPin) # PinNumber(old.physicalPin)

\* `new Gpio' takes the data of an update as they are.
Wirable(row) == ValidPin(row.physicalPin) /\ row.direction \in Direction

\* Another UPDATE of the id is pending, with other data.
Overtakes(w) == \E v \in writes \ {w} : v.id = w.id /\ v.row # NoRow

SendUpdate(w) ==
  /\ writes' = writes \cup {w}
  /\ resent' = resent \cup ({w} \cap writes)
  /\ doubtful' = IF Known(w.id) /\ Overtakes(w)
                 THEN doubtful \cup {w.id} ELSE doubtful \ {w.id}

\* Mutants: the table is not told, or told before c takes the data.
StoreUpdateInCache(id, c, row) ==
  objects' = [objects EXCEPT ![c].row = row] /\ UNCHANGED sentVars

StoreUpdateTooEarly(id, c, row) ==
  /\ objects' = [objects EXCEPT ![c].row = row]
  /\ SendUpdate([id |-> id, row |-> Stored(objects[c].row)])

\* The end of executeUpdate: c takes the data and the table is told.
StoreUpdate(id, c, row) ==
  /\ objects' = [objects EXCEPT ![c].row = row]
  /\ SendUpdate([id |-> id, row |-> Stored(row)])

Update(s, id, data) ==
  /\ Arrives(s, "update")
  /\ \/ /\ ~Known(id)
        /\ Finish(s, "update", id, "silent")
        /\ UNCHANGED <<objects, sentVars>>
     \/ /\ Known(id)
        /\ LET c == Comp(id)
               row == Merge(data, c.row)
               handler == [Idle EXCEPT !.op = "update", !.id = id,
                                       !.c = components[id], !.row = row]
           IN \/ /\ ~Rewires(row, c.row)
                 /\ StoreUpdate(id, components[id], row)
                 /\ Finish(s, "update", id, "OK")
              \/ /\ Rewires(row, c.row)
                 /\ UNCHANGED <<objects, sentVars>>
                 /\ \/ /\ c.row.direction = DIR_OUT
                       /\ c.gpio.direction = DIR_IN
                       /\ Finish(s, "update", id, "silent")
                    \/ /\ c.row.direction = DIR_OUT
                       /\ c.gpio.direction = DIR_OUT
                       /\ Await(s, [handler EXCEPT !.pc = "turning off"],
                                "0", c.gpio.pinNo)
                    \/ /\ c.row.direction # DIR_OUT
                       /\ Await(s, [handler EXCEPT !.pc = "unexporting"],
                                "unexport", c.gpio.pinNo)
  /\ UNCHANGED <<kernel, components, tableVars, bootVars>>

\* Neither the result of turnOff() nor that of unexport() is looked at.
UpdateTurnedOff(s) ==
  /\ h[s].op = "update"
  /\ At(s, "turning off")
  /\ Answered(s)
  /\ Await(s, [h[s] EXCEPT !.pc = "unexporting"],
           "unexport", objects[h[s].c].gpio.pinNo)
  /\ UNCHANGED <<kernel, cacheVars, dbVars, bootVars>>

UpdateUnexported(s) ==
  /\ h[s].op = "update"
  /\ At(s, "unexporting")
  /\ Answered(s)
  /\ LET row == h[s].row
         gpio == NewGpio(row.physicalPin, row.direction)
     IN \/ /\ Wirable(row)
           /\ objects' = [objects EXCEPT ![h[s].c].gpio = gpio]
           /\ Await(s, [h[s] EXCEPT !.pc = "exporting"], "export", gpio.pinNo)
        \/ /\ ~Wirable(row)
           /\ Finish(s, "update", h[s].id, "SERVER_ERR")
           /\ UNCHANGED objects
  /\ UNCHANGED <<kernel, components, dbVars, bootVars>>
-----------------------------------------------------------------------------
(***************************************************************************)
(* addComponent                                                            *)
(***************************************************************************)
\* Data that lacks a pin, a direction or a name is rejected; `null' makes the
\* handler throw.
Add(s, data) ==
  /\ Arrives(s, "add")
  /\ \/ /\ data \in Row
        /\ Goto(s, [Idle EXCEPT !.pc = "inserting", !.op = "add", !.row = data])
     \/ /\ data \notin Row
        /\ Finish(s, "add", 0, "INVALID_FORMAT")
     \/ /\ data = NoRow
        /\ Finish(s, "add", 0, "silent")
  /\ UNCHANGED <<kernel, cacheVars, dbVars, bootVars>>

\* The database executes the INSERT and answers.  It is refused if another row has
\* the pin or the counter has passed the last id, and the request ends at once; it
\* waits as long as that row is not committed.  (That a refused INSERT may use up an
\* id is left out.)
Insert(s) ==
  /\ At(s, "inserting")
  /\ LET row == Stored(h[s].row)
         free == nextId <= MaxId /\ PinFree(row.physicalPin, nextId)
         waits == \E i \in uncommitted : rows[i].physicalPin = row.physicalPin
     IN \/ /\ free
           /\ rows' = [rows EXCEPT ![nextId] = row]
           /\ nextId' = nextId + 1
           /\ uncommitted' = uncommitted \cup {nextId}
           /\ Goto(s, [h[s] EXCEPT !.pc = "inserted", !.id = nextId])
        \/ /\ DbMayFail \/ (~free /\ ~waits)
           /\ Finish(s, "add", 0, "INVALID_FORMAT")
           /\ UNCHANGED <<rows, nextId, uncommitted>>
  /\ UNCHANGED <<kernel, cacheVars, undone, unserved, sentVars, bootVars>>

\* init() and addComponent wire what is not "out" as an input.
WiredAs(row) == IF row.direction = DIR_OUT THEN DIR_OUT ELSE DIR_IN

\* A pin that is not on the header, or is a text, makes `new Gpio' throw before the
\* object is put in the map; the error is caught and the request succeeds.
Inserted(s) ==
  /\ At(s, "inserted")
  /\ LET id == h[s].id
         row == h[s].row
         gpio == NewGpio(row.physicalPin, WiredAs(row))
     IN \/ /\ ValidPin(row.physicalPin)
           /\ components' = [components EXCEPT ![id] = <<id, "add">>]
           /\ objects' = [objects EXCEPT ![<<id, "add">>] =
                             [row |-> row, gpio |-> gpio]]
           /\ Await(s, [h[s] EXCEPT !.pc = "exporting"], "export", gpio.pinNo)
           /\ UNCHANGED unserved
        \/ /\ ~ValidPin(row.physicalPin)
           /\ Finish(s, "add", id, "OK")
           /\ unserved' = unserved \cup {id}
           /\ UNCHANGED cacheVars
  /\ UNCHANGED <<kernel, rows, nextId, uncommitted, undone, sentVars, bootVars>>
-----------------------------------------------------------------------------
(***************************************************************************)
(* removeComponent.  components[id] is read again after every await; any    *)
(* exception is caught.                                                    *)
(***************************************************************************)
\* Mutant: the line is turned off again.
AwaitTurnOff(s, id) ==
  \/ /\ Known(id)
     /\ Await(s, [Idle EXCEPT !.pc = "unexporting", !.op = "remove", !.id = id],
              "0", Comp(id).gpio.pinNo)
  \/ /\ ~Known(id)
     /\ Finish(s, "remove", id, "SERVER_ERR")

AwaitUnexport(s, id) ==
  \/ /\ Known(id)
     /\ Await(s, [Idle EXCEPT !.pc = "unexporting", !.op = "remove", !.id = id],
              "unexport", Comp(id).gpio.pinNo)
  \/ /\ ~Known(id)
     /\ Finish(s, "remove", id, "SERVER_ERR")

\* Mutant: the line is not turned off.
RemoveAtOnce(s, id) ==
  /\ Arrives(s, "remove")
  /\ AwaitUnexport(s, id)
  /\ UNCHANGED <<kernel, cacheVars, dbVars, bootVars>>

Remove(s, id) ==
  /\ Arrives(s, "remove")
  /\ \/ /\ Known(id) => Comp(id).row.direction # DIR_OUT
        /\ AwaitUnexport(s, id)
     \/ /\ Drivable(id)
        /\ Await(s, [Idle EXCEPT !.pc = "turning off", !.op = "remove", !.id = id],
                 "0", Comp(id).gpio.pinNo)
     \/ /\ Known(id)
        /\ Comp(id).row.direction = DIR_OUT
        /\ ~Drivable(id)
        /\ Finish(s, "remove", id, "SERVER_ERR")
  /\ UNCHANGED <<kernel, cacheVars, dbVars, bootVars>>

SendDelete(id) ==
  /\ writes' = writes \cup {[id |-> id, row |-> NoRow]}
  /\ UNCHANGED resent

\* Mutant: the row is deleted before the line is given up.
RemoveRowFirst(s) ==
  /\ h[s].op = "remove"
  /\ At(s, "turning off")
  /\ Answered(s)
  /\ AwaitUnexport(s, h[s].id)
  /\ SendDelete(h[s].id)
  /\ UNCHANGED <<kernel, cacheVars, tableVars, doubtful, bootVars>>

RemoveTurnedOff(s) ==
  /\ h[s].op = "remove"
  /\ At(s, "turning off")
  /\ Answered(s)
  /\ AwaitUnexport(s, h[s].id)
  /\ UNCHANGED <<kernel, cacheVars, dbVars, bootVars>>

\* Mutants: the component stays in the map, or its row in the table.
RemoveFromTable(s) ==
  /\ h[s].op = "remove"
  /\ At(s, "unexporting")
  /\ Answered(s)
  /\ SendDelete(h[s].id)
  /\ Finish(s, "remove", h[s].id, "OK")
  /\ UNCHANGED <<kernel, cacheVars, tableVars, doubtful, bootVars>>

RemoveFromCache(s) ==
  /\ h[s].op = "remove"
  /\ At(s, "unexporting")
  /\ Answered(s)
  /\ components' = [components EXCEPT ![h[s].id] = Undefined]
  /\ Finish(s, "remove", h[s].id, "OK")
  /\ UNCHANGED <<kernel, objects, dbVars, bootVars>>

RemoveUnexported(s) ==
  /\ h[s].op = "remove"
  /\ At(s, "unexporting")
  /\ Answered(s)
  /\ components' = [components EXCEPT ![h[s].id] = Undefined]
  /\ SendDelete(h[s].id)
  /\ doubtful' = doubtful \ {h[s].id}
  /\ Finish(s, "remove", h[s].id, "OK")
  /\ UNCHANGED <<kernel, objects, tableVars, bootVars>>
-----------------------------------------------------------------------------
(***************************************************************************)
(* getComponents reads the lines one by one, in the order of the ids the   *)
(* map has at the start, skipping those that are gone when their turn      *)
(* comes.                                                                  *)
(***************************************************************************)
Visit(s, todo) ==
  LET left == {id \in todo : Known(id)}
      Reading(id, pc) ==
        Await(s, [Idle EXCEPT !.pc = pc, !.op = "list", !.id = id,
                              !.todo = left \ {id}],
              "cat", Comp(id).gpio.pinNo)
  IN \/ left = {} /\ Finish(s, "list", 0, "OK")
     \/ \E id \in left :
           /\ \A i \in left : id <= i
           /\ \/ /\ Comp(id).row.direction = DIR_OUT
                 /\ Comp(id).gpio.direction = DIR_OUT
                 /\ Reading(id, "isOn")
              \/ /\ Comp(id).row.direction # DIR_OUT
                 /\ Comp(id).gpio.direction # DIR_OUT
                 /\ Reading(id, "readValue")
              \/ /\ (Comp(id).row.direction = DIR_OUT)
                      # (Comp(id).gpio.direction = DIR_OUT)
                 /\ Finish(s, "list", 0, "silent")

List(s) ==
  /\ Arrives(s, "list")
  /\ Visit(s, KnownIds)
  /\ UNCHANGED <<kernel, cacheVars, dbVars, bootVars>>

\* isOn() compares whatever came back with 1; readValue() takes its first
\* character, which throws if nothing came back.
Read(s) ==
  /\ At(s, "isOn") \/ At(s, "readValue")
  /\ Answered(s)
  /\ \/ /\ At(s, "isOn") \/ Ok(s)
        /\ Visit(s, h[s].todo)
     \/ /\ At(s, "readValue") /\ ~Ok(s)
        /\ Finish(s, "list", 0, "silent")
  /\ UNCHANGED <<kernel, cacheVars, dbVars, bootVars>>
-----------------------------------------------------------------------------
(***************************************************************************)
(* init().  A row whose pin is not on the header is skipped: `new Gpio'    *)
(* throws before the object is put in the map.                             *)
(***************************************************************************)
LoadFrom(todo, table) ==
  LET loadable == {id \in todo : ValidPin(table[id].physicalPin)}
  IN \/ /\ loadable = {}
        /\ Goto(Boot, Idle)
        /\ snapshot' = NoRows
        /\ UNCHANGED cacheVars
     \/ \E id \in loadable :
          LET gpio == NewGpio(table[id].physicalPin, WiredAs(table[id]))
          IN /\ \A i \in loadable : id <= i
             /\ components' = [components EXCEPT ![id] = <<id, "init">>]
             /\ objects' = [objects EXCEPT ![<<id, "init">>] =
                               [row |-> table[id], gpio |-> gpio]]
             /\ snapshot' = table
             /\ Await(Boot, [Idle EXCEPT !.pc = "exporting", !.op = "init",
                                         !.id = id, !.row = table[id],
                                         !.todo = loadable \ {id}],
                      "export", gpio.pinNo)

\* The SELECT, which does not see what is not committed; after an error res.response
\* is undefined and init() throws.
Select ==
  /\ At(Boot, "selecting")
  /\ \/ LoadFrom(StoredIds(rows) \ uncommitted, rows)
     \/ /\ DbMayFail
        /\ Goto(Boot, Idle)
        /\ UNCHANGED <<cacheVars, snapshot>>
  /\ UNCHANGED <<kernel, dbVars, restarts>>
-----------------------------------------------------------------------------
(***************************************************************************)
(* Gpio.init(): export the line, set its direction, and undo the export if *)
(* that fails.  What follows depends on the caller.  `this' is the object  *)
(* that the caller made from the row it holds.                             *)
(***************************************************************************)
InitLine(p) == convertPhysicalPin[h[p].row.physicalPin]

\* Mutant: executeUpdate goes on after an exception, too.
AfterInitRegardless(p, ok) ==
  \/ /\ h[p].op = "init"
     /\ LoadFrom(h[p].todo, snapshot)
     /\ UNCHANGED sentVars
  \/ /\ h[p].op = "add"
     /\ Finish(p, "add", h[p].id, "OK")
     /\ UNCHANGED <<cacheVars, snapshot, sentVars>>
  \/ /\ h[p].op = "update"
     /\ StoreUpdate(h[p].id, h[p].c, h[p].row)
     /\ Finish(p, "update", h[p].id, "OK")
     /\ UNCHANGED <<components, snapshot>>

\* init() and addComponent catch the exception and go on as if there was
\* none; executeUpdate returns false, and leaves c.gpio as it is.
AfterInit(p, ok) ==
  \/ /\ h[p].op = "init"
     /\ LoadFrom(h[p].todo, snapshot)
     /\ UNCHANGED sentVars
  \/ /\ h[p].op = "add"
     /\ Finish(p, "add", h[p].id, "OK")
     /\ UNCHANGED <<cacheVars, snapshot, sentVars>>
  \/ /\ h[p].op = "update"
     /\ ok
     /\ StoreUpdate(h[p].id, h[p].c, h[p].row)
     /\ Finish(p, "update", h[p].id, "OK")
     /\ UNCHANGED <<components, snapshot>>
  \/ /\ h[p].op = "update"
     /\ ~ok
     /\ Finish(p, "update", h[p].id, "SERVER_ERR")
     /\ UNCHANGED <<cacheVars, snapshot, sentVars>>

Exported(p) ==
  /\ At(p, "exporting")
  /\ Answered(p)
  /\ \/ /\ Ok(p)
        /\ Await(p, [h[p] EXCEPT !.pc = "setting direction"],
                 WiredAs(h[p].row), InitLine(p))
        /\ UNCHANGED <<cacheVars, snapshot, sentVars>>
     \/ ~Ok(p) /\ AfterInit(p, FALSE)
  /\ UNCHANGED <<kernel, tableVars, restarts>>

\* Mutant: a direction that is refused is tried again.
DirectionRetried(p) ==
  /\ At(p, "setting direction")
  /\ Answered(p)
  /\ \/ Ok(p) /\ AfterInit(p, TRUE)
     \/ /\ ~Ok(p)
        /\ Await(p, h[p], WiredAs(h[p].row), InitLine(p))
        /\ UNCHANGED <<cacheVars, snapshot, sentVars>>
  /\ UNCHANGED <<kernel, tableVars, restarts>>

DirectionSet(p) ==
  /\ At(p, "setting direction")
  /\ Answered(p)
  /\ \/ Ok(p) /\ AfterInit(p, TRUE)
     \/ /\ ~Ok(p)
        /\ Await(p, [h[p] EXCEPT !.pc = "cleaning up"], "unexport", InitLine(p))
        /\ UNCHANGED <<cacheVars, snapshot, sentVars>>
  /\ UNCHANGED <<kernel, tableVars, restarts>>

CleanedUp(p) ==
  /\ At(p, "cleaning up")
  /\ Answered(p)
  /\ AfterInit(p, FALSE)
  /\ UNCHANGED <<kernel, tableVars, restarts>>
-----------------------------------------------------------------------------
(***************************************************************************)
(* The database executes what nobody waits for.                            *)
(***************************************************************************)
\* Mutant: an UPDATE that finds no row inserts one (REPLACE).
Replaces(w) ==
  w.row = NoRow \/ PinFree(w.row.physicalPin, w.id)

\* An UPDATE finds no row once it is deleted, and violates UNIQUE if another
\* row holds the pin; either way the result is not looked at.
Executes(w) ==
  \/ w.row = NoRow
  \/ rows[w.id] # NoRow /\ PinFree(w.row.physicalPin, w.id)

\* A row that is not committed is locked, and so is its pin.
Waits(w) ==
  \E i \in uncommitted : i = w.id \/ rows[i].physicalPin = w.row.physicalPin

ExecuteWrite(w) ==
  /\ w \in writes
  /\ writes' = IF w \in resent THEN writes ELSE writes \ {w}
  /\ resent' = resent \ {w}
  /\ \/ /\ Executes(w) /\ ~Waits(w)
        /\ rows' = [rows EXCEPT ![w.id] = w.row]
        /\ UNCHANGED doubtful
     \/ /\ DbMayFail \/ (~Executes(w) /\ ~Waits(w))
        /\ doubtful' = IF w.row # NoRow /\ Known(w.id)
                       THEN doubtful \cup {w.id} ELSE doubtful
        /\ UNCHANGED rows
  /\ answer' = NoAnswer
  /\ UNCHANGED <<gpioVars, cacheVars, nextId, uncommitted, undone, unserved, bootVars, h>>

\* close() has sent the COMMIT when addComponent goes on.
Closing(id) == id \in uncommitted /\ \A s \in Slot : At(s, "inserted") => h[s].id # id

CommitInsert(id) ==
  /\ Closing(id)
  /\ uncommitted' = uncommitted \ {id}
  /\ answer' = NoAnswer
  /\ UNCHANGED <<gpioVars, cacheVars, rows, nextId, undone, unserved, sentVars, bootVars, h>>

\* The connection is lost before the COMMIT is executed: the row is undone, and
\* nobody learns of it.
LoseInsert(id) ==
  /\ DbMayFail
  /\ Closing(id)
  /\ rows' = [rows EXCEPT ![id] = NoRow]
  /\ uncommitted' = uncommitted \ {id}
  /\ undone' = undone \cup {id}
  /\ answer' = NoAnswer
  /\ UNCHANGED <<gpioVars, cacheVars, nextId, unserved, sentVars, bootVars, h>>

GpioStep ==
  /\ GpioNext
  /\ answer' = NoAnswer
  /\ UNCHANGED <<cacheVars, dbVars, bootVars, h>>

\* The process ends at any point, and is started again once the commands it
\* was waiting for have run.  Statements and COMMITs on their way to the database
\* are lost; the lines stay as they are.
Restart ==
  /\ restarts < MaxRestarts
  /\ \A p \in Proc : ~Pending(p)
  /\ restarts' = restarts + 1
  /\ components' = [id \in Id |-> Undefined]
  /\ objects' = [ref \in Ref |-> NoComponent]
  /\ rows' = [id \in Id |-> IF id \in uncommitted THEN NoRow ELSE rows[id]]
  /\ uncommitted' = {} /\ undone' = {} /\ unserved' = {}
  /\ writes' = {} /\ resent' = {} /\ doubtful' = {}
  /\ snapshot' = NoRows
  /\ h' = [p \in Slot \cup {Boot} |-> IF p = Boot THEN Booting ELSE Idle]
  /\ exec' = [r \in Proc \cup Orphan |-> IF r \in Proc THEN NoExec ELSE exec[r]]
  /\ answer' = NoAnswer
  /\ UNCHANGED <<kernel, nextId>>
-----------------------------------------------------------------------------
\* Clients may keep off the components that others work on, and off the pins that
\* other components have or are to get; the server does not insist.
NobodyWorksOn(id) == Shared \/ \A s \in Slot : h[s].id = id => h[s].op = "list"

SamePin(row, other) == PinNumber(row.physicalPin) = PinNumber(other.physicalPin)

MayAsk(data, id) ==
  \/ Contested
  \/ /\ \A i \in KnownIds \ {id} : ~SamePin(Comp(i).row, data)
     /\ \A s \in Slot : h[s].row # NoRow => ~SamePin(h[s].row, data)

Request(s) ==
  \/ \E id \in Id :
        /\ NobodyWorksOn(id)
        /\ \/ \E status \in Status : Toggle(s, id, status)
           \/ \E data \in UpdateData : MayAsk(data, id) /\ Update(s, id, data)
           \/ Remove(s, id)
  \/ \E data \in UpdateData : MayAsk(data, 0) /\ Add(s, data)
  \/ List(s)

\* What a request does once the command it awaits is answered.
Continue(s) ==
  \/ Toggled(s)
  \/ UpdateTurnedOff(s) \/ UpdateUnexported(s)
  \/ Inserted(s)
  \/ RemoveTurnedOff(s) \/ RemoveUnexported(s)
  \/ Read(s)

InitGpio(p) == Exported(p) \/ DirectionSet(p) \/ CleanedUp(p)

\* Everything but the arrival of a request and a restart.
Work ==
  \/ \E s \in Slot : Continue(s) \/ Insert(s)
  \/ \E p \in Slot \cup {Boot} : InitGpio(p)
  \/ Select
  \/ \E w \in writes : ExecuteWrite(w)
  \/ \E id \in uncommitted : CommitInsert(id) \/ LoseInsert(id)
  \/ GpioStep

Next ==
  \/ \E s \in Slot : Request(s)
  \/ Work
  \/ Restart

\* Node runs a callback whose time has come, cmdOutput stops waiting after a
\* while even if the command never ends, and the database answers.
Fairness ==
  /\ \A s \in Slot : WF_vars(Continue(s)) /\ WF_vars(Insert(s))
  /\ \A p \in Slot \cup {Boot} :
        /\ WF_vars(InitGpio(p))
        /\ WF_vars(GpioStep /\ (RunCommand(p) \/ Timeout(p)))
  /\ WF_vars(Select)
  /\ WF_vars(\E w \in writes : ExecuteWrite(w))
  /\ WF_vars(\E id \in uncommitted : CommitInsert(id))

Spec == Init /\ [][Next]_vars /\ Fairness
-----------------------------------------------------------------------------
(***************************************************************************)
(* Properties.                                                             *)
(***************************************************************************)
Deletes(id) == [id |-> id, row |-> NoRow] \in writes

\* Every component that clients see has a row, unless its INSERT was undone after
\* the answer: whatever interleaves, a row is deleted only after its component has
\* left the map, and does not come back. (addComponent, removeComponent, init)
CachedIsStored == \A id \in KnownIds : rows[id] # NoRow \/ id \in undone

\* Every row is served, or somebody is still about to serve or delete it, or its
\* pin is one that cannot be driven, or addComponent could not drive it as it was
\* given: no other row is forgotten. (addComponent, removeComponent, init)
StoredIsAccountedFor ==
  \A id \in StoredIds(rows) :
     \/ Known(id) \/ Deletes(id)
     \/ ~ValidPin(rows[id].physicalPin) \/ id \in unserved
     \/ \E s \in Slot : At(s, "inserted") /\ h[s].id = id
     \/ At(Boot, "selecting") \/ id \in h[Boot].todo

\* The stage that an id has reached.
StageOf(id) ==
  IF id \in undone THEN "undone"
  ELSE IF Known(id)
  THEN IF rows[id] # NoRow THEN "served" ELSE "served without a row"
  ELSE IF rows[id] # NoRow
  THEN IF Deletes(id) THEN "dropped" ELSE "stored"
  ELSE IF id < nextId THEN "deleted" ELSE "unused"

life == [id \in Id |-> StageOf(id)]

Lifecycle == INSTANCE ComponentLifecycle WITH unsaved <- uncommitted

\* The ids go through the stages of ComponentLifecycle, in that order.
FollowsLifecycle == Lifecycle!Spec

Quiet ==
  (\A p \in Slot \cup {Boot} : h[p] = Idle) /\ writes = {} /\ uncommitted = {}

\* At rest the table says what the map says. (The comment at the top of
\* components-manager.js: the data is cached as well as updated in the database)
TableMatchesCache == Quiet => \A id \in KnownIds : rows[id] = Stored(Comp(id).row)

\* A row is what the cache says when no UPDATE of it is pending, unless the last one
\* was sent before another was executed, or one was refused or failed: nothing else,
\* neither other requests nor a restart, makes the two differ. (executeUpdate)
TableFollowsCache ==
  \A id \in KnownIds \ doubtful :
     rows[id] # NoRow /\ (\A w \in writes : w.id # id) => rows[id] = Stored(Comp(id).row)

\* At rest the lines that are exported are those of components: none leaks.
\* (unexport in updateComponent and removeComponent)
ExportedIsOwned == Quiet => exported \subseteq {Comp(id).gpio.pinNo : id \in KnownIds}

\* A line is driven low before it is given up. (updateComponent, "turn off
\* first", and removeComponent)
ReleasedIsLow == high \subseteq exported

\* The line that a row asks for is exported, with the direction it asks for.
Wired(row) ==
  LET line == convertPhysicalPin[PinNumber(row.physicalPin)]
  IN line \in exported /\ ((line \in outputs) = (row.direction = DIR_OUT))

\* An update that rewires a component and reports success has done so: the
\* object, the component's data and the line agree. (executeUpdate)
OkUpdateRewires ==
  [][\A s \in Slot :
       h[s].op = "update" /\ h'[s] = Idle /\ answer'.op = "update" /\ answer'.reply = "OK"
         => LET c == objects'[components'[answer'.id]]
            IN /\ c.gpio = NewGpio(PinNumber(c.row.physicalPin), c.row.direction)
               /\ Wired(c.row)]_vars

\* Every request ends, with or without a response, and init() ends: nobody
\* waits for ever. (cmdOutput polls a bounded number of times)
EverythingEnds ==
  \A p \in Slot \cup {Boot} : h[p] # Idle ~> h[p] = Idle

\* A listing is answered, whatever was requested before. (response-format.md:
\* a request that fails gets a response with status "ERR")
ListingsAreAnswered == answer.op = "list" => answer.reply # "silent"

\* An update is answered. (the same sentence of response-format.md)
UpdatesAreAnswered == answer.op = "update" => answer.reply # "silent"

\* A toggle that reports success has driven the line of the component that the
\* request names. (toggleComponent: change the state of the OUT component)
TogglesItsOwnLine ==
  [][\A s \in Slot :
       Toggled(s) /\ answer'.reply = "OK" /\ Known(h[s].id)
         => exec[s].line = convertPhysicalPin[PinNumber(Comp(h[s].id).row.physicalPin)]]_vars
-----------------------------------------------------------------------------
(***************************************************************************)
(* Why the ids and the objects are in order: the invariant behind the type *)
(* invariant, CachedIsStored and FollowsLifecycle.                         *)
(***************************************************************************)
Handlers == Slot \cup {Boot}

\* The steps of Gpio.init().
Initializing == {"exporting", "setting direction", "cleaning up"}

\* A suspended request or init() holds what it needs to go on.
WellFormed(p) ==
  /\ h[p].op = "init" => p = Boot
  /\ h[p].op \in {"update", "remove"} => h[p].id \in Id
  /\ h[p].op = "update" =>
       /\ h[p].row \in Row
       /\ h[p].c \in Ref
       /\ objects[h[p].c] \in Component
  /\ At(p, "inserting") => h[p].op = "add" /\ h[p].row \in Row
  /\ At(p, "inserted") => h[p].op = "add" /\ h[p].row \in Row /\ h[p].id \in Id
  /\ h[p].pc \in Initializing =>
       /\ h[p].id \in Id
       /\ h[p].row \in Row
       /\ ValidPin(h[p].row.physicalPin)
       /\ h[p].op = "update" => h[p].row.direction \in Direction

CachedAreObjects == \A id \in KnownIds : Comp(id) \in Component

\* An id that is cached, stored or in a statement has been handed out.
HandedOut ==
  /\ \A id \in Id : Known(id) \/ rows[id] # NoRow => id < nextId
  /\ \A id \in uncommitted \cup undone : id < nextId
  /\ \A w \in writes : w.id < nextId
  /\ \A s \in Slot : h[s].op \in {"update", "remove"} => h[s].id < nextId

\* A row is not committed as long as it is locked, and one that was undone is gone.
LockedIsStored ==
  /\ \A id \in uncommitted : rows[id] # NoRow
  /\ \A id \in undone : rows[id] = NoRow

\* A row is deleted after its component has left the map.
DeletedIsUncached == \A w \in writes : w.row = NoRow => ~Known(w.id)

\* Nobody else knows of an id before the request that inserts it caches it.
InsertedIsPrivate ==
  \A s \in Slot : At(s, "inserted") =>
     /\ rows[h[s].id] = Stored(h[s].row)
     /\ h[s].id < nextId
     /\ ~Known(h[s].id)
     /\ \A w \in writes : w.id # h[s].id
     /\ \A t \in Slot \ {s} :
          At(t, "inserted") \/ h[t].op \in {"update", "remove"} => h[t].id # h[s].id

\* init() has the server for itself, and loads rows that are still there.
BootIsAlone ==
  h[Boot] # Idle =>
     /\ h[Boot].op = "init"
     /\ \A s \in Slot : h[s] = Idle
     /\ writes = {} /\ uncommitted = {} /\ undone = {}
     /\ At(Boot, "selecting") => KnownIds = {}
     /\ \A id \in h[Boot].todo : rows[id] # NoRow /\ snapshot[id] = rows[id] /\ ~Known(id)

OrderInv ==
  /\ CachedIsStored /\ HandedOut /\ LockedIsStored /\ DeletedIsUncached
  /\ InsertedIsPrivate /\ BootIsAlone

TypeInv ==
  /\ TypeOK
  /\ CachedAreObjects
  /\ \A p \in Slot \cup {Boot} : WellFormed(p)
-----------------------------------------------------------------------------
(***************************************************************************)
(* Why no row is forgotten, if no statement fails: the invariant behind    *)
(* StoredIsAccountedFor.                                                   *)
(***************************************************************************)
\* A component that an update is under way for, or sent for, is in the map
\* unless its row is gone or about to go: an UPDATE gives no forgotten row a
\* pin that can be driven.
UpdatedIsAccountedFor ==
  \A id \in Id :
     \/ \E s \in Slot : h[s].op = "update" /\ h[s].id = id
     \/ \E w \in writes : w.id = id /\ w.row # NoRow
     => rows[id] = NoRow \/ Known(id) \/ Deletes(id)

AccountInv == StoredIsAccountedFor /\ UpdatedIsAccountedFor
-----------------------------------------------------------------------------
(***************************************************************************)
(* Why rows follow the cache: the invariant behind TableFollowsCache.      *)
(***************************************************************************)
\* No two ids share an object, and an update holds the one in the map, if any.
RefsOf(id) == {id} \X {"init", "add"}

ObjectsAreOwn ==
  /\ \A id \in KnownIds : components[id] \in RefsOf(id)
  /\ \A s \in Slot : h[s].op = "update" =>
       /\ h[s].c \in RefsOf(h[s].id)
       /\ Known(h[s].id) => h[s].c = components[h[s].id]

\* The UPDATEs of an id that are pending carry what is cached, and without any the
\* row does.
RowFollows(id) ==
  LET row == Stored(Comp(id).row)
  IN /\ \A w \in writes : w.id = id => w.row = row
     /\ (\A w \in writes : w.id # id) => rows[id] = row

FollowInv ==
  /\ ObjectsAreOwn
  /\ \A id \in KnownIds \ doubtful : rows[id] # NoRow => RowFollows(id)
=============================================================================
