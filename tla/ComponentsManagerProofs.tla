------------------------ MODULE ComponentsManagerProofs ------------------------
(***************************************************************************)
(* Theorems about ComponentsManager, for every number of requests, ids and *)
(* pins.                                                                   *)
(***************************************************************************)
EXTENDS ComponentsManager, TLAPS

USE GpioAssumption, ComponentsManagerAssumption DEF Initializing, tableVars, sentVars

\* The lines of the header.
LEMMA LineOfPin ==
  ASSUME NEW pin \in HeaderPin
  PROVE  convertPhysicalPin[pin] \in Line
  BY DEF Line, convertPhysicalPin

LEMMA NewGpioType ==
  ASSUME NEW row \in Row, ValidPin(row.physicalPin), NEW dir \in Direction
  PROVE  NewGpio(row.physicalPin, dir) \in GpioObject
  BY LineOfPin DEF Row, GpioObject, NewGpio, ValidPin

LEMMA WiredType ==
  ASSUME NEW row
  PROVE  WiredAs(row) \in Direction
  BY DEF WiredAs, Direction

\* The table takes the pin as a number and the direction in small letters, and a
\* request may mention what the table holds.
LEMMA StoredType ==
  ASSUME NEW row \in Row
  PROVE  Stored(row) \in StoredRow
  <1>1. row.physicalPin \in PhysicalPin /\ row.physicalPin \in Int
    BY DEF Row
  <1>2. PinNumber(row.physicalPin) \in PhysicalPin
    BY <1>1
  <1>3. PinNumber(row.physicalPin) \in Nat
    BY <1>1 DEF PinNumber
  <1> QED  BY <1>2, <1>3 DEF Stored, StoredRow, Direction

LEMMA StoredRowIsRow ==
  ASSUME NEW row \in StoredRow
  PROVE  row \in Row /\ row # NoRow
  BY DEF Row, StoredRow, NoRow, Direction, DIR_IN, DIR_OUT

LEMMA ValidIsRow ==
  ASSUME NEW row \in Row \cup {NoRow}, ValidPin(row.physicalPin)
  PROVE  row \in Row
  BY DEF NoRow, ValidPin, HeaderPin

LEMMA RowIsSome ==
  ASSUME NEW row \in Row
  PROVE  row # NoRow
  BY DEF Row, NoRow

\* What an await, a pause and an end leave behind.
LEMMA AwaitType ==
  ASSUME TypeOK, NEW p \in Handlers, NEW handler \in Handler,
         NEW verb \in Verb, NEW line \in Line, Await(p, handler, verb, line)
  PROVE  /\ h' \in [Handlers -> Handler]
         /\ h' = [h EXCEPT ![p] = handler]
         /\ exec' \in [Proc \cup Orphan -> Exec \cup {NoExec}]
         /\ answer' \in Answer \cup {NoAnswer}
  BY DEF TypeOK, GpioTypeOK, Handlers, Await, Issue, Exec

LEMMA GotoType ==
  ASSUME TypeOK, NEW p \in Handlers, NEW handler \in Handler, Goto(p, handler)
  PROVE  /\ h' \in [Handlers -> Handler]
         /\ h' = [h EXCEPT ![p] = handler]
         /\ exec' \in [Proc \cup Orphan -> Exec \cup {NoExec}]
         /\ answer' \in Answer \cup {NoAnswer}
  BY DEF TypeOK, GpioTypeOK, Handlers, Goto

LEMMA FinishType ==
  ASSUME TypeOK, NEW p \in Handlers, NEW op \in {"toggle", "update", "add", "remove", "list"},
         NEW id \in Id \cup {0}, NEW reply \in Reply, Finish(p, op, id, reply)
  PROVE  /\ h' \in [Handlers -> Handler]
         /\ h' = [h EXCEPT ![p] = Idle]
         /\ exec' \in [Proc \cup Orphan -> Exec \cup {NoExec}]
         /\ answer' \in Answer \cup {NoAnswer}
  BY DEF TypeOK, GpioTypeOK, Handlers, Finish, Answer, Handler, Idle, NoRow

LEMMA RunType ==
  ASSUME TypeOK, GpioNext
  PROVE  GpioTypeOK'
  <1>1. ASSUME NEW p \in Proc, RunCommand(p)  PROVE GpioTypeOK'
    BY <1>1 DEF TypeOK, GpioTypeOK, RunCommand, Perform, Pending, OutputOf, Output, Exec, NoExec, kernel
  <1>2. ASSUME NEW p \in Proc, Timeout(p)  PROVE GpioTypeOK'
    BY <1>2 DEF TypeOK, GpioTypeOK, Timeout, Pending, Output, Exec, NoExec, kernel
  <1>3. ASSUME NEW o \in Orphan, RunOrphan(o)  PROVE GpioTypeOK'
    BY <1>3 DEF TypeOK, GpioTypeOK, RunOrphan, Perform, Pending, Output, Exec, NoExec, kernel
  <1> QED  BY <1>1, <1>2, <1>3 DEF GpioNext

\* Objects are never taken away from those who hold them.
ObjectsStay == \A ref \in Ref : objects[ref] \in Component => objects'[ref] \in Component

DataTypeOK ==
  /\ components \in [Id -> Ref \cup {Undefined}]
  /\ objects \in [Ref -> Component \cup {NoComponent}]
  /\ rows \in [Id -> StoredRow \cup {NoRow}]
  /\ nextId \in 1..MaxId + 1
  /\ uncommitted \subseteq Id /\ undone \subseteq Id
  /\ unserved \subseteq Id /\ doubtful \subseteq Id
  /\ writes \subseteq [id : Id, row : StoredRow \cup {NoRow}]
  /\ resent \subseteq writes
  /\ snapshot \in [Id -> StoredRow \cup {NoRow}]
  /\ restarts \in 0..MaxRestarts

\* What a step does to the data is in order.
DataStep == DataTypeOK' /\ CachedAreObjects' /\ ObjectsStay /\ UNCHANGED kernel

LEMMA UnchangedData ==
  ASSUME TypeInv, UNCHANGED <<kernel, cacheVars, dbVars, bootVars>>
  PROVE  DataStep
  BY DEF TypeInv, TypeOK, DataStep, DataTypeOK, CachedAreObjects, ObjectsStay, KnownIds,
         Known, Comp, cacheVars, dbVars, bootVars

\* A step of p, seen from the others.
LEMMA FrameType ==
  ASSUME TypeInv, NEW p \in Handlers, NEW handler \in Handler,
         h' = [h EXCEPT ![p] = handler],
         exec' \in [Proc \cup Orphan -> Exec \cup {NoExec}],
         answer' \in Answer \cup {NoAnswer},
         DataStep, WellFormed(p)'
  PROVE  TypeInv'
  <1>1. TypeOK'
    BY DEF TypeInv, TypeOK, GpioTypeOK, DataStep, DataTypeOK, kernel, Handlers
  <1>2. ASSUME NEW q \in Handlers  PROVE WellFormed(q)'
    <2>1. CASE q = p
      BY <2>1
    <2>2. CASE q # p
      <3>1. h'[q] = h[q] /\ WellFormed(q)
        BY <2>2 DEF TypeInv, TypeOK, Handlers
      <3> QED  BY <3>1 DEF WellFormed, DataStep, ObjectsStay, At
    <2> QED  BY <2>1, <2>2
  <1> QED  BY <1>1, <1>2 DEF TypeInv, DataStep, Handlers

LEMMA AwaitStep ==
  ASSUME TypeInv, NEW p \in Handlers, NEW handler \in Handler,
         NEW verb \in Verb, NEW line \in Line, Await(p, handler, verb, line),
         DataStep, h'[p] = handler => WellFormed(p)'
  PROVE  TypeInv'
  <1>1. /\ h' = [h EXCEPT ![p] = handler]
        /\ exec' \in [Proc \cup Orphan -> Exec \cup {NoExec}]
        /\ answer' \in Answer \cup {NoAnswer}
    BY AwaitType DEF TypeInv
  <1>2. h'[p] = handler
    BY <1>1 DEF TypeInv, TypeOK, Handlers
  <1> QED  BY <1>1, <1>2, FrameType

LEMMA GotoStep ==
  ASSUME TypeInv, NEW p \in Handlers, NEW handler \in Handler, Goto(p, handler),
         DataStep, h'[p] = handler => WellFormed(p)'
  PROVE  TypeInv'
  <1>1. /\ h' = [h EXCEPT ![p] = handler]
        /\ exec' \in [Proc \cup Orphan -> Exec \cup {NoExec}]
        /\ answer' \in Answer \cup {NoAnswer}
    BY GotoType DEF TypeInv
  <1>2. h'[p] = handler
    BY <1>1 DEF TypeInv, TypeOK, Handlers
  <1> QED  BY <1>1, <1>2, FrameType

LEMMA IdleIsWellFormed ==
  ASSUME NEW p, h[p] = Idle
  PROVE  WellFormed(p)
  BY DEF WellFormed, Idle, At

LEMMA IdleType == Idle \in Handler /\ Idle.pc = "idle" /\ Idle.op = "none"
  BY DEF Idle, Handler, NoRow

LEMMA FinishStep ==
  ASSUME TypeInv, NEW p \in Handlers, NEW op \in {"toggle", "update", "add", "remove", "list"},
         NEW id \in Id \cup {0}, NEW reply \in Reply, Finish(p, op, id, reply), DataStep
  PROVE  TypeInv'
  <1>1. /\ h' = [h EXCEPT ![p] = Idle]
        /\ exec' \in [Proc \cup Orphan -> Exec \cup {NoExec}]
        /\ answer' \in Answer \cup {NoAnswer}
    BY FinishType DEF TypeInv
  <1>2. h'[p] = Idle
    BY <1>1 DEF TypeInv, TypeOK, Handlers
  <1>3. WellFormed(p)'
    BY <1>2 DEF WellFormed, At, Idle
  <1> QED  BY <1>1, <1>3, IdleType, FrameType

LEMMA CachedType ==
  ASSUME TypeInv, NEW id \in Id, Known(id)
  PROVE  /\ components[id] \in Ref
         /\ Comp(id) \in Component
         /\ Comp(id).row \in Row
         /\ Comp(id).gpio \in GpioObject
         /\ Comp(id).gpio.pinNo \in Line
  <1>1. Comp(id) \in Component
    BY DEF TypeInv, CachedAreObjects, KnownIds
  <1> QED  BY <1>1 DEF TypeInv, TypeOK, Known, Component, GpioObject
-----------------------------------------------------------------------------
(***************************************************************************)
(* The steps of requests keep the types.                                   *)
(***************************************************************************)
LEMMA ToggleType ==
  ASSUME TypeInv, NEW s \in Slot, NEW id \in Id, NEW status \in Status,
         Toggle(s, id, status)
  PROVE  TypeInv'
  <1> DEFINE handler == [Idle EXCEPT !.pc = "toggling", !.op = "toggle", !.id = id]
  <1>1. DataStep /\ s \in Handlers
    BY UnchangedData DEF Toggle, Handlers
  <1>2. CASE /\ Drivable(id) /\ status # "invalid"
             /\ Await(s, handler, status, Comp(id).gpio.pinNo)
    <2>1. handler \in Handler
      BY IdleType DEF Handler, Idle, NoRow
    <2>2. status \in Verb /\ Comp(id).gpio.pinNo \in Line
      BY <1>2, CachedType DEF Status, Verb, Drivable
    <2>3. h'[s] = handler => WellFormed(s)'
      BY DEF WellFormed, At, Idle
    <2> QED  BY <1>1, <1>2, <2>1, <2>2, <2>3, AwaitStep
  <1>3. CASE Finish(s, "toggle", id, "INVALID_FORMAT")
    BY <1>1, <1>3, FinishStep DEF Reply
  <1> QED  BY <1>2, <1>3 DEF Toggle

LEMMA ToggledType ==
  ASSUME TypeInv, NEW s \in Slot, Toggled(s)
  PROVE  TypeInv'
  <1>1. DataStep /\ s \in Handlers
    BY UnchangedData DEF Toggled, Handlers
  <1>2. h[s].id \in Id \cup {0}
    BY DEF TypeInv, TypeOK, Handler
  <1>3. (IF Ok(s) THEN "OK" ELSE "SERVER_ERR") \in Reply
    BY DEF Reply
  <1> QED  BY <1>1, <1>2, <1>3, FinishStep DEF Toggled

\* What executeUpdate stores is in order.
LEMMA StoreUpdateType ==
  ASSUME TypeInv, NEW id \in Id, NEW c \in Ref, objects[c] \in Component, NEW row \in Row,
         StoreUpdate(id, c, row),
         UNCHANGED <<kernel, components, tableVars, bootVars>>
  PROVE  DataStep
  <1>1. [objects[c] EXCEPT !.row = row] \in Component
    BY DEF Component
  <1>2. objects' = [objects EXCEPT ![c] = [objects[c] EXCEPT !.row = row]]
    BY DEF StoreUpdate
  <1>3. objects' \in [Ref -> Component \cup {NoComponent}] /\ ObjectsStay
    BY <1>1, <1>2 DEF TypeInv, TypeOK, ObjectsStay
  <1>4. DataTypeOK'
    BY <1>3, StoredType DEF TypeInv, TypeOK, DataTypeOK, StoreUpdate, SendUpdate, bootVars
  <1>5. CachedAreObjects'
    BY <1>3, CachedType DEF TypeInv, TypeOK, CachedAreObjects, KnownIds, Known, Comp, ObjectsStay
  <1> QED  BY <1>3, <1>4, <1>5 DEF DataStep

LEMMA MergeType ==
  ASSUME NEW data \in UpdateData, NEW row \in Row
  PROVE  Merge(data, row) \in Row
  BY DEF Merge, UpdateData, Row, NoRow

LEMMA UpdateType ==
  ASSUME TypeInv, NEW s \in Slot, NEW id \in Id, NEW data \in UpdateData,
         Update(s, id, data)
  PROVE  TypeInv'
  <1>0. s \in Handlers
    BY DEF Handlers
  <1>1. CASE Finish(s, "update", id, "silent") /\ UNCHANGED <<objects, sentVars>>
    <2>1. DataStep
      BY <1>1, UnchangedData DEF Update, cacheVars, dbVars
    <2> QED  BY <1>0, <1>1, <2>1, FinishStep DEF Reply
  <1>2. CASE Known(id)
    <2> DEFINE c == Comp(id)
               row == Merge(data, c.row)
               handler == [Idle EXCEPT !.op = "update", !.id = id,
                                       !.c = components[id], !.row = row]
    <2>0. /\ components[id] \in Ref /\ objects[components[id]] \in Component
          /\ row \in Row /\ c.gpio.pinNo \in Line
      BY <1>2, CachedType, MergeType DEF Comp
    <2>1. ASSUME StoreUpdate(id, components[id], row), Finish(s, "update", id, "OK")
          PROVE  TypeInv'
      <3>1. DataStep
        BY <2>0, <2>1, StoreUpdateType DEF Update
      <3> QED  BY <1>0, <2>1, <3>1, FinishStep DEF Reply
    <2>2. ASSUME NEW pc \in {"turning off", "unexporting"}, NEW verb \in {"0", "unexport"},
                 UNCHANGED <<objects, sentVars>>,
                 Await(s, [handler EXCEPT !.pc = pc], verb, c.gpio.pinNo)
          PROVE  TypeInv'
      <3>1. DataStep
        BY <2>2, UnchangedData DEF Update, cacheVars, dbVars
      <3>2. [handler EXCEPT !.pc = pc] \in Handler
        BY <2>0 DEF Handler, Idle
      <3>3. h'[s] = [handler EXCEPT !.pc = pc] => WellFormed(s)'
        BY <2>0, <2>2, <3>1 DEF WellFormed, At, Idle, DataStep, ObjectsStay
      <3>4. verb \in Verb
        BY DEF Verb
      <3> QED  BY <1>0, <2>0, <2>2, <3>1, <3>2, <3>3, <3>4, AwaitStep
    <2>3. ASSUME UNCHANGED <<objects, sentVars>>, Finish(s, "update", id, "silent")
          PROVE  TypeInv'
      BY <1>1, <2>3
    <2> QED  BY <1>2, <2>1, <2>2, <2>3 DEF Update
  <1> QED  BY <1>1, <1>2 DEF Update

\* What a suspended request holds.
LEMMA HandlerType ==
  ASSUME TypeInv, NEW p \in Handlers
  PROVE  /\ h[p] \in Handler
         /\ WellFormed(p)
  BY DEF TypeInv, TypeOK, Handlers

LEMMA UpdateTurnedOffType ==
  ASSUME TypeInv, NEW s \in Slot, UpdateTurnedOff(s)
  PROVE  TypeInv'
  <1> DEFINE handler == [h[s] EXCEPT !.pc = "unexporting"]
  <1>0. s \in Handlers /\ h[s] \in Handler /\ WellFormed(s)
    BY HandlerType DEF Handlers
  <1>1. DataStep
    BY UnchangedData DEF UpdateTurnedOff
  <1>2. handler \in Handler /\ handler.op = "update" /\ handler.pc = "unexporting"
        /\ handler.id = h[s].id /\ handler.row = h[s].row /\ handler.c = h[s].c
    BY <1>0 DEF Handler, UpdateTurnedOff
  <1>3. "unexport" \in Verb /\ objects[h[s].c].gpio.pinNo \in Line
    BY <1>0 DEF Verb, WellFormed, UpdateTurnedOff, Component, GpioObject
  <1>4. h'[s] = handler => WellFormed(s)'
    BY <1>0, <1>1, <1>2 DEF WellFormed, At, DataStep, ObjectsStay, UpdateTurnedOff
  <1> QED  BY <1>0, <1>1, <1>2, <1>3, <1>4, AwaitStep DEF UpdateTurnedOff

LEMMA UpdateUnexportedType ==
  ASSUME TypeInv, NEW s \in Slot, UpdateUnexported(s)
  PROVE  TypeInv'
  <1> DEFINE c == h[s].c
             row == h[s].row
             gpio == NewGpio(row.physicalPin, row.direction)
             handler == [h[s] EXCEPT !.pc = "exporting"]
  <1>0. s \in Handlers /\ h[s] \in Handler /\ WellFormed(s)
    BY HandlerType DEF Handlers
  <1>1. h[s].id \in Id /\ row \in Row /\ c \in Ref /\ objects[c] \in Component
    BY <1>0 DEF WellFormed, UpdateUnexported
  <1>2. CASE /\ Wirable(row)
             /\ objects' = [objects EXCEPT ![c].gpio = gpio]
             /\ Await(s, handler, "export", gpio.pinNo)
    <2>1. gpio \in GpioObject /\ gpio.pinNo \in Line
      BY <1>1, <1>2, NewGpioType DEF GpioObject, Wirable
    <2>2. [objects[c] EXCEPT !.gpio = gpio] \in Component
      BY <1>1, <2>1 DEF Component
    <2>3. objects' = [objects EXCEPT ![c] = [objects[c] EXCEPT !.gpio = gpio]]
      BY <1>2
    <2>4. objects' \in [Ref -> Component \cup {NoComponent}] /\ ObjectsStay
      BY <2>2, <2>3 DEF TypeInv, TypeOK, ObjectsStay
    <2>5. DataTypeOK'
      BY <2>4 DEF TypeInv, TypeOK, DataTypeOK, UpdateUnexported, dbVars, bootVars
    <2>6. CachedAreObjects'
      BY <2>4, CachedType DEF TypeInv, TypeOK, CachedAreObjects, KnownIds, Known, Comp,
                              ObjectsStay, UpdateUnexported
    <2>7. handler \in Handler /\ handler.op = "update" /\ handler.pc = "exporting"
          /\ handler.id = h[s].id /\ handler.row = h[s].row /\ handler.c = h[s].c
      BY <1>0 DEF Handler, UpdateUnexported
    <2>8. h'[s] = handler => WellFormed(s)'
      BY <1>1, <1>2, <2>4, <2>7 DEF WellFormed, At, ObjectsStay, Wirable
    <2>9. DataStep /\ "export" \in Verb
      BY <2>4, <2>5, <2>6 DEF DataStep, UpdateUnexported, Verb
    <2> QED  BY <1>0, <1>2, <2>1, <2>7, <2>8, <2>9, AwaitStep
  <1>3. CASE Finish(s, "update", h[s].id, "SERVER_ERR") /\ UNCHANGED objects
    <2>1. DataStep
      BY <1>3, UnchangedData DEF UpdateUnexported, cacheVars
    <2> QED  BY <1>0, <1>1, <1>3, <2>1, FinishStep DEF Reply
  <1> QED  BY <1>2, <1>3 DEF UpdateUnexported

LEMMA AddType ==
  ASSUME TypeInv, NEW s \in Slot, NEW data \in UpdateData, Add(s, data)
  PROVE  TypeInv'
  <1> DEFINE handler == [Idle EXCEPT !.pc = "inserting", !.op = "add", !.row = data]
  <1>0. s \in Handlers /\ DataStep
    BY UnchangedData DEF Handlers, Add
  <1>1. CASE data \in Row /\ Goto(s, handler)
    <2>1. handler \in Handler
      BY <1>1, IdleType DEF Handler, Idle
    <2>2. h'[s] = handler => WellFormed(s)'
      BY <1>1 DEF WellFormed, At, Idle
    <2> QED  BY <1>0, <1>1, <2>1, <2>2, GotoStep
  <1>2. ASSUME NEW reply \in Reply, Finish(s, "add", 0, reply)
        PROVE  TypeInv'
    BY <1>0, <1>2, FinishStep
  <1> QED  BY <1>1, <1>2 DEF Add, Reply

LEMMA InsertType ==
  ASSUME TypeInv, NEW s \in Slot, Insert(s)
  PROVE  TypeInv'
  <1> DEFINE row == h[s].row
             handler == [h[s] EXCEPT !.pc = "inserted", !.id = nextId]
  <1>0. s \in Handlers /\ h[s] \in Handler /\ row \in Row /\ h[s].op = "add"
    BY HandlerType DEF Handlers, WellFormed, Insert
  <1>1. CASE /\ nextId <= MaxId
             /\ rows' = [rows EXCEPT ![nextId] = Stored(row)]
             /\ nextId' = nextId + 1
             /\ uncommitted' = uncommitted \cup {nextId}
             /\ Goto(s, handler)
    <2>1. nextId \in Id
      BY <1>1 DEF TypeInv, TypeOK, Id
    <2>2. DataStep
      BY <1>0, <1>1, <2>1, StoredType DEF TypeInv, TypeOK, DataStep, DataTypeOK, CachedAreObjects,
           ObjectsStay, KnownIds, Known, Comp, Id, Insert, cacheVars, bootVars
    <2>3. handler \in Handler /\ handler.op = "add" /\ handler.pc = "inserted"
          /\ handler.id = nextId /\ handler.row = row
      BY <1>0, <2>1 DEF Handler
    <2>4. h'[s] = handler => WellFormed(s)'
      BY <1>0, <2>1, <2>3 DEF WellFormed, At
    <2> QED  BY <1>0, <1>1, <2>2, <2>3, <2>4, GotoStep
  <1>2. CASE Finish(s, "add", 0, "INVALID_FORMAT") /\ UNCHANGED <<rows, nextId, uncommitted>>
    <2>1. DataStep
      BY <1>2, UnchangedData DEF Insert, dbVars
    <2> QED  BY <1>0, <1>2, <2>1, FinishStep DEF Reply
  <1> QED  BY <1>1, <1>2 DEF Insert

\* The entry that init() and addComponent make for a row.
LEMMA NewEntry ==
  ASSUME TypeInv, NEW id \in Id, NEW maker \in {"init", "add"}, NEW row \in Row,
         ValidPin(row.physicalPin),
         components' = [components EXCEPT ![id] = <<id, maker>>],
         objects' = [objects EXCEPT ![<<id, maker>>] =
           [row |-> row, gpio |-> NewGpio(row.physicalPin, WiredAs(row))]]
  PROVE  /\ components' \in [Id -> Ref \cup {Undefined}]
         /\ objects' \in [Ref -> Component \cup {NoComponent}]
         /\ ObjectsStay
         /\ CachedAreObjects'
         /\ NewGpio(row.physicalPin, WiredAs(row)).pinNo \in Line
  <1> DEFINE ref == <<id, maker>>
             new == [row |-> row, gpio |-> NewGpio(row.physicalPin, WiredAs(row))]
  <1>1. new \in Component /\ new.gpio.pinNo \in Line
    BY NewGpioType, WiredType DEF Component, GpioObject
  <1>2. ref \in Ref
    BY DEF Ref
  <1>3. /\ components' \in [Id -> Ref \cup {Undefined}]
        /\ objects' \in [Ref -> Component \cup {NoComponent}]
        /\ ObjectsStay
    BY <1>1, <1>2 DEF TypeInv, TypeOK, ObjectsStay
  <1>4. ASSUME NEW i \in Id, Known(i)'  PROVE Comp(i)' \in Component
    <2>1. CASE i = id
      BY <1>1, <1>2, <2>1 DEF TypeInv, TypeOK, Comp
    <2>2. CASE i # id
      <3>1. Known(i) /\ components'[i] = components[i]
        BY <1>4, <2>2 DEF TypeInv, TypeOK, Known
      <3>2. components[i] \in Ref /\ objects[components[i]] \in Component
        BY <3>1, CachedType DEF Comp
      <3> QED  BY <1>3, <3>1, <3>2 DEF Comp, ObjectsStay
    <2> QED  BY <2>1, <2>2
  <1> QED  BY <1>1, <1>3, <1>4 DEF CachedAreObjects, KnownIds

LEMMA InsertedType ==
  ASSUME TypeInv, NEW s \in Slot, Inserted(s)
  PROVE  TypeInv'
  <1> DEFINE id == h[s].id
             row == h[s].row
             gpio == NewGpio(row.physicalPin, WiredAs(row))
             handler == [h[s] EXCEPT !.pc = "exporting"]
  <1>0. s \in Handlers /\ h[s] \in Handler /\ row \in Row /\ h[s].op = "add" /\ id \in Id
    BY HandlerType DEF Handlers, WellFormed, Inserted
  <1>1. CASE /\ ValidPin(row.physicalPin)
             /\ components' = [components EXCEPT ![id] = <<id, "add">>]
             /\ objects' = [objects EXCEPT ![<<id, "add">>] = [row |-> row, gpio |-> gpio]]
             /\ Await(s, handler, "export", gpio.pinNo)
             /\ UNCHANGED unserved
    <2>1. /\ components' \in [Id -> Ref \cup {Undefined}]
          /\ objects' \in [Ref -> Component \cup {NoComponent}]
          /\ ObjectsStay /\ CachedAreObjects' /\ gpio.pinNo \in Line
      <3> DEFINE maker == "add"
      <3>1. maker \in {"init", "add"}
        OBVIOUS
      <3> HIDE DEF maker
      <3>2. /\ components' = [components EXCEPT ![id] = <<id, maker>>]
            /\ objects' = [objects EXCEPT ![<<id, maker>>] =
                              [row |-> row, gpio |-> gpio]]
        BY <1>1 DEF maker
      <3> QED  BY <1>0, <1>1, <3>1, <3>2, NewEntry
    <2>2. DataStep
      BY <1>1, <2>1 DEF TypeInv, TypeOK, DataStep, DataTypeOK, Inserted, dbVars, bootVars
    <2>3. handler \in Handler /\ handler.op = "add" /\ handler.pc = "exporting"
          /\ handler.id = id /\ handler.row = row
      BY <1>0 DEF Handler
    <2>4. h'[s] = handler => WellFormed(s)'
      BY <1>0, <1>1, <2>3 DEF WellFormed, At
    <2> QED  BY <1>0, <1>1, <2>1, <2>2, <2>3, <2>4, AwaitStep DEF Verb
  <1>2. CASE /\ Finish(s, "add", id, "OK")
             /\ unserved' = unserved \cup {id}
             /\ UNCHANGED cacheVars
    <2>1. DataStep
      BY <1>0, <1>2 DEF TypeInv, TypeOK, DataStep, DataTypeOK, CachedAreObjects, ObjectsStay,
           KnownIds, Known, Comp, Inserted, cacheVars, bootVars
    <2> QED  BY <1>0, <1>2, <2>1, FinishStep DEF Reply
  <1> QED  BY <1>1, <1>2 DEF Inserted

LEMMA AwaitUnexportType ==
  ASSUME TypeInv, NEW s \in Slot, NEW id \in Id, AwaitUnexport(s, id), DataStep
  PROVE  TypeInv'
  <1> DEFINE handler == [Idle EXCEPT !.pc = "unexporting", !.op = "remove", !.id = id]
  <1>0. s \in Handlers
    BY DEF Handlers
  <1>1. CASE Known(id) /\ Await(s, handler, "unexport", Comp(id).gpio.pinNo)
    <2>1. handler \in Handler /\ Comp(id).gpio.pinNo \in Line
      BY <1>1, IdleType, CachedType DEF Handler, Idle
    <2>2. h'[s] = handler => WellFormed(s)'
      BY DEF WellFormed, At, Idle
    <2> QED  BY <1>0, <1>1, <2>1, <2>2, AwaitStep DEF Verb
  <1>2. CASE Finish(s, "remove", id, "SERVER_ERR")
    BY <1>0, <1>2, FinishStep DEF Reply
  <1> QED  BY <1>1, <1>2 DEF AwaitUnexport

LEMMA RemoveType ==
  ASSUME TypeInv, NEW s \in Slot, NEW id \in Id, Remove(s, id)
  PROVE  TypeInv'
  <1> DEFINE handler == [Idle EXCEPT !.pc = "turning off", !.op = "remove", !.id = id]
  <1>0. s \in Handlers /\ DataStep
    BY UnchangedData DEF Handlers, Remove
  <1>1. CASE AwaitUnexport(s, id)
    BY <1>0, <1>1, AwaitUnexportType
  <1>2. CASE Drivable(id) /\ Await(s, handler, "0", Comp(id).gpio.pinNo)
    <2>1. handler \in Handler /\ Comp(id).gpio.pinNo \in Line
      BY <1>2, IdleType, CachedType DEF Handler, Idle, Drivable
    <2>2. h'[s] = handler => WellFormed(s)'
      BY DEF WellFormed, At, Idle
    <2> QED  BY <1>0, <1>2, <2>1, <2>2, AwaitStep DEF Verb
  <1>3. CASE Finish(s, "remove", id, "SERVER_ERR")
    BY <1>0, <1>3, FinishStep DEF Reply
  <1> QED  BY <1>1, <1>2, <1>3 DEF Remove

LEMMA RemoveTurnedOffType ==
  ASSUME TypeInv, NEW s \in Slot, RemoveTurnedOff(s)
  PROVE  TypeInv'
  <1>1. h[s].id \in Id /\ DataStep
    BY HandlerType, UnchangedData DEF Handlers, WellFormed, RemoveTurnedOff
  <1> QED  BY <1>1, AwaitUnexportType DEF RemoveTurnedOff

LEMMA RemoveUnexportedType ==
  ASSUME TypeInv, NEW s \in Slot, RemoveUnexported(s)
  PROVE  TypeInv'
  <1>1. h[s].id \in Id /\ s \in Handlers
    BY HandlerType DEF Handlers, WellFormed, RemoveUnexported
  <1>2. DataTypeOK' /\ ObjectsStay
    BY <1>1 DEF TypeInv, TypeOK, DataTypeOK, ObjectsStay, RemoveUnexported, SendDelete, bootVars
  <1>3. CachedAreObjects'
    BY <1>1 DEF TypeInv, TypeOK, CachedAreObjects, KnownIds, Known, Comp, RemoveUnexported
  <1>4. DataStep
    BY <1>2, <1>3 DEF DataStep, RemoveUnexported
  <1> QED  BY <1>1, <1>4, FinishStep DEF RemoveUnexported, Reply

LEMMA VisitType ==
  ASSUME TypeInv, NEW s \in Slot, NEW todo \in SUBSET Id, Visit(s, todo), DataStep
  PROVE  TypeInv'
  <1> DEFINE left == {i \in todo : Known(i)}
             handler(id, pc) == [Idle EXCEPT !.pc = pc, !.op = "list", !.id = id,
                                             !.todo = left \ {id}]
  <1>0. s \in Handlers
    BY DEF Handlers
  <1>1. ASSUME NEW id \in left, NEW pc \in {"isOn", "readValue"},
               Await(s, handler(id, pc), "cat", Comp(id).gpio.pinNo)
        PROVE  TypeInv'
    <2>1. handler(id, pc) \in Handler /\ Comp(id).gpio.pinNo \in Line
      BY IdleType, CachedType DEF Handler, Idle
    <2>2. h'[s] = handler(id, pc) => WellFormed(s)'
      BY DEF WellFormed, At, Idle
    <2> QED  BY <1>0, <1>1, <2>1, <2>2, AwaitStep DEF Verb
  <1>2. ASSUME NEW reply \in {"OK", "silent"}, Finish(s, "list", 0, reply)
        PROVE  TypeInv'
    BY <1>0, <1>2, FinishStep DEF Reply
  <1> QED  BY <1>1, <1>2 DEF Visit

LEMMA ListType ==
  ASSUME TypeInv, NEW s \in Slot, List(s)
  PROVE  TypeInv'
  BY VisitType, UnchangedData DEF List, KnownIds

LEMMA ReadType ==
  ASSUME TypeInv, NEW s \in Slot, Read(s)
  PROVE  TypeInv'
  <1>1. s \in Handlers /\ DataStep /\ h[s].todo \in SUBSET Id
    BY HandlerType, UnchangedData DEF Handlers, Handler, Read
  <1>2. CASE Visit(s, h[s].todo)
    BY <1>1, <1>2, VisitType
  <1>3. CASE Finish(s, "list", 0, "silent")
    BY <1>1, <1>3, FinishStep DEF Reply
  <1> QED  BY <1>2, <1>3 DEF Read
-----------------------------------------------------------------------------
(***************************************************************************)
(* So do those of init(), of Gpio.init(), of the database and of sysfs.    *)
(***************************************************************************)
LEMMA LoadFromType ==
  ASSUME TypeInv, NEW todo \in SUBSET Id, NEW table \in [Id -> StoredRow \cup {NoRow}],
         LoadFrom(todo, table), UNCHANGED <<kernel, dbVars, restarts>>
  PROVE  TypeInv'
  <1> DEFINE loadable == {i \in todo : ValidPin(table[i].physicalPin)}
             gpio(id) == NewGpio(table[id].physicalPin, WiredAs(table[id]))
             handler(id) == [Idle EXCEPT !.pc = "exporting", !.op = "init", !.id = id,
                                         !.row = table[id], !.todo = loadable \ {id}]
  <1>0. Boot \in Handlers
    BY DEF Handlers
  <1>1. CASE Goto(Boot, Idle) /\ snapshot' = NoRows /\ UNCHANGED cacheVars
    <2>1. NoRows \in [Id -> StoredRow \cup {NoRow}]
      BY DEF NoRows
    <2>2. DataStep
      BY <1>1, <2>1 DEF TypeInv, TypeOK, DataStep, DataTypeOK, CachedAreObjects,
           ObjectsStay, KnownIds, Known, Comp, cacheVars, dbVars
    <2>3. h'[Boot] = Idle => WellFormed(Boot)'
      BY DEF WellFormed, Idle, At
    <2> QED  BY <1>0, <1>1, <2>2, <2>3, IdleType, GotoStep
  <1>2. ASSUME NEW id \in loadable,
               components' = [components EXCEPT ![id] = <<id, "init">>],
               objects' = [objects EXCEPT ![<<id, "init">>] =
                             [row |-> table[id], gpio |-> gpio(id)]],
               snapshot' = table,
               Await(Boot, handler(id), "export", gpio(id).pinNo)
        PROVE  TypeInv'
    <2>1. table[id] \in Row
      BY ValidIsRow, StoredRowIsRow
    <2>2. /\ components' \in [Id -> Ref \cup {Undefined}]
          /\ objects' \in [Ref -> Component \cup {NoComponent}]
          /\ ObjectsStay /\ CachedAreObjects' /\ gpio(id).pinNo \in Line
      BY <1>2, <2>1, NewEntry
    <2>3. DataStep
      BY <1>2, <2>2 DEF TypeInv, TypeOK, DataStep, DataTypeOK, dbVars
    <2>4. handler(id) \in Handler
      BY <2>1, IdleType DEF Handler, Idle
    <2>5. h'[Boot] = handler(id) => WellFormed(Boot)'
      BY <2>1 DEF WellFormed, At, Idle
    <2> QED  BY <1>0, <1>2, <2>2, <2>3, <2>4, <2>5, AwaitStep DEF Verb
  <1> QED  BY <1>1, <1>2 DEF LoadFrom

LEMMA SelectType ==
  ASSUME TypeInv, Select
  PROVE  TypeInv'
  <1>1. CASE LoadFrom(StoredIds(rows) \ uncommitted, rows)
    BY <1>1, LoadFromType DEF Select, StoredIds, TypeInv, TypeOK
  <1>2. CASE Goto(Boot, Idle) /\ UNCHANGED <<cacheVars, snapshot>>
    <2>1. DataStep /\ Boot \in Handlers
      BY <1>2, UnchangedData DEF Select, Handlers, bootVars
    <2>2. h'[Boot] = Idle => WellFormed(Boot)'
      BY DEF WellFormed, Idle, At
    <2> QED  BY <1>2, <2>1, <2>2, IdleType, GotoStep
  <1> QED  BY <1>1, <1>2 DEF Select

LEMMA AfterInitType ==
  ASSUME TypeInv, NEW p \in Handlers, NEW ok \in BOOLEAN, h[p].id \in Id,
         AfterInit(p, ok), UNCHANGED <<kernel, tableVars, restarts>>
  PROVE  TypeInv'
  <1>1. CASE LoadFrom(h[p].todo, snapshot) /\ UNCHANGED sentVars
    BY <1>1, LoadFromType, HandlerType DEF TypeInv, TypeOK, Handler, dbVars
  <1>2. CASE Finish(p, "add", h[p].id, "OK") /\ UNCHANGED <<cacheVars, snapshot, sentVars>>
    <2>1. DataStep
      BY <1>2, UnchangedData DEF dbVars, bootVars
    <2> QED  BY <1>2, <2>1, FinishStep DEF Reply
  <1>3. CASE /\ h[p].op = "update"
             /\ StoreUpdate(h[p].id, h[p].c, h[p].row)
             /\ Finish(p, "update", h[p].id, "OK")
             /\ UNCHANGED <<components, snapshot>>
    <2>1. h[p].row \in Row /\ h[p].c \in Ref /\ objects[h[p].c] \in Component
      BY <1>3, HandlerType DEF WellFormed
    <2>2. DataStep
      BY <1>3, <2>1, StoreUpdateType DEF bootVars
    <2> QED  BY <1>3, <2>2, FinishStep DEF Reply
  <1>4. CASE Finish(p, "update", h[p].id, "SERVER_ERR")
             /\ UNCHANGED <<cacheVars, snapshot, sentVars>>
    <2>1. DataStep
      BY <1>4, UnchangedData DEF dbVars, bootVars
    <2> QED  BY <1>4, <2>1, FinishStep DEF Reply
  <1> QED  BY <1>1, <1>2, <1>3, <1>4 DEF AfterInit

\* Gpio.init() goes on to its next command.
LEMMA InitGoesOn ==
  ASSUME TypeInv, NEW p \in Handlers,
         NEW pc \in {"setting direction", "cleaning up"}, NEW verb \in Verb,
         h[p].pc \in Initializing,
         h[p].id \in Id, h[p].row \in Row, ValidPin(h[p].row.physicalPin),
         Await(p, [h[p] EXCEPT !.pc = pc], verb, InitLine(p)),
         UNCHANGED <<kernel, cacheVars, dbVars, bootVars>>
  PROVE  TypeInv'
  <1> DEFINE handler == [h[p] EXCEPT !.pc = pc]
  <1>0. h[p] \in Handler /\ WellFormed(p)
    BY HandlerType
  <1>1. DataStep
    BY UnchangedData
  <1>2. handler \in Handler /\ handler.op = h[p].op /\ handler.pc = pc
        /\ handler.id = h[p].id /\ handler.row = h[p].row /\ handler.c = h[p].c
    BY <1>0 DEF Handler
  <1>3. InitLine(p) \in Line
    BY LineOfPin DEF InitLine, ValidPin
  <1>4. h'[p] = handler => WellFormed(p)'
    BY <1>0, <1>1, <1>2 DEF WellFormed, At, DataStep, ObjectsStay
  <1> QED  BY <1>1, <1>2, <1>3, <1>4, AwaitStep

LEMMA InitGpioType ==
  ASSUME TypeInv, NEW p \in Handlers, InitGpio(p)
  PROVE  TypeInv'
  <1>1. /\ h[p].pc \in Initializing
        /\ h[p].id \in Id /\ h[p].row \in Row /\ ValidPin(h[p].row.physicalPin)
    BY HandlerType DEF WellFormed, InitGpio, Exported, DirectionSet, CleanedUp, At
  <1>2. CASE Exported(p)
    <2>1. CASE /\ Await(p, [h[p] EXCEPT !.pc = "setting direction"],
                        WiredAs(h[p].row), InitLine(p))
               /\ UNCHANGED <<cacheVars, snapshot, sentVars>>
      <3>1. WiredAs(h[p].row) \in Verb
        BY WiredType DEF Direction, DIR_IN, DIR_OUT, Verb
      <3>2. UNCHANGED <<kernel, cacheVars, dbVars, bootVars>>
        BY <1>2, <2>1 DEF Exported, dbVars, bootVars
      <3> QED  BY <1>1, <2>1, <3>1, <3>2, InitGoesOn
    <2>2. CASE AfterInit(p, FALSE)
      BY <1>1, <1>2, <2>2, AfterInitType DEF Exported
    <2> QED  BY <1>2, <2>1, <2>2 DEF Exported
  <1>3. CASE DirectionSet(p)
    <2>1. CASE AfterInit(p, TRUE)
      BY <1>1, <1>3, <2>1, AfterInitType DEF DirectionSet
    <2>2. CASE /\ Await(p, [h[p] EXCEPT !.pc = "cleaning up"], "unexport", InitLine(p))
               /\ UNCHANGED <<cacheVars, snapshot, sentVars>>
      <3>1. UNCHANGED <<kernel, cacheVars, dbVars, bootVars>>
        BY <1>3, <2>2 DEF DirectionSet, dbVars, bootVars
      <3> QED  BY <1>1, <2>2, <3>1, InitGoesOn DEF Verb
    <2> QED  BY <1>3, <2>1, <2>2 DEF DirectionSet
  <1>4. CASE CleanedUp(p)
    BY <1>1, <1>4, AfterInitType DEF CleanedUp
  <1> QED  BY <1>2, <1>3, <1>4 DEF InitGpio

LEMMA ExecuteWriteType ==
  ASSUME TypeInv, NEW w \in writes, ExecuteWrite(w)
  PROVE  TypeInv'
  <1>1. TypeOK'
    BY DEF TypeInv, TypeOK, GpioTypeOK, ExecuteWrite, gpioVars, cacheVars, bootVars
  <1> QED  BY <1>1 DEF TypeInv, CachedAreObjects, KnownIds, Known, Comp, WellFormed, At,
                       ExecuteWrite, cacheVars

LEMMA CommitInsertType ==
  ASSUME TypeInv, NEW id \in uncommitted, CommitInsert(id)
  PROVE  TypeInv'
  <1>1. TypeOK'
    BY DEF TypeInv, TypeOK, GpioTypeOK, CommitInsert, gpioVars, cacheVars, bootVars
  <1> QED  BY <1>1 DEF TypeInv, CachedAreObjects, KnownIds, Known, Comp, WellFormed, At,
                       CommitInsert, cacheVars

LEMMA LoseInsertType ==
  ASSUME TypeInv, NEW id \in uncommitted, LoseInsert(id)
  PROVE  TypeInv'
  <1>1. TypeOK'
    BY DEF TypeInv, TypeOK, GpioTypeOK, LoseInsert, gpioVars, cacheVars, bootVars
  <1> QED  BY <1>1 DEF TypeInv, CachedAreObjects, KnownIds, Known, Comp, WellFormed, At,
                       LoseInsert, cacheVars

LEMMA GpioStepType ==
  ASSUME TypeInv, GpioStep
  PROVE  TypeInv'
  <1>1. TypeOK'
    BY RunType DEF TypeInv, TypeOK, GpioStep, cacheVars, dbVars, bootVars
  <1> QED  BY <1>1 DEF TypeInv, CachedAreObjects, KnownIds, Known, Comp, WellFormed, At,
                       GpioStep, cacheVars

\* What init() and a server without requests hold.
LEMMA BootingType ==
  Booting \in Handler
  BY IdleType DEF Booting, Handler, Idle

LEMMA RestartType ==
  ASSUME TypeInv, Restart
  PROVE  TypeInv'
  <1>1. h' \in [Handlers -> Handler]
    BY IdleType, BootingType DEF Restart, Handlers
  <1>2. TypeOK'
    <2>1. GpioTypeOK'
      BY DEF TypeInv, TypeOK, GpioTypeOK, Restart, kernel
    <2>2. NoRows \in [Id -> StoredRow \cup {NoRow}]
      BY DEF NoRows
    <2>3. restarts' \in 0..MaxRestarts
      BY DEF TypeInv, TypeOK, Restart
    <2> QED  BY <1>1, <2>1, <2>2, <2>3 DEF TypeInv, TypeOK, Restart, Handlers
  <1>3. CachedAreObjects'
    BY DEF Restart, CachedAreObjects, KnownIds, Known
  <1>4. ASSUME NEW p \in Handlers  PROVE WellFormed(p)'
    BY DEF Restart, Handlers, WellFormed, At, Booting, Idle
  <1> QED  BY <1>2, <1>3, <1>4 DEF TypeInv, Handlers

LEMMA InitType == Init => TypeInv
  <1> SUFFICES ASSUME Init  PROVE TypeInv
    OBVIOUS
  <1>1. TypeOK
    <2>1. h \in [Handlers -> Handler]
      BY IdleType, BootingType DEF Init, Handlers
    <2>2. NoRows \in [Id -> StoredRow \cup {NoRow}] /\ GpioTypeOK
      BY DEF NoRows, Init, GpioInit, GpioTypeOK
    <2> QED  BY <2>1, <2>2 DEF Init, TypeOK, Handlers
  <1>2. CachedAreObjects
    BY DEF Init, CachedAreObjects, KnownIds, Known
  <1>3. ASSUME NEW p \in Handlers  PROVE WellFormed(p)
    BY DEF Init, Handlers, WellFormed, At, Booting, Idle
  <1> QED  BY <1>1, <1>2, <1>3 DEF TypeInv, Handlers

LEMMA NextType == TypeInv /\ [Next]_vars => TypeInv'
  <1> SUFFICES ASSUME TypeInv, [Next]_vars  PROVE TypeInv'
    OBVIOUS
  <1>1. ASSUME NEW s \in Slot, Request(s)  PROVE TypeInv'
    BY <1>1, ToggleType, UpdateType, RemoveType, AddType, ListType DEF Request
  <1>2. ASSUME NEW s \in Slot, Continue(s)  PROVE TypeInv'
    BY <1>2, ToggledType, UpdateTurnedOffType, UpdateUnexportedType, InsertedType,
       RemoveTurnedOffType, RemoveUnexportedType, ReadType DEF Continue
  <1>3. CASE UNCHANGED vars
    <2>1. TypeOK'
      BY <1>3 DEF vars, gpioVars, cacheVars, dbVars, bootVars, TypeInv, TypeOK, GpioTypeOK
    <2> QED  BY <1>3, <2>1 DEF vars, gpioVars, cacheVars, dbVars, bootVars, TypeInv,
               CachedAreObjects, KnownIds, Known, Comp, WellFormed, At
  <1> QED  BY <1>1, <1>2, <1>3, InsertType, InitGpioType, SelectType, ExecuteWriteType,
              CommitInsertType, LoseInsertType, GpioStepType, RestartType
           DEF Next, Work, Handlers

\* No interleaving, failure or restart leaves a variable with a value of the
\* wrong shape: a request never goes on with an id, a row or an object that it
\* does not have.
THEOREM TypeCorrectness == Spec => []TypeOK
  <1>1. TypeInv => TypeOK
    BY DEF TypeInv
  <1> QED  BY <1>1, InitType, NextType, PTL DEF Spec
-----------------------------------------------------------------------------
(***************************************************************************)
(* The order in which an id is stored, served and deleted.  From here on   *)
(* no request comes before init() has finished.                            *)
(***************************************************************************)
\* No request that is still at work knows of a row before its inserter does.
Apart(s, id) == \A t \in Slot \ {s} : At(t, "inserted") => h[t].id # id

LEMMA BootIsIdle ==
  ASSUME EarlyRequests = FALSE, OrderInv, NEW s \in Slot,
         h[s] # Idle \/ \E op : Arrives(s, op)
  PROVE  h[Boot] = Idle
  BY DEF OrderInv, BootIsAlone, Arrives

\* An id that is cached, or that an update or a removal works on, is known.
LEMMA CachedIsApart ==
  ASSUME TypeInv, OrderInv, NEW s \in Slot, NEW id \in Id, Known(id)
  PROVE  id < nextId /\ Apart(s, id)
  BY DEF OrderInv, HandedOut, InsertedIsPrivate, Apart

LEMMA HeldIsApart ==
  ASSUME TypeInv, OrderInv, NEW s \in Slot, h[s].op \in {"update", "remove"}
  PROVE  h[s].id < nextId /\ Apart(s, h[s].id)
  BY DEF OrderInv, HandedOut, InsertedIsPrivate, Apart

\* A step of a request that neither stores a row nor caches an id.
LEMMA RequestOrder ==
  ASSUME TypeInv, OrderInv, NEW s \in Slot, h[Boot] = Idle,
         NEW handler \in Handler, h' = [h EXCEPT ![s] = handler],
         handler.pc # "inserted",
         handler.op \in {"update", "remove"} => handler.id < nextId /\ Apart(s, handler.id),
         UNCHANGED <<rows, nextId, uncommitted, undone>>,
         writes' \subseteq [id : Id, row : StoredRow \cup {NoRow}],
         \A id \in Id : Known(id)' => Known(id),
         \A w \in writes' : w \in writes \/ (w.id < nextId /\ Apart(s, w.id)),
         \A w \in writes' : w.row = NoRow => ~Known(w.id)'
  PROVE  OrderInv'
  <1>1. h'[s] = handler /\ \A t \in Handlers \ {s} : h'[t] = h[t]
    BY DEF TypeInv, TypeOK, Handlers
  <1>2. CachedIsStored'
    BY DEF OrderInv, CachedIsStored, KnownIds
  <1>3. HandedOut' /\ LockedIsStored'
    BY <1>1 DEF OrderInv, HandedOut, LockedIsStored, Handlers, TypeInv, TypeOK
  <1>4. DeletedIsUncached'
    BY DEF DeletedIsUncached
  <1>5. InsertedIsPrivate'
    <2> SUFFICES ASSUME NEW t \in Slot, At(t, "inserted")'
                 PROVE  /\ (rows[h[t].id] = Stored(h[t].row))'
                        /\ (h[t].id < nextId)'
                        /\ ~Known(h[t].id)'
                        /\ \A w \in writes' : w.id # h'[t].id
                        /\ \A u \in Slot \ {t} :
                             At(u, "inserted")' \/ h'[u].op \in {"update", "remove"}
                               => h'[u].id # h'[t].id
      BY DEF InsertedIsPrivate
    <2>1. t # s /\ h'[t] = h[t] /\ At(t, "inserted")
      BY <1>1 DEF At, Handlers
    <2>2. h[t].id \in Id
      BY <2>1, HandlerType DEF WellFormed, Handlers
    <2>3. /\ rows[h[t].id] = Stored(h[t].row) /\ h[t].id < nextId /\ ~Known(h[t].id)
          /\ \A w \in writes : w.id # h[t].id
          /\ \A u \in Slot \ {t} :
               At(u, "inserted") \/ h[u].op \in {"update", "remove"} => h[u].id # h[t].id
      BY <2>1 DEF OrderInv, InsertedIsPrivate
    <2>4. \A w \in writes' : w.id # h'[t].id
      BY <2>1, <2>3 DEF Apart
    <2>5. ASSUME NEW u \in Slot \ {t}, At(u, "inserted")' \/ h'[u].op \in {"update", "remove"}
          PROVE  h'[u].id # h'[t].id
      <3>1. CASE u = s
        BY <1>1, <2>1, <2>5, <3>1 DEF Apart, At
      <3>2. CASE u # s
        BY <1>1, <2>1, <2>3, <2>5, <3>2 DEF At, Handlers
      <3> QED  BY <3>1, <3>2
    <2> QED  BY <2>1, <2>2, <2>3, <2>4, <2>5
  <1>6. BootIsAlone'
    BY <1>1 DEF BootIsAlone, Handlers
  <1> QED  BY <1>2, <1>3, <1>4, <1>5, <1>6 DEF OrderInv

\* The most common case: no data changes.
LEMMA QuietOrder ==
  ASSUME TypeInv, OrderInv, NEW s \in Slot, h[Boot] = Idle,
         NEW handler \in Handler, h' = [h EXCEPT ![s] = handler],
         handler.pc # "inserted",
         handler.op \in {"update", "remove"} => handler.id < nextId /\ Apart(s, handler.id),
         UNCHANGED <<components, rows, nextId, uncommitted, undone, writes>>
  PROVE  OrderInv'
  <1>1. writes' \subseteq [id : Id, row : StoredRow \cup {NoRow}]
    BY DEF TypeInv, TypeOK
  <1>2. \A id \in Id : Known(id)' <=> Known(id)
    BY DEF Known
  <1>3. \A w \in writes' : w.row = NoRow => ~Known(w.id)'
    BY <1>1, <1>2 DEF OrderInv, DeletedIsUncached
  <1> QED  BY <1>1, <1>2, <1>3, RequestOrder

\* A request sends an UPDATE of a component it holds, and ends.
LEMMA StoreUpdateOrder ==
  ASSUME TypeInv, OrderInv, NEW s \in Slot, h[Boot] = Idle, h' = [h EXCEPT ![s] = Idle],
         NEW id \in Id, id < nextId, Apart(s, id), NEW c, NEW row \in Row,
         StoreUpdate(id, c, row), UNCHANGED <<components, rows, nextId, uncommitted, undone>>
  PROVE  OrderInv'
  <1> DEFINE new == [id |-> id, row |-> Stored(row)]
  <1>1. writes' = writes \cup {new} /\ new.id = id /\ new.row \in StoredRow /\ new.row # NoRow
    BY StoredType, StoredRowIsRow DEF StoreUpdate, SendUpdate
  <1>2. writes' \subseteq [id : Id, row : StoredRow \cup {NoRow}]
    BY <1>1 DEF TypeInv, TypeOK
  <1>3. \A i \in Id : Known(i)' <=> Known(i)
    BY DEF Known
  <1>4. \A w \in writes' : w.row = NoRow => ~Known(w.id)'
    BY <1>1, <1>2, <1>3 DEF OrderInv, DeletedIsUncached
  <1>5. \A w \in writes' : w \in writes \/ (w.id < nextId /\ Apart(s, w.id))
    BY <1>1
  <1> QED  BY <1>2, <1>3, <1>4, <1>5, RequestOrder, IdleType

LEMMA UpdateOrder ==
  ASSUME EarlyRequests = FALSE, TypeInv, OrderInv,
         NEW s \in Slot, NEW id \in Id, NEW data \in UpdateData, Update(s, id, data)
  PROVE  OrderInv'
  <1>0. h[Boot] = Idle
    BY BootIsIdle DEF Update
  <1>1. ASSUME NEW reply, Finish(s, "update", id, reply), UNCHANGED <<objects, sentVars>>
        PROVE  OrderInv'
    BY <1>0, <1>1, QuietOrder, IdleType DEF Finish, Idle, Update
  <1>2. CASE Known(id)
    <2> DEFINE c == Comp(id)
               row == Merge(data, c.row)
               handler == [Idle EXCEPT !.op = "update", !.id = id,
                                       !.c = components[id], !.row = row]
    <2>0. /\ row \in Row /\ components[id] \in Ref /\ id < nextId /\ Apart(s, id)
      BY <1>2, CachedType, MergeType, CachedIsApart
    <2>1. ASSUME StoreUpdate(id, components[id], row), Finish(s, "update", id, "OK")
          PROVE  OrderInv'
      BY <1>0, <2>0, <2>1, StoreUpdateOrder DEF Update, Finish
    <2>2. ASSUME NEW pc \in {"turning off", "unexporting"}, NEW verb, NEW line,
                 UNCHANGED <<objects, sentVars>>,
                 Await(s, [handler EXCEPT !.pc = pc], verb, line)
          PROVE  OrderInv'
      <3> DEFINE held == [handler EXCEPT !.pc = pc]
      <3>1. held \in Handler /\ held.pc = pc /\ held.id = id
        BY <2>0, IdleType DEF Handler, Idle
      <3>2. h' = [h EXCEPT ![s] = held] /\ UNCHANGED <<components, rows, nextId, uncommitted, undone, writes>>
        BY <2>2 DEF Await, Update
      <3> HIDE DEF held
      <3> QED  BY <1>0, <2>0, <3>1, <3>2, QuietOrder
    <2> QED  BY <1>1, <1>2, <2>1, <2>2 DEF Update
  <1> QED  BY <1>1, <1>2 DEF Update

\* A request goes on with what it has.
LEMMA GoesOnOrder ==
  ASSUME EarlyRequests = FALSE, TypeInv, OrderInv, NEW s \in Slot, h[s] # Idle,
         NEW pc \in {"unexporting", "exporting", "setting direction", "cleaning up"},
         h' = [h EXCEPT ![s] = [h[s] EXCEPT !.pc = pc]],
         UNCHANGED <<components, rows, nextId, uncommitted, undone, writes>>
  PROVE  OrderInv'
  <1> DEFINE handler == [h[s] EXCEPT !.pc = pc]
  <1>1. /\ h[s] \in Handler /\ handler \in Handler /\ handler.pc = pc
        /\ handler.op = h[s].op /\ handler.id = h[s].id
    BY HandlerType DEF Handlers, Handler
  <1> QED  BY <1>1, BootIsIdle, HeldIsApart, QuietOrder

\* A request ends and changes no data.
LEMMA EndsOrder ==
  ASSUME TypeInv, OrderInv, NEW s \in Slot, h[Boot] = Idle, h' = [h EXCEPT ![s] = Idle],
         UNCHANGED <<components, rows, nextId, uncommitted, undone, writes>>
  PROVE  OrderInv'
  BY QuietOrder, IdleType DEF Idle

LEMMA ToggleOrder ==
  ASSUME EarlyRequests = FALSE, TypeInv, OrderInv,
         NEW s \in Slot, NEW id \in Id, NEW status, Toggle(s, id, status)
  PROVE  OrderInv'
  <1>0. h[Boot] = Idle /\ UNCHANGED <<components, rows, nextId, uncommitted, undone, writes>>
    BY BootIsIdle DEF Toggle, cacheVars, dbVars
  <1>1. CASE Finish(s, "toggle", id, "INVALID_FORMAT")
    BY <1>0, <1>1, EndsOrder DEF Finish
  <1>2. CASE Await(s, [Idle EXCEPT !.pc = "toggling", !.op = "toggle", !.id = id],
                   status, Comp(id).gpio.pinNo)
    <2>1. [Idle EXCEPT !.pc = "toggling", !.op = "toggle", !.id = id] \in Handler
      BY IdleType DEF Idle, Handler
    <2> QED  BY <1>0, <1>2, <2>1, QuietOrder DEF Await, Idle
  <1> QED  BY <1>1, <1>2 DEF Toggle

LEMMA ToggledOrder ==
  ASSUME EarlyRequests = FALSE, TypeInv, OrderInv, NEW s \in Slot, Toggled(s)
  PROVE  OrderInv'
  <1>1. h[s] # Idle
    BY IdleType DEF Toggled, At
  <1>2. UNCHANGED <<components, rows, nextId, uncommitted, undone, writes>>
    BY DEF Toggled, cacheVars, dbVars
  <1> QED  BY <1>1, <1>2, BootIsIdle, EndsOrder DEF Toggled, Finish

LEMMA UpdateGoesOnOrder ==
  ASSUME EarlyRequests = FALSE, TypeInv, OrderInv, NEW s \in Slot,
         UpdateTurnedOff(s) \/ UpdateUnexported(s)
  PROVE  OrderInv'
  <1>0. h[s] # Idle
    BY IdleType DEF UpdateTurnedOff, UpdateUnexported
  <1>4. UNCHANGED <<components, rows, nextId, uncommitted, undone, writes>>
    BY DEF UpdateTurnedOff, UpdateUnexported, cacheVars, dbVars
  <1>1. CASE h' = [h EXCEPT ![s] = Idle]
    BY <1>0, <1>4, <1>1, BootIsIdle, EndsOrder
  <1>2. CASE h' = [h EXCEPT ![s] = [h[s] EXCEPT !.pc = "exporting"]]
    BY <1>0, <1>4, <1>2, GoesOnOrder
  <1>3. CASE h' = [h EXCEPT ![s] = [h[s] EXCEPT !.pc = "unexporting"]]
    BY <1>0, <1>4, <1>3, GoesOnOrder
  <1> QED  BY <1>1, <1>2, <1>3 DEF UpdateTurnedOff, UpdateUnexported, Await, Finish

LEMMA AddOrder ==
  ASSUME EarlyRequests = FALSE, TypeInv, OrderInv,
         NEW s \in Slot, NEW data \in UpdateData, Add(s, data)
  PROVE  OrderInv'
  <1>0. h[Boot] = Idle /\ UNCHANGED <<components, rows, nextId, uncommitted, undone, writes>>
    BY BootIsIdle DEF Add, cacheVars, dbVars
  <1>1. CASE h' = [h EXCEPT ![s] = Idle]
    BY <1>0, <1>1, EndsOrder
  <1>2. CASE /\ data \in Row
             /\ Goto(s, [Idle EXCEPT !.pc = "inserting", !.op = "add", !.row = data])
    <2>1. [Idle EXCEPT !.pc = "inserting", !.op = "add", !.row = data] \in Handler
      BY <1>2, IdleType DEF Idle, Handler
    <2> QED  BY <1>0, <1>2, <2>1, QuietOrder DEF Goto, Idle
  <1> QED  BY <1>1, <1>2 DEF Add, Finish

LEMMA InsertOrder ==
  ASSUME EarlyRequests = FALSE, TypeInv, OrderInv, NEW s \in Slot, Insert(s)
  PROVE  OrderInv'
  <1> DEFINE row == h[s].row
             handler == [h[s] EXCEPT !.pc = "inserted", !.id = nextId]
  <1>0. s \in Handlers /\ h[s] \in Handler /\ row \in Row /\ h[s].op = "add" /\ h[s].pc = "inserting"
    BY HandlerType DEF Handlers, WellFormed, Insert, At
  <1>1. h[Boot] = Idle
    BY <1>0, BootIsIdle, IdleType
  <1>2. UNCHANGED <<components, undone, writes>>
    BY DEF Insert, cacheVars
  <1>3. CASE Finish(s, "add", 0, "INVALID_FORMAT") /\ UNCHANGED <<rows, nextId, uncommitted>>
    BY <1>1, <1>2, <1>3, EndsOrder DEF Finish
  <1>4. CASE /\ nextId <= MaxId
             /\ rows' = [rows EXCEPT ![nextId] = Stored(row)]
             /\ nextId' = nextId + 1
             /\ uncommitted' = uncommitted \cup {nextId}
             /\ Goto(s, handler)
    <2>1. nextId \in Id /\ ~Known(nextId) /\ rows[nextId] = NoRow
      BY <1>4 DEF TypeInv, TypeOK, Id, OrderInv, HandedOut
    <2>2. /\ handler.op = "add" /\ handler.pc = "inserted" /\ handler.id = nextId
          /\ handler.row = row
      BY <1>0 DEF Handler
    <2>3. h'[s] = handler /\ \A t \in Handlers \ {s} : h'[t] = h[t]
      BY <1>0, <1>4 DEF TypeInv, TypeOK, Handlers, Goto
    <2>4. /\ rows'[nextId] = Stored(row) /\ rows'[nextId] # NoRow
          /\ \A id \in Id \ {nextId} : rows'[id] = rows[id]
          /\ \A id \in Id : Known(id)' <=> Known(id)
      BY <1>0, <1>2, <1>4, <2>1, StoredType, StoredRowIsRow DEF TypeInv, TypeOK, Known
    <2>10. nextId \notin undone
      BY <2>1 DEF OrderInv, HandedOut, TypeInv, TypeOK, Id
    <2>11. LockedIsStored'
      BY <1>2, <1>4, <2>4, <2>10 DEF OrderInv, LockedIsStored, TypeInv, TypeOK
    <2>5. CachedIsStored'
      BY <1>2, <2>1, <2>4 DEF OrderInv, CachedIsStored, KnownIds
    <2>6. HandedOut'
      <3>4. \A id \in uncommitted' \cup undone' : id < nextId'
        BY <1>2, <1>4, <2>1 DEF OrderInv, HandedOut, TypeInv, TypeOK, Id
      <3>1. \A id \in Id : Known(id)' \/ rows'[id] # NoRow => id < nextId'
        BY <1>4, <2>1, <2>4 DEF OrderInv, HandedOut, TypeInv, TypeOK, Id
      <3>2. \A w \in writes' : w.id < nextId'
        BY <1>2, <1>4 DEF OrderInv, HandedOut, TypeInv, TypeOK, Id
      <3>3. ASSUME NEW t \in Slot, h'[t].op \in {"update", "remove"}
            PROVE  h'[t].id < nextId'
        <4>1. t # s /\ h'[t] = h[t]
          BY <2>2, <2>3, <3>3 DEF Handlers
        <4>2. h[t].id \in Id /\ h[t].id < nextId
          BY <3>3, <4>1, HandlerType DEF OrderInv, HandedOut, WellFormed, Handlers
        <4> QED  BY <1>4, <4>1, <4>2 DEF TypeInv, TypeOK, Id
      <3> QED  BY <3>1, <3>2, <3>3, <3>4 DEF HandedOut
    <2>7. DeletedIsUncached'
      BY <1>2, <2>4 DEF OrderInv, DeletedIsUncached, TypeInv, TypeOK
    <2>8. InsertedIsPrivate'
      <3>1. \A t \in Slot \ {s} :
              At(t, "inserted") \/ h[t].op \in {"update", "remove"} => h[t].id < nextId
        BY DEF OrderInv, HandedOut, InsertedIsPrivate
      <3>2. \A w \in writes : w.id < nextId
        BY DEF OrderInv, HandedOut
      <3>3. nextId \in Int /\ ~(nextId < nextId)
        BY DEF TypeInv, TypeOK
      <3>4. ASSUME NEW t \in Slot, At(t, "inserted")'
            PROVE  /\ (rows[h[t].id] = Stored(h[t].row))'
                   /\ (h[t].id < nextId)'
                   /\ ~Known(h[t].id)'
                   /\ \A w \in writes' : w.id # h'[t].id
                   /\ \A u \in Slot \ {t} :
                        At(u, "inserted")' \/ h'[u].op \in {"update", "remove"}
                          => h'[u].id # h'[t].id
        <4>1. CASE t = s
          <5>1. h'[t].id = nextId /\ h'[t].row = row
            BY <2>2, <2>3, <4>1
          <5>2. \A u \in Slot \ {t} : h'[u] = h[u]
            BY <2>3, <4>1 DEF Handlers
          <5>3. nextId < nextId'
            BY <1>4, <3>3
          <5> QED  BY <1>2, <2>1, <2>4, <3>1, <3>2, <3>3, <4>1, <5>1, <5>2, <5>3 DEF At
        <4>2. CASE t # s
          <5>1. h'[t] = h[t] /\ At(t, "inserted")
            BY <2>3, <3>4, <4>2 DEF At, Handlers
          <5>2. h[t].id \in Id
            BY <5>1, HandlerType DEF WellFormed, Handlers
          <5>3. /\ rows[h[t].id] = Stored(h[t].row) /\ h[t].id < nextId /\ ~Known(h[t].id)
                /\ \A w \in writes : w.id # h[t].id
                /\ \A u \in Slot \ {t} :
                     At(u, "inserted") \/ h[u].op \in {"update", "remove"} => h[u].id # h[t].id
            BY <5>1 DEF OrderInv, InsertedIsPrivate
          <5>4. h[t].id # nextId /\ h[t].id < nextId'
            BY <1>4, <3>3, <5>2, <5>3 DEF Id
          <5>5. ASSUME NEW u \in Slot \ {t}, At(u, "inserted")' \/ h'[u].op \in {"update", "remove"}
                PROVE  h'[u].id # h'[t].id
            <6>1. CASE u = s
              BY <2>2, <2>3, <5>1, <5>4, <6>1
            <6>2. CASE u # s
              BY <2>3, <5>1, <5>3, <5>5, <6>2 DEF At, Handlers
            <6> QED  BY <6>1, <6>2
          <5> QED  BY <1>2, <2>4, <5>1, <5>2, <5>3, <5>4, <5>5
        <4> QED  BY <4>1, <4>2
      <3> QED  BY <3>4 DEF InsertedIsPrivate
    <2>9. BootIsAlone'
      BY <1>1, <2>3 DEF BootIsAlone, Handlers
    <2> QED  BY <2>5, <2>6, <2>7, <2>8, <2>9, <2>11 DEF OrderInv
  <1> QED  BY <1>3, <1>4 DEF Insert

\* The request that inserted a row caches its id.
LEMMA InsertedOrder ==
  ASSUME EarlyRequests = FALSE, TypeInv, OrderInv, NEW s \in Slot, Inserted(s)
  PROVE  OrderInv'
  <1> DEFINE id == h[s].id
             handler == [h[s] EXCEPT !.pc = "exporting"]
  <1>0. /\ s \in Handlers /\ h[s] \in Handler /\ h[s].op = "add" /\ id \in Id
        /\ h[s].pc = "inserted"
    BY HandlerType DEF Handlers, WellFormed, Inserted, At
  <1>1. h[Boot] = Idle
    BY <1>0, BootIsIdle, IdleType
  <1>2. UNCHANGED <<rows, nextId, uncommitted, undone, writes>>
    BY DEF Inserted, dbVars
  <1>3. CASE Finish(s, "add", id, "OK") /\ UNCHANGED cacheVars
    BY <1>1, <1>2, <1>3, EndsOrder DEF Finish, cacheVars
  <1>4. CASE /\ components' = [components EXCEPT ![id] = <<id, "add">>]
             /\ h' = [h EXCEPT ![s] = handler]
    <2>0. h[s].row \in Row
      BY <1>0, HandlerType DEF WellFormed, At
    <2>1. /\ rows[id] # NoRow /\ id < nextId
          /\ \A w \in writes : w.id # id
          /\ \A t \in Slot \ {s} :
               At(t, "inserted") \/ h[t].op \in {"update", "remove"} => h[t].id # id
      BY <1>0, <2>0, StoredType, StoredRowIsRow DEF OrderInv, InsertedIsPrivate, At
    <2>2. handler.pc = "exporting" /\ handler.op = "add"
      BY <1>0 DEF Handler
    <2>3. h'[s] = handler /\ \A t \in Handlers \ {s} : h'[t] = h[t]
      BY <1>0, <1>4 DEF TypeInv, TypeOK, Handlers
    <2>4. \A i \in Id \ {id} : Known(i)' <=> Known(i)
      BY <1>0, <1>4 DEF TypeInv, TypeOK, Known
    <2>5. CachedIsStored'
      BY <1>2, <2>1, <2>4 DEF OrderInv, CachedIsStored, KnownIds
    <2>6. HandedOut' /\ LockedIsStored'
      BY <1>2, <2>1, <2>2, <2>3, <2>4 DEF OrderInv, HandedOut, LockedIsStored, Handlers
    <2>7. DeletedIsUncached'
      BY <1>2, <2>1, <2>4 DEF OrderInv, DeletedIsUncached, TypeInv, TypeOK
    <2>8. InsertedIsPrivate'
      <3> SUFFICES ASSUME NEW t \in Slot, At(t, "inserted")'
                   PROVE  /\ (rows[h[t].id] = Stored(h[t].row))'
                          /\ (h[t].id < nextId)'
                          /\ ~Known(h[t].id)'
                          /\ \A w \in writes' : w.id # h'[t].id
                          /\ \A u \in Slot \ {t} :
                               At(u, "inserted")' \/ h'[u].op \in {"update", "remove"}
                                 => h'[u].id # h'[t].id
        BY DEF InsertedIsPrivate
      <3>1. t # s /\ h'[t] = h[t] /\ At(t, "inserted")
        BY <2>2, <2>3 DEF At, Handlers
      <3>2. h[t].id \in Id /\ h[t].id # id
        BY <2>1, <3>1, HandlerType DEF WellFormed, Handlers
      <3>3. /\ rows[h[t].id] = Stored(h[t].row) /\ h[t].id < nextId /\ ~Known(h[t].id)
            /\ \A w \in writes : w.id # h[t].id
            /\ \A u \in Slot \ {t} :
                 At(u, "inserted") \/ h[u].op \in {"update", "remove"} => h[u].id # h[t].id
        BY <3>1 DEF OrderInv, InsertedIsPrivate
      <3>4. \A u \in Slot \ {t} :
              At(u, "inserted")' \/ h'[u].op \in {"update", "remove"} => h'[u].id # h'[t].id
        BY <2>2, <2>3, <3>1, <3>3 DEF At, Handlers
      <3> QED  BY <1>2, <2>4, <3>1, <3>2, <3>3, <3>4
    <2>9. BootIsAlone'
      BY <1>1, <2>3 DEF BootIsAlone, Handlers
    <2> QED  BY <2>5, <2>6, <2>7, <2>8, <2>9 DEF OrderInv
  <1> QED  BY <1>3, <1>4 DEF Inserted, Await

LEMMA AwaitUnexportOrder ==
  ASSUME TypeInv, OrderInv, NEW s \in Slot, h[Boot] = Idle, NEW id \in Id,
         AwaitUnexport(s, id), UNCHANGED <<components, rows, nextId, uncommitted, undone, writes>>
  PROVE  OrderInv'
  <1> DEFINE handler == [Idle EXCEPT !.pc = "unexporting", !.op = "remove", !.id = id]
  <1>1. CASE Finish(s, "remove", id, "SERVER_ERR")
    BY <1>1, EndsOrder DEF Finish
  <1>2. CASE Known(id) /\ h' = [h EXCEPT ![s] = handler]
    <2>1. handler \in Handler /\ handler.pc = "unexporting" /\ handler.id = id
      BY IdleType DEF Idle, Handler
    <2>2. id < nextId /\ Apart(s, id)
      BY <1>2, CachedIsApart
    <2> HIDE DEF handler
    <2> QED  BY <1>2, <2>1, <2>2, QuietOrder
  <1> QED  BY <1>1, <1>2 DEF AwaitUnexport, Await

LEMMA RemoveOrder ==
  ASSUME EarlyRequests = FALSE, TypeInv, OrderInv, NEW s \in Slot, NEW id \in Id, Remove(s, id)
  PROVE  OrderInv'
  <1> DEFINE handler == [Idle EXCEPT !.pc = "turning off", !.op = "remove", !.id = id]
  <1>0. h[Boot] = Idle
    BY BootIsIdle DEF Remove
  <1>1. UNCHANGED <<components, rows, nextId, uncommitted, undone, writes>>
    BY DEF Remove, cacheVars, dbVars
  <1>2. CASE AwaitUnexport(s, id)
    BY <1>0, <1>1, <1>2, AwaitUnexportOrder
  <1>3. CASE Finish(s, "remove", id, "SERVER_ERR")
    BY <1>0, <1>1, <1>3, EndsOrder DEF Finish
  <1>4. CASE Drivable(id) /\ h' = [h EXCEPT ![s] = handler]
    <2>1. handler \in Handler /\ handler.pc = "turning off" /\ handler.id = id
      BY IdleType DEF Idle, Handler
    <2>2. id < nextId /\ Apart(s, id)
      BY <1>4, CachedIsApart DEF Drivable
    <2> HIDE DEF handler
    <2> QED  BY <1>0, <1>1, <1>4, <2>1, <2>2, QuietOrder
  <1> QED  BY <1>2, <1>3, <1>4 DEF Remove, Await

LEMMA RemoveTurnedOffOrder ==
  ASSUME EarlyRequests = FALSE, TypeInv, OrderInv, NEW s \in Slot, RemoveTurnedOff(s)
  PROVE  OrderInv'
  <1>0. h[s] # Idle /\ h[s].id \in Id
    BY IdleType, HandlerType DEF RemoveTurnedOff, WellFormed, Handlers
  <1>1. UNCHANGED <<components, rows, nextId, uncommitted, undone, writes>>
    BY DEF RemoveTurnedOff, cacheVars, dbVars
  <1> QED  BY <1>0, <1>1, BootIsIdle, AwaitUnexportOrder DEF RemoveTurnedOff

\* The DELETE is sent when the id has left the map.
LEMMA RemoveUnexportedOrder ==
  ASSUME EarlyRequests = FALSE, TypeInv, OrderInv, NEW s \in Slot, RemoveUnexported(s)
  PROVE  OrderInv'
  <1>1. h[s] # Idle /\ h[s].id \in Id /\ h[s].id < nextId /\ Apart(s, h[s].id)
    BY IdleType, HandlerType, HeldIsApart DEF RemoveUnexported, WellFormed, Handlers
  <1>2. PICK id \in Id : id = h[s].id
    BY <1>1
  <1>3. /\ writes' = writes \cup {[id |-> id, row |-> NoRow]}
        /\ UNCHANGED <<rows, nextId, uncommitted, undone>>
        /\ h' = [h EXCEPT ![s] = Idle]
    BY <1>2 DEF RemoveUnexported, SendDelete, Finish
  <1>4. ~Known(id)' /\ \A i \in Id : Known(i)' => Known(i)
    BY <1>2 DEF RemoveUnexported, Known, TypeInv, TypeOK
  <1>5. writes' \subseteq [id : Id, row : StoredRow \cup {NoRow}]
    BY <1>3 DEF TypeInv, TypeOK
  <1>6. \A w \in writes' : w.row = NoRow => ~Known(w.id)'
    BY <1>3, <1>4, <1>5 DEF OrderInv, DeletedIsUncached
  <1>7. \A w \in writes' : w \in writes \/ (w.id < nextId /\ Apart(s, w.id))
    BY <1>1, <1>2, <1>3
  <1> QED  BY <1>1, <1>3, <1>4, <1>5, <1>6, <1>7, BootIsIdle, RequestOrder, IdleType

LEMMA VisitOrder ==
  ASSUME TypeInv, OrderInv, NEW s \in Slot, h[Boot] = Idle, NEW todo \in SUBSET Id,
         Visit(s, todo), UNCHANGED <<components, rows, nextId, uncommitted, undone, writes>>
  PROVE  OrderInv'
  <1> DEFINE left == {i \in todo : Known(i)}
  <1>1. CASE h' = [h EXCEPT ![s] = Idle]
    BY <1>1, EndsOrder
  <1>2. ASSUME NEW id \in left, NEW pc \in {"isOn", "readValue"},
               h' = [h EXCEPT ![s] = [Idle EXCEPT !.pc = pc, !.op = "list", !.id = id,
                                                  !.todo = left \ {id}]]
        PROVE  OrderInv'
    <2> DEFINE handler == [Idle EXCEPT !.pc = pc, !.op = "list", !.id = id,
                                       !.todo = left \ {id}]
    <2>1. handler \in Handler /\ handler.pc = pc /\ handler.op = "list"
      BY IdleType DEF Idle, Handler
    <2>2. h' = [h EXCEPT ![s] = handler]
      BY <1>2
    <2> HIDE DEF handler
    <2> QED  BY <2>1, <2>2, QuietOrder
  <1> QED  BY <1>1, <1>2 DEF Visit, Await, Finish

LEMMA ListOrder ==
  ASSUME EarlyRequests = FALSE, TypeInv, OrderInv, NEW s \in Slot, List(s) \/ Read(s)
  PROVE  OrderInv'
  <1>0. UNCHANGED <<components, rows, nextId, uncommitted, undone, writes>>
    BY DEF List, Read, cacheVars, dbVars
  <1>1. CASE List(s)
    BY <1>0, <1>1, BootIsIdle, VisitOrder DEF List, KnownIds
  <1>2. CASE Read(s)
    <2>1. h[s] # Idle /\ h[s].todo \in SUBSET Id
      BY <1>2, IdleType, HandlerType DEF Read, At, Handler, Handlers
    <2>2. h[Boot] = Idle
      BY <2>1, BootIsIdle
    <2>3. CASE Visit(s, h[s].todo)
      BY <1>0, <2>1, <2>2, <2>3, VisitOrder
    <2>4. CASE h' = [h EXCEPT ![s] = Idle]
      BY <1>0, <2>2, <2>4, EndsOrder
    <2> QED  BY <1>2, <2>3, <2>4 DEF Read, Finish
  <1> QED  BY <1>1, <1>2

\* init() loads the next row, or is done.
LEMMA LoadFromOrder ==
  ASSUME TypeInv, OrderInv, h[Boot] # Idle, NEW todo \in SUBSET Id,
         NEW table \in [Id -> StoredRow \cup {NoRow}],
         \A id \in todo : rows[id] # NoRow /\ table[id] = rows[id] /\ ~Known(id),
         LoadFrom(todo, table), UNCHANGED dbVars
  PROVE  OrderInv'
  <1> DEFINE loadable == {i \in todo : ValidPin(table[i].physicalPin)}
  <1>0. /\ \A s \in Slot : h[s] = Idle
        /\ writes = {} /\ uncommitted = {} /\ undone = {} /\ writes' = {}
        /\ UNCHANGED <<rows, nextId, uncommitted, undone>>
    BY DEF OrderInv, BootIsAlone, dbVars
  <1>1. CASE /\ h' = [h EXCEPT ![Boot] = Idle]
             /\ UNCHANGED components
    <2>1. h'[Boot] = Idle /\ \A s \in Slot : h'[s] = Idle
      BY <1>0, <1>1 DEF TypeInv, TypeOK
    <2>2. CachedIsStored' /\ HandedOut' /\ LockedIsStored'
      BY <1>0, <1>1, <2>1, IdleType DEF OrderInv, CachedIsStored, KnownIds, Known, HandedOut,
                                        LockedIsStored
    <2> QED  BY <1>0, <2>1, <2>2, IdleType DEF OrderInv, DeletedIsUncached, InsertedIsPrivate,
                                     BootIsAlone, At
  <1>2. ASSUME NEW id \in loadable,
               components' = [components EXCEPT ![id] = <<id, "init">>],
               snapshot' = table,
               h' = [h EXCEPT ![Boot] = [Idle EXCEPT !.pc = "exporting", !.op = "init",
                       !.id = id, !.row = table[id], !.todo = loadable \ {id}]]
        PROVE  OrderInv'
    <2> DEFINE handler == [Idle EXCEPT !.pc = "exporting", !.op = "init",
                             !.id = id, !.row = table[id], !.todo = loadable \ {id}]
    <2>1. handler.pc = "exporting" /\ handler.op = "init" /\ handler.todo = loadable \ {id}
      BY DEF Idle
    <2>2. h'[Boot] = handler /\ \A s \in Slot : h'[s] = Idle
      BY <1>0, <1>2 DEF TypeInv, TypeOK
    <2>3. \A i \in Id \ {id} : Known(i)' <=> Known(i)
      BY <1>2 DEF Known, TypeInv, TypeOK
    <2>4. CachedIsStored'
      BY <1>0, <1>2, <2>3 DEF OrderInv, CachedIsStored, KnownIds
    <2>5. HandedOut' /\ LockedIsStored'
      BY <1>0, <1>2, <2>2, <2>3, IdleType DEF OrderInv, HandedOut, LockedIsStored
    <2>6. BootIsAlone'
      <3> HIDE DEF handler
      <3>1. \A i \in handler.todo : (rows[i] # NoRow /\ snapshot[i] = rows[i] /\ ~Known(i))'
        BY <1>0, <1>2, <2>1, <2>3
      <3> QED  BY <1>0, <2>1, <2>2, <3>1 DEF BootIsAlone, At
    <2> QED  BY <1>0, <2>2, <2>4, <2>5, <2>6, IdleType DEF OrderInv, DeletedIsUncached,
                                                          InsertedIsPrivate, At
  <1> QED  BY <1>1, <1>2 DEF LoadFrom, Goto, Await, cacheVars

LEMMA SelectOrder ==
  ASSUME TypeInv, OrderInv, Select
  PROVE  OrderInv'
  <1>1. h[Boot] # Idle /\ KnownIds = {} /\ uncommitted = {} /\ UNCHANGED dbVars
    BY IdleType DEF Select, At, OrderInv, BootIsAlone
  <1>2. CASE LoadFrom(StoredIds(rows) \ uncommitted, rows)
    BY <1>1, <1>2, LoadFromOrder DEF StoredIds, KnownIds, TypeInv, TypeOK
  <1>3. CASE Goto(Boot, Idle) /\ UNCHANGED <<cacheVars, snapshot>>
    <2>1. /\ h'[Boot] = Idle /\ \A s \in Slot : h'[s] = Idle
          /\ writes' = {} /\ uncommitted = {} /\ undone = {}
          /\ UNCHANGED <<components, rows, nextId, uncommitted, undone>>
      BY <1>1, <1>3 DEF TypeInv, TypeOK, OrderInv, BootIsAlone, Goto, cacheVars, dbVars
    <2>2. CachedIsStored' /\ HandedOut' /\ LockedIsStored'
      BY <2>1, IdleType DEF OrderInv, CachedIsStored, KnownIds, Known, HandedOut, LockedIsStored
    <2> QED  BY <2>1, <2>2, IdleType DEF OrderInv, DeletedIsUncached, InsertedIsPrivate,
                                     BootIsAlone, At
  <1> QED  BY <1>2, <1>3 DEF Select

\* init() goes on to the next command for the same row.
LEMMA BootGoesOnOrder ==
  ASSUME TypeInv, OrderInv, h[Boot] # Idle,
         NEW pc \in {"setting direction", "cleaning up"},
         h' = [h EXCEPT ![Boot] = [h[Boot] EXCEPT !.pc = pc]],
         UNCHANGED <<components, rows, nextId, uncommitted, undone, writes, snapshot>>
  PROVE  OrderInv'
  <1> DEFINE handler == [h[Boot] EXCEPT !.pc = pc]
  <1>1. handler.pc = pc /\ handler.op = h[Boot].op /\ handler.todo = h[Boot].todo
    BY HandlerType DEF Handlers, Handler
  <1>2. h'[Boot] = handler /\ \A s \in Slot : h'[s] = Idle
    BY DEF TypeInv, TypeOK, OrderInv, BootIsAlone
  <1>3. \A id \in Id : Known(id)' <=> Known(id)
    BY DEF Known
  <1>4. /\ writes = {} /\ uncommitted = {} /\ undone = {}
        /\ h[Boot].op = "init" /\ h[Boot].todo \subseteq Id
        /\ \A id \in h[Boot].todo : rows[id] # NoRow /\ snapshot[id] = rows[id] /\ ~Known(id)
    BY HandlerType DEF OrderInv, BootIsAlone, Handlers, Handler
  <1>5. BootIsAlone'
    BY <1>1, <1>2, <1>3, <1>4 DEF BootIsAlone, At
  <1>6. CachedIsStored' /\ HandedOut' /\ LockedIsStored'
    BY <1>2, <1>3, IdleType DEF OrderInv, CachedIsStored, KnownIds, HandedOut, LockedIsStored
  <1> QED  BY <1>2, <1>4, <1>5, <1>6, IdleType DEF OrderInv, DeletedIsUncached,
                                                   InsertedIsPrivate, At

LEMMA AfterInitOrder ==
  ASSUME EarlyRequests = FALSE, TypeInv, OrderInv, NEW p \in Handlers, NEW ok \in BOOLEAN,
         h[p] # Idle, h[p].id \in Id, AfterInit(p, ok), UNCHANGED tableVars
  PROVE  OrderInv'
  <1>1. CASE h[p].op = "init" /\ LoadFrom(h[p].todo, snapshot) /\ UNCHANGED sentVars
    <2>1. p = Boot /\ h[Boot].todo \in SUBSET Id
      BY <1>1, HandlerType DEF WellFormed, Handler
    <2>2. \A id \in h[Boot].todo : rows[id] # NoRow /\ snapshot[id] = rows[id] /\ ~Known(id)
      BY <2>1 DEF OrderInv, BootIsAlone
    <2> QED  BY <1>1, <2>1, <2>2, LoadFromOrder DEF TypeInv, TypeOK, dbVars
  <1>2. CASE h[p].op \in {"add", "update"}
    <2>1. p \in Slot
      BY <1>2 DEF Handlers, OrderInv, BootIsAlone
    <2>2. h[Boot] = Idle
      BY <2>1, BootIsIdle
    <2>3. CASE h' = [h EXCEPT ![p] = Idle] /\ UNCHANGED <<components, writes>>
      BY <2>1, <2>2, <2>3, EndsOrder
    <2>4. CASE /\ h[p].op = "update"
               /\ StoreUpdate(h[p].id, h[p].c, h[p].row)
               /\ h' = [h EXCEPT ![p] = Idle]
               /\ UNCHANGED components
      <3>1. h[p].row \in Row /\ h[p].id < nextId /\ Apart(p, h[p].id)
        BY <2>1, <2>4, HandlerType, HeldIsApart DEF WellFormed
      <3> QED  BY <2>1, <2>2, <2>4, <3>1, StoreUpdateOrder
    <2> QED  BY <1>2, <2>3, <2>4 DEF AfterInit, Finish, cacheVars
  <1> QED  BY <1>1, <1>2 DEF AfterInit

LEMMA InitGpioOrder ==
  ASSUME EarlyRequests = FALSE, TypeInv, OrderInv, NEW p \in Handlers, InitGpio(p)
  PROVE  OrderInv'
  <1>1. h[p] # Idle /\ h[p].id \in Id
    BY HandlerType, IdleType DEF WellFormed, InitGpio, Exported, DirectionSet, CleanedUp, At
  <1>2. UNCHANGED tableVars
    BY DEF InitGpio, Exported, DirectionSet, CleanedUp
  <1>3. ASSUME NEW pc \in {"setting direction", "cleaning up"},
               h' = [h EXCEPT ![p] = [h[p] EXCEPT !.pc = pc]],
               UNCHANGED <<components, snapshot, writes>>
        PROVE  OrderInv'
    <2>1. CASE p = Boot
      BY <1>1, <1>2, <1>3, <2>1, BootGoesOnOrder
    <2>2. CASE p \in Slot
      BY <1>1, <1>2, <1>3, <2>2, GoesOnOrder
    <2> QED  BY <2>1, <2>2 DEF Handlers
  <1>4. ASSUME NEW ok \in BOOLEAN, AfterInit(p, ok)  PROVE OrderInv'
    BY <1>1, <1>2, <1>4, AfterInitOrder
  <1> QED  BY <1>3, <1>4 DEF InitGpio, Exported, DirectionSet, CleanedUp, Await, cacheVars

\* The database executes a statement: at most the row it names changes, and not as
\* long as it is locked.
LEMMA ExecuteWriteOrder ==
  ASSUME TypeInv, OrderInv, NEW w \in writes, ExecuteWrite(w)
  PROVE  OrderInv'
  <1>1. /\ h[Boot] = Idle /\ h' = h /\ UNCHANGED <<components, nextId, uncommitted, undone>>
        /\ writes' \subseteq writes /\ w.id \in Id /\ w.row \in StoredRow \cup {NoRow}
    BY DEF OrderInv, BootIsAlone, ExecuteWrite, cacheVars, TypeInv, TypeOK
  <1>2. \A id \in Id : Known(id)' <=> Known(id)
    BY <1>1 DEF Known
  <1>3. \A id \in Id :
          \/ rows'[id] = rows[id]
          \/ id = w.id /\ rows'[id] = w.row /\ Executes(w) /\ ~Waits(w)
    BY <1>1 DEF ExecuteWrite, TypeInv, TypeOK
  <1>4. CachedIsStored'
    BY <1>1, <1>2, <1>3 DEF OrderInv, CachedIsStored, KnownIds, DeletedIsUncached
  <1>5. HandedOut'
    BY <1>1, <1>2, <1>3 DEF OrderInv, HandedOut
  <1>6. DeletedIsUncached'
    BY <1>1, <1>2 DEF OrderInv, DeletedIsUncached, TypeInv, TypeOK
  <1>9. LockedIsStored'
    <2>1. \A id \in uncommitted' : rows'[id] # NoRow
      BY <1>1, <1>3 DEF OrderInv, LockedIsStored, Waits, TypeInv, TypeOK
    <2>2. \A id \in undone' : rows'[id] = NoRow
      BY <1>1, <1>3 DEF OrderInv, LockedIsStored, Executes, TypeInv, TypeOK
    <2> QED  BY <2>1, <2>2 DEF LockedIsStored
  <1>7. InsertedIsPrivate'
    <2> SUFFICES ASSUME NEW s \in Slot, At(s, "inserted")
                 PROVE  /\ rows'[h[s].id] = Stored(h[s].row)
                        /\ h[s].id < nextId
                        /\ ~Known(h[s].id)'
                        /\ \A v \in writes' : v.id # h[s].id
                        /\ \A t \in Slot \ {s} :
                             At(t, "inserted") \/ h[t].op \in {"update", "remove"}
                               => h[t].id # h[s].id
      BY <1>1 DEF InsertedIsPrivate, At
    <2>1. /\ rows[h[s].id] = Stored(h[s].row) /\ h[s].id < nextId /\ ~Known(h[s].id)
          /\ \A v \in writes : v.id # h[s].id
          /\ \A t \in Slot \ {s} :
               At(t, "inserted") \/ h[t].op \in {"update", "remove"} => h[t].id # h[s].id
      BY DEF OrderInv, InsertedIsPrivate
    <2>2. h[s].id \in Id /\ ~Known(h[s].id)'
      BY <1>1, <2>1, HandlerType DEF WellFormed, Handlers, Known
    <2> QED  BY <1>1, <1>3, <2>1, <2>2
  <1>8. BootIsAlone'
    BY <1>1 DEF BootIsAlone
  <1> QED  BY <1>4, <1>5, <1>6, <1>7, <1>8, <1>9 DEF OrderInv

\* The COMMIT of an INSERT arrives, or is lost: then the row goes, that of no
\* request that still holds its id.
LEMMA CommitInsertOrder ==
  ASSUME TypeInv, OrderInv, NEW id \in uncommitted, CommitInsert(id)
  PROVE  OrderInv'
  <1>1. /\ h[Boot] = Idle /\ uncommitted' \subseteq uncommitted
        /\ UNCHANGED <<components, rows, nextId, undone, writes, snapshot, h>>
    BY DEF CommitInsert, cacheVars, bootVars, OrderInv, BootIsAlone
  <1> QED  BY <1>1 DEF OrderInv, CachedIsStored, HandedOut, LockedIsStored, DeletedIsUncached,
                       InsertedIsPrivate, BootIsAlone, KnownIds, Known, At

LEMMA LoseInsertOrder ==
  ASSUME TypeInv, OrderInv, NEW id \in uncommitted, LoseInsert(id)
  PROVE  OrderInv'
  <1>1. /\ h[Boot] = Idle /\ id \in Id
        /\ rows' = [rows EXCEPT ![id] = NoRow]
        /\ uncommitted' = uncommitted \ {id} /\ undone' = undone \cup {id}
        /\ UNCHANGED <<components, nextId, writes, h>>
    BY DEF LoseInsert, cacheVars, OrderInv, BootIsAlone, TypeInv, TypeOK
  <1>2. rows'[id] = NoRow /\ \A i \in Id \ {id} : rows'[i] = rows[i]
    BY <1>1 DEF TypeInv, TypeOK
  <1>3. \A i \in Id : Known(i)' <=> Known(i)
    BY <1>1 DEF Known
  <1>4. CachedIsStored' /\ HandedOut' /\ DeletedIsUncached'
    BY <1>1, <1>2, <1>3 DEF OrderInv, CachedIsStored, KnownIds, HandedOut, DeletedIsUncached,
                            TypeInv, TypeOK
  <1>5. LockedIsStored'
    BY <1>1, <1>2 DEF OrderInv, LockedIsStored, TypeInv, TypeOK
  <1>6. InsertedIsPrivate'
    <2> SUFFICES ASSUME NEW s \in Slot, At(s, "inserted")
                 PROVE  /\ rows'[h[s].id] = Stored(h[s].row)
                        /\ h[s].id < nextId
                        /\ ~Known(h[s].id)'
                        /\ \A v \in writes' : v.id # h[s].id
                        /\ \A t \in Slot \ {s} :
                             At(t, "inserted") \/ h[t].op \in {"update", "remove"}
                               => h[t].id # h[s].id
      BY <1>1 DEF InsertedIsPrivate, At
    <2>1. /\ rows[h[s].id] = Stored(h[s].row) /\ h[s].id < nextId /\ ~Known(h[s].id)
          /\ \A v \in writes : v.id # h[s].id
          /\ \A t \in Slot \ {s} :
               At(t, "inserted") \/ h[t].op \in {"update", "remove"} => h[t].id # h[s].id
      BY DEF OrderInv, InsertedIsPrivate
    <2>2. h[s].id \in Id /\ h[s].id # id
      BY HandlerType DEF WellFormed, Handlers, LoseInsert, Closing
    <2> QED  BY <1>1, <1>2, <1>3, <2>1, <2>2
  <1>7. BootIsAlone'
    BY <1>1 DEF BootIsAlone
  <1> QED  BY <1>4, <1>5, <1>6, <1>7 DEF OrderInv

\* OrderInv reads none of the other variables.
LEMMA ElsewhereOrder ==
  ASSUME OrderInv, UNCHANGED <<components, rows, nextId, uncommitted, undone, writes, snapshot, h>>
  PROVE  OrderInv'
  BY DEF OrderInv, CachedIsStored, HandedOut, LockedIsStored, DeletedIsUncached,
         InsertedIsPrivate, BootIsAlone, KnownIds, Known, At

LEMMA BootingOrder ==
  ASSUME TypeInv, OrderInv, Restart
  PROVE  OrderInv'
  <1>1. /\ writes' = {} /\ uncommitted' = {} /\ undone' = {} /\ nextId' = nextId
        /\ \A id \in Id : ~Known(id)' /\ (rows'[id] # NoRow => rows[id] # NoRow)
        /\ \A s \in Slot : h'[s] = Idle
        /\ h'[Boot] = Booting
    BY DEF Restart, Known
  <1>2. Booting.op = "init" /\ Booting.todo = {}
    BY DEF Booting, Idle
  <1> QED  BY <1>1, <1>2, IdleType DEF OrderInv, CachedIsStored, HandedOut, LockedIsStored,
                         DeletedIsUncached, InsertedIsPrivate, BootIsAlone, KnownIds, At

LEMMA InitOrder == Init => OrderInv
  <1> SUFFICES ASSUME Init  PROVE OrderInv
    OBVIOUS
  <1>1. /\ writes = {} /\ uncommitted = {} /\ undone = {}
        /\ \A id \in Id : ~Known(id)
        /\ \A id \in Id : rows[id] # NoRow => id < nextId
        /\ \A s \in Slot : h[s] = Idle
        /\ h[Boot] = Booting
    BY DEF Init, Known, StoredIds
  <1>2. Booting.op = "init" /\ Booting.todo = {}
    BY DEF Booting, Idle
  <1> QED  BY <1>1, <1>2, IdleType DEF OrderInv, CachedIsStored, HandedOut, LockedIsStored,
                         DeletedIsUncached, InsertedIsPrivate, BootIsAlone, KnownIds, At

LEMMA NextOrder ==
  ASSUME EarlyRequests = FALSE, TypeInv, OrderInv, [Next]_vars
  PROVE  OrderInv'
  <1>1. ASSUME NEW s \in Slot, Request(s)  PROVE OrderInv'
    BY <1>1, ToggleOrder, UpdateOrder, RemoveOrder, AddOrder, ListOrder DEF Request
  <1>2. ASSUME NEW s \in Slot, Continue(s)  PROVE OrderInv'
    BY <1>2, ToggledOrder, UpdateGoesOnOrder, InsertedOrder, RemoveTurnedOffOrder,
       RemoveUnexportedOrder, ListOrder DEF Continue
  <1>3. CASE UNCHANGED vars \/ GpioStep
    BY <1>3, ElsewhereOrder DEF vars, GpioStep, cacheVars, dbVars, bootVars
  <1> QED  BY <1>1, <1>2, <1>3, InsertOrder, InitGpioOrder, SelectOrder, ExecuteWriteOrder,
              CommitInsertOrder, LoseInsertOrder, BootingOrder DEF Next, Work, Handlers

LEMMA OrderInvariance ==
  ASSUME EarlyRequests = FALSE
  PROVE  Spec => [](TypeInv /\ OrderInv)
  <1>1. Init => TypeInv /\ OrderInv
    BY InitType, InitOrder
  <1>2. TypeInv /\ OrderInv /\ [Next]_vars => (TypeInv /\ OrderInv)'
    BY NextType, NextOrder
  <1> QED  BY <1>1, <1>2, PTL DEF Spec

\* An id is handed out by the table before anything knows it, and what a
\* suspended request is about to do to it agrees with the map and the table.
\* (addComponent, removeComponent, init)
THEOREM RequestsAreInOrder ==
  ASSUME EarlyRequests = FALSE
  PROVE  Spec => []OrderInv
  <1>1. TypeInv /\ OrderInv => OrderInv
    OBVIOUS
  <1> QED  BY <1>1, OrderInvariance, PTL

\* However requests, their timeouts, the statements and COMMITs nobody waits for and
\* restarts interleave, a component that clients see has a row in the table, unless
\* the connection of its INSERT was lost between the answer and the COMMIT; provided
\* that no request comes before init() has finished. (addComponent, removeComponent)
THEOREM CachedComponentsAreStored ==
  ASSUME EarlyRequests = FALSE
  PROVE  Spec => []CachedIsStored
  <1>1. TypeInv /\ OrderInv => CachedIsStored
    BY DEF OrderInv
  <1> QED  BY <1>1, OrderInvariance, PTL
-----------------------------------------------------------------------------
(***************************************************************************)
(* The ids follow ComponentLifecycle.                                      *)
(***************************************************************************)
\* What the stage of an id depends on.
SameStage(id) ==
  /\ Known(id)' <=> Known(id)
  /\ rows'[id] = NoRow <=> rows[id] = NoRow
  /\ Deletes(id)' <=> Deletes(id)
  /\ id < nextId' <=> id < nextId
  /\ id \in undone' <=> id \in undone

LifeStep == [Lifecycle!Next]_<<life, uncommitted>>

LEMMA StageStays ==
  ASSUME NEW id \in Id, SameStage(id)
  PROVE  life'[id] = life[id]
  BY DEF life, StageOf, SameStage

LEMMA LifeStays ==
  ASSUME \A id \in Id : SameStage(id)
  PROVE  life' = life
  BY StageStays DEF life

LEMMA LifeMoves ==
  ASSUME NEW id \in Id, \A i \in Id \ {id} : SameStage(i)
  PROVE  life' = [life EXCEPT ![id] = life'[id]]
  <1>1. \A i \in Id \ {id} : life'[i] = life[i]
    BY StageStays
  <1>2. life = [i \in Id |-> life[i]] /\ life' = [i \in Id |-> life'[i]]
    BY DEF life
  <1> QED  BY <1>1, <1>2

\* A pending UPDATE does not count.
LEMMA NewUpdateKeepsStage ==
  ASSUME UNCHANGED <<components, rows, nextId, uncommitted, undone>>,
         NEW id \in Id, NEW c, NEW row \in Row, StoreUpdate(id, c, row)
  PROVE  LifeStep
  <1>1. writes' = writes \cup {[id |-> id, row |-> Stored(row)]} /\ Stored(row) # NoRow
    BY StoredType, StoredRowIsRow DEF StoreUpdate, SendUpdate
  <1>2. ASSUME NEW i \in Id  PROVE SameStage(i)
    BY <1>1 DEF SameStage, Known, Deletes
  <1> QED  BY <1>2, LifeStays DEF LifeStep

LEMMA UnchangedLife ==
  ASSUME UNCHANGED <<components, rows, nextId, uncommitted, undone, writes>>
  PROVE  LifeStep
  BY LifeStays DEF SameStage, Known, Deletes, LifeStep

LEMMA InsertLife ==
  ASSUME TypeInv, OrderInv, NEW s \in Slot, Insert(s)
  PROVE  LifeStep
  <1>0. UNCHANGED <<components, undone, writes>> /\ h[s].row \in Row
    BY HandlerType DEF Insert, cacheVars, Handlers, WellFormed
  <1>1. CASE UNCHANGED <<rows, nextId, uncommitted>>
    BY <1>0, <1>1, UnchangedLife
  <1>2. CASE /\ nextId <= MaxId
             /\ rows' = [rows EXCEPT ![nextId] = Stored(h[s].row)]
             /\ nextId' = nextId + 1
             /\ uncommitted' = uncommitted \cup {nextId}
    <2>1. /\ nextId \in Id /\ ~Known(nextId) /\ rows[nextId] = NoRow /\ ~Deletes(nextId)
          /\ nextId \notin undone
      BY <1>2 DEF TypeInv, TypeOK, Id, OrderInv, HandedOut, Deletes
    <2>2. \A i \in Id \ {nextId} : SameStage(i)
      BY <1>0, <1>2, <2>1 DEF TypeInv, TypeOK, Id, SameStage, Known, Deletes
    <2>3. life[nextId] = "unused"
      BY <2>1 DEF life, StageOf, TypeInv, TypeOK
    <2>4. PICK id \in Id : id = nextId
      BY <2>1
    <2>5. rows'[id] # NoRow
      BY <1>0, <1>2, <2>4, StoredType, StoredRowIsRow DEF TypeInv, TypeOK
    <2>6. life'[id] = "stored"
      BY <1>0, <2>1, <2>4, <2>5 DEF life, StageOf, Known, Deletes
    <2>7. life[id] = "unused" /\ life' = [life EXCEPT ![id] = "stored"]
      BY <2>2, <2>3, <2>4, <2>6, LifeMoves
    <2> QED  BY <1>2, <2>4, <2>7 DEF LifeStep, Lifecycle!Next, Lifecycle!Store, Lifecycle!Move
  <1> QED  BY <1>1, <1>2 DEF Insert

\* An id with a row that is not cached, nor about to be deleted, is cached.
LEMMA ServeLife ==
  ASSUME TypeInv, NEW id \in Id, NEW ref \in Ref, ~Known(id), rows[id] # NoRow, ~Deletes(id),
         id \notin undone, components' = [components EXCEPT ![id] = ref],
         UNCHANGED <<rows, nextId, uncommitted, undone, writes>>
  PROVE  LifeStep
  <1>1. \A i \in Id \ {id} : SameStage(i)
    BY DEF TypeInv, TypeOK, SameStage, Known, Deletes
  <1>2. ref # Undefined
    BY DEF Ref, Undefined, Id
  <1>3. life[id] = "stored" /\ life'[id] = "served"
    BY <1>2 DEF life, StageOf, TypeInv, TypeOK, Known, Deletes
  <1>4. life' = [life EXCEPT ![id] = "served"]
    BY <1>1, <1>3, LifeMoves
  <1> QED  BY <1>3, <1>4 DEF LifeStep, Lifecycle!Next, Lifecycle!Serve, Lifecycle!Move

LEMMA InsertedLife ==
  ASSUME TypeInv, OrderInv, NEW s \in Slot, Inserted(s)
  PROVE  LifeStep
  <1>0. UNCHANGED <<rows, nextId, uncommitted, undone, writes>>
    BY DEF Inserted, dbVars
  <1>1. CASE UNCHANGED cacheVars
    BY <1>0, <1>1, UnchangedLife DEF cacheVars
  <1>2. CASE components' = [components EXCEPT ![h[s].id] = <<h[s].id, "add">>]
    <2>0. h[s].id \in Id /\ h[s].row \in Row
      BY HandlerType DEF Handlers, WellFormed, Inserted
    <2>1. /\ rows[h[s].id] # NoRow /\ ~Known(h[s].id) /\ ~Deletes(h[s].id)
          /\ h[s].id \notin undone
      BY <2>0, StoredType, StoredRowIsRow
         DEF Inserted, OrderInv, InsertedIsPrivate, LockedIsStored, Deletes
    <2>2. PICK id \in Id : id = h[s].id
      BY <2>0
    <2>3. <<id, "add">> \in Ref
      BY DEF Ref
    <2> QED  BY <1>0, <1>2, <2>1, <2>2, <2>3, ServeLife
  <1> QED  BY <1>1, <1>2 DEF Inserted

LEMMA LoadFromLife ==
  ASSUME TypeInv, OrderInv, h[Boot] # Idle, NEW todo \in SUBSET Id, NEW table,
         \A id \in todo : rows[id] # NoRow /\ ~Known(id),
         LoadFrom(todo, table), UNCHANGED dbVars
  PROVE  LifeStep
  <1>0. writes = {} /\ undone = {} /\ UNCHANGED <<rows, nextId, uncommitted, undone, writes>>
    BY DEF OrderInv, BootIsAlone, dbVars
  <1>1. CASE UNCHANGED cacheVars
    BY <1>0, <1>1, UnchangedLife DEF cacheVars
  <1>2. ASSUME NEW id \in todo, components' = [components EXCEPT ![id] = <<id, "init">>]
        PROVE  LifeStep
    <2>1. <<id, "init">> \in Ref /\ ~Deletes(id)
      BY <1>0 DEF Ref, Deletes
    <2> QED  BY <1>0, <1>2, <2>1, ServeLife
  <1> QED  BY <1>1, <1>2 DEF LoadFrom

LEMMA SelectLife ==
  ASSUME TypeInv, OrderInv, Select
  PROVE  LifeStep
  <1>1. h[Boot] # Idle /\ KnownIds = {} /\ UNCHANGED dbVars
    BY IdleType DEF Select, At, OrderInv, BootIsAlone
  <1>2. CASE LoadFrom(StoredIds(rows) \ uncommitted, rows)
    BY <1>1, <1>2, LoadFromLife DEF StoredIds, KnownIds
  <1>3. CASE UNCHANGED cacheVars
    BY <1>1, <1>3, UnchangedLife DEF cacheVars, dbVars
  <1> QED  BY <1>2, <1>3 DEF Select

LEMMA InitGpioLife ==
  ASSUME TypeInv, OrderInv, NEW p \in Handlers, InitGpio(p)
  PROVE  LifeStep
  <1>1. h[p].id \in Id /\ h[p] # Idle /\ UNCHANGED tableVars
    BY HandlerType, IdleType
       DEF WellFormed, InitGpio, Exported, DirectionSet, CleanedUp, At
  <1>2. ASSUME NEW ok \in BOOLEAN, AfterInit(p, ok)  PROVE LifeStep
    <2>1. CASE h[p].op = "init" /\ LoadFrom(h[p].todo, snapshot) /\ UNCHANGED sentVars
      <3>1. p = Boot /\ h[p].todo \in SUBSET Id
        BY <2>1, HandlerType DEF WellFormed, Handler
      <3>2. \A id \in h[p].todo : rows[id] # NoRow /\ ~Known(id)
        BY <1>1, <3>1 DEF OrderInv, BootIsAlone
      <3> QED  BY <1>1, <2>1, <3>1, <3>2, LoadFromLife DEF dbVars
    <2>2. CASE UNCHANGED <<components, writes>>
      BY <1>1, <2>2, UnchangedLife
    <2>3. CASE /\ h[p].op = "update" /\ UNCHANGED components
               /\ StoreUpdate(h[p].id, h[p].c, h[p].row)
      <3>1. h[p].row \in Row
        BY <2>3, HandlerType DEF WellFormed
      <3> QED  BY <1>1, <2>3, <3>1, NewUpdateKeepsStage
    <2> QED  BY <1>2, <2>1, <2>2, <2>3 DEF AfterInit, cacheVars
  <1>3. CASE UNCHANGED <<components, writes>>
    BY <1>1, <1>3, UnchangedLife
  <1> QED  BY <1>2, <1>3 DEF InitGpio, Exported, DirectionSet, CleanedUp, cacheVars

LEMMA UpdateLife ==
  ASSUME TypeInv, OrderInv, NEW s \in Slot, NEW id \in Id, NEW data \in UpdateData,
         Update(s, id, data)
  PROVE  LifeStep
  <1>1. UNCHANGED <<components, rows, nextId, uncommitted, undone>>
    BY DEF Update
  <1>2. CASE UNCHANGED writes
    BY <1>1, <1>2, UnchangedLife
  <1>3. CASE Known(id) /\ StoreUpdate(id, components[id], Merge(data, Comp(id).row))
    <2>1. Merge(data, Comp(id).row) \in Row
      BY <1>3, CachedType, MergeType
    <2>2. components[id] \in Ref
      BY <1>3, CachedType
    <2> QED  BY <1>1, <1>3, <2>1, <2>2, NewUpdateKeepsStage
  <1> QED  BY <1>2, <1>3 DEF Update

\* The cached id is dropped; or another request has dropped or deleted it.
LEMMA RemoveUnexportedLife ==
  ASSUME TypeInv, OrderInv, NEW s \in Slot, RemoveUnexported(s)
  PROVE  LifeStep
  <1>1. h[s].id \in Id
    BY HandlerType DEF RemoveUnexported, WellFormed, Handlers
  <1>2. PICK id \in Id : id = h[s].id
    BY <1>1
  <1>3. /\ writes' = writes \cup {[id |-> id, row |-> NoRow]}
        /\ UNCHANGED <<rows, nextId, uncommitted, undone>>
        /\ components' = [components EXCEPT ![id] = Undefined]
    BY <1>2 DEF RemoveUnexported, SendDelete
  <1>4. \A i \in Id \ {id} : SameStage(i)
    BY <1>3 DEF TypeInv, TypeOK, SameStage, Known, Deletes
  <1>5. ~Known(id)' /\ Deletes(id)'
    BY <1>3 DEF TypeInv, TypeOK, Known, Deletes
  <1>6. id < nextId \/ rows[id] = NoRow
    BY DEF OrderInv, HandedOut
  <1>7. life' = [life EXCEPT ![id] = life'[id]]
    BY <1>4, LifeMoves
  <1>0. CASE id \in undone
    <2>1. life'[id] = life[id]
      BY <1>0, <1>3 DEF life, StageOf
    <2> QED  BY <1>3, <1>7, <2>1 DEF LifeStep, life
  <1>8. CASE id \notin undone /\ Known(id)
    <2>1. life[id] = "served" /\ life'[id] = "dropped"
      BY <1>3, <1>5, <1>8 DEF life, StageOf, OrderInv, CachedIsStored, KnownIds
    <2> QED  BY <1>3, <1>7, <2>1 DEF LifeStep, Lifecycle!Next, Lifecycle!Drop, Lifecycle!Move
  <1>9. CASE id \notin undone /\ ~Known(id) /\ rows[id] # NoRow /\ ~Deletes(id)
    <2>1. life[id] = "stored" /\ life'[id] = "dropped"
      BY <1>3, <1>5, <1>9 DEF life, StageOf
    <2> QED  BY <1>3, <1>7, <2>1 DEF LifeStep, Lifecycle!Next, Lifecycle!DropAgain, Lifecycle!Move
  <1>10. CASE id \notin undone /\ ~Known(id) /\ (rows[id] = NoRow \/ Deletes(id))
    <2>1. life'[id] = life[id]
      BY <1>3, <1>5, <1>10 DEF life, StageOf
    <2> QED  BY <1>3, <1>7, <2>1 DEF LifeStep, life
  <1> QED  BY <1>0, <1>8, <1>9, <1>10

LEMMA ExecuteWriteLife ==
  ASSUME TypeInv, OrderInv, NEW w \in writes, ExecuteWrite(w)
  PROVE  LifeStep
  <1>1. /\ UNCHANGED <<components, nextId, uncommitted, undone>>
        /\ writes' = writes \ {w} \/ (writes' = writes /\ w \in resent)
        /\ w \in [id : Id, row : StoredRow \cup {NoRow}]
    BY DEF ExecuteWrite, cacheVars, TypeInv, TypeOK
  <1>2. PICK id \in Id : id = w.id
    BY <1>1
  <1>3. \A i \in Id \ {id} : SameStage(i)
    BY <1>1, <1>2 DEF ExecuteWrite, TypeInv, TypeOK, SameStage, Known, Deletes
  <1>4. life' = [life EXCEPT ![id] = life'[id]]
    BY <1>3, LifeMoves
  <1>5. CASE w.row # NoRow
    <2>1. Deletes(id)' <=> Deletes(id)
      BY <1>1, <1>5 DEF Deletes
    <2>2. rows'[id] = NoRow <=> rows[id] = NoRow
      BY <1>1, <1>2, <1>5 DEF ExecuteWrite, Executes, TypeInv, TypeOK
    <2>3. SameStage(id)
      BY <1>1, <2>1, <2>2 DEF SameStage, Known
    <2> QED  BY <1>1, <1>3, <2>3, LifeStays DEF LifeStep
  <1>6. CASE id \in undone
    <2>1. life'[id] = life[id]
      BY <1>1, <1>6 DEF life, StageOf
    <2> QED  BY <1>1, <1>4, <2>1 DEF life, LifeStep
  <1>7. CASE w.row = NoRow /\ id \notin undone
    <2>1. ~Known(id) /\ Deletes(id) /\ ~Known(id)'
      BY <1>1, <1>2, <1>7 DEF OrderInv, DeletedIsUncached, Deletes, Known
    <2>2. CASE rows[id] = NoRow
      <3>1. rows'[id] = NoRow
        BY <1>2, <1>7, <2>2 DEF ExecuteWrite, TypeInv, TypeOK
      <3>2. life'[id] = life[id]
        BY <1>1, <2>1, <2>2, <3>1 DEF life, StageOf
      <3> QED  BY <1>1, <1>4, <3>2 DEF life, LifeStep
    <2>3. CASE rows[id] # NoRow
      <3>1. life[id] = "dropped" /\ id < nextId
        BY <1>7, <2>1, <2>3 DEF life, StageOf, OrderInv, HandedOut
      <3>2. CASE rows'[id] = NoRow
        <4>1. life'[id] = "deleted"
          BY <1>1, <1>7, <2>1, <3>1, <3>2 DEF life, StageOf
        <4>2. id \notin uncommitted
          BY <1>2, <2>3, <3>2 DEF ExecuteWrite, Waits
        <4> QED  BY <1>1, <1>4, <3>1, <4>1, <4>2
                 DEF LifeStep, Lifecycle!Next, Lifecycle!Delete, Lifecycle!Move
      <3>3. CASE rows'[id] # NoRow /\ ~Deletes(id)'
        <4>1. life'[id] = "stored"
          BY <1>1, <1>7, <2>1, <3>3 DEF life, StageOf
        <4> QED  BY <1>1, <1>4, <3>1, <4>1
                 DEF LifeStep, Lifecycle!Next, Lifecycle!KeepRow, Lifecycle!Move
      <3>4. CASE rows'[id] # NoRow /\ Deletes(id)'
        <4>1. life'[id] = life[id]
          BY <1>1, <2>1, <2>3, <3>4 DEF life, StageOf
        <4> QED  BY <1>1, <1>4, <4>1 DEF life, LifeStep
      <3> QED  BY <3>2, <3>3, <3>4
    <2> QED  BY <2>2, <2>3
  <1> QED  BY <1>5, <1>6, <1>7

\* The COMMIT of an INSERT does not count, and its loss undoes what is stored.
LEMMA CommitInsertLife ==
  ASSUME TypeInv, NEW id \in uncommitted, CommitInsert(id)
  PROVE  LifeStep
  <1>1. /\ id \in Id /\ uncommitted' = uncommitted \ {id}
        /\ UNCHANGED <<components, rows, nextId, undone, writes>>
    BY DEF CommitInsert, cacheVars, TypeInv, TypeOK
  <1>2. life' = life
    BY <1>1, LifeStays DEF SameStage, Known, Deletes
  <1> QED  BY <1>1, <1>2 DEF LifeStep, Lifecycle!Next, Lifecycle!Save

LEMMA LoseInsertLife ==
  ASSUME TypeInv, OrderInv, NEW id \in uncommitted, LoseInsert(id)
  PROVE  LifeStep
  <1>1. /\ id \in Id /\ rows' = [rows EXCEPT ![id] = NoRow]
        /\ uncommitted' = uncommitted \ {id} /\ undone' = undone \cup {id}
        /\ UNCHANGED <<components, nextId, writes>>
    BY DEF LoseInsert, cacheVars, TypeInv, TypeOK
  <1>2. \A i \in Id \ {id} : SameStage(i)
    BY <1>1 DEF TypeInv, TypeOK, SameStage, Known, Deletes
  <1>3. rows[id] # NoRow /\ id \notin undone
    BY DEF OrderInv, LockedIsStored
  <1>4. life[id] \in {"stored", "served", "dropped"} /\ life'[id] = "undone"
    BY <1>1, <1>3 DEF life, StageOf
  <1>5. life' = [life EXCEPT ![id] = "undone"]
    BY <1>1, <1>2, <1>4, LifeMoves
  <1>6. \E stage \in {"stored", "served", "dropped"} : Lifecycle!Move(id, stage, "undone")
    BY <1>4, <1>5 DEF Lifecycle!Move
  <1>7. Lifecycle!Undo(id)
    BY <1>1, <1>6 DEF Lifecycle!Undo
  <1> QED  BY <1>1, <1>7 DEF LifeStep, Lifecycle!Next

LEMMA RestartLife ==
  ASSUME TypeInv, OrderInv, Restart
  PROVE  LifeStep
  <1>1. /\ writes' = {} /\ uncommitted' = {} /\ undone' = {} /\ nextId' = nextId
        /\ \A id \in Id : ~Known(id)' /\ ~Deletes(id)'
        /\ \A id \in Id : rows'[id] = IF id \in uncommitted THEN NoRow ELSE rows[id]
    BY DEF Restart, Known, Deletes
  <1> DEFINE after(id) == IF id \in uncommitted \/ life[id] = "undone" THEN "deleted"
                          ELSE IF life[id] \in {"served", "dropped"} THEN "stored"
                          ELSE life[id]
  <1>2. ASSUME NEW id \in Id
        PROVE  life'[id] = after(id)
    <2>1. CASE id \in uncommitted \/ id \in undone
      BY <1>1, <2>1 DEF life, StageOf, OrderInv, LockedIsStored, HandedOut
    <2>2. CASE id \notin uncommitted /\ id \notin undone
      BY <1>1, <2>2 DEF life, StageOf, OrderInv, CachedIsStored, KnownIds
    <2> QED  BY <2>1, <2>2
  <1>3. life' = [id \in Id |-> after(id)]
    BY <1>2 DEF life
  <1> QED  BY <1>1, <1>3 DEF LifeStep, Lifecycle!Next, Lifecycle!Crash

LEMMA NextLife ==
  ASSUME TypeInv, OrderInv, [Next]_vars
  PROVE  LifeStep
  <1>1. ASSUME NEW s \in Slot, Request(s)  PROVE LifeStep
    <2>1. CASE \E id \in Id, data \in UpdateData : Update(s, id, data)
      BY <2>1, UpdateLife
    <2>2. CASE UNCHANGED <<cacheVars, dbVars>>
      BY <2>2, UnchangedLife DEF cacheVars, dbVars
    <2> QED  BY <1>1, <2>1, <2>2 DEF Request, Toggle, Remove, Add, List
  <1>2. ASSUME NEW s \in Slot, Continue(s)  PROVE LifeStep
    <2>1. CASE UNCHANGED <<components, rows, nextId, uncommitted, undone, writes>>
      BY <2>1, UnchangedLife
    <2> QED  BY <1>2, <2>1, InsertedLife, RemoveUnexportedLife
             DEF Continue, Toggled, UpdateTurnedOff, UpdateUnexported, RemoveTurnedOff, Read,
                 cacheVars, dbVars
  <1>3. CASE UNCHANGED vars \/ GpioStep
    BY <1>3, UnchangedLife DEF vars, GpioStep, cacheVars, dbVars
  <1> QED  BY <1>1, <1>2, <1>3, InsertLife, InitGpioLife, SelectLife, ExecuteWriteLife,
              CommitInsertLife, LoseInsertLife, RestartLife DEF Next, Work, Handlers

\* The cache, the table and the statements and COMMITs between them implement the
\* life of an id that ComponentLifecycle describes, whatever is refused, lost or
\* restarted. (addComponent, removeComponent, init)
THEOREM ImplementsLifecycle ==
  ASSUME EarlyRequests = FALSE
  PROVE  Spec => FollowsLifecycle
  <1>1. Init => TypeInv /\ OrderInv
    BY InitType, InitOrder
  <1>2. TypeInv /\ OrderInv /\ [Next]_vars => (TypeInv /\ OrderInv)'
    BY NextType, NextOrder
  <1>3. Init => Lifecycle!Init
    BY DEF Init, Lifecycle!Init, life, StageOf, Known, Deletes
  <1>4. TypeInv /\ OrderInv /\ [Next]_vars => [Lifecycle!Next]_<<life, uncommitted>>
    BY NextLife DEF LifeStep
  <1> QED  BY <1>1, <1>2, <1>3, <1>4, PTL DEF Spec, FollowsLifecycle, Lifecycle!Spec
-----------------------------------------------------------------------------
(***************************************************************************)
(* No row is forgotten, if no statement fails.                             *)
(***************************************************************************)
\* A step of a request that stores no row, and leaves the map only to delete.
LEMMA RequestAccount ==
  ASSUME TypeInv, AccountInv, NEW s \in Slot, ~At(s, "inserted"),
         NEW handler \in Handler, h' = [h EXCEPT ![s] = handler],
         handler.pc # "inserted",
         handler.op = "update" =>
           (h[s].op = "update" /\ handler.id = h[s].id) \/ Known(handler.id),
         UNCHANGED <<rows, unserved>>,
         \A id \in Id : Known(id) => Known(id)' \/ Deletes(id)',
         writes \subseteq writes',
         \A w \in writes' \ writes : w.row # NoRow =>
           (h[s].op = "update" /\ w.id = h[s].id) \/ Known(w.id)
  PROVE  AccountInv'
  <1>1. h'[s] = handler /\ \A q \in Handlers \ {s} : h'[q] = h[q]
    BY DEF TypeInv, TypeOK, Handlers
  <1>2. h'[Boot] = h[Boot] /\ \A t \in Slot \ {s} : h'[t] = h[t]
    BY <1>1 DEF Handlers
  <1>3. \A id \in Id : Deletes(id) => Deletes(id)'
    BY DEF Deletes
  <1>4. StoredIsAccountedFor'
    <2> SUFFICES ASSUME NEW id \in Id, rows[id] # NoRow
                 PROVE  \/ Known(id)' \/ Deletes(id)'
                        \/ ~ValidPin(rows'[id].physicalPin) \/ id \in unserved'
                        \/ \E t \in Slot : At(t, "inserted")' /\ h'[t].id = id
                        \/ At(Boot, "selecting")' \/ id \in h'[Boot].todo
      BY DEF StoredIsAccountedFor, StoredIds
    <2>1. \/ Known(id) \/ Deletes(id)
          \/ ~ValidPin(rows[id].physicalPin) \/ id \in unserved
          \/ \E t \in Slot : At(t, "inserted") /\ h[t].id = id
          \/ At(Boot, "selecting") \/ id \in h[Boot].todo
      BY DEF AccountInv, StoredIsAccountedFor, StoredIds
    <2> QED  BY <1>2, <1>3, <2>1 DEF At
  <1>5. UpdatedIsAccountedFor'
    <2> SUFFICES ASSUME NEW id \in Id, rows[id] # NoRow,
                        \/ \E t \in Slot : h'[t].op = "update" /\ h'[t].id = id
                        \/ \E w \in writes' : w.id = id /\ w.row # NoRow
                 PROVE  Known(id)' \/ Deletes(id)'
      BY DEF UpdatedIsAccountedFor
    <2>1. \/ \E t \in Slot : h[t].op = "update" /\ h[t].id = id
          \/ \E w \in writes : w.id = id /\ w.row # NoRow
          \/ Known(id)
      BY <1>1, <1>2
    <2> QED  BY <1>3, <2>1 DEF AccountInv, UpdatedIsAccountedFor
  <1> QED  BY <1>4, <1>5 DEF AccountInv

\* The most common case: no data changes.
LEMMA QuietAccount ==
  ASSUME TypeInv, AccountInv, NEW s \in Slot, ~At(s, "inserted"),
         NEW handler \in Handler, h' = [h EXCEPT ![s] = handler],
         handler.pc # "inserted",
         handler.op = "update" =>
           (h[s].op = "update" /\ handler.id = h[s].id) \/ Known(handler.id),
         UNCHANGED <<components, rows, unserved, writes>>
  PROVE  AccountInv'
  <1>1. \A id \in Id : Known(id)' <=> Known(id)
    BY DEF Known
  <1> QED  BY <1>1, RequestAccount

LEMMA EndsAccount ==
  ASSUME TypeInv, AccountInv, NEW s \in Slot, ~At(s, "inserted"),
         h' = [h EXCEPT ![s] = Idle], UNCHANGED <<components, rows, unserved, writes>>
  PROVE  AccountInv'
  BY QuietAccount, IdleType

LEMMA GoesOnAccount ==
  ASSUME TypeInv, AccountInv, NEW s \in Slot, ~At(s, "inserted"),
         NEW pc \in {"unexporting", "exporting", "setting direction", "cleaning up"},
         h' = [h EXCEPT ![s] = [h[s] EXCEPT !.pc = pc]],
         UNCHANGED <<components, rows, unserved, writes>>
  PROVE  AccountInv'
  <1> DEFINE handler == [h[s] EXCEPT !.pc = pc]
  <1>1. /\ h[s] \in Handler /\ handler \in Handler /\ handler.pc = pc
        /\ handler.op = h[s].op /\ handler.id = h[s].id
    BY HandlerType DEF Handlers, Handler
  <1> HIDE DEF handler
  <1>2. h' = [h EXCEPT ![s] = handler]
    BY DEF handler
  <1> QED  BY <1>1, <1>2, QuietAccount

\* A request sends an UPDATE of a component it holds, and ends.
LEMMA StoreUpdateAccount ==
  ASSUME TypeInv, AccountInv, NEW s \in Slot, ~At(s, "inserted"),
         h' = [h EXCEPT ![s] = Idle], NEW id \in Id, NEW c, NEW row,
         (h[s].op = "update" /\ id = h[s].id) \/ Known(id),
         StoreUpdate(id, c, row), UNCHANGED <<components, rows, unserved>>
  PROVE  AccountInv'
  <1> DEFINE new == [id |-> id, row |-> Stored(row)]
  <1>1. writes' = writes \cup {new} /\ new.id = id
    BY DEF StoreUpdate, SendUpdate
  <1>2. \A i \in Id : Known(i)' <=> Known(i)
    BY DEF Known
  <1> HIDE DEF new
  <1> QED  BY <1>1, <1>2, RequestAccount, IdleType

LEMMA VisitAccount ==
  ASSUME TypeInv, AccountInv, NEW s \in Slot, ~At(s, "inserted"), NEW todo \in SUBSET Id,
         Visit(s, todo), UNCHANGED <<components, rows, unserved, writes>>
  PROVE  AccountInv'
  <1> DEFINE left == {i \in todo : Known(i)}
  <1>1. CASE h' = [h EXCEPT ![s] = Idle]
    BY <1>1, EndsAccount
  <1>2. ASSUME NEW id \in left, NEW pc \in {"isOn", "readValue"},
               h' = [h EXCEPT ![s] = [Idle EXCEPT !.pc = pc, !.op = "list", !.id = id,
                                                  !.todo = left \ {id}]]
        PROVE  AccountInv'
    <2> DEFINE handler == [Idle EXCEPT !.pc = pc, !.op = "list", !.id = id,
                                       !.todo = left \ {id}]
    <2>1. handler \in Handler /\ handler.pc = pc /\ handler.op = "list"
      BY IdleType DEF Idle, Handler
    <2>2. h' = [h EXCEPT ![s] = handler]
      BY <1>2
    <2> HIDE DEF handler
    <2> QED  BY <2>1, <2>2, QuietAccount
  <1> QED  BY <1>1, <1>2 DEF Visit, Await, Finish

\* Toggle, Remove, Add and List change no data, and are no updates.
LEMMA ArrivalAccount ==
  ASSUME TypeInv, AccountInv, NEW s \in Slot,
         \/ \E id \in Id : (\E status \in Status : Toggle(s, id, status)) \/ Remove(s, id)
         \/ \E data \in UpdateData : Add(s, data)
         \/ List(s)
  PROVE  AccountInv'
  <1>1. h[s] = Idle /\ ~At(s, "inserted") /\ UNCHANGED <<components, rows, unserved, writes>>
    BY IdleType DEF Toggle, Remove, Add, List, Arrives, At, cacheVars, dbVars
  <1>2. CASE h' = [h EXCEPT ![s] = Idle]
    BY <1>1, <1>2, EndsAccount
  <1>3. ASSUME NEW handler \in Handler, h' = [h EXCEPT ![s] = handler],
               handler.pc # "inserted", handler.op # "update"
        PROVE  AccountInv'
    BY <1>1, <1>3, QuietAccount
  <1>4. ASSUME NEW id \in Id, AwaitUnexport(s, id)  PROVE AccountInv'
    <2> DEFINE handler == [Idle EXCEPT !.pc = "unexporting", !.op = "remove", !.id = id]
    <2>0. handler \in Handler /\ handler.pc = "unexporting" /\ handler.op = "remove"
      BY IdleType DEF Idle, Handler
    <2>1. CASE h' = [h EXCEPT ![s] = handler]
      <3> HIDE DEF handler
      <3> QED  BY <1>3, <2>0, <2>1
    <2> QED  BY <1>2, <1>4, <2>1 DEF AwaitUnexport, Await, Finish
  <1>5. ASSUME NEW id \in Id, NEW status \in Status, Toggle(s, id, status)
        PROVE  AccountInv'
    <2> DEFINE handler == [Idle EXCEPT !.pc = "toggling", !.op = "toggle", !.id = id]
    <2>0. handler \in Handler /\ handler.pc = "toggling" /\ handler.op = "toggle"
      BY IdleType DEF Idle, Handler
    <2>1. CASE h' = [h EXCEPT ![s] = handler]
      <3> HIDE DEF handler
      <3> QED  BY <1>3, <2>0, <2>1
    <2> QED  BY <1>2, <1>5, <2>1 DEF Toggle, Await, Finish
  <1>6. ASSUME NEW id \in Id, Remove(s, id)  PROVE AccountInv'
    <2> DEFINE handler == [Idle EXCEPT !.pc = "turning off", !.op = "remove", !.id = id]
    <2>0. handler \in Handler /\ handler.pc = "turning off" /\ handler.op = "remove"
      BY IdleType DEF Idle, Handler
    <2>1. CASE h' = [h EXCEPT ![s] = handler]
      <3> HIDE DEF handler
      <3> QED  BY <1>3, <2>0, <2>1
    <2> QED  BY <1>2, <1>4, <1>6, <2>1 DEF Remove, Await, Finish
  <1>7. ASSUME NEW data \in UpdateData, Add(s, data)  PROVE AccountInv'
    <2> DEFINE handler == [Idle EXCEPT !.pc = "inserting", !.op = "add", !.row = data]
    <2>1. CASE data \in Row /\ h' = [h EXCEPT ![s] = handler]
      <3>1. handler \in Handler /\ handler.pc = "inserting" /\ handler.op = "add"
        BY <2>1, IdleType DEF Idle, Handler
      <3> HIDE DEF handler
      <3> QED  BY <1>3, <2>1, <3>1
    <2> QED  BY <1>2, <1>7, <2>1 DEF Add, Goto, Finish
  <1>8. CASE List(s)
    BY <1>1, <1>8, VisitAccount DEF List, KnownIds
  <1> QED  BY <1>5, <1>6, <1>7, <1>8

\* The steps of a request between its arrival and its end.
LEMMA ContinueAccount ==
  ASSUME TypeInv, AccountInv, NEW s \in Slot, Continue(s), ~Inserted(s)
  PROVE  AccountInv'
  <1>0. h[s] \in Handler /\ WellFormed(s)
    BY HandlerType DEF Handlers
  <1>1. CASE Toggled(s)
    BY <1>1, EndsAccount DEF Toggled, At, Finish, cacheVars, dbVars
  <1>2. CASE UpdateTurnedOff(s)
    BY <1>2, GoesOnAccount DEF UpdateTurnedOff, At, Await, cacheVars, dbVars
  <1>3. CASE UpdateUnexported(s)
    BY <1>3, GoesOnAccount, EndsAccount DEF UpdateUnexported, At, Await, Finish, dbVars
  <1>4. CASE RemoveTurnedOff(s)
    <2> DEFINE handler == [Idle EXCEPT !.pc = "unexporting", !.op = "remove", !.id = h[s].id]
    <2>1. handler \in Handler /\ handler.pc = "unexporting" /\ handler.op = "remove"
      BY <1>0, IdleType DEF Idle, Handler
    <2>2. ~At(s, "inserted") /\ UNCHANGED <<components, rows, unserved, writes>>
      BY <1>4 DEF RemoveTurnedOff, At, cacheVars, dbVars
    <2>3. CASE h' = [h EXCEPT ![s] = handler]
      <3> HIDE DEF handler
      <3> QED  BY <2>1, <2>2, <2>3, QuietAccount
    <2> QED  BY <1>4, <2>2, <2>3, EndsAccount DEF RemoveTurnedOff, AwaitUnexport, Await, Finish
  <1>5. CASE RemoveUnexported(s)
    <2>1. PICK id \in Id : id = h[s].id
      BY <1>0, <1>5 DEF RemoveUnexported, WellFormed
    <2> DEFINE new == [id |-> id, row |-> NoRow]
    <2>2. /\ writes' = writes \cup {new} /\ UNCHANGED <<rows, unserved>>
          /\ h' = [h EXCEPT ![s] = Idle] /\ ~At(s, "inserted")
      BY <1>5, <2>1 DEF RemoveUnexported, SendDelete, Finish, At
    <2>3. \A i \in Id : Known(i) => Known(i)' \/ Deletes(i)'
      BY <1>5, <2>1, <2>2 DEF RemoveUnexported, Known, Deletes, TypeInv, TypeOK
    <2>4. new.row = NoRow
      OBVIOUS
    <2> HIDE DEF new
    <2> QED  BY <2>2, <2>3, <2>4, RequestAccount, IdleType
  <1>6. CASE Read(s)
    <2>1. /\ ~At(s, "inserted") /\ UNCHANGED <<components, rows, unserved, writes>>
          /\ h[s].todo \in SUBSET Id
      BY <1>0, <1>6 DEF Read, At, Handler, cacheVars, dbVars
    <2> QED  BY <1>6, <2>1, VisitAccount, EndsAccount DEF Read, Finish
  <1> QED  BY <1>1, <1>2, <1>3, <1>4, <1>5, <1>6 DEF Continue

LEMMA UpdateAccount ==
  ASSUME TypeInv, AccountInv, NEW s \in Slot, NEW id \in Id, NEW data \in UpdateData,
         Update(s, id, data)
  PROVE  AccountInv'
  <1>0. ~At(s, "inserted") /\ UNCHANGED <<components, rows, unserved>>
    BY IdleType DEF Update, Arrives, At
  <1>1. CASE UNCHANGED writes /\ h' = [h EXCEPT ![s] = Idle]
    BY <1>0, <1>1, EndsAccount
  <1>2. CASE Known(id)
    <2> DEFINE c == Comp(id)
               row == Merge(data, c.row)
               handler == [Idle EXCEPT !.op = "update", !.id = id,
                                       !.c = components[id], !.row = row]
    <2>0. row \in Row /\ components[id] \in Ref
      BY <1>2, CachedType, MergeType
    <2>1. ASSUME StoreUpdate(id, components[id], row), Finish(s, "update", id, "OK")
          PROVE  AccountInv'
      BY <1>0, <1>2, <2>0, <2>1, StoreUpdateAccount DEF Finish
    <2>2. ASSUME NEW pc \in {"turning off", "unexporting"}, NEW verb, NEW line,
                 UNCHANGED <<objects, sentVars>>,
                 Await(s, [handler EXCEPT !.pc = pc], verb, line)
          PROVE  AccountInv'
      <3> DEFINE held == [handler EXCEPT !.pc = pc]
      <3>1. held \in Handler /\ held.pc = pc /\ held.id = id
        BY <2>0, IdleType DEF Handler, Idle
      <3>2. h' = [h EXCEPT ![s] = held]
        BY <2>2 DEF Await
      <3> HIDE DEF held
      <3> QED  BY <1>0, <1>2, <2>2, <3>1, <3>2, QuietAccount
    <2> QED  BY <1>1, <1>2, <2>1, <2>2 DEF Update, Finish
  <1> QED  BY <1>1, <1>2 DEF Update, Finish

LEMMA InsertAccount ==
  ASSUME TypeInv, OrderInv, AccountInv, NEW s \in Slot, Insert(s)
  PROVE  AccountInv'
  <1> DEFINE row == h[s].row
             handler == [h[s] EXCEPT !.pc = "inserted", !.id = nextId]
  <1>0. /\ h[s] \in Handler /\ row \in Row /\ h[s].op = "add"
        /\ ~At(s, "inserted") /\ UNCHANGED <<components, unserved, writes>>
    BY HandlerType DEF Handlers, WellFormed, Insert, At, cacheVars
  <1>1. CASE Finish(s, "add", 0, "INVALID_FORMAT") /\ UNCHANGED rows
    BY <1>0, <1>1, EndsAccount DEF Finish
  <1>2. CASE /\ nextId <= MaxId
             /\ rows' = [rows EXCEPT ![nextId] = Stored(row)]
             /\ h' = [h EXCEPT ![s] = handler]
    <2>1. PICK new \in Id : new = nextId
      BY <1>2 DEF TypeInv, TypeOK, Id
    <2>2. handler.op = "add" /\ handler.pc = "inserted" /\ handler.id = new
      BY <1>0, <2>1 DEF Handler
    <2>3. h'[s] = handler /\ \A q \in Handlers \ {s} : h'[q] = h[q]
      BY <1>2 DEF TypeInv, TypeOK, Handlers
    <2>4. h'[Boot] = h[Boot] /\ \A t \in Slot \ {s} : h'[t] = h[t]
      BY <2>3 DEF Handlers
    <2> HIDE DEF handler
    <2>5. \A id \in Id \ {new} : rows'[id] = rows[id]
      BY <1>2, <2>1 DEF TypeInv, TypeOK
    <2>6. \A id \in Id : (Known(id)' <=> Known(id)) /\ (Deletes(id)' <=> Deletes(id))
      BY <1>0 DEF Known, Deletes
    <2>7. /\ \A t \in Slot : At(t, "inserted") => h[t].id # new
          /\ \A t \in Slot : h[t].op = "update" => h[t].id # new
          /\ \A w \in writes : w.id # new
      BY <2>1 DEF OrderInv, HandedOut, InsertedIsPrivate, Id
    <2>8. StoredIsAccountedFor'
      <3> SUFFICES ASSUME NEW id \in Id, rows'[id] # NoRow
                   PROVE  \/ Known(id)' \/ Deletes(id)'
                          \/ ~ValidPin(rows'[id].physicalPin) \/ id \in unserved'
                          \/ \E t \in Slot : At(t, "inserted")' /\ h'[t].id = id
                          \/ At(Boot, "selecting")' \/ id \in h'[Boot].todo
        BY DEF StoredIsAccountedFor, StoredIds
      <3>1. CASE id = new
        BY <2>2, <2>3, <3>1 DEF At
      <3>2. CASE id # new
        <4>1. rows'[id] = rows[id]
          BY <2>5, <3>2
        <4>2. \/ Known(id) \/ Deletes(id)
              \/ ~ValidPin(rows[id].physicalPin) \/ id \in unserved
              \/ \E t \in Slot : At(t, "inserted") /\ h[t].id = id
              \/ At(Boot, "selecting") \/ id \in h[Boot].todo
          BY <4>1 DEF AccountInv, StoredIsAccountedFor, StoredIds
        <4> QED  BY <1>0, <2>4, <2>6, <4>1, <4>2 DEF At
      <3> QED  BY <3>1, <3>2
    <2>9. UpdatedIsAccountedFor'
      <3> SUFFICES ASSUME NEW id \in Id, rows'[id] # NoRow,
                          \/ \E t \in Slot : h'[t].op = "update" /\ h'[t].id = id
                          \/ \E w \in writes : w.id = id /\ w.row # NoRow
                   PROVE  Known(id)' \/ Deletes(id)'
        BY <1>0 DEF UpdatedIsAccountedFor
      <3>1. \/ \E t \in Slot : h[t].op = "update" /\ h[t].id = id
            \/ \E w \in writes : w.id = id /\ w.row # NoRow
        BY <2>2, <2>3, <2>4
      <3>2. rows'[id] = rows[id]
        BY <2>5, <2>7, <3>1
      <3> QED  BY <2>6, <3>1, <3>2 DEF AccountInv, UpdatedIsAccountedFor
    <2> QED  BY <2>8, <2>9 DEF AccountInv
  <1> QED  BY <1>1, <1>2 DEF Insert, Goto

\* The request caches the row it inserted, unless its pin cannot be driven.
LEMMA InsertedAccount ==
  ASSUME TypeInv, OrderInv, AccountInv, NEW s \in Slot, Inserted(s)
  PROVE  AccountInv'
  <1> DEFINE row == h[s].row
  <1>a. h[s].id \in Id
    BY HandlerType DEF Handlers, WellFormed, Inserted
  <1>b. PICK id \in Id : id = h[s].id
    BY <1>a
  <1>0. /\ h[s] \in Handler /\ id = h[s].id /\ h[s].op = "add"
        /\ h'[Boot] = h[Boot] /\ (\A t \in Slot \ {s} : h'[t] = h[t])
        /\ h'[s].op # "update" /\ ~At(s, "inserted")'
        /\ UNCHANGED <<rows, writes>> /\ unserved \subseteq unserved'
    <2>1. h[s] \in Handler /\ WellFormed(s)
      BY HandlerType DEF Handlers
    <2>2. PICK handler \in {[h[s] EXCEPT !.pc = "exporting"], Idle} : h' = [h EXCEPT ![s] = handler]
      BY DEF Inserted, Await, Finish
    <2>3. h'[s] = handler /\ \A q \in Handlers \ {s} : h'[q] = h[q]
      BY <2>2 DEF TypeInv, TypeOK, Handlers
    <2>4. h'[Boot] = h[Boot] /\ \A t \in Slot \ {s} : h'[t] = h[t]
      BY <2>3 DEF Handlers
    <2>5. h[s].op = "add"
      BY <2>1 DEF Inserted, WellFormed
    <2>6. handler.op # "update" /\ handler.pc # "inserted"
      BY <2>1, <2>2, <2>5, IdleType DEF Handler
    <2> QED  BY <1>b, <2>1, <2>3, <2>4, <2>5, <2>6 DEF Inserted, dbVars, At
  <1>1. /\ \A i \in Id : Known(i) => Known(i)'
        /\ Known(id)' \/ id \in unserved'
    <2>1. CASE UNCHANGED cacheVars /\ unserved' = unserved \cup {id}
      BY <2>1 DEF Known, cacheVars
    <2>2. CASE components' = [components EXCEPT ![id] = <<id, "add">>]
      <3>1. <<id, "add">> # Undefined
        BY DEF Undefined, Id
      <3>2. /\ components'[id] = <<id, "add">>
            /\ \A i \in Id \ {id} : components'[i] = components[i]
        BY <2>2 DEF TypeInv, TypeOK
      <3> QED  BY <3>1, <3>2 DEF Known
    <2> QED  BY <1>b, <2>1, <2>2 DEF Inserted
  <1>2. \A i \in Id : Deletes(i)' <=> Deletes(i)
    BY <1>0 DEF Deletes
  <1>3. StoredIsAccountedFor'
    <2> SUFFICES ASSUME NEW i \in Id, rows[i] # NoRow
                 PROVE  \/ Known(i)' \/ Deletes(i)'
                        \/ ~ValidPin(rows[i].physicalPin) \/ i \in unserved'
                        \/ \E t \in Slot : At(t, "inserted")' /\ h'[t].id = i
                        \/ At(Boot, "selecting")' \/ i \in h'[Boot].todo
      BY <1>0 DEF StoredIsAccountedFor, StoredIds
    <2>1. \/ Known(i) \/ Deletes(i)
          \/ ~ValidPin(rows[i].physicalPin) \/ i \in unserved
          \/ \E t \in Slot : At(t, "inserted") /\ h[t].id = i
          \/ At(Boot, "selecting") \/ i \in h[Boot].todo
      BY DEF AccountInv, StoredIsAccountedFor, StoredIds
    <2>2. CASE \E t \in Slot : At(t, "inserted") /\ h[t].id = i
      <3>1. PICK t \in Slot : At(t, "inserted") /\ h[t].id = i
        BY <2>2
      <3>2. CASE t = s
        BY <1>0, <1>1, <3>1, <3>2
      <3>3. CASE t # s
        BY <1>0, <3>1, <3>3 DEF At
      <3> QED  BY <3>2, <3>3
    <2> QED  BY <1>0, <1>1, <1>2, <2>1, <2>2 DEF At
  <1>4. UpdatedIsAccountedFor'
    <2> SUFFICES ASSUME NEW i \in Id, rows[i] # NoRow,
                        \/ \E t \in Slot : h'[t].op = "update" /\ h'[t].id = i
                        \/ \E w \in writes : w.id = i /\ w.row # NoRow
                 PROVE  Known(i)' \/ Deletes(i)'
      BY <1>0 DEF UpdatedIsAccountedFor
    <2>1. \/ \E t \in Slot : h[t].op = "update" /\ h[t].id = i
          \/ \E w \in writes : w.id = i /\ w.row # NoRow
      BY <1>0
    <2> QED  BY <1>1, <1>2, <2>1 DEF AccountInv, UpdatedIsAccountedFor
  <1> QED  BY <1>3, <1>4 DEF AccountInv

\* A step of init(), which has the server for itself.
LEMMA BootAccount ==
  ASSUME TypeInv, OrderInv, h[Boot] # Idle,
         NEW handler, h' = [h EXCEPT ![Boot] = handler],
         UNCHANGED <<rows, unserved, writes>>,
         \A id \in StoredIds(rows) :
            \/ Known(id)' \/ ~ValidPin(rows[id].physicalPin) \/ id \in unserved
            \/ handler.pc = "selecting" \/ id \in handler.todo
  PROVE  AccountInv'
  <1>1. h'[Boot] = handler /\ writes' = {} /\ \A s \in Slot : h'[s] = Idle
    BY DEF TypeInv, TypeOK, OrderInv, BootIsAlone
  <1> QED  BY <1>1, IdleType DEF AccountInv, StoredIsAccountedFor, UpdatedIsAccountedFor,
                                 StoredIds, At

LEMMA LoadFromAccount ==
  ASSUME TypeInv, OrderInv, h[Boot] # Idle, NEW todo \in SUBSET Id, NEW table,
         \A id \in todo : table[id] = rows[id],
         \A id \in StoredIds(rows) :
            Known(id) \/ ~ValidPin(rows[id].physicalPin) \/ id \in unserved \/ id \in todo,
         LoadFrom(todo, table), UNCHANGED dbVars
  PROVE  AccountInv'
  <1> DEFINE loadable == {i \in todo : ValidPin(table[i].physicalPin)}
  <1>0. UNCHANGED <<rows, unserved, writes>>
    BY DEF dbVars
  <1>1. CASE loadable = {} /\ h' = [h EXCEPT ![Boot] = Idle] /\ UNCHANGED components
    <2>1. \A id \in StoredIds(rows) :
             Known(id)' \/ ~ValidPin(rows[id].physicalPin) \/ id \in unserved
      BY <1>1 DEF Known, StoredIds
    <2> QED  BY <1>0, <1>1, <2>1, BootAccount
  <1>2. ASSUME NEW id \in loadable,
               components' = [components EXCEPT ![id] = <<id, "init">>],
               h' = [h EXCEPT ![Boot] = [Idle EXCEPT !.pc = "exporting", !.op = "init",
                       !.id = id, !.row = table[id], !.todo = loadable \ {id}]]
        PROVE  AccountInv'
    <2> DEFINE handler == [Idle EXCEPT !.pc = "exporting", !.op = "init",
                             !.id = id, !.row = table[id], !.todo = loadable \ {id}]
    <2>1. handler.todo = loadable \ {id}
      BY DEF Idle
    <2>2. \A i \in Id : Known(i)' <=> Known(i) \/ i = id
      BY <1>2 DEF Known, Undefined, Id, TypeInv, TypeOK
    <2>3. \A i \in StoredIds(rows) :
             \/ Known(i)' \/ ~ValidPin(rows[i].physicalPin)
             \/ i \in unserved \/ i \in handler.todo
      BY <2>1, <2>2 DEF StoredIds
    <2>4. h' = [h EXCEPT ![Boot] = handler]
      BY <1>2
    <2> HIDE DEF handler
    <2> QED  BY <1>0, <2>3, <2>4, BootAccount
  <1> QED  BY <1>1, <1>2 DEF LoadFrom, Goto, Await, cacheVars

LEMMA SelectAccount ==
  ASSUME DbMayFail = FALSE, TypeInv, OrderInv, Select
  PROVE  AccountInv'
  <1>1. /\ h[Boot] # Idle /\ uncommitted = {} /\ UNCHANGED dbVars
        /\ LoadFrom(StoredIds(rows) \ uncommitted, rows)
    BY IdleType DEF Select, At, OrderInv, BootIsAlone
  <1>2. StoredIds(rows) \in SUBSET Id
    BY DEF StoredIds
  <1> QED  BY <1>1, <1>2, LoadFromAccount

LEMMA AfterInitAccount ==
  ASSUME EarlyRequests = FALSE, TypeInv, OrderInv, AccountInv,
         NEW p \in Handlers, NEW ok \in BOOLEAN, AfterInit(p, ok),
         h[p].pc \in Initializing, UNCHANGED tableVars
  PROVE  AccountInv'
  <1>0. h[p] # Idle /\ h[p].id \in Id /\ ~At(p, "inserted")
    BY HandlerType, IdleType DEF WellFormed, At
  <1>1. CASE h[p].op = "init" /\ LoadFrom(h[p].todo, snapshot) /\ UNCHANGED sentVars
    <2>1. p = Boot /\ h[Boot].todo \in SUBSET Id /\ ~At(Boot, "selecting")
      BY <1>1, HandlerType DEF WellFormed, Handler, At
    <2>2. \A id \in h[Boot].todo : snapshot[id] = rows[id]
      BY <1>0, <2>1 DEF OrderInv, BootIsAlone
    <2>3. writes = {} /\ \A s \in Slot : ~At(s, "inserted")
      BY <1>0, <2>1, IdleType DEF OrderInv, BootIsAlone, At
    <2>4. \A id \in StoredIds(rows) :
             \/ Known(id) \/ ~ValidPin(rows[id].physicalPin)
             \/ id \in unserved \/ id \in h[Boot].todo
      BY <2>1, <2>3 DEF AccountInv, StoredIsAccountedFor, Deletes
    <2> QED  BY <1>0, <1>1, <2>1, <2>2, <2>4, LoadFromAccount DEF dbVars
  <1>2. CASE h[p].op \in {"add", "update"}
    <2>1. p \in Slot
      BY <1>0, <1>2 DEF Handlers, OrderInv, BootIsAlone
    <2>2. CASE h' = [h EXCEPT ![p] = Idle] /\ UNCHANGED <<components, writes>>
      BY <1>0, <2>1, <2>2, EndsAccount
    <2>3. CASE /\ h[p].op = "update"
               /\ StoreUpdate(h[p].id, h[p].c, h[p].row)
               /\ h' = [h EXCEPT ![p] = Idle]
               /\ UNCHANGED components
      BY <1>0, <2>1, <2>3, StoreUpdateAccount
    <2> QED  BY <1>2, <2>2, <2>3 DEF AfterInit, Finish, cacheVars
  <1> QED  BY <1>1, <1>2 DEF AfterInit

LEMMA InitGpioAccount ==
  ASSUME EarlyRequests = FALSE, TypeInv, OrderInv, AccountInv,
         NEW p \in Handlers, InitGpio(p)
  PROVE  AccountInv'
  <1>1. /\ h[p].pc \in Initializing
        /\ h[p] \in Handler /\ h[p] # Idle /\ ~At(p, "inserted") /\ ~At(p, "selecting")
        /\ UNCHANGED tableVars
    BY HandlerType, IdleType DEF InitGpio, Exported, DirectionSet, CleanedUp, At
  <1>2. ASSUME NEW pc \in {"setting direction", "cleaning up"},
               h' = [h EXCEPT ![p] = [h[p] EXCEPT !.pc = pc]],
               UNCHANGED <<components, writes>>
        PROVE  AccountInv'
    <2>1. CASE p \in Slot
      BY <1>1, <1>2, <2>1, GoesOnAccount
    <2>2. CASE p = Boot
      <3> DEFINE handler == [h[Boot] EXCEPT !.pc = pc]
      <3>1. handler.todo = h[Boot].todo
        BY <1>1, <2>2 DEF Handler
      <3>2. writes = {} /\ \A s \in Slot : ~At(s, "inserted")
        BY <1>1, <2>2, IdleType DEF OrderInv, BootIsAlone, At
      <3>3. \A id \in StoredIds(rows) :
               \/ Known(id)' \/ ~ValidPin(rows[id].physicalPin)
               \/ id \in unserved \/ id \in handler.todo
        BY <1>1, <1>2, <2>2, <3>1, <3>2
           DEF AccountInv, StoredIsAccountedFor, Deletes, Known, StoredIds
      <3>4. h' = [h EXCEPT ![Boot] = handler]
        BY <1>2, <2>2
      <3> HIDE DEF handler
      <3> QED  BY <1>1, <1>2, <2>2, <3>3, <3>4, BootAccount
    <2> QED  BY <2>1, <2>2 DEF Handlers
  <1>3. ASSUME NEW ok \in BOOLEAN, AfterInit(p, ok)  PROVE AccountInv'
    BY <1>1, <1>3, AfterInitAccount
  <1> QED  BY <1>2, <1>3 DEF InitGpio, Exported, DirectionSet, CleanedUp, Await, cacheVars

\* An UPDATE touches no forgotten row, and a DELETE is executed.
LEMMA ExecuteWriteAccount ==
  ASSUME DbMayFail = FALSE, TypeInv, OrderInv, AccountInv, NEW w \in writes, ExecuteWrite(w)
  PROVE  AccountInv'
  <1>1. /\ h' = h /\ UNCHANGED <<components, unserved>>
        /\ writes' = writes \/ writes' = writes \ {w}
        /\ w \in [id : Id, row : StoredRow \cup {NoRow}]
    BY DEF ExecuteWrite, cacheVars, TypeInv, TypeOK
  <1>2. PICK id \in Id : id = w.id
    BY <1>1
  <1>3. \A i \in Id : Known(i)' <=> Known(i)
    BY <1>1 DEF Known
  <1>4. \A i \in Id \ {id} : rows'[i] = rows[i] /\ (Deletes(i)' <=> Deletes(i))
    BY <1>1, <1>2 DEF ExecuteWrite, TypeInv, TypeOK, Deletes
  <1>5. rows'[id] = NoRow \/ Known(id) \/ Deletes(id)'
    <2>1. CASE w.row = NoRow
      BY <1>1, <1>2, <2>1 DEF ExecuteWrite, Executes, TypeInv, TypeOK
    <2>2. CASE w.row # NoRow
      <3>1. rows[id] = NoRow \/ Known(id) \/ Deletes(id)
        BY <1>2, <2>2 DEF AccountInv, UpdatedIsAccountedFor
      <3>2. rows[id] = NoRow => rows'[id] = NoRow
        BY <1>2, <2>2 DEF ExecuteWrite, Executes
      <3>3. Deletes(id) => Deletes(id)'
        BY <1>1, <2>2 DEF Deletes
      <3> QED  BY <3>1, <3>2, <3>3
    <2> QED  BY <2>1, <2>2
  <1>6. StoredIsAccountedFor'
    <2> SUFFICES ASSUME NEW i \in Id, rows'[i] # NoRow
                 PROVE  \/ Known(i)' \/ Deletes(i)'
                        \/ ~ValidPin(rows'[i].physicalPin) \/ i \in unserved
                        \/ \E t \in Slot : At(t, "inserted") /\ h[t].id = i
                        \/ At(Boot, "selecting") \/ i \in h[Boot].todo
      BY <1>1 DEF StoredIsAccountedFor, StoredIds, At
    <2>1. CASE i = id
      BY <1>3, <1>5, <2>1
    <2>2. CASE i # id
      BY <1>3, <1>4, <2>2 DEF AccountInv, StoredIsAccountedFor, StoredIds
    <2> QED  BY <2>1, <2>2
  <1>7. UpdatedIsAccountedFor'
    <2> SUFFICES ASSUME NEW i \in Id, rows'[i] # NoRow,
                        \/ \E t \in Slot : h[t].op = "update" /\ h[t].id = i
                        \/ \E v \in writes : v.id = i /\ v.row # NoRow
                 PROVE  Known(i)' \/ Deletes(i)'
      BY <1>1 DEF UpdatedIsAccountedFor
    <2>1. CASE i = id
      BY <1>3, <1>5, <2>1
    <2>2. CASE i # id
      BY <1>3, <1>4, <2>2 DEF AccountInv, UpdatedIsAccountedFor
    <2> QED  BY <2>1, <2>2
  <1> QED  BY <1>6, <1>7 DEF AccountInv

\* AccountInv reads none of the other variables.
LEMMA ElsewhereAccount ==
  ASSUME AccountInv, UNCHANGED <<components, rows, unserved, writes, h>>
  PROVE  AccountInv'
  BY DEF AccountInv, StoredIsAccountedFor, UpdatedIsAccountedFor,
         StoredIds, Known, Deletes, At

\* init() is about to read the table.
LEMMA BootingAccount ==
  ASSUME writes = {}, \A s \in Slot : h[s] = Idle, h[Boot] = Booting
  PROVE  AccountInv
  <1>1. Booting.pc = "selecting"
    BY DEF Booting, Idle
  <1> QED  BY <1>1, IdleType DEF AccountInv, StoredIsAccountedFor, UpdatedIsAccountedFor, At

LEMMA NextAccount ==
  ASSUME EarlyRequests = FALSE, DbMayFail = FALSE, TypeInv, OrderInv, AccountInv, [Next]_vars
  PROVE  AccountInv'
  <1>1. ASSUME NEW s \in Slot, Request(s)  PROVE AccountInv'
    BY <1>1, ArrivalAccount, UpdateAccount DEF Request
  <1>2. ASSUME NEW s \in Slot, Continue(s)  PROVE AccountInv'
    BY <1>2, ContinueAccount, InsertedAccount
  <1>3. CASE UNCHANGED vars \/ GpioStep
    BY <1>3, ElsewhereAccount DEF vars, GpioStep, cacheVars, dbVars, bootVars
  <1>5. ASSUME NEW id \in uncommitted, CommitInsert(id) \/ LoseInsert(id)  PROVE AccountInv'
    BY <1>5, ElsewhereAccount DEF CommitInsert, LoseInsert, cacheVars
  <1>4. CASE Restart
    <2>1. writes' = {} /\ (\A s \in Slot : h'[s] = Idle) /\ h'[Boot] = Booting
      BY <1>4 DEF Restart
    <2> QED  BY <2>1, IdleType DEF AccountInv, StoredIsAccountedFor, UpdatedIsAccountedFor,
                                   At, Booting, Idle
  <1> QED  BY <1>1, <1>2, <1>3, <1>4, <1>5, InsertAccount, InitGpioAccount, SelectAccount,
              ExecuteWriteAccount DEF Next, Work, Handlers

LEMMA AccountInvariance ==
  ASSUME EarlyRequests = FALSE, DbMayFail = FALSE
  PROVE  Spec => [](TypeInv /\ OrderInv /\ AccountInv)
  <1>1. Init => TypeInv /\ OrderInv /\ AccountInv
    BY InitType, InitOrder, BootingAccount DEF Init
  <1>2. TypeInv /\ OrderInv /\ AccountInv /\ [Next]_vars => (TypeInv /\ OrderInv /\ AccountInv)'
    BY NextType, NextOrder, NextAccount
  <1> QED  BY <1>1, <1>2, PTL DEF Spec

\* However many requests interleave, time out or are cut short by a restart, a
\* row is served, about to be served or deleted, or impossible to drive, or was
\* stored by addComponent in this run with a pin that it could not drive as given
\* (a text, which the table turns into a number that the next start can drive); no
\* other row stays in the table without anybody knowing. Provided that no request
\* comes before init() has finished and that no statement fails. (addComponent,
\* removeComponent, init)
THEOREM StoredRowsAreAccountedFor ==
  ASSUME EarlyRequests = FALSE, DbMayFail = FALSE
  PROVE  Spec => []StoredIsAccountedFor
  <1>1. TypeInv /\ OrderInv /\ AccountInv => StoredIsAccountedFor
    BY DEF AccountInv
  <1> QED  BY <1>1, AccountInvariance, PTL
-----------------------------------------------------------------------------
(***************************************************************************)
(* The rows follow the cache, but for the UPDATEs that the code sends and  *)
(* does not wait for: those that overtake one another or are not executed. *)
(***************************************************************************)
\* What the table holds is what it makes of it.
LEMMA StoredIsStored ==
  ASSUME NEW row \in StoredRow
  PROVE  Stored(row) = row
  BY DEF Stored, StoredRow, PinNumber, Direction, DIR_IN, DIR_OUT

\* Two ids have no object in common.
LEMMA OwnIsOther ==
  ASSUME NEW id \in Id, NEW i \in Id \ {id}, NEW kind, NEW ref \in RefsOf(i)
  PROVE  ref # <<id, kind>>
  BY DEF RefsOf

\* A request does not begin to update.
Keeps(s) ==
  h'[s].op = "update" => h[s].op = "update" /\ h'[s].id = h[s].id /\ h'[s].c = h[s].c

LEMMA HandlerKeeps ==
  ASSUME TypeInv, NEW p \in Handlers, NEW handler, h' = [h EXCEPT ![p] = handler],
         handler.op = "update" =>
           h[p].op = "update" /\ handler.id = h[p].id /\ handler.c = h[p].c
  PROVE  \A s \in Slot : Keeps(s)
  <1>1. h'[p] = handler /\ \A q \in Handlers \ {p} : h'[q] = h[q]
    BY DEF TypeInv, TypeOK, Handlers
  <1> QED  BY <1>1 DEF Keeps, Handlers

LEMMA EndKeeps ==
  ASSUME TypeInv, NEW p \in Handlers, h' = [h EXCEPT ![p] = Idle]
  PROVE  \A s \in Slot : Keeps(s)
  BY HandlerKeeps, IdleType

LEMMA GoesOnKeeps ==
  ASSUME TypeInv, NEW p \in Handlers, NEW pc, h' = [h EXCEPT ![p] = [h[p] EXCEPT !.pc = pc]]
  PROVE  \A s \in Slot : Keeps(s)
  <1> DEFINE handler == [h[p] EXCEPT !.pc = pc]
  <1>1. handler.op = h[p].op /\ handler.id = h[p].id /\ handler.c = h[p].c
    BY HandlerType DEF Handler
  <1>2. h' = [h EXCEPT ![p] = handler]
    OBVIOUS
  <1> HIDE DEF handler
  <1> QED  BY <1>1, <1>2, HandlerKeeps

\* A request that begins, but for an update, has the fields of Idle and its own.
LEMMA BeginKeeps ==
  ASSUME TypeInv, NEW s \in Slot, NEW handler, handler.op # "update",
         h' = [h EXCEPT ![s] = handler]
  PROVE  \A t \in Slot : Keeps(t)
  BY HandlerKeeps DEF Handlers

LEMMA AwaitUnexportKeeps ==
  ASSUME TypeInv, NEW s \in Slot, NEW id \in Id, AwaitUnexport(s, id)
  PROVE  \A t \in Slot : Keeps(t)
  <1> DEFINE handler == [Idle EXCEPT !.pc = "unexporting", !.op = "remove", !.id = id]
  <1>1. handler.op # "update"
    BY DEF Idle
  <1>2. h' = [h EXCEPT ![s] = handler] \/ h' = [h EXCEPT ![s] = Idle]
    BY DEF AwaitUnexport, Await, Finish
  <1> HIDE DEF handler
  <1> QED  BY <1>1, <1>2, BeginKeeps, EndKeeps DEF Handlers

LEMMA VisitKeeps ==
  ASSUME TypeInv, NEW s \in Slot, NEW todo, Visit(s, todo)
  PROVE  \A t \in Slot : Keeps(t)
  <1> DEFINE left == {i \in todo : Known(i)}
  <1>1. ASSUME NEW id \in left, NEW pc \in {"isOn", "readValue"},
               h' = [h EXCEPT ![s] = [Idle EXCEPT !.pc = pc, !.op = "list", !.id = id,
                                                  !.todo = left \ {id}]]
        PROVE  \A t \in Slot : Keeps(t)
    <2> DEFINE handler == [Idle EXCEPT !.pc = pc, !.op = "list", !.id = id,
                                       !.todo = left \ {id}]
    <2>1. handler.op # "update"
      BY DEF Idle
    <2>2. h' = [h EXCEPT ![s] = handler]
      BY <1>1
    <2> HIDE DEF handler
    <2> QED  BY <2>1, <2>2, BeginKeeps
  <1>2. CASE h' = [h EXCEPT ![s] = Idle]
    BY <1>2, EndKeeps DEF Handlers
  <1> QED  BY <1>1, <1>2 DEF Visit, Await, Finish

LEMMA OwnStays ==
  ASSUME TypeInv, FollowInv, \A s \in Slot : Keeps(s), UNCHANGED components
  PROVE  ObjectsAreOwn'
  BY DEF FollowInv, ObjectsAreOwn, Keeps, KnownIds, Known

\* A step that changes neither the map, nor the table, nor the rows of objects.
LEMMA FollowStays ==
  ASSUME TypeInv, FollowInv, \A s \in Slot : Keeps(s),
         UNCHANGED <<components, rows, writes, doubtful>>,
         \A ref \in Ref : objects'[ref].row = objects[ref].row
  PROVE  FollowInv'
  <1>1. ObjectsAreOwn'
    BY OwnStays
  <1>2. ASSUME NEW id \in Id, Known(id)  PROVE (Stored(Comp(id).row))' = Stored(Comp(id).row)
    <2>1. components[id] \in Ref
      BY <1>2, CachedType
    <2> QED  BY <2>1 DEF Comp
  <1>3. ASSUME NEW id \in (KnownIds \ doubtful)', rows'[id] # NoRow
        PROVE  RowFollows(id)'
    <2>1. id \in KnownIds \ doubtful /\ rows[id] # NoRow
      BY <1>3 DEF KnownIds, Known
    <2>2. RowFollows(id)
      BY <2>1 DEF FollowInv
    <2> QED  BY <1>2, <2>1, <2>2 DEF RowFollows, KnownIds
  <1> QED  BY <1>1, <1>3 DEF FollowInv

\* executeUpdate sends what c now says: with another UPDATE pending, the id becomes
\* doubtful.
LEMMA StoreUpdateFollow ==
  ASSUME TypeInv, OrderInv, FollowInv, NEW s \in Slot, h' = [h EXCEPT ![s] = Idle],
         NEW id \in Id, NEW c \in RefsOf(id), NEW row \in Row,
         Known(id) => c = components[id],
         StoreUpdate(id, c, row), UNCHANGED <<components, rows>>
  PROVE  FollowInv'
  <1> DEFINE new == [id |-> id, row |-> Stored(row)]
  <1>1. /\ writes' = writes \cup {new}
        /\ doubtful' = IF Known(id) /\ Overtakes(new)
                       THEN doubtful \cup {id} ELSE doubtful \ {id}
        /\ objects' = [objects EXCEPT ![c].row = row]
    BY DEF StoreUpdate, SendUpdate
  <1>2. ObjectsAreOwn'
    BY EndKeeps, OwnStays DEF Handlers
  <1>3. ASSUME NEW i \in (KnownIds \ doubtful)', rows'[i] # NoRow
        PROVE  RowFollows(i)'
    <2>1. i \in Id /\ Known(i) /\ components[i] \in RefsOf(i) /\ components[i] \in Ref
      BY <1>3, CachedType DEF KnownIds, Known, FollowInv, ObjectsAreOwn
    <2>2. CASE i = id
      <3>1. Comp(i)'.row = row
        BY <1>1, <2>1, <2>2, CachedType DEF Comp, TypeInv, TypeOK, Component
      <3>2. \A w \in writes : w.id = id => w.row # NoRow
        BY <2>1, <2>2 DEF OrderInv, DeletedIsUncached
      <3>3. \A w \in writes' : w.id = id => w.row = Stored(row)
        BY <1>1, <1>3, <2>1, <2>2, <3>2 DEF Overtakes
      <3>4. new \in writes' /\ new.id = id
        BY <1>1
      <3> HIDE DEF new
      <3> QED  BY <2>2, <3>1, <3>3, <3>4 DEF RowFollows
    <2>3. CASE i # id
      <3>1. Comp(i)' = Comp(i)
        <4>1. components[i] # c
          BY <2>1, <2>3 DEF RefsOf
        <4> QED  BY <1>1, <2>1, <4>1 DEF Comp, TypeInv, TypeOK
      <3>2. i \in KnownIds \ doubtful /\ rows[i] # NoRow
        BY <1>1, <1>3, <2>1, <2>3 DEF KnownIds
      <3>3. RowFollows(i)
        BY <3>2 DEF FollowInv
      <3>4. \A w \in writes' : w \in writes \/ w.id # i
        BY <1>1, <2>3
      <3> QED  BY <1>1, <3>1, <3>3, <3>4 DEF RowFollows
    <2> QED  BY <2>2, <2>3
  <1> QED  BY <1>2, <1>3 DEF FollowInv

\* Toggle, Remove, Add and List.
LEMMA ArrivalFollow ==
  ASSUME TypeInv, FollowInv, NEW s \in Slot,
         \/ \E id \in Id : (\E status \in Status : Toggle(s, id, status)) \/ Remove(s, id)
         \/ \E data \in UpdateData : Add(s, data)
         \/ List(s)
  PROVE  FollowInv'
  <1>1. UNCHANGED <<cacheVars, rows, writes, doubtful>>
    BY DEF Toggle, Remove, Add, List, dbVars
  <1>2. ASSUME NEW id \in Id, NEW status \in Status, Toggle(s, id, status)
        PROVE  \A t \in Slot : Keeps(t)
    <2> DEFINE handler == [Idle EXCEPT !.pc = "toggling", !.op = "toggle", !.id = id]
    <2>1. handler.op # "update"
      BY DEF Idle
    <2>2. h' = [h EXCEPT ![s] = handler] \/ h' = [h EXCEPT ![s] = Idle]
      BY <1>2 DEF Toggle, Await, Finish
    <2> HIDE DEF handler
    <2> QED  BY <2>1, <2>2, BeginKeeps, EndKeeps DEF Handlers
  <1>3. ASSUME NEW id \in Id, Remove(s, id)  PROVE \A t \in Slot : Keeps(t)
    <2> DEFINE handler == [Idle EXCEPT !.pc = "turning off", !.op = "remove", !.id = id]
    <2>1. handler.op # "update"
      BY DEF Idle
    <2>2. CASE h' = [h EXCEPT ![s] = handler] \/ h' = [h EXCEPT ![s] = Idle]
      <3> HIDE DEF handler
      <3> QED  BY <2>1, <2>2, BeginKeeps, EndKeeps DEF Handlers
    <2> QED  BY <1>3, <2>2, AwaitUnexportKeeps DEF Remove, Await, Finish
  <1>4. ASSUME NEW data \in UpdateData, Add(s, data)  PROVE \A t \in Slot : Keeps(t)
    <2> DEFINE handler == [Idle EXCEPT !.pc = "inserting", !.op = "add", !.row = data]
    <2>1. handler.op # "update"
      BY DEF Idle
    <2>2. h' = [h EXCEPT ![s] = handler] \/ h' = [h EXCEPT ![s] = Idle]
      BY <1>4 DEF Add, Goto, Finish
    <2> HIDE DEF handler
    <2> QED  BY <2>1, <2>2, BeginKeeps, EndKeeps DEF Handlers
  <1>5. ASSUME List(s)  PROVE \A t \in Slot : Keeps(t)
    BY <1>5, VisitKeeps DEF List
  <1>6. \A t \in Slot : Keeps(t)
    BY <1>2, <1>3, <1>4, <1>5
  <1> QED  BY <1>1, <1>6, FollowStays DEF cacheVars

LEMMA UpdateFollow ==
  ASSUME TypeInv, OrderInv, FollowInv, NEW s \in Slot, NEW id \in Id, NEW data \in UpdateData,
         Update(s, id, data)
  PROVE  FollowInv'
  <1>0. UNCHANGED <<components, rows>>
    BY DEF Update
  <1>1. CASE UNCHANGED <<objects, sentVars>> /\ h' = [h EXCEPT ![s] = Idle]
    <2>1. \A t \in Slot : Keeps(t)
      BY <1>1, EndKeeps DEF Handlers
    <2> QED  BY <1>0, <1>1, <2>1, FollowStays
  <1>2. CASE Known(id)
    <2> DEFINE c == Comp(id)
               row == Merge(data, c.row)
               handler == [Idle EXCEPT !.op = "update", !.id = id,
                                       !.c = components[id], !.row = row]
    <2>0. row \in Row /\ components[id] \in RefsOf(id)
      BY <1>2, CachedType, MergeType DEF FollowInv, ObjectsAreOwn, KnownIds
    <2>1. ASSUME StoreUpdate(id, components[id], row), Finish(s, "update", id, "OK")
          PROVE  FollowInv'
      BY <1>0, <2>0, <2>1, StoreUpdateFollow DEF Finish
    <2>2. ASSUME NEW pc \in {"turning off", "unexporting"}, NEW verb, NEW line,
                 UNCHANGED <<objects, sentVars>>,
                 Await(s, [handler EXCEPT !.pc = pc], verb, line)
          PROVE  FollowInv'
      <3> DEFINE held == [handler EXCEPT !.pc = pc]
      <3>1. held.id = id /\ held.c = components[id]
        BY DEF Idle
      <3>2. h' = [h EXCEPT ![s] = held]
        BY <2>2 DEF Await
      <3> HIDE DEF held, handler
      <3>3. h'[s] = held /\ \A t \in Slot \ {s} : h'[t] = h[t]
        BY <3>2 DEF TypeInv, TypeOK
      <3>4. \A i \in Id : Known(i)' <=> Known(i)
        BY <1>0 DEF Known
      <3>5. ASSUME NEW t \in Slot, h'[t].op = "update"
            PROVE  /\ h'[t].c \in RefsOf(h'[t].id)
                   /\ Known(h[t].id)' => h'[t].c = components'[h'[t].id]
        <4>1. CASE t = s
          <5>1. h'[t].id = id /\ h'[t].c = components[id]
            BY <3>1, <3>3, <4>1
          <5> QED  BY <1>0, <2>0, <5>1
        <4>2. CASE t # s
          BY <1>0, <3>3, <3>5, <4>2 DEF FollowInv, ObjectsAreOwn, Known
        <4> QED  BY <4>1, <4>2
      <3>6. ObjectsAreOwn'
        BY <1>0, <3>4, <3>5 DEF FollowInv, ObjectsAreOwn, KnownIds
      <3> QED  BY <1>0, <2>2, <3>6 DEF FollowInv, RowFollows, KnownIds, Known, Comp
    <2> QED  BY <1>1, <1>2, <2>1, <2>2 DEF Update, Finish
  <1> QED  BY <1>1, <1>2 DEF Update, Finish

\* The row is new, and nobody knows of its id.
LEMMA InsertFollow ==
  ASSUME TypeInv, OrderInv, FollowInv, NEW s \in Slot, Insert(s)
  PROVE  FollowInv'
  <1>0. UNCHANGED <<components, objects, writes, doubtful>> /\ h[s].op = "add" /\ h[s] \in Handler
    BY HandlerType DEF Insert, cacheVars, Handlers, WellFormed
  <1>1. \A t \in Slot : Keeps(t)
    <2> DEFINE handler == [h[s] EXCEPT !.pc = "inserted", !.id = nextId]
    <2>1. CASE h' = [h EXCEPT ![s] = handler]
      <3>1. handler.op # "update"
        BY <1>0 DEF Handler
      <3> HIDE DEF handler
      <3> QED  BY <2>1, <3>1, HandlerKeeps DEF Handlers
    <2> QED  BY <2>1, EndKeeps DEF Insert, Goto, Finish, Handlers
  <1>2. \A id \in KnownIds : rows'[id] = rows[id]
    BY DEF Insert, OrderInv, HandedOut, KnownIds, TypeInv, TypeOK, Id
  <1>3. ObjectsAreOwn'
    BY <1>0, <1>1, OwnStays
  <1> QED  BY <1>0, <1>2, <1>3 DEF FollowInv, RowFollows, KnownIds, Known, Comp

\* An id is cached with the row that the table holds, and no UPDATE of it is pending.
LEMMA CacheFollow ==
  ASSUME TypeInv, FollowInv, NEW id \in Id, ~Known(id), NEW row, Stored(row) = rows[id],
         \A w \in writes : w.id # id,
         \A s \in Slot : h[s].op = "update" => h[s].id # id,
         \A s \in Slot : Keeps(s),
         NEW kind \in {"init", "add"}, NEW gpio,
         components' = [components EXCEPT ![id] = <<id, kind>>],
         objects' = [objects EXCEPT ![<<id, kind>>] = [row |-> row, gpio |-> gpio]],
         UNCHANGED <<rows, writes, doubtful>>
  PROVE  FollowInv'
  <1>1. /\ components'[id] = <<id, kind>>
        /\ \A i \in Id \ {id} : components'[i] = components[i]
    BY DEF TypeInv, TypeOK
  <1>0. <<id, kind>> \in RefsOf(id)
    BY DEF RefsOf
  <1>2. ObjectsAreOwn'
    BY <1>0, <1>1 DEF FollowInv, ObjectsAreOwn, Keeps, KnownIds, Known
  <1>3. objects'[<<id, kind>>].row = row
    BY DEF TypeInv, TypeOK, Ref
  <1>4. ASSUME NEW i \in (KnownIds \ doubtful)', rows'[i] # NoRow
        PROVE  RowFollows(i)'
    <2>1. CASE i = id
      BY <1>1, <1>3, <2>1 DEF RowFollows, Comp
    <2>2. CASE i # id
      <3>1. i \in KnownIds \ doubtful /\ rows[i] # NoRow /\ components'[i] = components[i]
        BY <1>1, <1>4, <2>2 DEF KnownIds, Known
      <3>2. components[i] # <<id, kind>> /\ components[i] \in Ref
        BY <2>2, <3>1, CachedType, OwnIsOther DEF FollowInv, ObjectsAreOwn, KnownIds
      <3>3. Comp(i)' = Comp(i)
        BY <3>1, <3>2 DEF Comp, TypeInv, TypeOK
      <3> QED  BY <3>1, <3>3 DEF FollowInv, RowFollows
    <2> QED  BY <2>1, <2>2
  <1> QED  BY <1>2, <1>4 DEF FollowInv

LEMMA InsertedFollow ==
  ASSUME TypeInv, OrderInv, FollowInv, NEW s \in Slot, Inserted(s)
  PROVE  FollowInv'
  <1>0. h[s] \in Handler /\ h[s].id \in Id /\ h[s].op = "add"
    BY HandlerType DEF Handlers, WellFormed, Inserted
  <1>1. UNCHANGED <<rows, writes, doubtful>>
    BY DEF Inserted
  <1>2. PICK handler \in {[h[s] EXCEPT !.pc = "exporting"], Idle} : h' = [h EXCEPT ![s] = handler]
    BY DEF Inserted, Await, Finish
  <1>3. handler.op # "update"
    BY <1>0, IdleType DEF Handler
  <1>4. \A t \in Slot : Keeps(t)
    BY <1>2, <1>3, HandlerKeeps DEF Handlers
  <1>5. CASE UNCHANGED cacheVars
    BY <1>1, <1>4, <1>5, FollowStays DEF cacheVars
  <1>6. ASSUME NEW gpio,
               components' = [components EXCEPT ![h[s].id] = <<h[s].id, "add">>],
               objects' = [objects EXCEPT ![<<h[s].id, "add">>] =
                             [row |-> h[s].row, gpio |-> gpio]]
        PROVE  FollowInv'
    <2>1. PICK id \in Id : id = h[s].id
      BY <1>0
    <2>2. /\ ~Known(id) /\ Stored(h[s].row) = rows[id]
          /\ \A w \in writes : w.id # id
          /\ \A t \in Slot : h[t].op = "update" => h[t].id # id
      BY <1>0, <2>1 DEF Inserted, OrderInv, InsertedIsPrivate
    <2>3. PICK kind \in {"init", "add"} : kind = "add"
      OBVIOUS
    <2>4. /\ components' = [components EXCEPT ![id] = <<id, kind>>]
          /\ objects' = [objects EXCEPT ![<<id, kind>>] = [row |-> h[s].row, gpio |-> gpio]]
      BY <1>6, <2>1, <2>3
    <2> QED  BY <1>1, <1>4, <2>2, <2>4, CacheFollow
  <1> QED  BY <1>5, <1>6 DEF Inserted

\* The other steps of a request between its arrival and its end.
LEMMA ContinueFollow ==
  ASSUME TypeInv, OrderInv, FollowInv, NEW s \in Slot, Continue(s), ~Inserted(s)
  PROVE  FollowInv'
  <1>0. s \in Handlers /\ h[s] \in Handler /\ WellFormed(s)
    BY HandlerType DEF Handlers
  <1>1. CASE Toggled(s) \/ RemoveTurnedOff(s) \/ Read(s)
    <2>1. UNCHANGED <<cacheVars, rows, writes, doubtful>>
      BY <1>1 DEF Toggled, RemoveTurnedOff, Read, dbVars
    <2>2. \A t \in Slot : Keeps(t)
      BY <1>0, <1>1, EndKeeps, AwaitUnexportKeeps, VisitKeeps
         DEF Toggled, RemoveTurnedOff, Read, Finish, WellFormed
    <2> QED  BY <2>1, <2>2, FollowStays DEF cacheVars
  <1>2. CASE UpdateTurnedOff(s)
    <2>1. UNCHANGED <<cacheVars, rows, writes, doubtful>> /\ \A t \in Slot : Keeps(t)
      BY <1>0, <1>2, GoesOnKeeps DEF UpdateTurnedOff, Await, dbVars
    <2> QED  BY <2>1, FollowStays DEF cacheVars
  <1>3. CASE UpdateUnexported(s)
    <2>1. UNCHANGED <<components, rows, writes, doubtful>> /\ \A t \in Slot : Keeps(t)
      BY <1>0, <1>3, GoesOnKeeps, EndKeeps DEF UpdateUnexported, Await, Finish, dbVars
    <2>2. h[s].c \in Ref /\ objects[h[s].c] \in Component
      BY <1>0, <1>3 DEF UpdateUnexported, WellFormed
    <2>3. \A ref \in Ref : objects'[ref].row = objects[ref].row
      <3>1. CASE UNCHANGED objects
        BY <3>1
      <3>2. ASSUME NEW gpio, objects' = [objects EXCEPT ![h[s].c].gpio = gpio]
            PROVE  \A ref \in Ref : objects'[ref].row = objects[ref].row
        BY <2>2, <3>2 DEF TypeInv, TypeOK, Component
      <3> QED  BY <1>3, <3>1, <3>2 DEF UpdateUnexported
    <2> QED  BY <2>1, <2>3, FollowStays
  <1>4. CASE RemoveUnexported(s)
    <2>1. PICK id \in Id : id = h[s].id
      BY <1>0, <1>4 DEF RemoveUnexported, WellFormed
    <2>2. /\ writes' = writes \cup {[id |-> id, row |-> NoRow]}
          /\ doubtful' = doubtful \ {id}
          /\ UNCHANGED <<objects, rows>> /\ components' = [components EXCEPT ![id] = Undefined]
      BY <1>4, <2>1 DEF RemoveUnexported, SendDelete
    <2>3. /\ ~Known(id)'
          /\ \A i \in Id \ {id} : (Known(i)' <=> Known(i)) /\ components'[i] = components[i]
      BY <2>2 DEF Known, TypeInv, TypeOK
    <2>4. \A t \in Slot : Keeps(t)
      BY <1>0, <1>4, EndKeeps DEF RemoveUnexported, Finish
    <2>5. ObjectsAreOwn'
      <3>1. \A i \in KnownIds' : components'[i] \in RefsOf(i)
        BY <2>3 DEF FollowInv, ObjectsAreOwn, KnownIds
      <3>2. ASSUME NEW t \in Slot, h'[t].op = "update"
            PROVE  /\ h'[t].c \in RefsOf(h'[t].id)
                   /\ Known(h[t].id)' => h'[t].c = components'[h'[t].id]
        <4>1. h[t].op = "update" /\ h'[t].id = h[t].id /\ h'[t].c = h[t].c
          BY <2>4, <3>2 DEF Keeps
        <4>2. h[t].id \in Id
          BY <4>1, HandlerType DEF WellFormed, Handlers
        <4> QED  BY <2>3, <4>1, <4>2 DEF FollowInv, ObjectsAreOwn
      <3> QED  BY <3>1, <3>2 DEF ObjectsAreOwn
    <2>6. ASSUME NEW i \in (KnownIds \ doubtful)', rows'[i] # NoRow
          PROVE  RowFollows(i)'
      <3>1. i \in Id \ {id} /\ i \in KnownIds \ doubtful /\ rows[i] # NoRow /\ Comp(i)' = Comp(i)
        BY <2>2, <2>3, <2>6 DEF KnownIds, Comp
      <3>2. \A w \in writes' : w \in writes \/ w.id # i
        BY <2>2, <3>1
      <3> QED  BY <2>2, <3>1, <3>2 DEF FollowInv, RowFollows
    <2> QED  BY <2>5, <2>6 DEF FollowInv
  <1> QED  BY <1>1, <1>2, <1>3, <1>4 DEF Continue

LEMMA LoadFromFollow ==
  ASSUME TypeInv, OrderInv, FollowInv, h[Boot] # Idle, NEW todo \in SUBSET Id,
         NEW table \in [Id -> StoredRow \cup {NoRow}],
         \A id \in todo : rows[id] # NoRow /\ table[id] = rows[id] /\ ~Known(id),
         LoadFrom(todo, table), UNCHANGED dbVars
  PROVE  FollowInv'
  <1>0. /\ writes = {} /\ UNCHANGED <<rows, writes, doubtful>>
        /\ \A s \in Slot : h[s].op # "update"
    BY IdleType DEF OrderInv, BootIsAlone, dbVars
  <1>1. \A s \in Slot : Keeps(s)
    <2> DEFINE loadable == {i \in todo : ValidPin(table[i].physicalPin)}
    <2>1. ASSUME NEW id \in loadable,
                 h' = [h EXCEPT ![Boot] = [Idle EXCEPT !.pc = "exporting", !.op = "init",
                         !.id = id, !.row = table[id], !.todo = loadable \ {id}]]
          PROVE  \A s \in Slot : h'[s] = h[s]
      BY <2>1 DEF TypeInv, TypeOK
    <2>2. ASSUME h' = [h EXCEPT ![Boot] = Idle]
          PROVE  \A s \in Slot : h'[s] = h[s]
      BY <2>2 DEF TypeInv, TypeOK
    <2>3. \A s \in Slot : h'[s] = h[s]
      BY <2>1, <2>2 DEF LoadFrom, Goto, Await
    <2> QED  BY <2>3 DEF Keeps
  <1>2. CASE UNCHANGED cacheVars
    BY <1>0, <1>1, <1>2, FollowStays DEF cacheVars
  <1>3. ASSUME NEW id \in todo, NEW gpio,
               components' = [components EXCEPT ![id] = <<id, "init">>],
               objects' = [objects EXCEPT ![<<id, "init">>] =
                             [row |-> table[id], gpio |-> gpio]]
        PROVE  FollowInv'
    <2>1. Stored(table[id]) = rows[id]
      BY StoredIsStored
    <2>2. PICK kind \in {"init", "add"} : kind = "init"
      OBVIOUS
    <2>3. /\ components' = [components EXCEPT ![id] = <<id, kind>>]
          /\ objects' = [objects EXCEPT ![<<id, kind>>] = [row |-> table[id], gpio |-> gpio]]
      BY <1>3, <2>2
    <2> QED  BY <1>0, <1>1, <2>1, <2>3, CacheFollow
  <1> QED  BY <1>2, <1>3 DEF LoadFrom

LEMMA SelectFollow ==
  ASSUME TypeInv, OrderInv, FollowInv, Select
  PROVE  FollowInv'
  <1>1. h[Boot] # Idle /\ KnownIds = {} /\ uncommitted = {} /\ UNCHANGED dbVars
    BY IdleType DEF Select, At, OrderInv, BootIsAlone
  <1>2. CASE LoadFrom(StoredIds(rows) \ uncommitted, rows)
    BY <1>1, <1>2, LoadFromFollow DEF StoredIds, KnownIds, TypeInv, TypeOK
  <1>3. CASE Goto(Boot, Idle) /\ UNCHANGED <<cacheVars, snapshot>>
    <2>1. \A s \in Slot : Keeps(s)
      BY <1>3, EndKeeps DEF Goto, Handlers
    <2> QED  BY <1>1, <1>3, <2>1, FollowStays DEF dbVars, cacheVars
  <1> QED  BY <1>2, <1>3 DEF Select

LEMMA AfterInitFollow ==
  ASSUME EarlyRequests = FALSE, TypeInv, OrderInv, FollowInv,
         NEW p \in Handlers, NEW ok \in BOOLEAN, AfterInit(p, ok),
         h[p] # Idle, UNCHANGED tableVars
  PROVE  FollowInv'
  <1>1. CASE h[p].op = "init" /\ LoadFrom(h[p].todo, snapshot) /\ UNCHANGED sentVars
    <2>1. p = Boot /\ h[Boot].todo \in SUBSET Id
      BY <1>1, HandlerType DEF WellFormed, Handler
    <2>2. \A id \in h[Boot].todo : rows[id] # NoRow /\ snapshot[id] = rows[id] /\ ~Known(id)
      BY <2>1 DEF OrderInv, BootIsAlone
    <2> QED  BY <1>1, <2>1, <2>2, LoadFromFollow DEF TypeInv, TypeOK, dbVars
  <1>2. CASE h' = [h EXCEPT ![p] = Idle] /\ UNCHANGED <<cacheVars, sentVars>>
    <2>1. \A s \in Slot : Keeps(s)
      BY <1>2, EndKeeps
    <2> QED  BY <1>2, <2>1, FollowStays DEF cacheVars
  <1>3. CASE /\ h[p].op = "update" /\ UNCHANGED components
             /\ StoreUpdate(h[p].id, h[p].c, h[p].row)
             /\ h' = [h EXCEPT ![p] = Idle]
    <2>1. p \in Slot
      BY <1>3 DEF Handlers, OrderInv, BootIsAlone
    <2>2. h[p].id \in Id /\ h[p].row \in Row
      BY <1>3, HandlerType DEF WellFormed
    <2>3. h[p].c \in RefsOf(h[p].id) /\ (Known(h[p].id) => h[p].c = components[h[p].id])
      BY <1>3, <2>1 DEF FollowInv, ObjectsAreOwn
    <2> QED  BY <1>3, <2>1, <2>2, <2>3, StoreUpdateFollow
  <1> QED  BY <1>1, <1>2, <1>3 DEF AfterInit, Finish

LEMMA InitGpioFollow ==
  ASSUME EarlyRequests = FALSE, TypeInv, OrderInv, FollowInv, NEW p \in Handlers, InitGpio(p)
  PROVE  FollowInv'
  <1>1. h[p] # Idle /\ UNCHANGED tableVars
    BY IdleType DEF InitGpio, Exported, DirectionSet, CleanedUp, At
  <1>2. ASSUME NEW pc, h' = [h EXCEPT ![p] = [h[p] EXCEPT !.pc = pc]],
               UNCHANGED <<cacheVars, sentVars>>
        PROVE  FollowInv'
    <2>1. \A s \in Slot : Keeps(s)
      BY <1>2, GoesOnKeeps
    <2> QED  BY <1>1, <1>2, <2>1, FollowStays DEF cacheVars
  <1>3. ASSUME NEW ok \in BOOLEAN, AfterInit(p, ok)  PROVE FollowInv'
    BY <1>1, <1>3, AfterInitFollow
  <1> QED  BY <1>2, <1>3 DEF InitGpio, Exported, DirectionSet, CleanedUp, Await

\* An UPDATE that is executed writes what is cached; one that is not makes the id
\* doubtful.
LEMMA ExecuteWriteFollow ==
  ASSUME TypeInv, OrderInv, FollowInv, NEW w \in writes, ExecuteWrite(w)
  PROVE  FollowInv'
  <1>1. /\ UNCHANGED <<components, objects, h>>
        /\ writes' = writes \/ writes' = writes \ {w}
        /\ doubtful \subseteq doubtful'
        /\ w.id \in Id
    BY DEF ExecuteWrite, cacheVars, TypeInv, TypeOK
  <1>2. ObjectsAreOwn'
    BY <1>1, OwnStays DEF Keeps
  <1>3. ASSUME NEW id \in (KnownIds \ doubtful)', rows'[id] # NoRow
        PROVE  RowFollows(id)'
    <2>1. id \in KnownIds \ doubtful /\ Comp(id)' = Comp(id)
      BY <1>1, <1>3 DEF KnownIds, Known, Comp
    <2>2. CASE id # w.id
      <3>1. rows'[id] = rows[id]
        BY <2>1, <2>2 DEF ExecuteWrite, TypeInv, TypeOK, KnownIds
      <3>2. RowFollows(id)
        BY <1>3, <2>1, <3>1 DEF FollowInv
      <3> QED  BY <1>1, <2>1, <2>2, <3>1, <3>2 DEF RowFollows
    <2>3. CASE id = w.id
      <3>1. w.row # NoRow
        BY <2>1, <2>3 DEF OrderInv, DeletedIsUncached, KnownIds
      <3>2. rows[id] # NoRow /\ rows'[id] = w.row
        BY <1>3, <2>1, <2>3, <3>1 DEF ExecuteWrite, Executes, KnownIds, TypeInv, TypeOK
      <3>3. RowFollows(id)
        BY <2>1, <3>2 DEF FollowInv
      <3> QED  BY <1>1, <2>1, <2>3, <3>2, <3>3 DEF RowFollows
    <2> QED  BY <2>2, <2>3
  <1> QED  BY <1>2, <1>3 DEF FollowInv

LEMMA LoseInsertFollow ==
  ASSUME TypeInv, FollowInv, NEW id \in uncommitted, LoseInsert(id)
  PROVE  FollowInv'
  <1>1. /\ UNCHANGED <<components, objects, writes, doubtful, h>>
        /\ rows' = [rows EXCEPT ![id] = NoRow]
    BY DEF LoseInsert, cacheVars
  <1>2. \A i \in Id : rows'[i] # NoRow => rows'[i] = rows[i]
    BY <1>1 DEF TypeInv, TypeOK
  <1>3. ObjectsAreOwn'
    BY <1>1, OwnStays DEF Keeps
  <1> QED  BY <1>1, <1>2, <1>3 DEF FollowInv, RowFollows, KnownIds, Known, Comp

\* FollowInv reads none of the other variables.
LEMMA ElsewhereFollow ==
  ASSUME FollowInv, UNCHANGED <<components, objects, rows, writes, doubtful, h>>
  PROVE  FollowInv'
  BY DEF FollowInv, ObjectsAreOwn, RowFollows, KnownIds, Known, Comp

\* With nothing cached there is nothing to follow.
LEMMA BootingFollow ==
  ASSUME \A id \in Id : ~Known(id), \A s \in Slot : h[s] = Idle
  PROVE  FollowInv
  BY IdleType DEF FollowInv, ObjectsAreOwn, KnownIds

LEMMA NextFollow ==
  ASSUME EarlyRequests = FALSE, TypeInv, OrderInv, FollowInv, [Next]_vars
  PROVE  FollowInv'
  <1>1. ASSUME NEW s \in Slot, Request(s)  PROVE FollowInv'
    BY <1>1, ArrivalFollow, UpdateFollow DEF Request
  <1>2. ASSUME NEW s \in Slot, Continue(s)  PROVE FollowInv'
    BY <1>2, ContinueFollow, InsertedFollow
  <1>3. CASE UNCHANGED vars \/ GpioStep
    BY <1>3, ElsewhereFollow DEF vars, GpioStep, cacheVars, dbVars, bootVars
  <1>4. CASE Restart
    <2>1. (\A id \in Id : ~Known(id)') /\ \A s \in Slot : h'[s] = Idle
      BY <1>4 DEF Restart, Known
    <2> QED  BY <2>1, IdleType DEF FollowInv, ObjectsAreOwn, KnownIds
  <1>5. ASSUME NEW id \in uncommitted, CommitInsert(id)  PROVE FollowInv'
    BY <1>5, ElsewhereFollow DEF CommitInsert, cacheVars
  <1> QED  BY <1>1, <1>2, <1>3, <1>4, <1>5, InsertFollow, InitGpioFollow, SelectFollow,
              ExecuteWriteFollow, LoseInsertFollow DEF Next, Work, Handlers

LEMMA FollowInvariance ==
  ASSUME EarlyRequests = FALSE
  PROVE  Spec => [](TypeInv /\ OrderInv /\ FollowInv)
  <1>0. Init => FollowInv
    BY BootingFollow DEF Init, Known
  <1>1. Init => TypeInv /\ OrderInv /\ FollowInv
    BY <1>0, InitType, InitOrder
  <1>2. TypeInv /\ OrderInv /\ FollowInv /\ [Next]_vars => (TypeInv /\ OrderInv /\ FollowInv)'
    BY NextType, NextOrder, NextFollow
  <1> QED  BY <1>1, <1>2, PTL DEF Spec

\* The invariant behind TableFollowsCache: no two ids share an object, an update under
\* way holds the object that the map refers to, and the UPDATEs that are pending carry
\* what is cached.  However many are pending, refused, failed or lost; provided that no
\* request comes before init() has finished. (executeUpdate, addComponent, init)
THEOREM RowsFollowTheCache ==
  ASSUME EarlyRequests = FALSE
  PROVE  Spec => []FollowInv
  <1>1. TypeInv /\ OrderInv /\ FollowInv => FollowInv
    OBVIOUS
  <1> QED  BY <1>1, FollowInvariance, PTL

\* The table says what the cache says of every component that has a row and no UPDATE
\* pending, unless its last UPDATE was sent before another was executed, or one was
\* refused or failed since: these two hazards of the statements that executeUpdate does
\* not wait for are all that makes table and cache differ, whatever else interleaves.
THEOREM TableAgreesWithCache ==
  ASSUME EarlyRequests = FALSE
  PROVE  Spec => []TableFollowsCache
  <1>1. TypeInv /\ OrderInv /\ FollowInv => TableFollowsCache
    BY DEF FollowInv, RowFollows, TableFollowsCache
  <1> QED  BY <1>1, FollowInvariance, PTL
=============================================================================
