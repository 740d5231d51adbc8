---------------------------- MODULE OneClientProofs ----------------------------
(***************************************************************************)
(* Theorems about ComponentsManager for every number of ids and pins, with *)
(* one client that waits for each response, or with any number of clients  *)
(* that keep off the components that others work on.                       *)
(***************************************************************************)
EXTENDS OneClient, ComponentsManagerProofs, FiniteSetTheorems

USE GpioAssumption, ComponentsManagerAssumption DEF Initializing, tableVars, sentVars

\* init() is alone, as it was before the first request.
InTurn(p) ==
  /\ p \in Slot => h[Boot] = Idle
  /\ p = Boot => \A s \in Slot : h[s] = Idle

LEMMA SuspendedIsInTurn ==
  ASSUME OrderInv, NEW p \in Handlers, h[p] # Idle
  PROVE  InTurn(p)
  BY DEF OrderInv, BootIsAlone, Handlers, InTurn

LEMMA ArrivingIsInTurn ==
  ASSUME EarlyRequests = FALSE, NEW s \in Slot, NEW op, Arrives(s, op)
  PROVE  InTurn(s)
  BY DEF Arrives, InTurn

\* A single client is not at work while another request is.
LEMMA OneIsAtWork ==
  ASSUME OneClient, OrderInv, NEW p \in Handlers, NEW q \in Handlers, h[p] # Idle, h[q] # Idle
  PROVE  p = q
  BY DEF OneClient, OrderInv, BootIsAlone, Handlers

LEMMA DrivingIsBusy ==
  ASSUME NEW p, h[p].pc \in Driving
  PROVE  h[p] # Idle
  BY IdleType DEF Driving

\* A pin on the header is no text, and an object is made from it as it is.
LEMMA MadeAsAsked ==
  ASSUME NEW row, ValidPin(row.physicalPin)
  PROVE  /\ PinNumber(row.physicalPin) = row.physicalPin
         /\ ValidPin(PinNumber(row.physicalPin))
         /\ MadeFor(row) = NewGpio(row.physicalPin, WiredAs(row))
  BY DEF MadeFor, PinNumber, ValidPin, HeaderPin

LEMMA MadeAsWired ==
  ASSUME NEW row, Wirable(row)
  PROVE  ValidPin(row.physicalPin) /\ MadeFor(row) = NewGpio(row.physicalPin, row.direction)
  BY MadeAsAsked DEF Wirable, WiredAs, Direction
-----------------------------------------------------------------------------
(***************************************************************************)
(* The objects behind the ids, after each way to change them.              *)
(***************************************************************************)
LEMMA SameCache ==
  ASSUME UNCHANGED cacheVars
  PROVE  /\ KnownIds' = KnownIds
         /\ \A id \in Id : Comp(id)' = Comp(id)
         /\ UNCHANGED components
         /\ RefsAreOwn => RefsAreOwn'
  BY DEF cacheVars, KnownIds, Known, Comp, RefsAreOwn

LEMMA RefOfOne ==
  ASSUME TypeInv, RefsAreOwn, NEW i \in KnownIds, NEW j \in KnownIds, i # j
  PROVE  components[i] # components[j] /\ components[i] \in Ref /\ components[j] \in Ref
  BY CachedType DEF RefsAreOwn, RefsOf, KnownIds

\* A field of one object changes.
LEMMA OneObject ==
  ASSUME TypeInv, RefsAreOwn, UNCHANGED components, NEW id \in KnownIds, NEW new,
         objects' = [objects EXCEPT ![components[id]] = new]
  PROVE  /\ KnownIds' = KnownIds
         /\ RefsAreOwn'
         /\ Comp(id)' = new
         /\ \A i \in KnownIds \ {id} : Comp(i)' = Comp(i)
  <1>1. components[id] \in Ref
    BY CachedType DEF KnownIds
  <1>2. Comp(id)' = new /\ \A ref \in Ref \ {components[id]} : objects'[ref] = objects[ref]
    BY <1>1 DEF TypeInv, TypeOK, Comp
  <1>3. \A i \in KnownIds \ {id} : Comp(i)' = Comp(i)
    BY <1>2, RefOfOne DEF Comp
  <1> QED  BY <1>2, <1>3 DEF KnownIds, Known, RefsAreOwn

LEMMA StoreUpdateComp ==
  ASSUME TypeInv, RefsAreOwn, UNCHANGED components, NEW id \in KnownIds, NEW row \in Row,
         StoreUpdate(id, components[id], row)
  PROVE  /\ KnownIds' = KnownIds
         /\ RefsAreOwn'
         /\ Comp(id)'.row = row
         /\ Comp(id)'.gpio = Comp(id).gpio
         /\ \A i \in KnownIds \ {id} : Comp(i)' = Comp(i)
  <1> DEFINE new == [Comp(id) EXCEPT !.row = row]
  <1>1. objects' = [objects EXCEPT ![components[id]] = new]
    BY DEF StoreUpdate, Comp
  <1>2. new.row = row /\ new.gpio = Comp(id).gpio
    BY CachedType DEF Component, KnownIds
  <1> HIDE DEF new
  <1> QED  BY <1>1, <1>2, OneObject

LEMMA NewGpioComp ==
  ASSUME TypeInv, RefsAreOwn, UNCHANGED components, NEW id \in KnownIds, NEW gpio,
         objects' = [objects EXCEPT ![components[id]].gpio = gpio]
  PROVE  /\ KnownIds' = KnownIds
         /\ RefsAreOwn'
         /\ Comp(id)'.gpio = gpio
         /\ Comp(id)'.row = Comp(id).row
         /\ \A i \in KnownIds \ {id} : Comp(i)' = Comp(i)
  <1> DEFINE new == [Comp(id) EXCEPT !.gpio = gpio]
  <1>1. objects' = [objects EXCEPT ![components[id]] = new]
    BY DEF Comp
  <1>2. new.gpio = gpio /\ new.row = Comp(id).row
    BY CachedType DEF Component, KnownIds
  <1> HIDE DEF new
  <1> QED  BY <1>1, <1>2, OneObject

\* init() or addComponent caches an id.
LEMMA NewComp ==
  ASSUME TypeInv, RefsAreOwn, NEW id \in Id, ~Known(id), NEW maker \in {"init", "add"}, NEW new,
         components' = [components EXCEPT ![id] = <<id, maker>>],
         objects' = [objects EXCEPT ![<<id, maker>>] = new]
  PROVE  /\ KnownIds' = KnownIds \cup {id}
         /\ RefsAreOwn'
         /\ Comp(id)' = new
         /\ \A i \in KnownIds : Comp(i)' = Comp(i) /\ components'[i] = components[i]
  <1> DEFINE ref == <<id, maker>>
  <1>1. ref \in Ref /\ ref # Undefined
    BY DEF Ref, Undefined, Id
  <1>2. components'[id] = ref /\ \A i \in Id \ {id} : components'[i] = components[i]
    BY DEF TypeInv, TypeOK
  <1>3. objects'[ref] = new /\ \A r \in Ref \ {ref} : objects'[r] = objects[r]
    BY <1>1 DEF TypeInv, TypeOK
  <1>4. KnownIds' = KnownIds \cup {id}
    BY <1>1, <1>2 DEF KnownIds, Known
  <1>5. ASSUME NEW i \in KnownIds  PROVE Comp(i)' = Comp(i) /\ components'[i] \in RefsOf(i)
    <2>1. i \in Id \ {id} /\ components[i] \in Ref /\ components[i] \in RefsOf(i)
      BY CachedType DEF KnownIds, RefsAreOwn
    <2>2. components[i] # ref
      BY <2>1, OwnIsOther
    <2> QED  BY <1>2, <1>3, <2>1, <2>2 DEF Comp
  <1>6. RefsAreOwn'
    <2>1. ref \in RefsOf(id)
      BY DEF RefsOf
    <2> QED  BY <1>2, <1>4, <1>5, <2>1 DEF RefsAreOwn
  <1>7. \A i \in KnownIds : components'[i] = components[i]
    BY <1>2 DEF KnownIds
  <1> QED  BY <1>2, <1>3, <1>4, <1>5, <1>6, <1>7 DEF Comp

\* removeComponent takes an id out of the map.
LEMMA NoComp ==
  ASSUME TypeInv, RefsAreOwn, NEW id \in Id, UNCHANGED objects,
         components' = [components EXCEPT ![id] = Undefined]
  PROVE  /\ KnownIds' = KnownIds \ {id}
         /\ RefsAreOwn'
         /\ \A i \in KnownIds' : Comp(i)' = Comp(i) /\ components'[i] = components[i]
  <1>1. components'[id] = Undefined /\ \A i \in Id \ {id} : components'[i] = components[i]
    BY DEF TypeInv, TypeOK
  <1>2. KnownIds' = KnownIds \ {id}
    BY <1>1 DEF KnownIds, Known
  <1> QED  BY <1>1, <1>2 DEF KnownIds, RefsAreOwn, Comp
-----------------------------------------------------------------------------
(***************************************************************************)
(* What each request awaits: DrivingInv.                                   *)
(***************************************************************************)
LEMMA IdleVerbs ==
  ASSUME NEW p, h[p] = Idle
  PROVE  VerbsAt(p) = {"none", "cat"}
  BY IdleType DEF VerbsAt, At

\* What a step of p has to show.
Driven(p) == RefsAreOwn' /\ Drives(p)'

LEMMA EndsDriving ==
  ASSUME TypeInv, DrivingInv, NEW p \in Handlers,
         h' = [h EXCEPT ![p] = Idle], exec' = [exec EXCEPT ![p] = NoExec], RefsAreOwn'
  PROVE  Driven(p)
  <1>1. h'[p] = Idle /\ exec'[p].verb = "none"
    BY DEF TypeInv, TypeOK, GpioTypeOK, Handlers, NoExec
  <1>2. VerbsAt(p)' = {"none", "cat"}
    BY <1>1, IdleType DEF VerbsAt, At
  <1>3. Drives(p)'
    BY <1>1, <1>2, IdleType DEF Drives, Driving
  <1> QED  BY <1>3 DEF Driven

\* A pause without a command.
LEMMA PausesDriving ==
  ASSUME TypeInv, DrivingInv, NEW p \in Handlers, NEW handler,
         h' = [h EXCEPT ![p] = handler], exec' = [exec EXCEPT ![p] = NoExec],
         handler.pc \in {"inserting", "inserted"}, handler.op = "add", UNCHANGED cacheVars
  PROVE  Driven(p)
  <1>1. h'[p] = handler /\ exec'[p].verb = "none"
    BY DEF TypeInv, TypeOK, GpioTypeOK, Handlers, NoExec
  <1>2. VerbsAt(p)' = {"none", "cat"}
    BY <1>1 DEF VerbsAt, At
  <1>3. Drives(p)'
    BY <1>1, <1>2 DEF Drives, Driving
  <1> QED  BY <1>3, SameCache DEF DrivingInv, Driven

\* A command for the line of a component.
LEMMA AwaitsDriving ==
  ASSUME TypeInv, DrivingInv, NEW p \in Handlers, NEW handler, NEW verb, NEW line,
         Await(p, handler, verb, line), RefsAreOwn',
         h'[p] = handler /\ exec'[p].verb = verb => verb \in VerbsAt(p)',
         handler.op \in {"update", "remove"} => handler.pc \in Driving,
         handler.op = "update" => handler.c = components'[handler.id],
         handler.pc \in Driving =>
           /\ handler.op # "list" /\ handler.id \in KnownIds'
           /\ line = objects'[components'[handler.id]].gpio.pinNo,
         handler.pc \in Initializing =>
           objects'[components'[handler.id]].gpio = MadeFor(handler.row)
  PROVE  Driven(p)
  <1> DEFINE command == [verb |-> verb, line |-> line, out |-> "pending"]
  <1>1. /\ h' = [h EXCEPT ![p] = handler] /\ exec' = [exec EXCEPT ![p] = command]
        /\ command.verb = verb /\ command.line = line
    BY DEF Await, Issue
  <1> HIDE DEF command
  <1>2. h'[p] = handler /\ exec'[p] = command
    BY <1>1 DEF TypeInv, TypeOK, GpioTypeOK, Handlers
  <1>3. Drives(p)'
    BY <1>1, <1>2 DEF Drives, Comp
  <1> QED  BY <1>3 DEF Driven

LEMMA FinishesDriving ==
  ASSUME TypeInv, DrivingInv, NEW p \in Handlers, NEW op, NEW id, NEW reply,
         Finish(p, op, id, reply), UNCHANGED cacheVars
  PROVE  Driven(p)
  BY EndsDriving, SameCache DEF Finish, DrivingInv

LEMMA ToggleDrives ==
  ASSUME TypeInv, DrivingInv, NEW s \in Slot, NEW id \in Id, NEW status \in Status,
         Toggle(s, id, status)
  PROVE  Driven(s)
  <1> DEFINE handler == [Idle EXCEPT !.pc = "toggling", !.op = "toggle", !.id = id]
  <1>0. s \in Handlers /\ UNCHANGED cacheVars
    BY DEF Handlers, Toggle
  <1>1. CASE Drivable(id) /\ status # "invalid" /\ Await(s, handler, status, Comp(id).gpio.pinNo)
    <2>1. handler.pc = "toggling" /\ handler.op = "toggle" /\ handler.id = id
      BY DEF Idle
    <2> HIDE DEF handler
    <2>2. id \in KnownIds' /\ Comp(id)' = Comp(id) /\ RefsAreOwn'
      BY <1>0, <1>1, SameCache DEF Drivable, KnownIds, DrivingInv
    <2>3. h'[s] = handler => status \in VerbsAt(s)'
      BY <1>1, <2>1 DEF VerbsAt, At, Status
    <2> QED  BY <1>0, <1>1, <2>1, <2>2, <2>3, AwaitsDriving DEF Comp
  <1> QED  BY <1>0, <1>1, FinishesDriving DEF Toggle

LEMMA UpdateDrives ==
  ASSUME TypeInv, DrivingInv, NEW s \in Slot, NEW id \in Id, NEW data \in UpdateData,
         Update(s, id, data)
  PROVE  Driven(s)
  <1>0. s \in Handlers /\ UNCHANGED components /\ RefsAreOwn
    BY DEF Handlers, Update, DrivingInv
  <1>1. ASSUME NEW reply, Finish(s, "update", id, reply), UNCHANGED objects
        PROVE  Driven(s)
    BY <1>0, <1>1, FinishesDriving DEF cacheVars
  <1>2. CASE Known(id)
    <2> DEFINE c == Comp(id)
               row == Merge(data, c.row)
               handler == [Idle EXCEPT !.op = "update", !.id = id,
                                       !.c = components[id], !.row = row]
    <2>0. row \in Row /\ id \in KnownIds
      BY <1>2, CachedType, MergeType DEF KnownIds
    <2>1. ASSUME StoreUpdate(id, components[id], row), Finish(s, "update", id, "OK")
          PROVE  Driven(s)
      BY <1>0, <2>0, <2>1, StoreUpdateComp, EndsDriving DEF Finish
    <2>2. ASSUME UNCHANGED objects,
                 NEW pc \in {"turning off", "unexporting"}, NEW verb,
                 verb = IF pc = "unexporting" THEN "unexport" ELSE "0",
                 Await(s, [handler EXCEPT !.pc = pc], verb, c.gpio.pinNo)
          PROVE  Driven(s)
      <3> DEFINE held == [handler EXCEPT !.pc = pc]
      <3>1. held.op = "update" /\ held.pc = pc /\ held.id = id /\ held.c = components[id]
        BY DEF Idle
      <3>2. id \in KnownIds' /\ Comp(id)' = c /\ RefsAreOwn'
        BY <1>0, <2>0, <2>2, SameCache DEF cacheVars
      <3>3. h'[s] = held => verb \in VerbsAt(s)'
        BY <2>2, <3>1 DEF VerbsAt, At
      <3>4. Await(s, held, verb, c.gpio.pinNo)
        BY <2>2
      <3> HIDE DEF held
      <3> QED  BY <1>0, <2>0, <3>1, <3>2, <3>3, <3>4, AwaitsDriving DEF Driving, Comp
    <2> QED  BY <1>1, <1>2, <2>1, <2>2 DEF Update
  <1> QED  BY <1>1, <1>2 DEF Update

LEMMA UpdateGoesOnDriving ==
  ASSUME TypeInv, DrivingInv, NEW s \in Slot,
         UpdateTurnedOff(s) \/ UpdateUnexported(s)
  PROVE  Driven(s)
  <1> DEFINE id == h[s].id
             c == h[s].c
             row == h[s].row
  <1>0. s \in Handlers /\ h[s] \in Handler /\ WellFormed(s) /\ h[s].op = "update" /\ RefsAreOwn
    BY HandlerType DEF Handlers, UpdateTurnedOff, UpdateUnexported, DrivingInv
  <1>1. h[s].pc \in Driving
    BY DEF UpdateTurnedOff, UpdateUnexported, At, Driving
  <1>2. id \in KnownIds /\ c = components[id] /\ row \in Row
    BY <1>0, <1>1 DEF DrivingInv, Drives, WellFormed
  <1>3. CASE UpdateTurnedOff(s)
    <2> DEFINE handler == [h[s] EXCEPT !.pc = "unexporting"]
    <2>1. handler.pc = "unexporting" /\ handler.op = "update" /\ handler.id = id /\ handler.c = c
      BY <1>0 DEF Handler
    <2>2. Await(s, handler, "unexport", objects[c].gpio.pinNo) /\ UNCHANGED cacheVars
      BY <1>3 DEF UpdateTurnedOff
    <2> HIDE DEF handler
    <2>3. h'[s] = handler => "unexport" \in VerbsAt(s)'
      BY <2>1 DEF VerbsAt, At
    <2>4. id \in KnownIds' /\ RefsAreOwn' /\ UNCHANGED <<components, objects>>
      BY <1>0, <1>2, <2>2, SameCache DEF cacheVars
    <2> QED  BY <1>0, <1>2, <2>1, <2>2, <2>3, <2>4, AwaitsDriving DEF Driving
  <1>4. ASSUME Finish(s, "update", id, "SERVER_ERR"), UNCHANGED cacheVars  PROVE Driven(s)
    BY <1>0, <1>4, FinishesDriving
  <1>5. CASE UpdateUnexported(s) /\ Wirable(row)
    <2> DEFINE handler == [h[s] EXCEPT !.pc = "exporting"]
               gpio == MadeFor(row)
    <2>1. handler.pc = "exporting" /\ handler.op = "update" /\ handler.id = id
          /\ handler.c = c /\ handler.row = row
      BY <1>0 DEF Handler
    <2>2. /\ Await(s, handler, "export", gpio.pinNo) /\ UNCHANGED components
          /\ objects' = [objects EXCEPT ![c].gpio = gpio]
      BY <1>5, MadeAsWired DEF UpdateUnexported
    <2> HIDE DEF handler, gpio
    <2>3. h'[s] = handler => "export" \in VerbsAt(s)'
      BY <2>1 DEF VerbsAt, At
    <2>4. PICK i \in KnownIds : i = id
      BY <1>2
    <2>5. i \in KnownIds' /\ RefsAreOwn' /\ Comp(i)'.gpio = gpio
      BY <1>0, <1>2, <2>2, <2>4, NewGpioComp
    <2>6. objects'[components'[id]].gpio = gpio /\ components'[id] = c
      BY <1>2, <2>2, <2>4, <2>5 DEF Comp
    <2> QED  BY <1>0, <2>1, <2>2, <2>3, <2>4, <2>5, <2>6, AwaitsDriving DEF Driving, gpio
  <1> QED  BY <1>3, <1>4, <1>5 DEF UpdateUnexported, cacheVars

LEMMA InsertedDrives ==
  ASSUME TypeInv, OrderInv, DrivingInv, NEW s \in Slot, Inserted(s)
  PROVE  Driven(s)
  <1> DEFINE row == h[s].row
             handler == [h[s] EXCEPT !.pc = "exporting"]
             gpio == MadeFor(row)
  <1>0. s \in Handlers /\ h[s] \in Handler /\ h[s].op = "add" /\ row \in Row
        /\ h[s].id \in Id /\ RefsAreOwn
    BY HandlerType DEF Handlers, Inserted, WellFormed, DrivingInv
  <1>1. PICK id \in Id : id = h[s].id
    BY <1>0
  <1>2. CASE Finish(s, "add", h[s].id, "OK") /\ UNCHANGED cacheVars
    BY <1>0, <1>2, FinishesDriving
  <1>3. CASE /\ components' = [components EXCEPT ![id] = <<id, "add">>]
             /\ objects' = [objects EXCEPT ![<<id, "add">>] = [row |-> row, gpio |-> gpio]]
             /\ Await(s, handler, "export", gpio.pinNo)
    <2>1. handler.pc = "exporting" /\ handler.op = "add" /\ handler.id = id /\ handler.row = row
      BY <1>0, <1>1 DEF Handler
    <2>2. ~Known(id)
      BY <1>1 DEF OrderInv, InsertedIsPrivate, Inserted
    <2>3. id \in KnownIds' /\ RefsAreOwn' /\ Comp(id)'.gpio = gpio
      <3> DEFINE new == [row |-> row, gpio |-> gpio]
      <3>1. new.gpio = gpio /\ objects' = [objects EXCEPT ![<<id, "add">>] = new]
        BY <1>3
      <3> HIDE DEF new
      <3> QED  BY <1>0, <1>3, <2>2, <3>1, NewComp
    <2> HIDE DEF handler, gpio
    <2>4. h'[s] = handler => "export" \in VerbsAt(s)'
      BY <2>1 DEF VerbsAt, At
    <2> QED  BY <1>0, <1>3, <2>1, <2>3, <2>4, AwaitsDriving DEF Driving, gpio, Comp
  <1>4. ValidPin(row.physicalPin) => gpio = NewGpio(row.physicalPin, WiredAs(row))
    BY MadeAsAsked
  <1> HIDE DEF gpio, handler
  <1>5. \/ /\ components' = [components EXCEPT ![id] = <<id, "add">>]
           /\ objects' = [objects EXCEPT ![<<id, "add">>] = [row |-> row, gpio |-> gpio]]
           /\ Await(s, handler, "export", gpio.pinNo)
        \/ Finish(s, "add", h[s].id, "OK") /\ UNCHANGED cacheVars
    BY <1>1, <1>4 DEF Inserted, handler
  <1> QED  BY <1>2, <1>3, <1>5

LEMMA AddDrives ==
  ASSUME TypeInv, DrivingInv, NEW s \in Slot,
         Insert(s) \/ (\E data \in UpdateData : Add(s, data))
  PROVE  Driven(s)
  <1>0. s \in Handlers /\ UNCHANGED cacheVars
    BY DEF Handlers, Add, Insert
  <1>1. ASSUME NEW op, NEW id, NEW reply, Finish(s, op, id, reply)  PROVE Driven(s)
    BY <1>0, <1>1, FinishesDriving
  <1>2. ASSUME NEW data \in UpdateData,
               Goto(s, [Idle EXCEPT !.pc = "inserting", !.op = "add", !.row = data])
        PROVE  Driven(s)
    <2> DEFINE handler == [Idle EXCEPT !.pc = "inserting", !.op = "add", !.row = data]
    <2>1. handler.pc = "inserting" /\ handler.op = "add" /\ Goto(s, handler)
      BY <1>2 DEF Idle
    <2> HIDE DEF handler
    <2> QED  BY <1>0, <2>1, PausesDriving DEF Goto
  <1>3. ASSUME Insert(s), Goto(s, [h[s] EXCEPT !.pc = "inserted", !.id = nextId])
        PROVE  Driven(s)
    <2> DEFINE handler == [h[s] EXCEPT !.pc = "inserted", !.id = nextId]
    <2>1. handler.pc = "inserted" /\ handler.op = "add" /\ Goto(s, handler)
      BY <1>0, <1>3, HandlerType DEF Handler, WellFormed, Insert
    <2> HIDE DEF handler
    <2> QED  BY <1>0, <2>1, PausesDriving DEF Goto
  <1> QED  BY <1>1, <1>2, <1>3 DEF Add, Insert

LEMMA AwaitUnexportDrives ==
  ASSUME TypeInv, DrivingInv, NEW s \in Slot, NEW id \in Id,
         AwaitUnexport(s, id), UNCHANGED cacheVars
  PROVE  Driven(s)
  <1> DEFINE handler == [Idle EXCEPT !.pc = "unexporting", !.op = "remove", !.id = id]
  <1>0. s \in Handlers
    BY DEF Handlers
  <1>1. CASE Known(id) /\ Await(s, handler, "unexport", Comp(id).gpio.pinNo)
    <2>1. handler.pc = "unexporting" /\ handler.op = "remove" /\ handler.id = id
      BY DEF Idle
    <2> HIDE DEF handler
    <2>2. id \in KnownIds' /\ Comp(id)' = Comp(id) /\ RefsAreOwn'
      BY <1>1, SameCache DEF KnownIds, DrivingInv
    <2>3. h'[s] = handler => "unexport" \in VerbsAt(s)'
      BY <2>1 DEF VerbsAt, At
    <2> QED  BY <1>0, <1>1, <2>1, <2>2, <2>3, AwaitsDriving DEF Driving, Comp
  <1> QED  BY <1>0, <1>1, FinishesDriving DEF AwaitUnexport

LEMMA RemoveDrives ==
  ASSUME TypeInv, DrivingInv, NEW s \in Slot,
         RemoveTurnedOff(s) \/ (\E id \in Id : Remove(s, id))
  PROVE  Driven(s)
  <1>0. s \in Handlers /\ UNCHANGED cacheVars
    BY DEF Handlers, RemoveTurnedOff, Remove
  <1>1. ASSUME NEW id, Finish(s, "remove", id, "SERVER_ERR")  PROVE Driven(s)
    BY <1>0, <1>1, FinishesDriving
  <1>2. ASSUME NEW id \in Id, AwaitUnexport(s, id)  PROVE Driven(s)
    BY <1>0, <1>2, AwaitUnexportDrives
  <1>3. CASE RemoveTurnedOff(s)
    BY <1>0, <1>2, <1>3, HandlerType DEF RemoveTurnedOff, WellFormed
  <1>4. ASSUME NEW id \in Id, Drivable(id),
               Await(s, [Idle EXCEPT !.pc = "turning off", !.op = "remove", !.id = id],
                     "0", Comp(id).gpio.pinNo)
        PROVE  Driven(s)
    <2> DEFINE handler == [Idle EXCEPT !.pc = "turning off", !.op = "remove", !.id = id]
    <2>1. handler.pc = "turning off" /\ handler.op = "remove" /\ handler.id = id
          /\ Await(s, handler, "0", Comp(id).gpio.pinNo)
      BY <1>4 DEF Idle
    <2> HIDE DEF handler
    <2>2. id \in KnownIds' /\ Comp(id)' = Comp(id) /\ RefsAreOwn'
      BY <1>0, <1>4, SameCache DEF KnownIds, Drivable, DrivingInv
    <2>3. h'[s] = handler => "0" \in VerbsAt(s)'
      BY <2>1 DEF VerbsAt, At
    <2> QED  BY <1>0, <2>1, <2>2, <2>3, AwaitsDriving DEF Driving, Comp
  <1> QED  BY <1>1, <1>2, <1>3, <1>4 DEF Remove

LEMMA RemoveUnexportedDrives ==
  ASSUME TypeInv, DrivingInv, NEW s \in Slot, RemoveUnexported(s)
  PROVE  Driven(s)
  <1>1. s \in Handlers /\ h[s].id \in Id /\ RefsAreOwn
    BY HandlerType DEF Handlers, RemoveUnexported, WellFormed, DrivingInv
  <1>2. PICK id \in Id : id = h[s].id
    BY <1>1
  <1>3. RefsAreOwn'
    BY <1>1, <1>2, NoComp DEF RemoveUnexported
  <1> QED  BY <1>1, <1>3, EndsDriving DEF RemoveUnexported, Finish

LEMMA VisitDrives ==
  ASSUME TypeInv, DrivingInv, NEW s \in Slot, NEW todo, Visit(s, todo),
         UNCHANGED cacheVars
  PROVE  Driven(s)
  <1> DEFINE left == {i \in todo : Known(i)}
  <1>0. s \in Handlers /\ RefsAreOwn'
    BY SameCache DEF Handlers, DrivingInv
  <1>1. ASSUME NEW reply, Finish(s, "list", 0, reply)  PROVE Driven(s)
    BY <1>0, <1>1, FinishesDriving
  <1>2. ASSUME NEW id \in left, NEW pc \in {"isOn", "readValue"},
               Await(s, [Idle EXCEPT !.pc = pc, !.op = "list", !.id = id, !.todo = left \ {id}],
                     "cat", Comp(id).gpio.pinNo)
        PROVE  Driven(s)
    <2> DEFINE handler == [Idle EXCEPT !.pc = pc, !.op = "list", !.id = id,
                                       !.todo = left \ {id}]
    <2>1. handler.pc = pc /\ handler.op = "list" /\ Await(s, handler, "cat", Comp(id).gpio.pinNo)
      BY <1>2 DEF Idle
    <2> HIDE DEF handler
    <2>2. h'[s] = handler => "cat" \in VerbsAt(s)'
      BY <2>1 DEF VerbsAt, At
    <2> QED  BY <1>0, <2>1, <2>2, AwaitsDriving DEF Driving
  <1> QED  BY <1>1, <1>2 DEF Visit

\* init() goes on with the next row; nobody has cached it.
LEMMA LoadFromDrives ==
  ASSUME TypeInv, DrivingInv, NEW todo \in SUBSET Id,
         NEW table \in [Id -> StoredRow \cup {NoRow}],
         \A id \in todo : ~Known(id), LoadFrom(todo, table)
  PROVE  Driven(Boot)
  <1> DEFINE loadable == {i \in todo : ValidPin(table[i].physicalPin)}
  <1>0. Boot \in Handlers /\ RefsAreOwn
    BY DEF Handlers, DrivingInv
  <1>1. CASE Goto(Boot, Idle) /\ UNCHANGED cacheVars
    BY <1>0, <1>1, EndsDriving, SameCache DEF Goto
  <1>2. ASSUME NEW id \in loadable,
               components' = [components EXCEPT ![id] = <<id, "init">>],
               objects' = [objects EXCEPT ![<<id, "init">>] =
                             [row |-> table[id], gpio |-> MadeFor(table[id])]],
               Await(Boot, [Idle EXCEPT !.pc = "exporting", !.op = "init",
                       !.id = id, !.row = table[id], !.todo = loadable \ {id}],
                     "export", MadeFor(table[id]).pinNo)
        PROVE  Driven(Boot)
    <2> DEFINE handler == [Idle EXCEPT !.pc = "exporting", !.op = "init",
                             !.id = id, !.row = table[id], !.todo = loadable \ {id}]
               gpio == MadeFor(table[id])
               new == [row |-> table[id], gpio |-> gpio]
    <2>1. /\ handler.pc = "exporting" /\ handler.op = "init" /\ handler.id = id
          /\ handler.row = table[id] /\ new.gpio = gpio
          /\ Await(Boot, handler, "export", gpio.pinNo)
          /\ objects' = [objects EXCEPT ![<<id, "init">>] = new]
      BY <1>2 DEF Idle
    <2> HIDE DEF handler, new
    <2>2. id \in KnownIds' /\ RefsAreOwn' /\ Comp(id)'.gpio = gpio
      <3>1. PICK i \in Id : i = id
        OBVIOUS
      <3>2. ~Known(i) /\ components' = [components EXCEPT ![i] = <<i, "init">>]
            /\ objects' = [objects EXCEPT ![<<i, "init">>] = new]
        BY <1>2, <2>1, <3>1
      <3>3. i \in KnownIds' /\ RefsAreOwn' /\ Comp(i)' = new
        BY <1>0, <3>2, NewComp
      <3> QED  BY <2>1, <3>1, <3>3 DEF Comp
    <2>3. h'[Boot] = handler => "export" \in VerbsAt(Boot)'
      BY <2>1 DEF VerbsAt, At
    <2> QED  BY <1>0, <2>1, <2>2, <2>3, AwaitsDriving DEF Driving, Comp
  <1>3. \A id \in loadable : MadeFor(table[id]) = NewGpio(table[id].physicalPin, WiredAs(table[id]))
    BY MadeAsAsked
  <1> QED  BY <1>1, <1>2, <1>3 DEF LoadFrom

LEMMA SelectDrives ==
  ASSUME TypeInv, OrderInv, DrivingInv, Select
  PROVE  Driven(Boot)
  <1>0. Boot \in Handlers /\ StoredIds(rows) \ uncommitted \in SUBSET Id
    BY DEF Handlers, StoredIds
  <1>1. CASE LoadFrom(StoredIds(rows) \ uncommitted, rows)
    <2>1. \A id \in StoredIds(rows) \ uncommitted : ~Known(id)
      BY IdleType DEF Select, At, OrderInv, BootIsAlone, KnownIds, StoredIds
    <2> QED  BY <1>0, <1>1, <2>1, LoadFromDrives DEF TypeInv, TypeOK
  <1>2. CASE Goto(Boot, Idle) /\ UNCHANGED cacheVars
    BY <1>0, <1>2, EndsDriving, SameCache DEF Goto, DrivingInv
  <1> QED  BY <1>1, <1>2 DEF Select

LEMMA AfterInitDrives ==
  ASSUME TypeInv, OrderInv, DrivingInv, NEW p \in Handlers,
         h[p].pc \in Initializing, NEW ok, AfterInit(p, ok)
  PROVE  Driven(p)
  <1>0. /\ h[p] \in Handler /\ WellFormed(p) /\ h[p] # Idle /\ RefsAreOwn
        /\ h[p].id \in KnownIds /\ h[p].row \in Row
    BY HandlerType, IdleType DEF DrivingInv, Drives, Driving, WellFormed
  <1>1. CASE h[p].op = "init" /\ LoadFrom(h[p].todo, snapshot)
    <2>1. p = Boot /\ h[Boot].todo \in SUBSET Id
      BY <1>0, <1>1 DEF WellFormed, Handler
    <2>2. \A id \in h[Boot].todo : ~Known(id)
      BY <1>0, <2>1 DEF OrderInv, BootIsAlone
    <2> QED  BY <1>1, <2>1, <2>2, LoadFromDrives DEF TypeInv, TypeOK
  <1>2. ASSUME NEW op, NEW reply, Finish(p, op, h[p].id, reply), UNCHANGED cacheVars
        PROVE  Driven(p)
    BY <1>2, FinishesDriving
  <1>3. CASE /\ h[p].op = "update"
             /\ StoreUpdate(h[p].id, h[p].c, h[p].row)
             /\ Finish(p, "update", h[p].id, "OK")
             /\ UNCHANGED components
    <2>1. h[p].c = components[h[p].id]
      BY <1>3 DEF DrivingInv, Drives
    <2>2. RefsAreOwn'
      BY <1>0, <1>3, <2>1, StoreUpdateComp
    <2> QED  BY <1>3, <2>2, EndsDriving DEF Finish
  <1> QED  BY <1>1, <1>2, <1>3 DEF AfterInit

LEMMA InitGpioDrives ==
  ASSUME TypeInv, OrderInv, DrivingInv, NEW p \in Handlers, InitGpio(p)
  PROVE  Driven(p)
  <1>0. /\ h[p].pc \in Initializing /\ h[p] \in Handler /\ h[p].op # "list"
        /\ h[p].id \in KnownIds /\ Comp(h[p].id).gpio = MadeFor(h[p].row)
    BY HandlerType DEF InitGpio, Exported, DirectionSet, CleanedUp, At, DrivingInv, Drives, Driving
  <1>1. InitLine(p) = Comp(h[p].id).gpio.pinNo
    <2>1. ValidPin(h[p].row.physicalPin)
      BY <1>0 DEF TypeInv, WellFormed, Handlers
    <2>2. MadeFor(h[p].row).pinNo = InitLine(p)
      BY <2>1, MadeAsAsked DEF InitLine, NewGpio
    <2> QED  BY <1>0, <2>2
  <1>2. ASSUME NEW pc \in {"setting direction", "cleaning up"}, NEW verb,
               verb = IF pc = "cleaning up" THEN "unexport" ELSE WiredAs(h[p].row),
               Await(p, [h[p] EXCEPT !.pc = pc], verb, InitLine(p)), UNCHANGED cacheVars
        PROVE  Driven(p)
    <2> DEFINE handler == [h[p] EXCEPT !.pc = pc]
    <2>1. /\ handler.pc = pc /\ handler.op = h[p].op /\ handler.id = h[p].id
          /\ handler.row = h[p].row /\ handler.c = h[p].c
          /\ Await(p, handler, verb, InitLine(p))
      BY <1>0, <1>2 DEF Handler
    <2> HIDE DEF handler
    <2>2. /\ UNCHANGED <<components, objects>> /\ RefsAreOwn' /\ KnownIds' = KnownIds
      BY <1>2, SameCache DEF cacheVars, DrivingInv
    <2>3. h'[p] = handler => verb \in VerbsAt(p)'
      BY <1>2, <2>1 DEF VerbsAt, At
    <2>4. h[p].op = "update" => h[p].c = components[h[p].id]
      BY DEF DrivingInv, Drives
    <2> QED  BY <1>0, <1>1, <2>1, <2>2, <2>3, <2>4, AwaitsDriving DEF Driving, Comp
  <1>3. ASSUME NEW ok \in BOOLEAN, AfterInit(p, ok)  PROVE Driven(p)
    BY <1>0, <1>3, AfterInitDrives
  <1> QED  BY <1>2, <1>3 DEF InitGpio, Exported, DirectionSet, CleanedUp

\* What a command does changes neither its verb nor its line.
LEMMA GpioDrives ==
  ASSUME TypeInv, DrivingInv, GpioNext, UNCHANGED <<cacheVars, h>>
  PROVE  DrivingInv'
  <1>1. \A p \in Proc : exec'[p].verb = exec[p].verb /\ exec'[p].line = exec[p].line
    BY DEF TypeInv, TypeOK, GpioTypeOK, GpioNext, RunCommand, Timeout, RunOrphan, Exec, NoExec
  <1>2. RefsAreOwn' /\ KnownIds' = KnownIds /\ UNCHANGED <<components, objects, h>>
    BY SameCache DEF DrivingInv, cacheVars
  <1>3. ASSUME NEW p \in Handlers  PROVE Drives(p)'
    <2>1. Drives(p) /\ exec'[p].verb = exec[p].verb /\ exec'[p].line = exec[p].line
      BY <1>1 DEF DrivingInv, Handlers
    <2>2. VerbsAt(p)' = VerbsAt(p)
      BY <1>2 DEF VerbsAt, At
    <2> QED  BY <1>2, <2>1, <2>2 DEF Drives, Comp
  <1> QED  BY <1>2, <1>3 DEF DrivingInv, OwnComponents

LEMMA BootingFields == Booting.pc = "selecting" /\ Booting.op = "init"
  BY DEF Booting, Idle

\* Nothing is known, and nothing awaited.
LEMMA NothingDrives ==
  ASSUME \A id \in Id : components[id] = Undefined,
         \A p \in Handlers : h[p] \in {Idle, Booting} /\ exec[p] = NoExec
  PROVE  DrivingInv
  <1>1. RefsAreOwn
    BY DEF RefsAreOwn, KnownIds, Known
  <1>2. ASSUME NEW p \in Handlers  PROVE Drives(p)
    <2>1. /\ h[p].pc \in {"idle", "selecting"} /\ h[p].op \in {"none", "init"}
          /\ exec[p].verb = "none"
      BY BootingFields, IdleType DEF NoExec
    <2>2. VerbsAt(p) = {"none", "cat"}
      BY <2>1 DEF VerbsAt, At
    <2> QED  BY <2>1, <2>2 DEF Drives, Driving
  <1>3. OwnComponents
    BY BootingFields, IdleType DEF OwnComponents, Driving
  <1> QED  BY <1>1, <1>2, <1>3 DEF DrivingInv

LEMMA NothingDrivesNext ==
  ASSUME \A id \in Id : components'[id] = Undefined,
         \A p \in Handlers : h'[p] \in {Idle, Booting} /\ exec'[p] = NoExec
  PROVE  DrivingInv'
  <1>1. RefsAreOwn'
    BY DEF RefsAreOwn, KnownIds, Known
  <1>2. ASSUME NEW p \in Handlers  PROVE Drives(p)'
    <2>1. /\ h'[p].pc \in {"idle", "selecting"} /\ h'[p].op \in {"none", "init"}
          /\ exec'[p].verb = "none"
      BY BootingFields, IdleType DEF NoExec
    <2>2. VerbsAt(p)' = {"none", "cat"}
      BY <2>1 DEF VerbsAt, At
    <2> QED  BY <2>1, <2>2 DEF Drives, Driving
  <1>3. OwnComponents'
    BY BootingFields, IdleType DEF OwnComponents, Driving
  <1> QED  BY <1>1, <1>2, <1>3 DEF DrivingInv
-----------------------------------------------------------------------------
(***************************************************************************)
(* The steps that run no command, and those that do.                       *)
(***************************************************************************)
\* p is at work on a component, or arrives while nobody is.
WorksOn(p, id) ==
  \/ h[p].pc \in Driving /\ id = h[p].id
  \/ h[p] = Idle /\ p \in Slot /\ NobodyWorksOn(id)

\* What comes after what p was doing, if it is to be `handler' next.
Follows(p, handler) ==
  /\ handler.pc = "unexporting" =>
       \/ h[p] = Idle /\ Comp(handler.id).row.direction # DIR_OUT
       \/ At(p, "turning off") /\ Answered(p) /\ handler.id = h[p].id
  /\ handler.pc = "exporting" =>
       \/ At(p, "unexporting") /\ Answered(p) /\ h[p].op = "update" /\ handler.op = "update"
       \/ ~Known(handler.id)
  /\ handler.pc = "setting direction" => At(p, "exporting") /\ Succeeded(p)
  /\ handler.pc = "cleaning up" => At(p, "setting direction") /\ ~Ok(p)
  /\ h[p].pc \in {"exporting", "setting direction"} =>
       \/ ~Ok(p)
       \/ At(p, "exporting") /\ handler = [h[p] EXCEPT !.pc = "setting direction"]
       \/ At(p, "setting direction") /\ Succeeded(p)
  /\ handler.op \in {"add", "update"} =>
       \/ h[p] = Idle
       \/ At(p, "inserting")
       \/ \E pc : pc # "inserting" /\ handler = [h[p] EXCEPT !.pc = pc]
  /\ handler.pc \in Driving => WorksOn(p, handler.id) \/ ~Known(handler.id)

\* p sees the result of its command, and asks for the next one or for none.
GoesOn(p) ==
  /\ UNCHANGED kernel
  /\ \E handler, command :
       /\ h' = [h EXCEPT ![p] = handler]
       /\ exec' = [exec EXCEPT ![p] = command]
       /\ command = NoExec \/ command.out = "pending"
       /\ Follows(p, handler)
       /\ handler.pc = "setting direction" => command.line = exec[p].line

LEMMA AwaitGoesOn ==
  ASSUME NEW p, NEW handler, NEW verb, NEW line, Await(p, handler, verb, line),
         UNCHANGED kernel, Follows(p, handler),
         handler.pc = "setting direction" => line = exec[p].line
  PROVE  GoesOn(p)
  <1> DEFINE command == [verb |-> verb, line |-> line, out |-> "pending"]
  <1>1. /\ h' = [h EXCEPT ![p] = handler] /\ exec' = [exec EXCEPT ![p] = command]
        /\ command.out = "pending" /\ command.line = line
    BY DEF Await, Issue
  <1> HIDE DEF command
  <1> QED  BY <1>1 DEF GoesOn

LEMMA GotoGoesOn ==
  ASSUME NEW p, NEW handler, Goto(p, handler), UNCHANGED kernel, Follows(p, handler),
         handler.pc # "setting direction"
  PROVE  GoesOn(p)
  BY DEF Goto, GoesOn

\* Gpio.init() is done, or a step of it has failed.
Through(p) ==
  h[p].pc \in {"exporting", "setting direction"} =>
    ~Ok(p) \/ (At(p, "setting direction") /\ Succeeded(p))

LEMMA IdleFollows ==
  ASSUME NEW p, Through(p)
  PROVE  Follows(p, Idle)
  BY IdleType DEF Follows, WorksOn, Through, Driving

LEMMA FinishGoesOn ==
  ASSUME NEW p, NEW op, NEW id, NEW reply, Finish(p, op, id, reply), UNCHANGED kernel, Through(p)
  PROVE  GoesOn(p)
  BY IdleType, IdleFollows DEF Finish, GoesOn

LEMMA VisitGoesOn ==
  ASSUME NEW s \in Slot, NEW todo, Visit(s, todo), UNCHANGED kernel, h[s].pc \notin Initializing
  PROVE  GoesOn(s)
  <1>1. ASSUME NEW id \in todo, NEW left, NEW pc \in {"isOn", "readValue"}, NEW line,
               Await(s, [Idle EXCEPT !.pc = pc, !.op = "list", !.id = id, !.todo = left],
                     "cat", line)
        PROVE  GoesOn(s)
    <2> DEFINE handler == [Idle EXCEPT !.pc = pc, !.op = "list", !.id = id, !.todo = left]
    <2>1. handler.pc = pc /\ handler.op = "list" /\ Await(s, handler, "cat", line)
      BY <1>1 DEF Idle
    <2> HIDE DEF handler
    <2>2. Follows(s, handler)
      BY <2>1 DEF Follows, WorksOn, Driving
    <2> QED  BY <2>1, <2>2, AwaitGoesOn
  <1> QED  BY <1>1, FinishGoesOn DEF Visit, Through

LEMMA RequestGoesOn ==
  ASSUME NEW s \in Slot, Request(s)
  PROVE  GoesOn(s)
  <1>0. UNCHANGED kernel /\ h[s] = Idle /\ Through(s)
    BY IdleType DEF Request, Toggle, Update, Remove, Add, List, Arrives, Through
  <1>1. ASSUME NEW pc \in {"toggling", "turning off", "unexporting"}, NEW verb, NEW line,
               NEW handler, handler.pc = pc, Await(s, handler, verb, line),
               NobodyWorksOn(handler.id),
               pc = "unexporting" => Comp(handler.id).row.direction # DIR_OUT
        PROVE  GoesOn(s)
    <2>1. Follows(s, handler)
      BY <1>0, <1>1, IdleType DEF Follows, WorksOn
    <2> QED  BY <1>0, <1>1, <2>1, AwaitGoesOn
  <1>2. ASSUME NEW id \in Id, NobodyWorksOn(id), NEW status \in Status, Toggle(s, id, status)
        PROVE  GoesOn(s)
    <2> DEFINE handler == [Idle EXCEPT !.pc = "toggling", !.op = "toggle", !.id = id]
    <2>1. handler.pc = "toggling" /\ handler.id = id
      BY DEF Idle
    <2>2. \/ Await(s, handler, status, Comp(id).gpio.pinNo)
          \/ Finish(s, "toggle", id, "INVALID_FORMAT")
      BY <1>2 DEF Toggle
    <2> HIDE DEF handler
    <2> QED  BY <1>0, <1>1, <1>2, <2>1, <2>2, FinishGoesOn
  <1>3. ASSUME NEW id \in Id, NobodyWorksOn(id), NEW data \in UpdateData, Update(s, id, data)
        PROVE  GoesOn(s)
    <2> DEFINE row == Merge(data, Comp(id).row)
               Held(pc) == [[Idle EXCEPT !.op = "update", !.id = id, !.c = components[id],
                                         !.row = row] EXCEPT !.pc = pc]
    <2>1. /\ Held("turning off").pc = "turning off" /\ Held("turning off").id = id
          /\ Held("unexporting").pc = "unexporting" /\ Held("unexporting").id = id
      BY DEF Idle
    <2>2. \/ \E reply : Finish(s, "update", id, reply)
          \/ Await(s, Held("turning off"), "0", Comp(id).gpio.pinNo)
          \/ /\ Comp(id).row.direction # DIR_OUT
             /\ Await(s, Held("unexporting"), "unexport", Comp(id).gpio.pinNo)
      BY <1>3 DEF Update
    <2> HIDE DEF Held
    <2>3. CASE Await(s, Held("turning off"), "0", Comp(id).gpio.pinNo)
      BY <1>1, <1>3, <2>1, <2>3
    <2>4. CASE /\ Comp(id).row.direction # DIR_OUT
               /\ Await(s, Held("unexporting"), "unexport", Comp(id).gpio.pinNo)
      <3>1. Comp(Held("unexporting").id).row.direction # DIR_OUT
        BY <2>1, <2>4
      <3> QED  BY <1>1, <1>3, <2>1, <2>4, <3>1
    <2> QED  BY <1>0, <2>2, <2>3, <2>4, FinishGoesOn
  <1>4. ASSUME NEW id \in Id, NobodyWorksOn(id), Remove(s, id)  PROVE GoesOn(s)
    <2> DEFINE Held(pc) == [Idle EXCEPT !.pc = pc, !.op = "remove", !.id = id]
    <2>1. /\ Held("turning off").pc = "turning off" /\ Held("turning off").id = id
          /\ Held("unexporting").pc = "unexporting" /\ Held("unexporting").id = id
      BY DEF Idle
    <2>2. \/ \E reply : Finish(s, "remove", id, reply)
          \/ Await(s, Held("turning off"), "0", Comp(id).gpio.pinNo)
          \/ /\ Comp(id).row.direction # DIR_OUT
             /\ Await(s, Held("unexporting"), "unexport", Comp(id).gpio.pinNo)
      BY <1>4 DEF Remove, AwaitUnexport
    <2> HIDE DEF Held
    <2>3. CASE Await(s, Held("turning off"), "0", Comp(id).gpio.pinNo)
      BY <1>1, <1>4, <2>1, <2>3
    <2>4. CASE /\ Comp(id).row.direction # DIR_OUT
               /\ Await(s, Held("unexporting"), "unexport", Comp(id).gpio.pinNo)
      <3>1. Comp(Held("unexporting").id).row.direction # DIR_OUT
        BY <2>1, <2>4
      <3> QED  BY <1>1, <1>4, <2>1, <2>4, <3>1
    <2> QED  BY <1>0, <2>2, <2>3, <2>4, FinishGoesOn
  <1>5. ASSUME NEW data \in UpdateData, Add(s, data)  PROVE GoesOn(s)
    <2> DEFINE handler == [Idle EXCEPT !.pc = "inserting", !.op = "add", !.row = data]
    <2>1. handler.pc = "inserting"
      BY DEF Idle
    <2>2. Goto(s, handler) \/ \E reply : Finish(s, "add", 0, reply)
      BY <1>5 DEF Add
    <2> HIDE DEF handler
    <2>3. Follows(s, handler)
      BY <1>0, <2>1, IdleType DEF Follows, WorksOn, Driving
    <2> QED  BY <1>0, <2>1, <2>2, <2>3, FinishGoesOn, GotoGoesOn
  <1>6. CASE List(s)
    BY <1>0, <1>6, VisitGoesOn, IdleType DEF List
  <1> QED  BY <1>2, <1>3, <1>4, <1>5, <1>6 DEF Request

LEMMA ContinueGoesOn ==
  ASSUME TypeInv, OrderInv, NEW s \in Slot, Continue(s) \/ Insert(s)
  PROVE  GoesOn(s)
  <1> DEFINE Held(pc) == [h[s] EXCEPT !.pc = pc]
  <1>0. UNCHANGED kernel /\ h[s].pc \notin Initializing /\ Through(s)
    BY DEF Continue, Insert, Toggled, UpdateTurnedOff, UpdateUnexported, Inserted, RemoveTurnedOff,
           RemoveUnexported, Read, At, Through
  <1>1. s \in Handlers /\ \A pc : Held(pc).pc = pc /\ Held(pc).op = h[s].op /\ Held(pc).id = h[s].id
    BY HandlerType DEF Handlers, Handler
  <1>2. ASSUME NEW op, NEW id, NEW reply, Finish(s, op, id, reply)  PROVE GoesOn(s)
    BY <1>0, <1>2, FinishGoesOn
  <1>3. CASE Toggled(s) \/ RemoveUnexported(s)
    BY <1>2, <1>3 DEF Toggled, RemoveUnexported
  <1>4. CASE UpdateTurnedOff(s) \/ UpdateUnexported(s) \/ Inserted(s)
    <2>1. \/ \E line : /\ At(s, "turning off") /\ Answered(s)
                       /\ Await(s, Held("unexporting"), "unexport", line)
          \/ \E line : /\ \/ At(s, "unexporting") /\ Answered(s) /\ h[s].op = "update"
                          \/ ~Known(h[s].id)
                       /\ Await(s, Held("exporting"), "export", line)
          \/ \E op, id, reply : Finish(s, op, id, reply)
      BY <1>4 DEF UpdateTurnedOff, UpdateUnexported, Inserted, OrderInv, InsertedIsPrivate
    <2>2. ASSUME At(s, "turning off"), Answered(s)  PROVE Follows(s, Held("unexporting"))
      BY <1>0, <1>1, <2>2 DEF Follows, WorksOn, At, Driving
    <2>3. ASSUME \/ At(s, "unexporting") /\ Answered(s) /\ h[s].op = "update"
                 \/ ~Known(h[s].id)
          PROVE  Follows(s, Held("exporting"))
      BY <1>0, <1>1, <2>3 DEF Follows, WorksOn, At, Driving
    <2> HIDE DEF Held
    <2> QED  BY <1>0, <1>1, <1>2, <2>1, <2>2, <2>3, AwaitGoesOn
  <1>5. CASE RemoveTurnedOff(s)
    <2> DEFINE handler == [Idle EXCEPT !.pc = "unexporting", !.op = "remove", !.id = h[s].id]
    <2>1. handler.pc = "unexporting" /\ handler.op = "remove" /\ handler.id = h[s].id
      BY DEF Idle
    <2>2. \/ \E line : Await(s, handler, "unexport", line)
          \/ Finish(s, "remove", h[s].id, "SERVER_ERR")
      BY <1>5 DEF RemoveTurnedOff, AwaitUnexport
    <2> HIDE DEF handler
    <2>3. Follows(s, handler)
      BY <1>0, <1>5, <2>1 DEF Follows, WorksOn, RemoveTurnedOff, At, Driving
    <2> QED  BY <1>0, <1>2, <2>1, <2>2, <2>3, AwaitGoesOn
  <1>6. CASE Insert(s)
    <2> DEFINE handler == [h[s] EXCEPT !.pc = "inserted", !.id = nextId]
    <2>0. h[s] \in Handler
      BY <1>1, HandlerType
    <2>1. handler.pc = "inserted"
      BY <2>0 DEF Handler
    <2>2. Goto(s, handler) \/ Finish(s, "add", 0, "INVALID_FORMAT")
      BY <1>6 DEF Insert
    <2> HIDE DEF handler
    <2>3. Follows(s, handler)
      BY <1>0, <1>6, <2>1 DEF Follows, WorksOn, Insert, Driving
    <2> QED  BY <1>0, <1>2, <2>1, <2>2, <2>3, GotoGoesOn
  <1>7. CASE Read(s)
    BY <1>0, <1>2, <1>7, VisitGoesOn DEF Read
  <1> QED  BY <1>3, <1>4, <1>5, <1>6, <1>7 DEF Continue

LEMMA LoadFromGoesOn ==
  ASSUME NEW todo, NEW table, LoadFrom(todo, table), UNCHANGED kernel, Through(Boot),
         \A id \in todo : ~Known(id)
  PROVE  GoesOn(Boot)
  <1>1. ASSUME NEW id \in todo, NEW left, NEW line,
               Await(Boot, [Idle EXCEPT !.pc = "exporting", !.op = "init",
                              !.id = id, !.row = table[id], !.todo = left],
                     "export", line)
        PROVE  GoesOn(Boot)
    <2> DEFINE handler == [Idle EXCEPT !.pc = "exporting", !.op = "init",
                             !.id = id, !.row = table[id], !.todo = left]
    <2>1. handler.pc = "exporting" /\ handler.op = "init" /\ handler.id = id
          /\ Await(Boot, handler, "export", line)
      BY <1>1 DEF Idle
    <2> HIDE DEF handler
    <2>2. Follows(Boot, handler)
      BY <2>1 DEF Follows, WorksOn, Through
    <2> QED  BY <2>1, <2>2, AwaitGoesOn
  <1>2. CASE Goto(Boot, Idle)
    BY <1>2, GotoGoesOn, IdleFollows, IdleType
  <1> QED  BY <1>1, <1>2 DEF LoadFrom

LEMMA InitGpioGoesOn ==
  ASSUME TypeInv, OrderInv, DrivingInv, NEW p \in Handlers, InitGpio(p)
  PROVE  GoesOn(p)
  <1> DEFINE Held(pc) == [h[p] EXCEPT !.pc = pc]
  <1>0. UNCHANGED kernel
    BY DEF InitGpio, Exported, DirectionSet, CleanedUp
  <1>1. h[p].pc \in Initializing /\ \A pc : Held(pc).pc = pc /\ Held(pc).op = h[p].op /\ Held(pc).id = h[p].id
    BY HandlerType DEF Handler, InitGpio, Exported, DirectionSet, CleanedUp, At
  <1>2. InitLine(p) = exec[p].line
    <2>1. h[p].pc \in Driving
      BY <1>1 DEF Driving
    <2>2. exec[p].line = MadeFor(h[p].row).pinNo
      BY <1>1, <2>1 DEF DrivingInv, Drives
    <2>3. ValidPin(h[p].row.physicalPin)
      BY <1>1 DEF TypeInv, WellFormed, Handlers
    <2> QED  BY <2>2, <2>3, MadeAsAsked DEF NewGpio, InitLine
  <1>3. ASSUME NEW ok, AfterInit(p, ok), Through(p)  PROVE GoesOn(p)
    <2>1. CASE h[p].op = "init"
      <3>1. p = Boot /\ h[Boot] # Idle
        BY <1>1, <2>1, IdleType DEF TypeInv, WellFormed, Handlers
      <3>2. \A id \in h[Boot].todo : ~Known(id)
        BY <3>1 DEF OrderInv, BootIsAlone
      <3> QED  BY <1>0, <1>3, <2>1, <3>1, <3>2, LoadFromGoesOn DEF AfterInit
    <2>2. CASE h[p].op # "init"
      BY <1>0, <1>3, <2>2, FinishGoesOn DEF AfterInit
    <2> QED  BY <2>1, <2>2
  <1>4. \/ /\ At(p, "exporting") /\ Succeeded(p)
           /\ Await(p, Held("setting direction"), WiredAs(h[p].row), InitLine(p))
        \/ /\ At(p, "setting direction") /\ ~Ok(p)
           /\ Await(p, Held("cleaning up"), "unexport", InitLine(p))
        \/ Through(p) /\ \E ok : AfterInit(p, ok)
    BY DEF InitGpio, Exported, DirectionSet, CleanedUp, Succeeded, Through, At
  <1>5. ASSUME At(p, "exporting"), Succeeded(p)  PROVE Follows(p, Held("setting direction"))
    BY <1>1, <1>5 DEF Follows, WorksOn, At, Succeeded, Driving
  <1>6. ASSUME At(p, "setting direction"), ~Ok(p)  PROVE Follows(p, Held("cleaning up"))
    BY <1>1, <1>6 DEF Follows, WorksOn, At, Driving
  <1> HIDE DEF Held
  <1> QED  BY <1>0, <1>1, <1>2, <1>3, <1>4, <1>5, <1>6, AwaitGoesOn
-----------------------------------------------------------------------------
(***************************************************************************)
(* Which components a step of p changes, and when.                         *)
(***************************************************************************)
\* An update gives the object of a component a new line, or the component the
\* row it asks for; removeComponent takes it out of the map.
Changed(p, id) ==
  /\ h[p].id = id
  /\ \/ /\ At(p, "unexporting") /\ Answered(p)
        /\ h[p].op = "remove" /\ id \notin KnownIds'
     \/ /\ At(p, "unexporting") /\ Answered(p)
        /\ h[p].op = "update" /\ h'[p] = [h[p] EXCEPT !.pc = "exporting"]
        /\ ValidPin(h[p].row.physicalPin)
        /\ id \in KnownIds'
        /\ Comp(id)'.row = Comp(id).row /\ Comp(id)'.gpio = MadeFor(h[p].row)
     \/ /\ At(p, "setting direction") /\ Succeeded(p)
        /\ h[p].op = "update" /\ h'[p] = Idle
        /\ id \in KnownIds'
        /\ Comp(id)'.row = h[p].row /\ Comp(id)'.gpio = Comp(id).gpio

\* addComponent, or init(), puts it in.
Cached(p, id) ==
  /\ ~Known(id)
  /\ h'[p].pc = "exporting" /\ h'[p].id = id /\ h'[p].op # "update"
  /\ Comp(id)'.row = h'[p].row /\ Comp(id)'.gpio = MadeFor(h'[p].row)
  /\ ValidPin(h'[p].row.physicalPin)
  /\ \/ At(p, "inserted") /\ h'[p] = [h[p] EXCEPT !.pc = "exporting"]
     \/ p = Boot /\ h[Boot] # Idle /\ h'[p].row = rows[id]

\* An update that does not rewire a component may give it another spelling of its pin.
Respelled(p, id) ==
  /\ h[p] = Idle /\ h'[p] = Idle /\ p \in Slot /\ NobodyWorksOn(id)
  /\ id \in KnownIds' /\ components'[id] = components[id]
  /\ Comp(id)'.gpio = Comp(id).gpio
  /\ Comp(id)'.row.direction = Comp(id).row.direction
  /\ SamePin(Comp(id)'.row, Comp(id).row)

Changes(p) ==
  /\ \A id \in KnownIds :
        \/ id \in KnownIds' /\ Comp(id)' = Comp(id) /\ components'[id] = components[id]
        \/ Changed(p, id)
        \/ Respelled(p, id)
  /\ \A id \in KnownIds' \ KnownIds : Cached(p, id)

LEMMA NoChange ==
  ASSUME NEW p, UNCHANGED cacheVars
  PROVE  Changes(p)
  BY SameCache DEF Changes, KnownIds

LEMMA UpdateChanges ==
  ASSUME TypeInv, DrivingInv, NEW s \in Slot, NEW id \in Id, NobodyWorksOn(id),
         NEW data \in UpdateData, Update(s, id, data)
  PROVE  Changes(s)
  <1> DEFINE row == Merge(data, Comp(id).row)
  <1>1. CASE UNCHANGED objects
    BY <1>1, NoChange DEF Update, cacheVars
  <1>2. CASE /\ Known(id) /\ ~Rewires(row, Comp(id).row) /\ StoreUpdate(id, components[id], row)
             /\ Finish(s, "update", id, "OK")
    <2>1. row \in Row /\ id \in KnownIds /\ UNCHANGED components
      BY <1>2, CachedType, MergeType DEF KnownIds, Update
    <2>2. row.direction = Comp(id).row.direction /\ SamePin(row, Comp(id).row)
      BY <1>2 DEF Rewires, SamePin
    <2> HIDE DEF row
    <2>3. h[s] = Idle /\ h'[s] = Idle
      BY <1>2 DEF Update, Arrives, Finish, TypeInv, TypeOK
    <2>4. /\ KnownIds' = KnownIds /\ Comp(id)'.row = row /\ Comp(id)'.gpio = Comp(id).gpio
          /\ \A i \in KnownIds \ {id} : Comp(i)' = Comp(i)
      BY <1>2, <2>1, StoreUpdateComp DEF DrivingInv
    <2>5. Respelled(s, id)
      BY <2>1, <2>2, <2>3, <2>4 DEF Respelled
    <2> QED  BY <2>1, <2>4, <2>5 DEF Changes
  <1> QED  BY <1>1, <1>2 DEF Update

LEMMA UpdateUnexportedChanges ==
  ASSUME TypeInv, DrivingInv, NEW s \in Slot, UpdateUnexported(s)
  PROVE  Changes(s)
  <1>0. /\ s \in Handlers /\ h[s] \in Handler /\ WellFormed(s) /\ RefsAreOwn
        /\ h[s].pc = "unexporting" /\ h[s].op = "update" /\ Answered(s) /\ UNCHANGED components
    BY HandlerType DEF Handlers, UpdateUnexported, DrivingInv, At
  <1>1. PICK id \in KnownIds : id = h[s].id /\ h[s].c = components[id]
    BY <1>0 DEF DrivingInv, Drives, Driving
  <1>2. CASE UNCHANGED cacheVars
    BY <1>2, NoChange
  <1>3. CASE /\ ValidPin(h[s].row.physicalPin)
             /\ objects' = [objects EXCEPT ![h[s].c].gpio = MadeFor(h[s].row)]
             /\ h' = [h EXCEPT ![s] = [h[s] EXCEPT !.pc = "exporting"]]
    <2>1. /\ KnownIds' = KnownIds /\ Comp(id)'.gpio = MadeFor(h[s].row)
          /\ Comp(id)'.row = Comp(id).row
          /\ \A i \in KnownIds \ {id} : Comp(i)' = Comp(i)
      BY <1>0, <1>1, <1>3, NewGpioComp
    <2>2. h'[s] = [h[s] EXCEPT !.pc = "exporting"]
      BY <1>0, <1>3 DEF TypeInv, TypeOK, Handlers
    <2>3. Changed(s, id)
      BY <1>0, <1>1, <1>3, <2>1, <2>2 DEF Changed, At
    <2> QED  BY <1>0, <2>1, <2>3 DEF Changes
  <1> QED  BY <1>0, <1>2, <1>3, MadeAsWired DEF UpdateUnexported, Await, cacheVars

LEMMA RemoveUnexportedChanges ==
  ASSUME TypeInv, DrivingInv, NEW s \in Slot, RemoveUnexported(s)
  PROVE  Changes(s)
  <1>1. s \in Handlers /\ h[s].id \in Id /\ At(s, "unexporting") /\ Answered(s) /\ h[s].op = "remove"
    BY HandlerType DEF Handlers, RemoveUnexported, WellFormed
  <1>2. PICK id \in Id : id = h[s].id
    BY <1>1
  <1>3. /\ KnownIds' = KnownIds \ {id}
        /\ \A i \in KnownIds' : Comp(i)' = Comp(i) /\ components'[i] = components[i]
    BY <1>2, NoComp DEF RemoveUnexported, DrivingInv
  <1>4. Changed(s, id)
    BY <1>1, <1>2, <1>3 DEF Changed
  <1> QED  BY <1>3, <1>4 DEF Changes

LEMMA InsertedChanges ==
  ASSUME TypeInv, OrderInv, DrivingInv, NEW s \in Slot, Inserted(s)
  PROVE  Changes(s)
  <1> DEFINE new == [row |-> h[s].row, gpio |-> MadeFor(h[s].row)]
             handler == [h[s] EXCEPT !.pc = "exporting"]
  <1>0. s \in Handlers /\ h[s] \in Handler /\ h[s].op = "add" /\ RefsAreOwn /\ h[s].id \in Id
    BY HandlerType DEF Handlers, Inserted, WellFormed, DrivingInv
  <1>1. PICK id \in Id : id = h[s].id
    BY <1>0
  <1>2. CASE UNCHANGED cacheVars
    BY <1>2, NoChange
  <1>3. CASE /\ ValidPin(h[s].row.physicalPin)
             /\ components' = [components EXCEPT ![id] = <<id, "add">>]
             /\ objects' = [objects EXCEPT ![<<id, "add">>] = new]
             /\ h' = [h EXCEPT ![s] = handler]
    <2>1. h'[s] = handler /\ handler.pc = "exporting" /\ handler.id = id
          /\ handler.row = h[s].row /\ handler.op = "add"
          /\ new.row = h[s].row /\ new.gpio = MadeFor(h[s].row)
      BY <1>0, <1>1, <1>3 DEF Handler, TypeInv, TypeOK, Handlers
    <2>2. ~Known(id) /\ At(s, "inserted")
      BY <1>1 DEF OrderInv, InsertedIsPrivate, Inserted
    <2> HIDE DEF new
    <2>3. /\ KnownIds' = KnownIds \cup {id} /\ Comp(id)' = new
          /\ \A i \in KnownIds : Comp(i)' = Comp(i) /\ components'[i] = components[i]
      BY <1>0, <1>3, <2>2, NewComp
    <2>4. Cached(s, id)
      BY <1>3, <2>1, <2>2, <2>3 DEF Cached
    <2> QED  BY <2>3, <2>4 DEF Changes
  <1>4. ValidPin(h[s].row.physicalPin) =>
          MadeFor(h[s].row) = NewGpio(h[s].row.physicalPin, WiredAs(h[s].row))
    BY MadeAsAsked
  <1> QED  BY <1>1, <1>2, <1>3, <1>4 DEF Inserted, Await

LEMMA LoadFromChanges ==
  ASSUME TypeInv, DrivingInv, h[Boot] # Idle, NEW todo \in SUBSET Id,
         NEW table \in [Id -> StoredRow \cup {NoRow}],
         \A id \in todo : ~Known(id) /\ table[id] = rows[id], LoadFrom(todo, table)
  PROVE  Changes(Boot)
  <1> DEFINE loadable == {i \in todo : ValidPin(table[i].physicalPin)}
  <1>1. CASE UNCHANGED cacheVars
    BY <1>1, NoChange
  <1>2. ASSUME NEW id \in loadable,
               components' = [components EXCEPT ![id] = <<id, "init">>],
               objects' = [objects EXCEPT ![<<id, "init">>] =
                             [row |-> table[id], gpio |-> MadeFor(table[id])]],
               h' = [h EXCEPT ![Boot] =
                       [Idle EXCEPT !.pc = "exporting", !.op = "init",
                         !.id = id, !.row = table[id], !.todo = loadable \ {id}]]
        PROVE  Changes(Boot)
    <2> DEFINE new == [row |-> table[id], gpio |-> MadeFor(table[id])]
               handler == [Idle EXCEPT !.pc = "exporting", !.op = "init",
                             !.id = id, !.row = table[id], !.todo = loadable \ {id}]
    <2>1. h'[Boot] = handler /\ handler.pc = "exporting" /\ handler.id = id
          /\ handler.row = table[id] /\ handler.op = "init"
          /\ new.row = table[id] /\ new.gpio = MadeFor(table[id])
      BY <1>2 DEF Idle, TypeInv, TypeOK
    <2> HIDE DEF new, handler
    <2>2. PICK i \in Id : i = id
      OBVIOUS
    <2>3. /\ ~Known(i) /\ components' = [components EXCEPT ![i] = <<i, "init">>]
          /\ objects' = [objects EXCEPT ![<<i, "init">>] = new]
          /\ table[i] = rows[i] /\ ValidPin(table[i].physicalPin)
      BY <1>2, <2>2 DEF new
    <2>4. /\ KnownIds' = KnownIds \cup {i} /\ Comp(i)' = new
          /\ \A j \in KnownIds : Comp(j)' = Comp(j) /\ components'[j] = components[j]
      BY <2>3, NewComp DEF DrivingInv
    <2>5. Cached(Boot, i)
      BY <2>1, <2>2, <2>3, <2>4 DEF Cached
    <2> QED  BY <2>4, <2>5 DEF Changes
  <1>3. \A id \in loadable : MadeFor(table[id]) = NewGpio(table[id].physicalPin, WiredAs(table[id]))
    BY MadeAsAsked
  <1> QED  BY <1>1, <1>2, <1>3 DEF LoadFrom, Await

LEMMA SelectChanges ==
  ASSUME TypeInv, OrderInv, DrivingInv, Select
  PROVE  Changes(Boot)
  <1>0. /\ h[Boot] # Idle /\ StoredIds(rows) \ uncommitted \in SUBSET Id
        /\ rows \in [Id -> StoredRow \cup {NoRow}]
    BY IdleType DEF Select, At, StoredIds, TypeInv, TypeOK
  <1>1. CASE LoadFrom(StoredIds(rows) \ uncommitted, rows)
    <2>1. \A id \in StoredIds(rows) \ uncommitted : ~Known(id)
      BY <1>0 DEF Select, OrderInv, BootIsAlone, KnownIds
    <2> QED  BY <1>0, <1>1, <2>1, LoadFromChanges
  <1> QED  BY <1>1, NoChange DEF Select, cacheVars

LEMMA AfterInitChanges ==
  ASSUME TypeInv, OrderInv, DrivingInv, NEW p \in Handlers, h[p].pc \in Initializing, NEW ok,
         AfterInit(p, ok), ok => At(p, "setting direction") /\ Succeeded(p),
         h[p].op = "update" => ok
  PROVE  Changes(p)
  <1>0. /\ h[p] \in Handler /\ WellFormed(p) /\ h[p] # Idle
        /\ h[p].id \in KnownIds /\ h[p].row \in Row
    BY HandlerType, IdleType DEF DrivingInv, Drives, Driving, WellFormed
  <1>1. CASE h[p].op = "init" /\ LoadFrom(h[p].todo, snapshot)
    <2>1. p = Boot /\ h[Boot].todo \in SUBSET Id /\ snapshot \in [Id -> StoredRow \cup {NoRow}]
      BY <1>0, <1>1 DEF WellFormed, Handler, TypeInv, TypeOK
    <2>2. \A id \in h[Boot].todo : ~Known(id) /\ snapshot[id] = rows[id]
      BY <1>0, <2>1 DEF OrderInv, BootIsAlone
    <2> QED  BY <1>0, <1>1, <2>1, <2>2, LoadFromChanges
  <1>2. CASE UNCHANGED cacheVars
    BY <1>2, NoChange
  <1>3. CASE /\ h[p].op = "update"
             /\ StoreUpdate(h[p].id, h[p].c, h[p].row)
             /\ h' = [h EXCEPT ![p] = Idle]
             /\ UNCHANGED components
    <2>1. PICK id \in KnownIds : id = h[p].id /\ h[p].c = components[id]
      BY <1>0, <1>3 DEF DrivingInv, Drives
    <2>2. /\ KnownIds' = KnownIds /\ Comp(id)'.row = h[p].row
          /\ Comp(id)'.gpio = Comp(id).gpio
          /\ \A i \in KnownIds \ {id} : Comp(i)' = Comp(i)
      BY <1>0, <1>3, <2>1, StoreUpdateComp DEF DrivingInv
    <2>3. h'[p] = Idle
      BY <1>3 DEF TypeInv, TypeOK, Handlers
    <2>4. Changed(p, id)
      BY <1>3, <2>1, <2>2, <2>3 DEF Changed
    <2> QED  BY <1>3, <2>2, <2>4 DEF Changes
  <1> QED  BY <1>1, <1>2, <1>3 DEF AfterInit, Finish

LEMMA InitGpioChanges ==
  ASSUME TypeInv, OrderInv, DrivingInv, NEW p \in Handlers, InitGpio(p)
  PROVE  Changes(p)
  <1>0. h[p].pc \in Initializing
    BY DEF InitGpio, Exported, DirectionSet, CleanedUp, At
  <1>1. CASE UNCHANGED cacheVars
    BY <1>1, NoChange
  <1>2. CASE DirectionSet(p) /\ Ok(p) /\ AfterInit(p, TRUE)
    BY <1>0, <1>2, AfterInitChanges DEF DirectionSet, Succeeded
  <1>3. CASE h[p].op # "update" /\ AfterInit(p, FALSE)
    BY <1>0, <1>3, AfterInitChanges
  <1>4. CASE h[p].op = "update" /\ AfterInit(p, FALSE)
    BY <1>1, <1>4 DEF AfterInit
  <1> QED  BY <1>1, <1>2, <1>3, <1>4 DEF InitGpio, Exported, DirectionSet, CleanedUp

\* An update that has rewired its component gives it the row.
Completes(p) ==
  At(p, "setting direction") /\ Succeeded(p) /\ h[p].op = "update" => Changed(p, h[p].id)

LEMMA InitGpioCompletes ==
  ASSUME TypeInv, DrivingInv, NEW p \in Handlers, InitGpio(p)
  PROVE  Completes(p)
  <1> SUFFICES ASSUME At(p, "setting direction"), Succeeded(p), h[p].op = "update"
               PROVE  Changed(p, h[p].id)
    BY DEF Completes
  <1>1. h[p].pc \in Initializing /\ h[p].pc \in Driving /\ RefsAreOwn /\ WellFormed(p)
    BY DEF At, Driving, DrivingInv, TypeInv, Handlers
  <1>2. /\ h[p].row \in Row /\ h[p].id \in KnownIds /\ h[p].c = components[h[p].id]
        /\ ValidPin(h[p].row.physicalPin)
    BY <1>1 DEF DrivingInv, Drives, WellFormed
  <1>3. PICK id \in KnownIds : id = h[p].id
    BY <1>2
  <1>4. /\ StoreUpdate(id, components[id], h[p].row)
        /\ h' = [h EXCEPT ![p] = Idle] /\ UNCHANGED components
    BY <1>2, <1>3 DEF InitGpio, Exported, DirectionSet, CleanedUp, AfterInit, Finish, At, Succeeded
  <1>5. /\ id \in KnownIds' /\ Comp(id)'.row = h[p].row /\ Comp(id)'.gpio = Comp(id).gpio
        /\ h'[p] = Idle
    BY <1>1, <1>2, <1>3, <1>4, StoreUpdateComp DEF TypeInv, TypeOK, Handlers
  <1>6. Changed(p, id)
    BY <1>3, <1>5 DEF Changed
  <1> QED  BY <1>3, <1>6

\* p takes a step that is its turn.
Proceeds(p) ==
  /\ InTurn(p) /\ GoesOn(p) /\ Driven(p) /\ Changes(p) /\ Completes(p)
  /\ h[p] # Idle \/ (p \in Slot /\ Request(p))
  /\ UNCHANGED rows \/ (p \in Slot /\ Insert(p))
  /\ At(p, "inserting") => p \in Slot /\ Insert(p)

\* What the database does by itself.
DbStep ==
  \/ \E w \in writes : ExecuteWrite(w)
  \/ \E id \in uncommitted : CommitInsert(id) \/ LoseInsert(id)

LEMMA RequestChanges ==
  ASSUME TypeInv, DrivingInv, NEW s \in Slot, Request(s)
  PROVE  Changes(s)
  <1>1. CASE UNCHANGED cacheVars
    BY <1>1, NoChange
  <1> QED  BY <1>1, UpdateChanges DEF Request, Toggle, Remove, Add, List

LEMMA ContinueChanges ==
  ASSUME TypeInv, OrderInv, DrivingInv, NEW s \in Slot, Continue(s) \/ Insert(s)
  PROVE  Changes(s)
  <1>1. CASE UNCHANGED cacheVars
    BY <1>1, NoChange
  <1> QED  BY <1>1, UpdateUnexportedChanges, InsertedChanges, RemoveUnexportedChanges
           DEF Continue, Insert, Toggled, UpdateTurnedOff, RemoveTurnedOff, Read

LEMMA RequestDrives ==
  ASSUME TypeInv, OrderInv, DrivingInv, NEW s \in Slot, Request(s)
  PROVE  Driven(s)
  <1>1. CASE List(s)
    BY <1>1, VisitDrives DEF List
  <1> QED  BY <1>1, ToggleDrives, UpdateDrives, RemoveDrives, AddDrives DEF Request

LEMMA ContinueDrives ==
  ASSUME TypeInv, OrderInv, DrivingInv, NEW s \in Slot, Continue(s) \/ Insert(s)
  PROVE  Driven(s)
  <1>1. s \in Handlers
    BY DEF Handlers
  <1>2. CASE Toggled(s)
    BY <1>1, <1>2, FinishesDriving DEF Toggled
  <1>3. CASE Read(s)
    BY <1>1, <1>3, VisitDrives, FinishesDriving DEF Read
  <1> QED  BY <1>2, <1>3, UpdateGoesOnDriving, InsertedDrives, AddDrives, RemoveDrives,
              RemoveUnexportedDrives DEF Continue

LEMMA NextProceeds ==
  ASSUME EarlyRequests = FALSE, TypeInv, OrderInv, DrivingInv, [Next]_vars
  PROVE  \/ \E p \in Handlers : Proceeds(p)
         \/ GpioStep
         \/ Restart
         \/ DbStep
         \/ UNCHANGED vars
  <1>1. ASSUME NEW s \in Slot, Request(s)  PROVE Proceeds(s) /\ s \in Handlers
    <2>1. UNCHANGED rows /\ h[s] = Idle /\ s \in Handlers
      BY <1>1 DEF Request, Toggle, Update, Remove, Add, List, dbVars, Arrives, Handlers
    <2>2. InTurn(s)
      BY <1>1, ArrivingIsInTurn DEF Request, Toggle, Update, Remove, Add, List
    <2> QED  BY <1>1, <2>1, <2>2, RequestGoesOn, RequestDrives, RequestChanges, IdleType
             DEF Proceeds, Completes, At
  <1>2. ASSUME NEW s \in Slot, Continue(s) \/ Insert(s)
        PROVE  Proceeds(s) /\ s \in Handlers
    <2>1. h[s] # Idle /\ s \in Handlers
      BY <1>2, IdleType DEF Continue, Insert, Toggled, UpdateTurnedOff, UpdateUnexported, Inserted,
                  RemoveTurnedOff, RemoveUnexported, Read, At, Handlers
    <2>2. UNCHANGED rows \/ Insert(s)
      BY <1>2 DEF Continue, Toggled, UpdateTurnedOff, UpdateUnexported, Inserted,
                  RemoveTurnedOff, RemoveUnexported, Read, dbVars
    <2>3. At(s, "inserting") => Insert(s)
      BY <1>2 DEF Continue, Toggled, UpdateTurnedOff, UpdateUnexported, Inserted,
                  RemoveTurnedOff, RemoveUnexported, Read, At
    <2>4. Completes(s)
      BY <1>2 DEF Continue, Insert, Toggled, UpdateTurnedOff, UpdateUnexported, Inserted,
                  RemoveTurnedOff, RemoveUnexported, Read, At, Completes
    <2> QED  BY <1>2, <2>1, <2>2, <2>3, <2>4, SuspendedIsInTurn, ContinueGoesOn, ContinueDrives,
                ContinueChanges DEF Proceeds
  <1>3. ASSUME NEW p \in Handlers, InitGpio(p)  PROVE Proceeds(p)
    <2>1. h[p] # Idle /\ UNCHANGED rows /\ ~At(p, "inserting")
      BY <1>3, IdleType DEF InitGpio, Exported, DirectionSet, CleanedUp, At
    <2> QED  BY <1>3, <2>1, SuspendedIsInTurn, InitGpioGoesOn, InitGpioDrives, InitGpioChanges,
             InitGpioCompletes DEF Proceeds
  <1>4. ASSUME Select  PROVE Proceeds(Boot) /\ Boot \in Handlers
    <2>1. h[Boot] # Idle /\ Boot \in Handlers /\ UNCHANGED <<kernel, rows>> /\ ~At(Boot, "inserting")
      BY <1>4, IdleType DEF Select, At, Handlers, dbVars
    <2>2. LoadFrom(StoredIds(rows) \ uncommitted, rows) \/ Goto(Boot, Idle)
      BY <1>4 DEF Select
    <2>3. Through(Boot) /\ \A id \in StoredIds(rows) \ uncommitted : ~Known(id)
      BY <1>4, <2>1 DEF Select, At, Through, OrderInv, BootIsAlone, KnownIds, StoredIds
    <2>4. GoesOn(Boot)
      BY <2>1, <2>2, <2>3, LoadFromGoesOn, GotoGoesOn, IdleFollows, IdleType
    <2>5. Completes(Boot)
      BY <1>4 DEF Select, At, Completes
    <2> QED  BY <1>4, <2>1, <2>4, <2>5, SuspendedIsInTurn, SelectDrives, SelectChanges DEF Proceeds
  <1> QED  BY <1>1, <1>2, <1>3, <1>4 DEF Next, Work, Handlers, DbStep

\* A step of the database, or none.
LEMMA LinesStay ==
  ASSUME UNCHANGED vars \/ DbStep
  PROVE  UNCHANGED <<gpioVars, cacheVars, h>>
  BY DEF vars, DbStep, ExecuteWrite, CommitInsert, LoseInsert
-----------------------------------------------------------------------------
(***************************************************************************)
(* Clients that keep off each other's components: DrivingInv.              *)
(***************************************************************************)
\* What p has asked for is its own when nobody else works on the component.
LEMMA WorksAlone ==
  ASSUME SeparateClients, DrivingInv, NEW p \in Handlers, InTurn(p), NEW id, WorksOn(p, id),
         NEW q \in Handlers \ {p}, h[q].pc \in Driving
  PROVE  h[q].id # id
  <1>1. CASE h[p].pc \in Driving /\ id = h[p].id
    BY <1>1 DEF DrivingInv, OwnComponents
  <1>2. CASE h[p] = Idle /\ p \in Slot /\ NobodyWorksOn(id)
    <2>1. q \in Slot
      BY <1>2, DrivingIsBusy DEF InTurn, Handlers
    <2>2. Shared = FALSE
      BY <1>2, <2>1 DEF SeparateClients, OneClient
    <2>3. h[q].op # "list"
      BY DEF DrivingInv, Drives
    <2> QED  BY <1>2, <2>1, <2>2, <2>3 DEF NobodyWorksOn
  <1> QED  BY <1>1, <1>2 DEF WorksOn

\* A step of p leaves the others where they are.
LEMMA OthersStay ==
  ASSUME TypeInv, NEW p \in Handlers, GoesOn(p)
  PROVE  \A q \in Handlers \ {p} : h'[q] = h[q] /\ exec'[q] = exec[q]
  BY DEF GoesOn, TypeInv, TypeOK, GpioTypeOK, Handlers

\* It leaves the component that another works on as it is, too.
LEMMA OthersAreSpared ==
  ASSUME SeparateClients, DrivingInv, NEW p \in Handlers, InTurn(p), Changes(p), NEW q \in Handlers \ {p},
         h[q].pc \in Driving, NEW id, id = h[q].id
  PROVE  /\ id \in KnownIds /\ id \in KnownIds'
         /\ Comp(id)' = Comp(id) /\ components'[id] = components[id]
  <1>1. id \in KnownIds
    BY DEF DrivingInv, Drives
  <1>2. ~Changed(p, id)
    BY DEF Changed, At, Driving, DrivingInv, OwnComponents
  <1>3. ~Respelled(p, id)
    BY WorksAlone DEF Respelled, WorksOn
  <1> QED  BY <1>1, <1>2, <1>3 DEF Changes

LEMMA ProceedsDriving ==
  ASSUME SeparateClients, TypeInv, DrivingInv, NEW p \in Handlers, Proceeds(p)
  PROVE  DrivingInv'
  <1>0. InTurn(p) /\ GoesOn(p) /\ Changes(p) /\ RefsAreOwn' /\ Drives(p)'
    BY DEF Proceeds, Driven
  <1>1. ASSUME NEW q \in Handlers \ {p}  PROVE Drives(q)'
    <2>1. h'[q] = h[q] /\ exec'[q] = exec[q] /\ Drives(q)
      BY <1>0, OthersStay DEF DrivingInv
    <2>2. VerbsAt(q)' = VerbsAt(q)
      BY <2>1 DEF VerbsAt, At
    <2>3. CASE h[q].pc \in Driving
      <3>1. PICK id \in KnownIds : id = h[q].id
        BY <2>1, <2>3 DEF Drives
      <3>2. id \in KnownIds' /\ Comp(id)' = Comp(id) /\ components'[id] = components[id]
        BY <1>0, <2>3, <3>1, OthersAreSpared
      <3> QED  BY <2>1, <2>2, <3>1, <3>2 DEF Drives, Comp
    <2>4. CASE h[q].pc \notin Driving
      BY <2>1, <2>2, <2>4 DEF Drives, Driving
    <2> QED  BY <2>3, <2>4
  <1>2. ASSUME h'[p].pc \in Driving, NEW q \in Handlers \ {p}, h'[q].pc \in Driving
        PROVE  h'[p].id # h'[q].id
    <2>1. WorksOn(p, h'[p].id) \/ ~Known(h'[p].id)
      BY <1>0, <1>2 DEF GoesOn, Follows, TypeInv, TypeOK, Handlers
    <2>2. h'[q] = h[q] /\ h[q].id \in KnownIds
      BY <1>0, <1>2, OthersStay DEF DrivingInv, Drives
    <2> QED  BY <1>0, <1>2, <2>1, <2>2, WorksAlone DEF KnownIds
  <1>3. OwnComponents'
    <2> SUFFICES ASSUME NEW q \in Handlers, NEW r \in Handlers, q # r,
                        h'[q].pc \in Driving, h'[r].pc \in Driving
                 PROVE  h'[q].id # h'[r].id
      BY DEF OwnComponents
    <2>1. CASE q # p /\ r # p
      BY <1>0, <2>1, OthersStay DEF DrivingInv, OwnComponents
    <2> QED  BY <1>2, <2>1
  <1> QED  BY <1>0, <1>1, <1>3 DEF DrivingInv

LEMMA NextDrives ==
  ASSUME SeparateClients, EarlyRequests = FALSE, TypeInv, OrderInv, DrivingInv, [Next]_vars
  PROVE  DrivingInv'
  <1>1. ASSUME NEW p \in Handlers, Proceeds(p)  PROVE DrivingInv'
    BY <1>1, ProceedsDriving
  <1>2. CASE UNCHANGED <<components, objects, h, exec>>
    BY <1>2 DEF DrivingInv, RefsAreOwn, OwnComponents, Drives, VerbsAt, At, KnownIds, Known, Comp
  <1>3. CASE GpioStep
    BY <1>3, GpioDrives DEF GpioStep
  <1>4. CASE Restart
    <2>1. \A id \in Id : components'[id] = Undefined
      BY <1>4 DEF Restart
    <2>2. \A p \in Handlers : h'[p] \in {Idle, Booting} /\ exec'[p] = NoExec
      BY <1>4 DEF Restart, Handlers
    <2> QED  BY <2>1, <2>2, NothingDrivesNext
  <1>5. CASE UNCHANGED vars \/ DbStep
    BY <1>2, <1>5, LinesStay DEF cacheVars, gpioVars
  <1> QED  BY <1>1, <1>3, <1>4, <1>5, NextProceeds

LEMMA DrivingInvariance ==
  ASSUME SeparateClients, EarlyRequests = FALSE
  PROVE  Spec => [](TypeInv /\ OrderInv /\ DrivingInv)
  <1>1. ASSUME Init  PROVE DrivingInv
    <2>1. \A id \in Id : components[id] = Undefined
      BY <1>1 DEF Init
    <2>2. \A p \in Handlers : h[p] \in {Idle, Booting} /\ exec[p] = NoExec
      BY <1>1 DEF Init, GpioInit, Handlers
    <2> QED  BY <2>1, <2>2, NothingDrives
  <1>2. Init => TypeInv /\ OrderInv /\ DrivingInv
    BY <1>1, InitType, InitOrder
  <1>3. TypeInv /\ OrderInv /\ DrivingInv /\ [Next]_vars => (TypeInv /\ OrderInv /\ DrivingInv)'
    BY NextType, NextOrder, NextDrives
  <1> QED  BY <1>2, <1>3, PTL DEF Spec

\* If clients keep off the components that others work on, whatever fails or is
\* restarted, the command that a request awaits is for the line of the component
\* that it works on, and an update still holds the object that is in the map.
\* (updateComponent, removeComponent)
THEOREM CommandsDriveTheirComponents ==
  ASSUME SeparateClients, EarlyRequests = FALSE
  PROVE  Spec => []DrivingInv
  <1>1. TypeInv /\ OrderInv /\ DrivingInv => DrivingInv
    OBVIOUS
  <1> QED  BY <1>1, DrivingInvariance, PTL
-----------------------------------------------------------------------------
(***************************************************************************)
(* What a command has achieved when it succeeds: WiringInv.                *)
(***************************************************************************)
\* Without orphans, commands are those that somebody awaits.
LEMMA OneRuns ==
  ASSUME Orphan = {}, GpioNext
  PROVE  \E p \in Proc : RunCommand(p)
  BY DEF GpioNext, RunCommand, Timeout, RunOrphan

\* A command that runs is answered, and does what it says or nothing.
LEMMA Runs ==
  ASSUME TypeInv, NEW p \in Proc, RunCommand(p)
  PROVE  /\ exec[p] \in Exec
         /\ exec'[p].verb = exec[p].verb
         /\ exec'[p].line = exec[p].line
         /\ Answered(p)'
         /\ \A q \in Proc \ {p} : exec'[q] = exec[q]
         /\ \/ Ok(p)' /\ Allowed(exec[p]) /\ Perform(exec[p])
            \/ ~Ok(p)' /\ (ExecMayFail \/ ~Allowed(exec[p])) /\ UNCHANGED kernel
  <1>1. exec[p] \in Exec
    BY DEF RunCommand, Pending, NoExec, TypeInv, TypeOK, GpioTypeOK
  <1>2. PICK out : /\ exec' = [exec EXCEPT ![p].out = out]
                   /\ \/ out = OutputOf(exec[p]) /\ Allowed(exec[p]) /\ Perform(exec[p])
                      \/ /\ out = "undefined" /\ (ExecMayFail \/ ~Allowed(exec[p]))
                         /\ UNCHANGED kernel
    BY DEF RunCommand
  <1>3. OutputOf(exec[p]) \in Output \ {"undefined"} /\ "undefined" \in Output
    BY DEF OutputOf, Output
  <1>4. /\ exec'[p] = [exec[p] EXCEPT !.out = out]
        /\ \A q \in Proc \ {p} : exec'[q] = exec[q]
    BY <1>2 DEF TypeInv, TypeOK, GpioTypeOK
  <1>5. exec'[p].verb = exec[p].verb /\ exec'[p].line = exec[p].line /\ exec'[p].out = out
    BY <1>1, <1>4 DEF Exec
  <1> QED  BY <1>1, <1>2, <1>3, <1>4, <1>5 DEF Answered, Ok

\* What the commands do.
LEMMA Performs ==
  ASSUME NEW c, Perform(c)
  PROVE  /\ c.verb = "export" => exported' = exported \cup {c.line} /\ UNCHANGED <<outputs, high>>
         /\ c.verb = "unexport" => exported' = exported \ {c.line} /\ UNCHANGED <<outputs, high>>
         /\ c.verb = "in" => outputs' = outputs \ {c.line} /\ UNCHANGED <<exported, high>>
         /\ c.verb = "out" => /\ outputs' = outputs \cup {c.line} /\ UNCHANGED exported
                              /\ high' = high \ {c.line}
         /\ c.verb = "0" => high' = high \ {c.line} /\ UNCHANGED <<exported, outputs>>
         /\ c.verb = "1" => high' = high \cup {c.line} /\ UNCHANGED <<exported, outputs>>
         /\ c.verb = "cat" => UNCHANGED kernel
  BY DEF Perform, kernel

\* A command changes one line.
LEMMA OneLine ==
  ASSUME NEW c \in Exec, Perform(c)
  PROVE  \A line : line # c.line =>
            /\ (line \in exported') = (line \in exported)
            /\ (line \in outputs') = (line \in outputs)
            /\ (line \in high') = (line \in high)
  BY Performs DEF Exec, Verb, kernel

LEMMA OthersStaySilent ==
  ASSUME TypeInv, OthersAreSilent, NEW p \in Handlers, GoesOn(p)
  PROVE  OthersAreSilent'
  BY DEF OthersAreSilent, GoesOn, TypeInv, TypeOK, GpioTypeOK

LEMMA GoesOnAchieves ==
  ASSUME TypeInv, WiringInv, NEW p \in Handlers, GoesOn(p)
  PROVE  WiringInv'
  <1>1. PICK handler, command :
          /\ h' = [h EXCEPT ![p] = handler]
          /\ exec' = [exec EXCEPT ![p] = command]
          /\ command = NoExec \/ command.out = "pending"
          /\ handler.pc = "setting direction" =>
               At(p, "exporting") /\ Succeeded(p) /\ command.line = exec[p].line
    BY DEF GoesOn, Follows
  <1>2. h'[p] = handler /\ exec'[p] = command /\ UNCHANGED kernel
    BY <1>1 DEF TypeInv, TypeOK, GpioTypeOK, Handlers, GoesOn
  <1>3. ~Succeeded(p)'
    <2>1. NoExec.out = "none"
      BY DEF NoExec
    <2>2. command.out \in {"none", "pending"}
      BY <1>1, <2>1
    <2> QED  BY <1>2, <2>2 DEF Succeeded, Answered, Output
  <1>4. Achieved(p)'
    <2>1. ASSUME At(p, "setting direction")'  PROVE exec'[p].line \in exported'
      <3>1. At(p, "exporting") /\ Succeeded(p) /\ exec'[p].line = exec[p].line
        BY <1>1, <1>2, <2>1 DEF At
      <3>2. exec[p].line \in exported
        BY <3>1 DEF WiringInv, Achieved
      <3> QED  BY <1>2, <3>1, <3>2 DEF kernel
    <2> QED  BY <1>3, <2>1 DEF Achieved
  <1>5. ASSUME NEW q \in Handlers \ {p}  PROVE Achieved(q)'
    <2>1. h'[q] = h[q] /\ exec'[q] = exec[q]
      BY OthersStay
    <2> QED  BY <1>2, <2>1 DEF WiringInv, Achieved, Succeeded, Answered, Ok, At, kernel
  <1>6. OthersAreSilent'
    BY OthersStaySilent DEF WiringInv
  <1> QED  BY <1>4, <1>5, <1>6 DEF WiringInv

\* The command that runs is a read, or for the line of the component that the
\* one who awaits it works on.
LEMMA OneCommand ==
  ASSUME Orphan = {}, TypeInv, DrivingInv, OthersAreSilent, GpioStep
  PROVE  \E p \in Handlers : RunCommand(p) /\ (exec[p].verb = "cat" \/ h[p].pc \in Driving)
  <1>1. PICK p \in Proc : RunCommand(p)
    BY OneRuns DEF GpioStep
  <1>2. exec[p] \in Exec
    BY <1>1, Runs
  <1>3. p \in Handlers
    BY <1>2 DEF OthersAreSilent, Exec, Verb, NoExec
  <1>4. exec[p].verb = "cat" \/ h[p].pc \in Driving
    BY <1>2, <1>3 DEF DrivingInv, Drives, VerbsAt, At, Driving, Exec, Verb
  <1> QED  BY <1>1, <1>3, <1>4

\* A command leaves the lines that others work on as they are.
LEMMA OtherLinesStay ==
  ASSUME TypeInv, OwnLines, NEW p \in Handlers, RunCommand(p),
         exec[p].verb = "cat" \/ h[p].pc \in Driving,
         NEW q \in Handlers \ {p}, h[q].pc \in Driving
  PROVE  /\ exec'[q] = exec[q]
         /\ (exec[q].line \in exported') = (exec[q].line \in exported)
         /\ (exec[q].line \in outputs') = (exec[q].line \in outputs)
         /\ (exec[q].line \in high') = (exec[q].line \in high)
  <1>1. p \in Proc /\ q \in Proc \ {p}
    BY DEF Handlers
  <1>2. exec'[q] = exec[q] /\ exec[p] \in Exec /\ (Perform(exec[p]) \/ UNCHANGED kernel)
    BY <1>1, Runs
  <1>3. CASE UNCHANGED kernel
    BY <1>2, <1>3 DEF kernel
  <1>4. CASE Perform(exec[p]) /\ exec[p].verb = "cat"
    BY <1>2, <1>4, Performs DEF kernel
  <1>5. CASE Perform(exec[p]) /\ h[p].pc \in Driving
    <2>1. exec[q].line # exec[p].line
      BY <1>5 DEF OwnLines
    <2> QED  BY <1>2, <1>5, <2>1, OneLine
  <1> QED  BY <1>2, <1>3, <1>4, <1>5

\* A single client works on one line at a time.
LEMMA OneClientLines ==
  ASSUME OneClient, OrderInv
  PROVE  OwnLines
  BY OneIsAtWork, DrivingIsBusy DEF OwnLines

LEMMA GpioAchieves ==
  ASSUME OwnLines, Orphan = {}, TypeInv, DrivingInv, WiringInv, GpioStep
  PROVE  WiringInv'
  <1>1. PICK p \in Handlers : RunCommand(p) /\ (exec[p].verb = "cat" \/ h[p].pc \in Driving)
    BY OneCommand DEF WiringInv
  <1>2. p \in Proc /\ UNCHANGED h
    BY DEF Handlers, GpioStep
  <1>3. \A q \in Proc \ {p} : exec'[q] = exec[q]
    BY <1>1, <1>2, Runs
  <1>5. OthersAreSilent'
    BY <1>1, <1>3 DEF WiringInv, OthersAreSilent
  <1>6. exec[p].verb \in VerbsAt(p) /\ exec'[p].line = exec[p].line /\ WellFormed(p)
    BY <1>1, <1>2, Runs DEF DrivingInv, Drives, TypeInv, Handlers
  <1>7. Achieved(p)'
    <2>1. CASE At(p, "exporting")
      <3>1. exec[p].verb = "export"
        BY <1>6, <2>1 DEF VerbsAt, At
      <3>2. Ok(p)' => exec[p].line \in exported'
        BY <1>1, <1>2, <3>1, Runs, Performs
      <3> QED  BY <1>2, <1>6, <2>1, <3>2 DEF Achieved, Succeeded, At
    <2>2. CASE At(p, "setting direction")
      <3>1. /\ exec[p].verb = WiredAs(h[p].row) /\ exec[p].verb \in {"in", "out"}
            /\ (exec[p].verb = "out") = (h[p].row.direction = "out")
        BY <1>6, <2>2 DEF VerbsAt, At, WiredAs, DIR_IN, DIR_OUT
      <3>2. exec[p].line \in exported /\ exported' = exported
        BY <1>1, <1>2, <2>2, <3>1, Runs, Performs DEF WiringInv, Achieved, kernel
      <3>3. Ok(p)' => ((exec[p].line \in outputs') = (h[p].row.direction = "out"))
        BY <1>1, <1>2, <3>1, Runs, Performs
      <3> QED  BY <1>2, <1>6, <2>2, <3>2, <3>3 DEF Achieved, Succeeded, At, DIR_OUT
    <2> QED  BY <1>2, <2>1, <2>2 DEF Achieved, At
  <1>8. ASSUME NEW q \in Handlers \ {p}  PROVE Achieved(q)'
    <2>1. CASE h[q].pc \notin Driving
      BY <1>2, <2>1 DEF Achieved, At, Driving
    <2>2. CASE h[q].pc \in Driving
      <3>1. /\ exec'[q] = exec[q]
            /\ (exec[q].line \in exported') = (exec[q].line \in exported)
            /\ (exec[q].line \in outputs') = (exec[q].line \in outputs)
        BY <1>1, <2>2, OtherLinesStay
      <3>2. Achieved(q) /\ h'[q] = h[q]
        BY <1>2 DEF WiringInv
      <3> QED  BY <3>1, <3>2 DEF Achieved, Succeeded, Answered, Ok, At
    <2> QED  BY <2>1, <2>2
  <1> QED  BY <1>5, <1>7, <1>8 DEF WiringInv

\* Nobody awaits anything that has to do with a line.
LEMMA NothingAchieves ==
  ASSUME exec' = [r \in Proc \cup Orphan |-> IF r \in Proc THEN NoExec ELSE exec[r]],
         \A p \in Handlers : h'[p] \in {Idle, Booting}
  PROVE  WiringInv'
  <1>1. OthersAreSilent'
    BY DEF OthersAreSilent
  <1> QED  BY <1>1, IdleType, BootingFields DEF WiringInv, Achieved, At

LEMMA NextAchieves ==
  ASSUME OwnLines, Orphan = {}, EarlyRequests = FALSE, TypeInv, OrderInv, DrivingInv, WiringInv,
         [Next]_vars
  PROVE  WiringInv'
  <1>1. CASE GpioStep
    BY <1>1, GpioAchieves
  <1>2. CASE Restart
    <2>1. \A p \in Handlers : h'[p] \in {Idle, Booting}
      BY <1>2 DEF Restart, Handlers
    <2> QED  BY <1>2, <2>1, NothingAchieves DEF Restart
  <1>3. CASE UNCHANGED <<gpioVars, cacheVars, h>>
    BY <1>3 DEF WiringInv, OthersAreSilent, Achieved, Succeeded, Answered, Ok, At, gpioVars
  <1>4. ASSUME NEW p \in Handlers, GoesOn(p)  PROVE WiringInv'
    BY <1>4, GoesOnAchieves
  <1> QED  BY <1>1, <1>2, <1>3, <1>4, NextProceeds, LinesStay DEF Proceeds

\* The one step that ends an update which had to rewire a component with success.
LEMMA UpdateEnds ==
  ASSUME TypeInv, OrderInv, DrivingInv, [Next]_vars, ~UNCHANGED vars,
         NEW s \in Slot, h[s].op = "update", h'[s] = Idle, answer'.op = "update", answer'.reply = "OK"
  PROVE  /\ At(s, "setting direction") /\ Succeeded(s)
         /\ StoreUpdate(h[s].id, h[s].c, h[s].row)
         /\ answer'.id = h[s].id
         /\ UNCHANGED <<kernel, components>>
  <1>0. s \in Handlers /\ h[s] # Idle
    BY IdleType DEF Handlers
  <1>1. ASSUME answer' = NoAnswer  PROVE FALSE
    BY <1>1 DEF NoAnswer
  <1>2. ASSUME NEW op, NEW id, NEW reply, NEW t \in Handlers, Finish(t, op, id, reply)
        PROVE  op = "update" /\ reply = "OK" /\ answer'.id = id
    BY <1>2 DEF Finish
  <1>3. ASSUME NEW t \in Slot, Request(t)  PROVE FALSE
    <2>1. t # s /\ t \in Handlers
      BY <1>0, <1>3 DEF Request, Toggle, Update, Remove, Add, List, Arrives, Handlers
    <2> QED  BY <1>0, <1>3, <2>1, RequestGoesOn, OthersStay
  <1>4. ASSUME NEW t \in Slot, Continue(t) \/ Insert(t)  PROVE FALSE
    <2>1. \/ \E handler, verb, line : Await(t, handler, verb, line)
          \/ \E handler : Goto(t, handler)
          \/ \E op \in {"toggle", "add", "remove", "list"} : \E id, reply : Finish(t, op, id, reply)
          \/ \E op, id : Finish(t, op, id, "SERVER_ERR")
      BY <1>4 DEF Continue, Insert, Toggled, UpdateTurnedOff, UpdateUnexported, Inserted,
                  RemoveTurnedOff, AwaitUnexport, RemoveUnexported, Read, Visit
    <2> QED  BY <1>1, <1>2, <2>1 DEF Await, Goto, Handlers
  <1>5. ASSUME Select  PROVE FALSE
    BY <1>1, <1>5 DEF Select, LoadFrom, Await, Goto
  <1>6. ASSUME GpioStep \/ Restart \/ DbStep  PROVE FALSE
    BY <1>1, <1>6 DEF GpioStep, Restart, DbStep, ExecuteWrite, CommitInsert, LoseInsert
  <1>7. ASSUME NEW p \in Handlers, InitGpio(p)  PROVE p = s /\ DirectionSet(s) /\ Succeeded(s)
    <2>1. p = s
      BY <1>0, <1>7, InitGpioGoesOn, OthersStay
    <2>2. ~AfterInit(s, FALSE)
      BY <1>0, <1>2 DEF AfterInit
    <2>3. DirectionSet(s) /\ Ok(s)
      BY <1>1, <1>7, <2>1, <2>2 DEF InitGpio, Exported, DirectionSet, CleanedUp, Await
    <2> QED  BY <2>1, <2>3 DEF DirectionSet, Succeeded
  <1>8. DirectionSet(s) /\ Succeeded(s)
    BY <1>3, <1>4, <1>5, <1>6, <1>7 DEF Next, Work, Handlers, DbStep
  <1>9. AfterInit(s, TRUE) /\ UNCHANGED kernel /\ At(s, "setting direction")
    BY <1>8 DEF DirectionSet, Succeeded
  <1> QED  BY <1>0, <1>2, <1>8, <1>9 DEF AfterInit

LEMMA UpdateRewires ==
  ASSUME TypeInv, OrderInv, DrivingInv, WiringInv, [Next]_vars, ~UNCHANGED vars,
         NEW s \in Slot, h[s].op = "update", h'[s] = Idle, answer'.op = "update", answer'.reply = "OK"
  PROVE  LET c == objects'[components'[answer'.id]]
         IN /\ c.gpio = NewGpio(PinNumber(c.row.physicalPin), c.row.direction)
            /\ Wired(c.row)
  <1>1. /\ At(s, "setting direction") /\ Succeeded(s)
        /\ StoreUpdate(h[s].id, h[s].c, h[s].row)
        /\ answer'.id = h[s].id
        /\ UNCHANGED <<kernel, components>>
    BY UpdateEnds
  <1>2. s \in Handlers /\ h[s].pc \in Initializing /\ h[s].pc \in Driving
    BY <1>1 DEF At, Handlers, Driving
  <1>3. /\ h[s].c = components[h[s].id] /\ h[s].id \in KnownIds /\ h[s].row \in Row
        /\ Comp(h[s].id).gpio = MadeFor(h[s].row)
        /\ exec[s].line = Comp(h[s].id).gpio.pinNo
        /\ h[s].row.direction \in Direction
    BY <1>2 DEF DrivingInv, Drives, TypeInv, WellFormed, Handlers
  <1>4. PICK id \in KnownIds : id = h[s].id
    BY <1>3
  <1>5. PICK row \in Row : row = h[s].row
    BY <1>3
  <1>6. Comp(id)'.row = row /\ Comp(id)'.gpio = Comp(id).gpio
    BY <1>1, <1>3, <1>4, <1>5, StoreUpdateComp DEF DrivingInv
  <1>7. exec[s].line = convertPhysicalPin[PinNumber(row.physicalPin)]
    BY <1>3, <1>5 DEF MadeFor, NewGpio
  <1>8. exec[s].line \in exported /\ ((exec[s].line \in outputs) = (row.direction = DIR_OUT))
    BY <1>1, <1>2, <1>5 DEF WiringInv, Achieved
  <1>9. Wired(row)
    BY <1>7, <1>8 DEF Wired
  <1>10. WiredAs(row) = row.direction
    BY <1>3, <1>5 DEF WiredAs, Direction
  <1>11. Comp(id)'.gpio = NewGpio(PinNumber(row.physicalPin), row.direction)
    BY <1>3, <1>4, <1>5, <1>6, <1>10 DEF MadeFor
  <1> QED  BY <1>1, <1>4, <1>6, <1>9, <1>11 DEF Comp

LEMMA InitWiring == Init => WiringInv
  <1> SUFFICES ASSUME Init  PROVE WiringInv
    OBVIOUS
  <1>1. OthersAreSilent
    BY DEF Init, GpioInit, OthersAreSilent
  <1>2. \A p \in Handlers : h[p] \in {Idle, Booting}
    BY DEF Init, Handlers
  <1> QED  BY <1>1, <1>2, IdleType, BootingFields DEF WiringInv, Achieved, At

LEMMA WiringInvariance ==
  ASSUME OneClient, EarlyRequests = FALSE, Orphan = {}
  PROVE  Spec => [](TypeInv /\ OrderInv /\ DrivingInv /\ WiringInv)
  <1>0. SeparateClients
    BY DEF SeparateClients
  <1>2. Init => WiringInv
    BY InitWiring
  <1>3. TypeInv /\ OrderInv /\ DrivingInv /\ WiringInv /\ [Next]_vars => WiringInv'
    BY NextAchieves, OneClientLines
  <1> QED  BY <1>0, <1>2, <1>3, DrivingInvariance, PTL DEF Spec

LEMMA UpdatesRewire ==
  TypeInv /\ OrderInv /\ DrivingInv /\ WiringInv /\ [Next]_vars =>
    [\A s \in Slot :
       h[s].op = "update" /\ h'[s] = Idle /\ answer'.op = "update" /\ answer'.reply = "OK"
         => LET c == objects'[components'[answer'.id]]
            IN /\ c.gpio = NewGpio(PinNumber(c.row.physicalPin), c.row.direction)
               /\ Wired(c.row)]_vars
  BY UpdateRewires

\* An update that reports success after it rewired a component has done so:
\* with one client and no command left behind by a timeout, the object, the
\* component's data and the line agree, even if commands fail and the server
\* is restarted. (executeUpdate)
THEOREM SuccessfulUpdatesRewire ==
  ASSUME OneClient, EarlyRequests = FALSE, Orphan = {}
  PROVE  Spec => OkUpdateRewires
  BY UpdatesRewire, WiringInvariance, PTL DEF Spec, OkUpdateRewires
-----------------------------------------------------------------------------
(***************************************************************************)
(* Which lines are exported: OwnedInv.                                     *)
(***************************************************************************)
\* A step that runs no command gives up no line that is exported.
LEMMA ProceedsOwned ==
  ASSUME TypeInv, DrivingInv, OwnedInv, NEW p \in Handlers, Proceeds(p)
  PROVE  OwnedInv'
  <1>0. PICK handler, command :
          /\ h' = [h EXCEPT ![p] = handler]
          /\ exec' = [exec EXCEPT ![p] = command]
          /\ command = NoExec \/ command.out = "pending"
    BY DEF Proceeds, GoesOn
  <1>1. UNCHANGED kernel /\ p \in Proc
    BY DEF Proceeds, GoesOn, Handlers
  <1>2. ~Answered(p)'
    <2>1. NoExec.out = "none" /\ exec'[p] = command
      BY <1>0, <1>1 DEF NoExec, TypeInv, TypeOK, GpioTypeOK
    <2>2. command.out \in {"none", "pending"}
      BY <1>0, <2>1
    <2> QED  BY <2>1, <2>2 DEF Answered, Output
  <1>3. \A q \in Handlers \ {p} : h'[q] = h[q] /\ exec'[q] = exec[q]
    BY OthersStay DEF Proceeds
  <1>4. \A q \in Handlers : At(q, "unexporting")' /\ Answered(q)' => exec'[q].line \notin exported'
    BY <1>1, <1>2, <1>3 DEF OwnedInv, At, Answered, kernel
  <1>5. ASSUME NEW id \in KnownIds, Comp(id).gpio.pinNo \in exported
        PROVE  id \in KnownIds' /\ Comp(id)'.gpio = Comp(id).gpio
    <2>1. CASE At(p, "unexporting") /\ Answered(p) /\ h[p].id = id
      <3>1. exec[p].line = Comp(id).gpio.pinNo
        BY <2>1 DEF DrivingInv, Drives, Driving, At
      <3> QED  BY <1>5, <2>1, <3>1 DEF OwnedInv
    <2>2. CASE ~(At(p, "unexporting") /\ Answered(p) /\ h[p].id = id)
      BY <2>2 DEF Proceeds, Changes, Changed, Respelled
    <2> QED  BY <2>1, <2>2
  <1>6. ASSUME NEW line \in exported  PROVE line \in OwnedLines'
    <2>1. PICK id \in KnownIds : line = Comp(id).gpio.pinNo
      BY DEF OwnedInv, OwnedLines
    <2>2. id \in KnownIds' /\ Comp(id)'.gpio = Comp(id).gpio
      BY <1>5, <2>1
    <2>3. line = Comp(id)'.gpio.pinNo
      BY <2>1, <2>2
    <2> QED  BY <2>2, <2>3 DEF OwnedLines
  <1> QED  BY <1>1, <1>4, <1>6 DEF OwnedInv, kernel

\* Only a request exports a line, that of its component; and if the command that
\* unexports one fails, the line was not exported.
LEMMA GpioOwned ==
  ASSUME OwnLines, Orphan = {}, ExecMayFail = FALSE, TypeInv, DrivingInv, OwnedInv,
         OthersExportNothing, GpioStep
  PROVE  OwnedInv'
  <1>1. PICK p \in Proc : RunCommand(p)
    BY OneRuns DEF GpioStep
  <1>2. UNCHANGED <<cacheVars, h>> /\ OwnedLines' = OwnedLines
    <2>1. UNCHANGED <<cacheVars, h>>
      BY DEF GpioStep
    <2> QED  BY <2>1 DEF OwnedLines, KnownIds, Known, Comp, cacheVars
  <1>3. CASE exec[p].verb = "export"
    <2>1. p \in Handlers
      BY <1>3 DEF OthersExportNothing
    <2>2. h[p].pc = "exporting"
      <3>1. "export" \in VerbsAt(p)
        BY <1>3, <2>1 DEF DrivingInv, Drives
      <3>2. WiredAs(h[p].row) # "export"
        BY DEF WiredAs, DIR_IN, DIR_OUT
      <3> QED  BY <3>1, <3>2 DEF VerbsAt, At
    <2>3. exec[p].line \in OwnedLines
      BY <2>1, <2>2 DEF DrivingInv, Drives, Driving, OwnedLines
    <2>4. exported' \subseteq exported \cup {exec[p].line}
      BY <1>1, <1>3, Runs, Performs DEF kernel
    <2>5. ASSUME NEW q \in Handlers, At(q, "unexporting")', Answered(q)'
          PROVE  exec'[q].line \notin exported'
      <3>1. At(q, "unexporting") /\ q # p /\ h[q].pc \in Driving /\ h[p].pc \in Driving
        BY <1>2, <2>2, <2>5 DEF At, Driving
      <3>2. exec[q].line \notin exported /\ exec[q].line # exec[p].line /\ exec'[q] = exec[q]
        BY <1>1, <2>1, <2>5, <3>1, OtherLinesStay DEF OwnedInv, Answered, OwnLines
      <3> QED  BY <2>4, <3>2
    <2> QED  BY <1>2, <2>3, <2>4, <2>5 DEF OwnedInv
  <1>4. CASE exec[p].verb # "export"
    <2>1. exported' \subseteq exported
      BY <1>1, <1>4, Runs, Performs DEF kernel, Exec, Verb
    <2>2. ASSUME NEW q \in Handlers, At(q, "unexporting")', Answered(q)'
          PROVE  exec'[q].line \notin exported'
      <3>1. At(q, "unexporting") /\ q \in Proc
        BY <1>2, <2>2 DEF At, Handlers
      <3>2. CASE q = p
        <4>1. exec[p].verb = "unexport"
          BY <3>1, <3>2 DEF DrivingInv, Drives, VerbsAt, At
        <4>2. exec'[p].line = exec[p].line
          BY <1>1, Runs
        <4>3. CASE Perform(exec[p])
          BY <3>2, <4>1, <4>2, <4>3, Performs
        <4>4. CASE ~Allowed(exec[p]) /\ UNCHANGED kernel
          BY <3>2, <4>1, <4>2, <4>4 DEF Allowed, kernel
        <4> QED  BY <1>1, <4>3, <4>4, Runs
      <3>3. CASE q # p
        <4>1. exec'[q] = exec[q]
          BY <1>1, <3>1, <3>3, Runs
        <4> QED  BY <2>1, <2>2, <3>1, <4>1 DEF OwnedInv, Answered
      <3> QED  BY <3>2, <3>3
    <2> QED  BY <1>2, <2>1, <2>2 DEF OwnedInv
  <1> QED  BY <1>3, <1>4

LEMMA NextOwned ==
  ASSUME OwnLines, Orphan = {}, ExecMayFail = FALSE, EarlyRequests = FALSE,
         TypeInv, OrderInv, DrivingInv, OwnedInv, OthersExportNothing, [Next]_vars, ~Restart
  PROVE  OwnedInv'
  <1>1. CASE GpioStep
    BY <1>1, GpioOwned
  <1>2. CASE UNCHANGED <<gpioVars, cacheVars, h>>
    BY <1>2 DEF OwnedInv, OwnedLines, KnownIds, Known, Comp, At, Answered, gpioVars, cacheVars
  <1> QED  BY <1>1, <1>2, NextProceeds, LinesStay, ProceedsOwned

LEMMA InitOwned == Init => OwnedInv
  BY IdleType, BootingFields DEF Init, GpioInit, OwnedInv, At, Handlers

LEMMA SilentExportNothing ==
  ASSUME WiringInv
  PROVE  OthersExportNothing
  BY DEF WiringInv, OthersAreSilent, OthersExportNothing, NoExec

LEMMA NoRestart ==
  ASSUME MaxRestarts = 0, TypeInv
  PROVE  ~Restart
  BY DEF Restart, TypeInv, TypeOK

LEMMA OwnedInvariance ==
  ASSUME OneClient, EarlyRequests = FALSE, Orphan = {}, ExecMayFail = FALSE, MaxRestarts = 0
  PROVE  Spec => [](TypeInv /\ OrderInv /\ DrivingInv /\ WiringInv /\ OwnedInv)
  <1>1. TypeInv /\ OrderInv /\ DrivingInv /\ WiringInv /\ OwnedInv /\ [Next]_vars => OwnedInv'
    BY OneClientLines, SilentExportNothing, NoRestart, NextOwned
  <1> QED  BY <1>1, InitOwned, WiringInvariance, PTL DEF Spec

\* No line leaks: with one client, no restart and no command that fails without
\* a reason, a line that is exported belongs to a component; not only at rest,
\* as ExportedIsOwned says, but also while a request is at work. (unexport in
\* updateComponent and removeComponent)
THEOREM ExportedLinesAreOwned ==
  ASSUME OneClient, EarlyRequests = FALSE, Orphan = {}, ExecMayFail = FALSE, MaxRestarts = 0
  PROVE  Spec => [](ExportedIsOwned /\ exported \subseteq OwnedLines)
  <1>1. TypeInv /\ OrderInv /\ DrivingInv /\ WiringInv /\ OwnedInv
          => ExportedIsOwned /\ exported \subseteq OwnedLines
    BY DEF OwnedInv, OwnedLines, ExportedIsOwned
  <1> QED  BY <1>1, OwnedInvariance, PTL
-----------------------------------------------------------------------------
(***************************************************************************)
(* Which pins components have: PinsInv.                                    *)
(***************************************************************************)
\* Where the row of a component comes from after a step of p.
SamePinAs(p, id) ==
  /\ Known(id) /\ SamePin(Comp(id)'.row, Comp(id).row)
  /\ p = Boot => Comp(id)'.row = Comp(id).row

AskedRow(p, id) ==
  /\ p \in Slot /\ h[p].op \in {"add", "update"} /\ ~At(p, "inserting")
  /\ id = h[p].id
  /\ Comp(id)'.row = h[p].row /\ ValidPin(PinNumber(h[p].row.physicalPin))

LoadedRow(p, id) ==
  /\ p = Boot /\ h[Boot] # Idle
  /\ id = h'[p].id
  /\ Comp(id)'.row = rows[id] /\ ValidPin(PinNumber(rows[id].physicalPin))

LEMMA RowsAfter ==
  ASSUME TypeInv, OrderInv, NEW p \in Handlers, Proceeds(p), NEW id \in KnownIds'
  PROVE  SamePinAs(p, id) \/ AskedRow(p, id) \/ LoadedRow(p, id)
  <1>1. CASE id \in KnownIds
    <2>1. (Comp(id)' = Comp(id)) \/ Changed(p, id) \/ Respelled(p, id)
      BY <1>1 DEF Proceeds, Changes
    <2>2. \/ Comp(id)'.row = Comp(id).row
          \/ p # Boot /\ SamePin(Comp(id)'.row, Comp(id).row)
          \/ At(p, "setting direction") /\ Changed(p, id)
               /\ h[p].op = "update" /\ Comp(id)'.row = h[p].row
      BY <2>1 DEF Changed, Respelled
    <2>3. CASE At(p, "setting direction") /\ h[p].op = "update"
               /\ h[p].id = id /\ Comp(id)'.row = h[p].row
      <3>1. WellFormed(p) /\ h[p] # Idle
        BY <2>3, IdleType DEF TypeInv, Handlers
      <3>2. p \in Slot
        BY <2>3, <3>1 DEF OrderInv, BootIsAlone, Handlers
      <3> QED  BY <2>3, <3>1, <3>2, MadeAsAsked DEF WellFormed, At, AskedRow
    <2> QED  BY <1>1, <2>2, <2>3 DEF SamePinAs, SamePin, KnownIds, Changed
  <1>2. CASE id \notin KnownIds
    <2>1. Cached(p, id)
      BY <1>2 DEF Proceeds, Changes
    <2>2. CASE At(p, "inserted") /\ h'[p] = [h[p] EXCEPT !.pc = "exporting"]
      <3>1. WellFormed(p) /\ h[p] # Idle /\ h[p] \in Handler /\ h[p].op = "add"
        BY <2>2, IdleType, HandlerType DEF TypeInv, Handlers, WellFormed
      <3>2. p \in Slot
        BY <3>1 DEF OrderInv, BootIsAlone, Handlers
      <3>3. h'[p].id = h[p].id /\ h'[p].row = h[p].row
        BY <2>2, <3>1 DEF Handler
      <3> QED  BY <2>1, <2>2, <3>1, <3>2, <3>3, MadeAsAsked DEF Cached, AskedRow, At
    <2>3. CASE p = Boot /\ h[Boot] # Idle /\ h'[p].row = rows[id]
      BY <2>1, <2>3, MadeAsAsked DEF Cached, LoadedRow
    <2> QED  BY <2>1, <2>2, <2>3 DEF Cached
  <1> QED  BY <1>1, <1>2

\* The pin of a row is a number.
LEMMA RowPin ==
  ASSUME TypeInv, NEW id \in Id, rows[id] # NoRow
  PROVE  PinNumber(rows[id].physicalPin) = rows[id].physicalPin
  <1>1. rows[id].physicalPin \in Nat
    BY DEF TypeInv, TypeOK, StoredRow
  <1> QED  BY <1>1 DEF PinNumber

\* A row takes a pin that is free, or goes.
LEMMA OneRowPins ==
  ASSUME TypeInv, TypeInv', StoredPinsDiffer, NEW id \in Id, NEW row,
         rows' = [rows EXCEPT ![id] = row], row = NoRow \/ PinFree(row.physicalPin, id)
  PROVE  StoredPinsDiffer'
  <1>1. rows'[id] = row /\ \A i \in Id \ {id} : rows'[i] = rows[i]
    BY DEF TypeInv, TypeOK
  <1>2. \A i \in Id : rows'[i] # NoRow => PinNumber(rows'[i].physicalPin) = rows'[i].physicalPin
    <2>1. ASSUME NEW i \in Id, rows'[i] # NoRow
          PROVE  PinNumber(rows'[i].physicalPin) = rows'[i].physicalPin
      <3>1. rows'[i].physicalPin \in Nat
        BY <2>1 DEF TypeInv, TypeOK, StoredRow
      <3> QED  BY <3>1 DEF PinNumber
    <2> QED  BY <2>1
  <1> QED  BY <1>1, <1>2 DEF StoredPinsDiffer, StoredIds, SamePin, PinFree

LEMMA InsertPins ==
  ASSUME TypeInv, TypeInv', StoredPinsDiffer, NEW s \in Slot, Insert(s), ~UNCHANGED rows
  PROVE  StoredPinsDiffer'
  <1> DEFINE row == Stored(h[s].row)
  <1>1. /\ nextId \in Id /\ PinFree(row.physicalPin, nextId)
        /\ rows' = [rows EXCEPT ![nextId] = row]
    BY DEF Insert, TypeInv, TypeOK, Id
  <1> QED  BY <1>1, OneRowPins

\* Rows go when a server is restarted, or a connection is lost.
LEMMA FewerRowsPins ==
  ASSUME StoredPinsDiffer, NEW ids, rows' = [id \in Id |-> IF id \in ids THEN NoRow ELSE rows[id]]
  PROVE  StoredPinsDiffer'
  BY DEF StoredPinsDiffer, StoredIds, SamePin

LEMMA DbStepPins ==
  ASSUME TypeInv, TypeInv', StoredPinsDiffer, DbStep
  PROVE  StoredPinsDiffer'
  <1>1. CASE UNCHANGED rows
    BY <1>1 DEF StoredPinsDiffer, StoredIds, SamePin
  <1>2. ASSUME NEW w \in writes, Executes(w), rows' = [rows EXCEPT ![w.id] = w.row]
        PROVE  StoredPinsDiffer'
    <2>1. w.id \in Id /\ (w.row = NoRow \/ PinFree(w.row.physicalPin, w.id))
      BY <1>2 DEF TypeInv, TypeOK, Executes
    <2> QED  BY <1>2, <2>1, OneRowPins
  <1>3. ASSUME NEW id \in uncommitted, rows' = [rows EXCEPT ![id] = NoRow]
        PROVE  StoredPinsDiffer'
    BY <1>3, OneRowPins DEF TypeInv, TypeOK
  <1> QED  BY <1>1, <1>2, <1>3 DEF DbStep, ExecuteWrite, CommitInsert, LoseInsert

\* What is not a row has no pin on the header.
LEMMA NoPin == ~ValidPin(PinNumber(NoRow.physicalPin))
  BY DEF NoRow, PinNumber, ValidPin, HeaderPin

\* What a request that asks for a pin has been given.
LEMMA RequestedRow ==
  ASSUME TypeInv, NEW s \in Slot, Request(s), h'[s].op \in {"add", "update"}
  PROVE  /\ UNCHANGED cacheVars
         /\ \/ \E id \in KnownIds, data \in UpdateData :
                  /\ MayAsk(data, id) /\ NobodyWorksOn(id)
                  /\ h'[s].id = id /\ h'[s].row = Merge(data, Comp(id).row)
                  /\ h'[s].pc # "inserting"
            \/ h'[s].row \in Row /\ MayAsk(h'[s].row, 0)
  <1>0. s \in Handlers /\ h \in [Handlers -> Handler]
    BY DEF Handlers, TypeInv, TypeOK
  <1>1. ASSUME NEW op, NEW id, NEW reply, Finish(s, op, id, reply)  PROVE FALSE
    BY <1>0, <1>1, IdleType DEF Finish
  <1>2. ASSUME NEW id \in Id, NEW data \in UpdateData, Update(s, id, data)
        PROVE  /\ UNCHANGED cacheVars /\ id \in KnownIds
               /\ h'[s].id = id /\ h'[s].row = Merge(data, Comp(id).row)
               /\ h'[s].pc # "inserting"
    <2> DEFINE row == Merge(data, Comp(id).row)
               Held(pc) == [[Idle EXCEPT !.op = "update", !.id = id, !.c = components[id],
                                         !.row = row] EXCEPT !.pc = pc]
    <2>1. ASSUME NEW pc \in {"turning off", "unexporting"}, h' = [h EXCEPT ![s] = Held(pc)]
          PROVE  h'[s].pc # "inserting" /\ h'[s].id = id /\ h'[s].row = row
      BY <1>0, <2>1 DEF Idle
    <2> QED  BY <1>1, <1>2, <2>1 DEF Update, Await, cacheVars, KnownIds
  <1>3. ASSUME NEW data \in UpdateData, MayAsk(data, 0), Add(s, data)
        PROVE  UNCHANGED cacheVars /\ h'[s].row \in Row /\ MayAsk(h'[s].row, 0)
    <2> DEFINE handler == [Idle EXCEPT !.pc = "inserting", !.op = "add", !.row = data]
    <2>1. data \in Row /\ Goto(s, handler) /\ UNCHANGED cacheVars
      BY <1>1, <1>3 DEF Add
    <2>2. h'[s].row = data
      BY <1>0, <2>1 DEF Goto, Idle
    <2> QED  BY <1>3, <2>1, <2>2
  <1>4. ASSUME NEW id \in Id, (\E status \in Status : Toggle(s, id, status)) \/ Remove(s, id)
        PROVE  FALSE
    <2> DEFINE Held(op, pc) == [Idle EXCEPT !.pc = pc, !.op = op, !.id = id]
    <2>1. Held("toggle", "toggling").op = "toggle" /\ Held("remove", "turning off").op = "remove"
          /\ Held("remove", "unexporting").op = "remove"
      BY DEF Idle
    <2>2. \/ \E op, reply : Finish(s, op, id, reply)
          \/ h' = [h EXCEPT ![s] = Held("toggle", "toggling")]
          \/ h' = [h EXCEPT ![s] = Held("remove", "turning off")]
          \/ h' = [h EXCEPT ![s] = Held("remove", "unexporting")]
      BY <1>4 DEF Toggle, Remove, AwaitUnexport, Await
    <2> HIDE DEF Held
    <2> QED  BY <1>0, <1>1, <2>1, <2>2
  <1>5. ASSUME List(s)  PROVE FALSE
    <2>1. ASSUME NEW id, NEW left, NEW pc,
                 h' = [h EXCEPT ![s] = [Idle EXCEPT !.pc = pc, !.op = "list", !.id = id, !.todo = left]]
          PROVE  h'[s].op = "list"
      BY <1>0, <2>1 DEF Idle
    <2> QED  BY <1>1, <1>5, <2>1 DEF List, Visit, Await
  <1>6. CASE \E id \in Id, data \in UpdateData :
               NobodyWorksOn(id) /\ MayAsk(data, id) /\ Update(s, id, data)
    BY <1>2, <1>6
  <1> QED  BY <1>3, <1>4, <1>5, <1>6 DEF Request

\* Clients keep off the pins of other components.
LEMMA RequestPins ==
  ASSUME Contested = FALSE, TypeInv, PinsInv, NEW s \in Slot, Request(s)
  PROVE  AskedPinIsFree(s)'
  <1>0. CASE h'[s].op \notin {"add", "update"}
    BY <1>0 DEF AskedPinIsFree
  <1>1. CASE h'[s].op \in {"add", "update"}
    <2>1. UNCHANGED cacheVars /\ KnownIds' = KnownIds /\ \A i \in Id : Comp(i)' = Comp(i)
      BY <1>1, RequestedRow, SameCache
    <2>2. ASSUME NEW id \in KnownIds, NEW data \in UpdateData, MayAsk(data, id), h'[s].id = id,
                 h'[s].row = Merge(data, Comp(id).row), h'[s].pc # "inserting"
          PROVE  AskedPinIsFree(s)'
      <3>1. ASSUME NEW i \in KnownIds, i # id  PROVE ~SamePin(Comp(i).row, h'[s].row)
        <4>1. CASE data.physicalPin = NoRow.physicalPin
          <5>1. h'[s].row.physicalPin = Comp(id).row.physicalPin
            BY <2>2, <4>1 DEF Merge
          <5> QED  BY <3>1, <5>1 DEF PinsInv, CachedPinsDiffer, SamePin
        <4>2. CASE data.physicalPin # NoRow.physicalPin
          <5>1. h'[s].row.physicalPin = data.physicalPin
            BY <2>2, <4>2 DEF Merge
          <5>2. ~SamePin(Comp(i).row, data)
            BY <2>2, <3>1 DEF MayAsk
          <5> QED  BY <5>1, <5>2 DEF SamePin
        <4> QED  BY <4>1, <4>2
      <3> QED  BY <2>1, <2>2, <3>1 DEF AskedPinIsFree, At, KnownIds, SamePin
    <2>3. CASE MayAsk(h'[s].row, 0)
      <3>1. \A i \in KnownIds : ~SamePin(Comp(i).row, h'[s].row)
        BY <2>3 DEF MayAsk, SamePin, KnownIds, Id
      <3> QED  BY <2>1, <3>1 DEF AskedPinIsFree, KnownIds, SamePin
    <2> QED  BY <1>1, <2>2, <2>3, RequestedRow
  <1> QED  BY <1>0, <1>1

\* They keep off the pins that other requests have asked for, too.
LEMMA RequestPinsDiffer ==
  ASSUME SeparateClients, Contested = FALSE, TypeInv, PinsInv, NEW s \in Slot, Request(s),
         h'[s].op \in {"add", "update"}, NEW t \in Slot \ {s}, h[t].op \in {"add", "update"}
  PROVE  ~SamePin(h'[s].row, h[t].row)
  <1>1. Shared = FALSE
    BY DEF SeparateClients, OneClient
  <1>2. ASSUME NEW data, NEW id, MayAsk(data, id), data.physicalPin \in PhysicalPin
        PROVE  ~SamePin(data, h[t].row)
    <2>1. CASE h[t].row # NoRow
      BY <1>2, <2>1 DEF MayAsk, SamePin
    <2>2. CASE h[t].row = NoRow
      <3>1. data.physicalPin \in Int /\ data.physicalPin # 0
        BY <1>2
      <3>2. PinNumber(data.physicalPin) # 0
        BY <3>1 DEF PinNumber
      <3>3. PinNumber(NoRow.physicalPin) = 0
        BY DEF PinNumber, NoRow
      <3> QED  BY <2>2, <3>2, <3>3 DEF SamePin
    <2> QED  BY <2>1, <2>2
  <1>3. CASE h'[s].row \in Row /\ MayAsk(h'[s].row, 0)
    BY <1>2, <1>3 DEF Row
  <1>4. ASSUME NEW id \in KnownIds, NEW data \in UpdateData, MayAsk(data, id), NobodyWorksOn(id),
               h'[s].row = Merge(data, Comp(id).row)
        PROVE  ~SamePin(h'[s].row, h[t].row)
    <2>1. CASE data.physicalPin = NoRow.physicalPin
      <3>1. h'[s].row.physicalPin = Comp(id).row.physicalPin
        BY <1>4, <2>1 DEF Merge
      <3>2. h[t].id # id
        BY <1>1, <1>4 DEF NobodyWorksOn
      <3> QED  BY <3>1, <3>2 DEF PinsInv, AskedPinIsFree, SamePin
    <2>2. CASE data.physicalPin # NoRow.physicalPin
      <3>1. h'[s].row.physicalPin = data.physicalPin
        BY <1>4, <2>2 DEF Merge
      <3>2. data.physicalPin \in PhysicalPin
        BY <2>2 DEF UpdateData
      <3> QED  BY <1>2, <1>4, <3>1, <3>2 DEF SamePin
    <2> QED  BY <2>1, <2>2
  <1> QED  BY <1>3, <1>4, RequestedRow

\* What a request asks for stays as it is.
LEMMA ContinueRow ==
  ASSUME TypeInv, NEW p \in Slot, Proceeds(p), h[p] # Idle, h'[p].op \in {"add", "update"}
  PROVE  /\ h'[p].op = h[p].op /\ h'[p].row = h[p].row /\ h'[p].pc # "inserting"
         /\ \/ ~At(p, "inserting") /\ h'[p].id = h[p].id
            \/ /\ At(p, "inserting") /\ Insert(p) /\ UNCHANGED cacheVars
               /\ h'[p].id = nextId
  <1>0. p \in Handlers /\ h \in [Handlers -> Handler] /\ h[p] \in Handler
    BY DEF Handlers, TypeInv, TypeOK
  <1>1. CASE At(p, "inserting")
    <2> DEFINE handler == [h[p] EXCEPT !.pc = "inserted", !.id = nextId]
    <2>1. /\ h' = [h EXCEPT ![p] = handler] /\ UNCHANGED cacheVars /\ Insert(p)
      BY <1>0, <1>1, IdleType DEF Proceeds, Insert, Goto, Finish
    <2>2. h'[p].op = h[p].op /\ h'[p].row = h[p].row /\ h'[p].pc = "inserted" /\ h'[p].id = nextId
      BY <1>0, <2>1 DEF Handler
    <2> QED  BY <1>1, <2>1, <2>2
  <1>2. CASE ~At(p, "inserting")
    <2>1. PICK pc : pc # "inserting" /\ h'[p] = [h[p] EXCEPT !.pc = pc]
      BY <1>0, <1>2 DEF Proceeds, GoesOn, Follows
    <2> QED  BY <1>0, <1>2, <2>1 DEF Handler
  <1> QED  BY <1>1, <1>2

LEMMA ContinuePins ==
  ASSUME TypeInv, OrderInv, NEW p \in Slot, AskedPinIsFree(p), Proceeds(p), h[p] # Idle
  PROVE  AskedPinIsFree(p)'
  <1>0. p \in Handlers
    BY DEF Handlers
  <1>1. CASE h'[p].op \notin {"add", "update"}
    BY <1>1 DEF AskedPinIsFree
  <1>2. CASE At(p, "inserting") /\ h'[p].op \in {"add", "update"}
    <2>1. KnownIds' = KnownIds /\ \A i \in Id : Comp(i)' = Comp(i)
      BY <1>2, ContinueRow, SameCache
    <2>2. /\ \A i \in KnownIds : ~SamePin(Comp(i).row, h[p].row)
          /\ h'[p].row = h[p].row
      BY <1>2, ContinueRow DEF AskedPinIsFree
    <2> QED  BY <2>1, <2>2 DEF AskedPinIsFree, KnownIds, SamePin
  <1>3. CASE ~At(p, "inserting") /\ h'[p].op \in {"add", "update"}
    <2>1. /\ h'[p].pc # "inserting" /\ h'[p].op = h[p].op /\ h'[p].id = h[p].id
          /\ h'[p].row = h[p].row
      BY <1>3, ContinueRow
    <2>2. ASSUME NEW i \in KnownIds', i # h[p].id
          PROVE  ~SamePin(Comp(i)'.row, h[p].row)
      <3>1. SamePinAs(p, i)
        BY <1>0, <2>2, RowsAfter DEF AskedRow, LoadedRow
      <3>2. i \in KnownIds /\ ~SamePin(Comp(i).row, h[p].row)
        BY <1>3, <2>1, <2>2, <3>1 DEF AskedPinIsFree, SamePinAs, KnownIds
      <3> QED  BY <3>1, <3>2 DEF SamePinAs, SamePin
    <2> QED  BY <1>3, <2>1, <2>2 DEF AskedPinIsFree, At, SamePin
  <1> QED  BY <1>1, <1>2, <1>3

\* What somebody else asks for stays free.
LEMMA OthersPins ==
  ASSUME TypeInv, OrderInv, PinsInv, NEW p \in Handlers, Proceeds(p), NEW s \in Slot, s # p
  PROVE  AskedPinIsFree(s)'
  <1>0. h'[s] = h[s]
    BY OthersStay DEF Proceeds, Handlers
  <1> SUFFICES ASSUME h[s].op \in {"add", "update"}, NEW i \in KnownIds',
                      SamePin(Comp(i)'.row, h[s].row)
               PROVE  i = h[s].id /\ ~At(s, "inserting")
    BY <1>0 DEF AskedPinIsFree, At, SamePin
  <1>1. SamePinAs(p, i) \/ AskedRow(p, i) \/ LoadedRow(p, i)
    BY RowsAfter
  <1>2. CASE SamePinAs(p, i)
    BY <1>2 DEF SamePinAs, PinsInv, AskedPinIsFree, SamePin, KnownIds
  <1>3. CASE AskedRow(p, i)
    BY <1>3 DEF AskedRow, PinsInv, AskedPinsDiffer, SamePin
  <1>4. CASE LoadedRow(p, i)
    BY <1>4, IdleType DEF LoadedRow, Proceeds, InTurn
  <1> QED  BY <1>1, <1>2, <1>3, <1>4

LEMMA ProceedsPinsDiffer ==
  ASSUME SeparateClients, Contested = FALSE, TypeInv, PinsInv, NEW p \in Handlers, Proceeds(p)
  PROVE  AskedPinsDiffer'
  <1>1. \A q \in Slot \ {p} : h'[q] = h[q]
    BY OthersStay DEF Proceeds, Handlers
  <1>2. ASSUME p \in Slot, h'[p].op \in {"add", "update"}, NEW t \in Slot \ {p},
               h'[t].op \in {"add", "update"}
        PROVE  ~SamePin(h'[p].row, h'[t].row)
    <2>1. h'[t] = h[t]
      BY <1>1
    <2>2. CASE h[p] # Idle
      <3>1. h'[p].row = h[p].row /\ h'[p].op = h[p].op
        BY <1>2, <2>2, ContinueRow
      <3> QED  BY <1>2, <2>1, <3>1 DEF PinsInv, AskedPinsDiffer
    <2>3. CASE Request(p)
      BY <1>2, <2>1, <2>3, RequestPinsDiffer
    <2> QED  BY <2>2, <2>3 DEF Proceeds
  <1> SUFFICES ASSUME NEW s \in Slot, NEW t \in Slot, s # t,
                      h'[s].op \in {"add", "update"}, h'[t].op \in {"add", "update"}
               PROVE  ~SamePin(h'[s].row, h'[t].row)
    BY DEF AskedPinsDiffer, SamePin
  <1>3. CASE s # p /\ t # p
    BY <1>1, <1>3 DEF PinsInv, AskedPinsDiffer
  <1> QED  BY <1>2, <1>3 DEF SamePin

LEMMA ProceedsPins ==
  ASSUME SeparateClients, Contested = FALSE, TypeInv, TypeInv', OrderInv, PinsInv,
         NEW p \in Handlers, Proceeds(p)
  PROVE  PinsInv'
  <1>0. Boot \notin Slot /\ h \in [Handlers -> Handler]
    BY DEF TypeInv, TypeOK, Handlers
  <1>1. StoredPinsDiffer'
    <2>1. CASE UNCHANGED rows
      BY <2>1 DEF PinsInv, StoredPinsDiffer, StoredIds, SamePin
    <2> QED  BY <2>1, InsertPins DEF PinsInv, Proceeds
  <1>2. ASSUME NEW i \in KnownIds', NEW j \in KnownIds', SamePin(Comp(i)'.row, Comp(j)'.row),
               ~SamePinAs(p, i)
        PROVE  i = j
    <2>1. CASE AskedRow(p, i)
      <3>1. AskedRow(p, j) \/ SamePinAs(p, j)
        BY <1>0, <2>1, RowsAfter DEF AskedRow, LoadedRow
      <3>2. CASE SamePinAs(p, j)
        BY <1>2, <2>1, <3>2 DEF AskedRow, SamePinAs, PinsInv, AskedPinIsFree, SamePin, KnownIds
      <3> QED  BY <2>1, <3>1, <3>2 DEF AskedRow
    <2>2. CASE LoadedRow(p, i)
      <3>1. LoadedRow(p, j) \/ SamePinAs(p, j)
        BY <1>0, <2>2, RowsAfter DEF AskedRow, LoadedRow
      <3>2. CASE SamePinAs(p, j)
        <4>1. Comp(j).row = rows[j] /\ j \in KnownIds
          BY <2>2, <3>2 DEF LoadedRow, SamePinAs, PinsInv, LoadedIsStored, KnownIds
        <4>2. i \in StoredIds(rows) /\ j \in StoredIds(rows)
          <5>1. ValidPin(PinNumber(rows[i].physicalPin))
            BY <2>2 DEF LoadedRow
          <5>2. ValidPin(PinNumber(rows[j].physicalPin))
            BY <4>1 DEF PinsInv, CachedPinsDiffer
          <5> QED  BY <4>1, <5>1, <5>2, NoPin DEF StoredIds, KnownIds
        <4>3. SamePin(rows[i], rows[j])
          BY <1>2, <2>2, <3>2, <4>1 DEF LoadedRow, SamePinAs, SamePin
        <4> QED  BY <4>1, <4>2, <4>3 DEF PinsInv, StoredPinsDiffer
      <3> QED  BY <2>2, <3>1, <3>2 DEF LoadedRow
    <2> QED  BY <1>2, <2>1, <2>2, RowsAfter
  <1>3. CachedPinsDiffer'
    <2>1. ASSUME NEW i \in KnownIds'  PROVE ValidPin(PinNumber(Comp(i)'.row.physicalPin))
      <3>1. SamePinAs(p, i) \/ AskedRow(p, i) \/ LoadedRow(p, i)
        BY RowsAfter
      <3>2. CASE SamePinAs(p, i)
        <4>1. ValidPin(PinNumber(Comp(i).row.physicalPin))
          BY <3>2 DEF SamePinAs, PinsInv, CachedPinsDiffer, KnownIds
        <4> QED  BY <3>2, <4>1 DEF SamePinAs, SamePin
      <3> QED  BY <3>1, <3>2 DEF AskedRow, LoadedRow
    <2>2. ASSUME NEW i \in KnownIds', NEW j \in KnownIds', SamePin(Comp(i)'.row, Comp(j)'.row)
          PROVE  i = j
      <3>1. CASE SamePinAs(p, i) /\ SamePinAs(p, j)
        BY <2>2, <3>1 DEF SamePinAs, SamePin, PinsInv, CachedPinsDiffer, KnownIds
      <3>2. CASE ~SamePinAs(p, i)
        BY <1>2, <2>2, <3>2
      <3>3. CASE ~SamePinAs(p, j)
        BY <1>2, <2>2, <3>3 DEF SamePin
      <3> QED  BY <3>1, <3>2, <3>3
    <2> QED  BY <2>1, <2>2 DEF CachedPinsDiffer, SamePin, ValidPin
  <1>4. ASSUME NEW s \in Slot  PROVE AskedPinIsFree(s)'
    <2>1. CASE s # p
      BY <2>1, OthersPins
    <2>2. CASE s = p
      BY <2>2, RequestPins, ContinuePins DEF Proceeds, PinsInv
    <2> QED  BY <2>1, <2>2
  <1>5. LoadedIsStored'
    <2>1. CASE p # Boot
      <3>1. h'[Boot] = Idle
        BY <1>0, <2>1, OthersStay DEF Proceeds, InTurn, Handlers
      <3> QED  BY <3>1 DEF LoadedIsStored
    <2>2. CASE p = Boot
      <3>1. h[Boot] # Idle /\ UNCHANGED rows
        BY <1>0, <2>2 DEF Proceeds
      <3>2. ASSUME NEW i \in KnownIds'  PROVE Comp(i)'.row = rows[i]
        BY <1>0, <2>2, <3>1, RowsAfter
           DEF AskedRow, LoadedRow, SamePinAs, PinsInv, LoadedIsStored, KnownIds
      <3> QED  BY <3>1, <3>2 DEF LoadedIsStored
    <2> QED  BY <2>1, <2>2
  <1> QED  BY <1>1, <1>3, <1>4, <1>5, ProceedsPinsDiffer DEF PinsInv

LEMMA PinsStay ==
  ASSUME PinsInv, UNCHANGED <<cacheVars, h, rows>>
  PROVE  PinsInv'
  BY DEF PinsInv, StoredPinsDiffer, CachedPinsDiffer, AskedPinIsFree, AskedPinsDiffer,
         LoadedIsStored, StoredIds, SamePin, KnownIds, Known, Comp, At, cacheVars

LEMMA NextPins ==
  ASSUME SeparateClients, EarlyRequests = FALSE, Contested = FALSE, TypeInv, TypeInv', OrderInv,
         DrivingInv, PinsInv, [Next]_vars
  PROVE  PinsInv'
  <1>1. ASSUME DbStep  PROVE PinsInv'
    <2>1. StoredPinsDiffer'
      BY <1>1, DbStepPins DEF PinsInv
    <2>2. h[Boot] = Idle
      BY <1>1 DEF DbStep, OrderInv, BootIsAlone
    <2>3. UNCHANGED <<cacheVars, h>>
      BY <1>1, LinesStay
    <2> QED  BY <2>1, <2>2, <2>3 DEF PinsInv, CachedPinsDiffer, AskedPinIsFree, AskedPinsDiffer,
                               LoadedIsStored, SamePin, KnownIds, Known, Comp, At, cacheVars
  <1>2. CASE UNCHANGED vars \/ GpioStep
    BY <1>2, PinsStay DEF vars, GpioStep, dbVars
  <1>3. CASE Restart
    <2>1. KnownIds' = {} /\ StoredPinsDiffer'
      BY <1>3, FewerRowsPins DEF Restart, KnownIds, Known, PinsInv
    <2>2. \A s \in Slot : h'[s] = Idle
      BY <1>3 DEF Restart
    <2> QED  BY <2>1, <2>2, IdleType DEF PinsInv, CachedPinsDiffer,
                      AskedPinIsFree, AskedPinsDiffer, LoadedIsStored
  <1> QED  BY <1>1, <1>2, <1>3, NextProceeds, ProceedsPins

LEMMA InitPins == Init => PinsInv
  <1> SUFFICES ASSUME Init  PROVE PinsInv
    OBVIOUS
  <1>1. StoredPinsDiffer
    BY InitType, RowPin DEF Init, StoredPinsDiffer, StoredIds, SamePin, PinFree
  <1>2. KnownIds = {} /\ \A s \in Slot : h[s] = Idle
    BY DEF Init, KnownIds, Known
  <1> QED  BY <1>1, <1>2, IdleType DEF PinsInv, CachedPinsDiffer, AskedPinIsFree, AskedPinsDiffer,
                    LoadedIsStored

LEMMA PinsInvariance ==
  ASSUME SeparateClients, EarlyRequests = FALSE, Contested = FALSE
  PROVE  Spec => [](TypeInv /\ OrderInv /\ DrivingInv /\ PinsInv)
  <1>1. TypeInv /\ TypeInv' /\ OrderInv /\ DrivingInv /\ PinsInv /\ [Next]_vars => PinsInv'
    BY NextPins
  <1> QED  BY <1>1, InitPins, DrivingInvariance, PTL DEF Spec
-----------------------------------------------------------------------------
(***************************************************************************)
(* Which levels the lines have: LowInv.                                    *)
(***************************************************************************)
LEMMA LinesDiffer ==
  ASSUME NEW pin \in HeaderPin, NEW other \in HeaderPin,
         convertPhysicalPin[pin] = convertPhysicalPin[other]
  PROVE  pin = other
  <1>1. /\ convertPhysicalPin[24] = 12 /\ convertPhysicalPin[25] = 13
        /\ convertPhysicalPin[26] = 69 /\ convertPhysicalPin[27] = 115
        /\ convertPhysicalPin[28] = 4 /\ convertPhysicalPin[29] = 24
        /\ convertPhysicalPin[30] = 25 /\ convertPhysicalPin[31] = 35
        /\ convertPhysicalPin[32] = 34 /\ convertPhysicalPin[33] = 28
        /\ convertPhysicalPin[34] = 33
    BY DEF convertPhysicalPin, HeaderPin
  <1>2. \A p \in HeaderPin : p \in {24, 25, 26, 27, 28, 29, 30, 31, 32, 33, 34}
    BY DEF HeaderPin
  <1> QED  BY <1>1, <1>2

LEMMA PinsApart ==
  ASSUME NEW row, NEW other, ValidPin(PinNumber(row.physicalPin)),
         ValidPin(PinNumber(other.physicalPin)),
         ~SamePin(row, other)
  PROVE  MadeFor(row).pinNo # MadeFor(other).pinNo
  BY LinesDiffer DEF MadeFor, NewGpio, ValidPin, SamePin

\* The row that an object was made for: that of its component, or the one that
\* an update asks for.
LEMMA RowOfObject ==
  ASSUME TypeInv, OrderInv, DrivingInv, PinsInv, LowInv, NEW i \in KnownIds
  PROVE  \E row :
           /\ Comp(i).gpio.pinNo = MadeFor(row).pinNo /\ ValidPin(PinNumber(row.physicalPin))
           /\ \/ row = Comp(i).row
              \/ \E s \in Slot : h[s].op = "update" /\ h[s].id = i /\ row = h[s].row
  <1>1. ValidPin(PinNumber(Comp(i).row.physicalPin))
    BY DEF PinsInv, CachedPinsDiffer
  <1>2. CASE Settled(i)
    BY <1>1, <1>2 DEF Settled
  <1>3. ASSUME NEW p \in Handlers, h[p].pc \in Initializing, h[p].id = i
        PROVE  /\ Comp(i).gpio.pinNo = MadeFor(h[p].row).pinNo /\ ValidPin(PinNumber(h[p].row.physicalPin))
               /\ h[p].row = Comp(i).row \/ (p \in Slot /\ h[p].op = "update")
    <2>1. Comp(i).gpio = MadeFor(h[p].row) /\ ValidPin(PinNumber(h[p].row.physicalPin))
      BY <1>3, MadeAsAsked DEF DrivingInv, Drives, TypeInv, WellFormed, Handlers
    <2>2. h[p].op = "update" => p \in Slot
      BY IdleType DEF OrderInv, BootIsAlone, Handlers
    <2>3. h[p].op # "update" => h[p].row = Comp(i).row
      BY <1>3 DEF LowInv, RowIsCached
    <2> QED  BY <2>1, <2>2, <2>3
  <1>4. CASE \E p \in Handlers : h[p].pc \in Initializing /\ h[p].id = i
    <2>1. PICK p \in Handlers : h[p].pc \in Initializing /\ h[p].id = i
      BY <1>4
    <2>2. /\ Comp(i).gpio.pinNo = MadeFor(h[p].row).pinNo /\ ValidPin(PinNumber(h[p].row.physicalPin))
          /\ h[p].row = Comp(i).row \/ (p \in Slot /\ h[p].op = "update")
      BY <1>3, <2>1
    <2>3. \/ h[p].row = Comp(i).row
          \/ \E s \in Slot : h[s].op = "update" /\ h[s].id = i /\ h[p].row = h[s].row
      BY <2>1, <2>2
    <2> WITNESS h[p].row
    <2> QED  BY <2>2, <2>3
  <1> QED  BY <1>2, <1>4 DEF LowInv, OthersAreSettled

\* No two components drive the same line.
LEMMA ObjectsApart ==
  ASSUME TypeInv, OrderInv, DrivingInv, PinsInv, LowInv, NEW i \in KnownIds, NEW j \in KnownIds, i # j
  PROVE  Comp(i).gpio.pinNo # Comp(j).gpio.pinNo
  <1>1. PICK row : /\ Comp(i).gpio.pinNo = MadeFor(row).pinNo /\ ValidPin(PinNumber(row.physicalPin))
                   /\ \/ row = Comp(i).row
                      \/ \E s \in Slot : h[s].op = "update" /\ h[s].id = i /\ row = h[s].row
    BY RowOfObject
  <1>2. PICK other : /\ Comp(j).gpio.pinNo = MadeFor(other).pinNo /\ ValidPin(PinNumber(other.physicalPin))
                     /\ \/ other = Comp(j).row
                        \/ \E s \in Slot : h[s].op = "update" /\ h[s].id = j /\ other = h[s].row
    BY RowOfObject
  <1>3. ~SamePin(row, other)
    <2>1. CASE row = Comp(i).row /\ other = Comp(j).row
      BY <2>1 DEF PinsInv, CachedPinsDiffer
    <2>2. ASSUME NEW s \in Slot, h[s].op = "update", NEW k \in KnownIds, k # h[s].id
          PROVE  ~SamePin(Comp(k).row, h[s].row)
      BY <2>2 DEF PinsInv, AskedPinIsFree
    <2>3. ASSUME NEW s \in Slot, h[s].op = "update", h[s].id = i,
                 NEW t \in Slot, h[t].op = "update", h[t].id = j
          PROVE  ~SamePin(h[s].row, h[t].row)
      BY <2>3 DEF PinsInv, AskedPinsDiffer
    <2> QED  BY <1>1, <1>2, <2>1, <2>2, <2>3 DEF SamePin
  <1> QED  BY <1>1, <1>2, <1>3, PinsApart

\* No two requests work on the same line.
LEMMA LinesApart ==
  ASSUME TypeInv, OrderInv, DrivingInv, PinsInv, LowInv
  PROVE  OwnLines
  <1> SUFFICES ASSUME NEW p \in Handlers, NEW q \in Handlers, p # q,
                      h[p].pc \in Driving, h[q].pc \in Driving
               PROVE  exec[p].line # exec[q].line
    BY DEF OwnLines
  <1>1. /\ h[p].id \in KnownIds /\ h[q].id \in KnownIds /\ h[p].id # h[q].id
        /\ exec[p].line = Comp(h[p].id).gpio.pinNo /\ exec[q].line = Comp(h[q].id).gpio.pinNo
    BY DEF DrivingInv, OwnComponents, Drives
  <1> QED  BY <1>1, ObjectsApart

\* What the command that somebody waits for does.
LEMMA CommandLow ==
  ASSUME ExecMayFail = FALSE, TypeInv, DrivingInv, WiringInv, HighAreDriven,
         NEW p \in Handlers, LineIsLow(p), RunCommand(p), exec[p].verb # "cat", UNCHANGED h
  PROVE  HighAreDriven' /\ LineIsLow(p)'
  <1> DEFINE c == exec[p]
  <1>1. /\ c \in Exec /\ c.verb \in VerbsAt(p) /\ exec'[p].line = c.line /\ Answered(p)'
        /\ WellFormed(p) /\ ~Answered(p)
        /\ \/ Ok(p)' /\ Allowed(c) /\ Perform(c)
           \/ ~Ok(p)' /\ ~Allowed(c) /\ UNCHANGED kernel
    BY Runs DEF DrivingInv, Drives, Handlers, TypeInv, RunCommand, Pending, Answered, Output
  <1> HIDE DEF c
  <1>2. high \subseteq exported \cap outputs
    BY DEF HighAreDriven
  <1>3. CASE At(p, "toggling")
    <2>1. c.verb \in {"0", "1"}
      BY <1>1, <1>3 DEF VerbsAt, At
    <2>2. high' \subseteq exported' \cap outputs'
      BY <1>1, <1>2, <2>1, Performs DEF Allowed, kernel
    <2> QED  BY <1>3, <2>2 DEF HighAreDriven, LineIsLow, At
  <1>4. CASE At(p, "turning off")
    <2>1. c.verb = "0"
      BY <1>1, <1>4 DEF VerbsAt, At
    <2>2. high' \subseteq exported' \cap outputs' /\ c.line \notin high'
      BY <1>1, <1>2, <2>1, Performs DEF Allowed, kernel
    <2> QED  BY <1>1, <1>4, <2>2 DEF HighAreDriven, LineIsLow, At
  <1>5. CASE At(p, "unexporting")
    <2>1. c.verb = "unexport" /\ c.line \notin high
      BY <1>1, <1>5 DEF VerbsAt, At, LineIsLow, c
    <2>2. high' \subseteq exported' \cap outputs' /\ high' = high
      BY <1>1, <1>2, <2>1, Performs DEF kernel
    <2> QED  BY <1>1, <1>5, <2>1, <2>2 DEF HighAreDriven, LineIsLow, At
  <1>6. CASE At(p, "exporting")
    <2>1. c.verb = "export" /\ c.line \notin high /\ c.line \notin exported
      BY <1>1, <1>6 DEF VerbsAt, At, LineIsLow, c
    <2>2. Ok(p)' /\ high' = high /\ high' \subseteq exported' \cap outputs'
      BY <1>1, <1>2, <2>1, Performs DEF Allowed
    <2> QED  BY <1>1, <1>6, <2>1, <2>2 DEF HighAreDriven, LineIsLow, At
  <1>7. CASE At(p, "setting direction")
    <2>1. c.verb \in {"in", "out"} /\ c.line \notin high /\ c.line \in exported
      BY <1>1, <1>7 DEF VerbsAt, At, LineIsLow, WiringInv, Achieved, WiredAs, DIR_IN, DIR_OUT, c
    <2>2. Ok(p)' /\ high' \subseteq high /\ high' \subseteq exported' \cap outputs'
      BY <1>1, <1>2, <2>1, Performs DEF Allowed
    <2> QED  BY <1>1, <1>7, <2>1, <2>2 DEF HighAreDriven, LineIsLow, At
  <1>8. CASE At(p, "cleaning up")
    BY <1>8 DEF LineIsLow
  <1> QED  BY <1>1, <1>3, <1>4, <1>5, <1>6, <1>7, <1>8 DEF VerbsAt, Exec, Verb, c

\* A command that is not for the line of Gpio.init() leaves its direction.
LEMMA CommandSettles ==
  ASSUME TypeInv, OrderInv, DrivingInv, PinsInv, LowInv,
         NEW p \in Handlers, RunCommand(p), h[p].pc \in Driving,
         ~At(p, "cleaning up"), UNCHANGED <<cacheVars, h>>
  PROVE  OthersAreSettled'
  <1> DEFINE c == exec[p]
             line(id) == Comp(id).gpio.pinNo
  <1>1. /\ c \in Exec /\ c.verb \in VerbsAt(p) /\ WellFormed(p) /\ (Perform(c) \/ UNCHANGED kernel)
        /\ KnownIds' = KnownIds /\ \A id \in Id : Comp(id)' = Comp(id)
    BY Runs, SameCache DEF DrivingInv, Drives, Handlers, TypeInv
  <1>2. ASSUME NEW id \in KnownIds, Settled(id), line(id) # c.line \/ UNCHANGED kernel
        PROVE  Settled(id)'
    <2>1. /\ (line(id) \in exported') = (line(id) \in exported)
          /\ (line(id) \in outputs') = (line(id) \in outputs)
      BY <1>1, <1>2, OneLine DEF kernel
    <2>2. Comp(id)' = Comp(id)
      BY <1>1 DEF KnownIds
    <2> HIDE DEF c
    <2> QED  BY <1>2, <2>1, <2>2 DEF Settled
  <1>3. ASSUME NEW id \in KnownIds, Settled(id), h[p].pc \notin Initializing, Perform(c)
        PROVE  Settled(id)'
    <2>1. c.verb \in {"0", "1", "unexport"}
      BY <1>1, <1>3 DEF VerbsAt, At, Exec, Verb, Driving
    <2>2. outputs' = outputs /\ exported' \subseteq exported
      BY <1>3, <2>1, Performs
    <2>3. Comp(id)' = Comp(id)
      BY <1>1 DEF KnownIds
    <2> HIDE DEF c
    <2> QED  BY <1>3, <2>2, <2>3 DEF Settled
  <1>4. ASSUME NEW id \in KnownIds, ~(\E q \in Handlers : h[q].pc \in Initializing /\ h[q].id = id)
        PROVE  Settled(id)'
    <2>1. Settled(id)
      BY <1>4 DEF LowInv, OthersAreSettled
    <2>2. CASE h[p].pc \in Initializing
      <3>1. h[p].id \in KnownIds /\ h[p].id # id /\ c.line = line(h[p].id)
        BY <1>4, <2>2 DEF DrivingInv, Drives, Driving
      <3>2. line(id) # c.line
        BY <3>1, ObjectsApart
      <3> QED  BY <1>2, <2>1, <3>2
    <2> QED  BY <1>1, <1>2, <1>3, <2>1, <2>2
  <1> QED  BY <1>1, <1>4 DEF OthersAreSettled

LEMMA GpioLow ==
  ASSUME Orphan = {}, ExecMayFail = FALSE, TypeInv, OrderInv, DrivingInv, WiringInv,
         PinsInv, LowInv, GpioStep
  PROVE  LowInv'
  <1>1. PICK p \in Handlers : RunCommand(p) /\ (exec[p].verb = "cat" \/ h[p].pc \in Driving)
    BY OneCommand DEF WiringInv
  <1>2. UNCHANGED <<cacheVars, h>> /\ p \in Proc
    BY DEF GpioStep, Handlers
  <1>3. KnownIds' = KnownIds /\ \A id \in Id : Comp(id)' = Comp(id)
    BY <1>2, SameCache
  <1>4. \A q \in Handlers : RowIsCached(q)'
    <2>1. UNCHANGED <<components, objects, h>>
      BY <1>2 DEF cacheVars
    <2> QED  BY <2>1 DEF LowInv, RowIsCached, Comp
  <1>5. \A q \in Handlers \ {p} : exec'[q] = exec[q]
    BY <1>1, <1>2, Runs DEF Handlers
  <1>6. CASE exec[p].verb = "cat"
    <2>1. UNCHANGED kernel
      BY <1>1, <1>2, <1>6, Runs, Performs
    <2>2. OthersAreSettled' /\ HighAreDriven'
      BY <1>2, <1>3, <2>1 DEF LowInv, OthersAreSettled, Settled, HighAreDriven, kernel, KnownIds
    <2>3. h[p].pc \notin {"turning off", "unexporting"} \cup Initializing
      <3>1. "cat" \in VerbsAt(p) /\ WellFormed(p)
        BY <1>6 DEF DrivingInv, Drives, TypeInv, Handlers
      <3> QED  BY <3>1 DEF VerbsAt, At, WiredAs, DIR_IN, DIR_OUT
    <2>4. \A q \in Handlers : LineIsLow(q)'
      BY <1>2, <1>5, <2>1, <2>3 DEF LowInv, LineIsLow, At, Answered, Ok, kernel
    <2> QED  BY <1>4, <2>2, <2>4 DEF LowInv
  <1>7. CASE exec[p].verb # "cat"
    <2>1. HighAreDriven' /\ LineIsLow(p)'
      BY <1>1, <1>2, <1>7, CommandLow DEF LowInv
    <2>2. OthersAreSettled'
      BY <1>1, <1>2, <1>7, CommandSettles DEF LowInv, LineIsLow
    <2>3. ASSUME NEW q \in Handlers \ {p}  PROVE LineIsLow(q)'
      <3>1. CASE h[q].pc \notin Driving
        BY <1>2, <3>1 DEF LineIsLow, At, Driving
      <3>2. CASE h[q].pc \in Driving
        BY <1>1, <1>2, <3>2, LinesApart, OtherLinesStay DEF LowInv, LineIsLow, At, Answered, Ok
      <3> QED  BY <3>1, <3>2
    <2> QED  BY <1>4, <2>1, <2>2, <2>3 DEF LowInv
  <1> QED  BY <1>6, <1>7

\* What p has finished, or is still at work on, is settled.
LEMMA ProceedsSettled ==
  ASSUME TypeInv, DrivingInv, WiringInv, LowInv, NEW p \in Handlers, Proceeds(p)
  PROVE  OthersAreSettled'
  <1>1. PICK handler : h'[p] = handler /\ Follows(p, handler)
    BY DEF Proceeds, GoesOn, TypeInv, TypeOK, Handlers
  <1>2. UNCHANGED kernel /\ h[p] \in Handler /\ LineIsLow(p)
    BY HandlerType DEF Proceeds, GoesOn, LowInv
  <1>3. ASSUME h[p].pc \in Initializing, Succeeded(p), At(p, "setting direction"),
               NEW id \in KnownIds, id = h[p].id,
               Comp(id)'.row = h[p].row, Comp(id)'.gpio = Comp(id).gpio
        PROVE  Settled(id)'
    <2>1. Comp(id).gpio = MadeFor(h[p].row) /\ exec[p].line = Comp(id).gpio.pinNo
      BY <1>3 DEF DrivingInv, Drives, Driving
    <2>2. exec[p].line \in exported /\ ((exec[p].line \in outputs) = (h[p].row.direction = DIR_OUT))
      BY <1>3 DEF WiringInv, Achieved
    <2> QED  BY <1>2, <1>3, <2>1, <2>2 DEF Settled, kernel
  <1>4. ASSUME NEW id \in KnownIds', id \notin KnownIds
        PROVE  h'[p].pc \in Initializing /\ h'[p].id = id
    BY <1>4 DEF Proceeds, Changes, Cached
  <1>5. ASSUME NEW id \in KnownIds', id \in KnownIds, Changed(p, id)
        PROVE  Settled(id)' \/ (h'[p].pc \in Initializing /\ h'[p].id = id)
    <2>1. CASE At(p, "setting direction")
      BY <1>3, <1>5, <2>1 DEF Changed, At
    <2>2. CASE h'[p] = [h[p] EXCEPT !.pc = "exporting"]
      BY <1>2, <1>5, <2>2 DEF Changed, Handler
    <2> QED  BY <1>5, <2>1, <2>2 DEF Changed
  <1>6. ASSUME NEW id \in KnownIds', id \in KnownIds, Comp(id)' = Comp(id), ~Changed(p, id)
        PROVE  Settled(id)' \/ \E q \in Handlers : h'[q].pc \in Initializing /\ h'[q].id = id
    <2>1. Comp(id)' = Comp(id)
      BY <1>6
    <2>2. CASE Settled(id)
      BY <1>2, <2>1, <2>2 DEF Settled, kernel
    <2>3. CASE h[p].pc \in Initializing /\ h[p].id = id
      <3>1. h[p].pc \in {"exporting", "setting direction"} /\ Ok(p)
        BY <1>2, <2>3 DEF LineIsLow, At
      <3>2. CASE handler = [h[p] EXCEPT !.pc = "setting direction"]
        BY <1>1, <1>2, <2>3, <3>2 DEF Handler
      <3>3. CASE At(p, "setting direction") /\ Succeeded(p)
        <4>1. h[p].op # "update"
          BY <1>6, <2>3, <3>3 DEF Proceeds, Completes
        <4>2. Comp(id).row = h[p].row
          BY <2>3, <4>1 DEF LowInv, RowIsCached
        <4> QED  BY <1>3, <1>6, <2>1, <2>3, <3>3, <4>2
      <3> QED  BY <1>1, <3>1, <3>2, <3>3 DEF Follows
    <2>4. ASSUME NEW q \in Handlers \ {p}, h[q].pc \in Initializing, h[q].id = id
          PROVE  h'[q].pc \in Initializing /\ h'[q].id = id
      BY <2>4, OthersStay DEF Proceeds
    <2> QED  BY <1>6, <2>2, <2>3, <2>4 DEF LowInv, OthersAreSettled
  <1>7. ASSUME NEW id \in KnownIds', id \in KnownIds, Respelled(p, id)
        PROVE  Settled(id)' \/ \E q \in Handlers : h'[q].pc \in Initializing /\ h'[q].id = id
    <2>1. MadeFor(Comp(id)'.row) = MadeFor(Comp(id).row)
      BY <1>7 DEF Respelled, SamePin, MadeFor, WiredAs
    <2>2. CASE Settled(id)
      BY <1>2, <1>7, <2>1, <2>2 DEF Settled, Respelled, kernel
    <2>3. ASSUME NEW q \in Handlers, h[q].pc \in Initializing, h[q].id = id
          PROVE  h'[q].pc \in Initializing /\ h'[q].id = id
      <3>1. q # p
        BY <1>7, <2>3, IdleType DEF Respelled
      <3> QED  BY <2>3, <3>1, OthersStay DEF Proceeds
    <2> QED  BY <1>7, <2>2, <2>3 DEF LowInv, OthersAreSettled
  <1>8. \A id \in KnownIds : Comp(id)' = Comp(id) \/ Changed(p, id) \/ Respelled(p, id)
    BY DEF Proceeds, Changes
  <1> QED  BY <1>4, <1>5, <1>6, <1>7, <1>8 DEF OthersAreSettled

\* The line that p is about to export is not exported: p has given it up, and
\* it is no other component's.
LEMMA ExportsFreeLine ==
  ASSUME TypeInv, OrderInv, DrivingInv, OwnedInv, PinsInv, LowInv, TypeInv', DrivingInv',
         NEW p \in Handlers, Proceeds(p), h'[p].pc = "exporting"
  PROVE  exec'[p].line \notin exported
  <1> SUFFICES ASSUME exec'[p].line \in exported  PROVE FALSE
    OBVIOUS
  <1>1. PICK handler : h' = [h EXCEPT ![p] = handler] /\ Follows(p, handler)
    BY DEF Proceeds, GoesOn
  <1>2. h'[p] = handler /\ h[p] \in Handler
    BY <1>1, HandlerType DEF TypeInv, TypeOK, Handlers
  <1>3. PICK id \in KnownIds' : id = h'[p].id
    BY DEF DrivingInv, Drives, Driving
  <1>4. exec'[p].line = MadeFor(h'[p].row).pinNo /\ ValidPin(PinNumber(h'[p].row.physicalPin))
    BY <1>3, MadeAsAsked DEF DrivingInv, Drives, Driving, TypeInv, WellFormed, Handlers
  <1>5. PICK j \in KnownIds : exec'[p].line = Comp(j).gpio.pinNo
    BY DEF OwnedInv, OwnedLines
  <1>6. PICK row : /\ Comp(j).gpio.pinNo = MadeFor(row).pinNo /\ ValidPin(PinNumber(row.physicalPin))
                   /\ \/ row = Comp(j).row
                      \/ \E s \in Slot : h[s].op = "update" /\ h[s].id = j /\ row = h[s].row
    BY RowOfObject
  <1>7. SamePin(row, h'[p].row)
    BY <1>4, <1>5, <1>6, PinsApart
  <1>8. ASSUME p \in Slot, h[p].op \in {"add", "update"}, h'[p].row = h[p].row, h[p].id # j
        PROVE  FALSE
    <2>1. ASSUME NEW s \in Slot, h[s].op = "update", h[s].id = j  PROVE ~SamePin(h[s].row, h[p].row)
      BY <1>8, <2>1 DEF PinsInv, AskedPinsDiffer
    <2>2. ~SamePin(Comp(j).row, h[p].row)
      BY <1>8 DEF PinsInv, AskedPinIsFree
    <2> QED  BY <1>6, <1>7, <1>8, <2>1, <2>2
  <1>9. CASE At(p, "unexporting") /\ Answered(p) /\ h[p].op = "update" /\ handler.op = "update"
    <2>1. h'[p].row = h[p].row /\ h[p].id = id
      BY <1>1, <1>2, <1>3, <1>9, IdleType DEF Follows, At, Handler
    <2>2. p \in Slot /\ id \in KnownIds
      BY <1>9, <2>1, IdleType DEF OrderInv, BootIsAlone, Handlers, DrivingInv, Drives, Driving, At
    <2>3. exec[p].line \notin exported /\ exec[p].line = Comp(id).gpio.pinNo
      BY <1>9, <2>1 DEF OwnedInv, DrivingInv, Drives, Driving, At
    <2> QED  BY <1>5, <1>8, <1>9, <2>1, <2>2, <2>3
  <1>10. CASE Cached(p, id)
    <2>1. CASE At(p, "inserted") /\ h'[p] = [h[p] EXCEPT !.pc = "exporting"]
      <3>1. h[p].op = "add" /\ h'[p].id = h[p].id /\ h'[p].row = h[p].row /\ p \in Slot
        BY <1>2, <2>1, IdleType DEF TypeInv, WellFormed, Handler, Handlers, OrderInv, BootIsAlone, At
      <3> QED  BY <1>3, <1>8, <1>10, <3>1 DEF Cached, KnownIds
    <2>2. CASE p = Boot /\ h[Boot] # Idle /\ h'[p].row = rows[id]
      <3>1. \A s \in Slot : h[s] = Idle
        BY <2>2 DEF Proceeds, InTurn
      <3>2. row = rows[j]
        BY <1>6, <2>2, <3>1, IdleType DEF PinsInv, LoadedIsStored
      <3>3. id \in StoredIds(rows) /\ j \in StoredIds(rows)
        BY <1>3, <1>4, <1>6, <2>2, <3>2, NoPin DEF StoredIds, KnownIds
      <3>4. id = j
        BY <1>7, <2>2, <3>2, <3>3 DEF PinsInv, StoredPinsDiffer, SamePin
      <3> QED  BY <1>10, <3>4 DEF Cached, KnownIds
    <2> QED  BY <1>10, <2>1, <2>2 DEF Cached
  <1>11. CASE ~Known(handler.id)
    BY <1>2, <1>3, <1>10, <1>11 DEF Proceeds, Changes, KnownIds
  <1> QED  BY <1>1, <1>2, <1>9, <1>11 DEF Follows

LEMMA ProceedsLow ==
  ASSUME SeparateClients, TypeInv, OrderInv, DrivingInv, WiringInv, OwnedInv, PinsInv, LowInv,
         TypeInv', DrivingInv', NEW p \in Handlers, Proceeds(p)
  PROVE  LowInv'
  <1>0. /\ UNCHANGED kernel /\ h[p] \in Handler /\ LineIsLow(p) /\ RowIsCached(p)
        /\ HighAreDriven
    BY HandlerType DEF Proceeds, GoesOn, LowInv
  <1>1. PICK handler, command :
          /\ h' = [h EXCEPT ![p] = handler]
          /\ exec' = [exec EXCEPT ![p] = command]
          /\ command = NoExec \/ command.out = "pending"
          /\ Follows(p, handler)
          /\ handler.pc = "setting direction" => command.line = exec[p].line
    BY DEF Proceeds, GoesOn
  <1>2. /\ h'[p] = handler /\ exec'[p] = command
        /\ \A q \in Handlers \ {p} : h'[q] = h[q] /\ exec'[q] = exec[q]
    BY <1>1, OthersStay DEF Proceeds, TypeInv, TypeOK, GpioTypeOK, Handlers
  <1>3. ~Answered(p)' /\ Ok(p)'
    <2>1. NoExec.out = "none"
      BY DEF NoExec
    <2>2. command.out \in {"none", "pending"}
      BY <1>1, <2>1
    <2> QED  BY <1>2, <2>2 DEF Answered, Ok, Output
  <1>4. OthersAreSettled' /\ HighAreDriven'
    BY <1>0, ProceedsSettled DEF HighAreDriven, kernel
  <1>5. ASSUME NEW id \in KnownIds', h'[p].id = id, h'[p].pc # "exporting"
        PROVE  id \in KnownIds
    BY <1>5 DEF Proceeds, Changes, Cached
  <1>6. RowIsCached(p)'
    <2>1. ASSUME h'[p].pc \in Initializing, h'[p].op # "update"
          PROVE  objects'[components'[h'[p].id]].row = h'[p].row
      <3>1. PICK id \in KnownIds' : id = h'[p].id
        BY <2>1 DEF DrivingInv, Drives, Driving
      <3>2. CASE h'[p].pc = "exporting"
        <4>1. ~Known(handler.id)
          BY <1>1, <1>2, <2>1, <3>2 DEF Follows
        <4>2. Cached(p, id)
          BY <1>2, <3>1, <4>1 DEF Proceeds, Changes, KnownIds
        <4> QED  BY <3>1, <4>2 DEF Cached, Comp
      <3>3. CASE h'[p].pc = "setting direction"
        <4>1. At(p, "exporting") /\ Succeeded(p) /\ handler = [h[p] EXCEPT !.pc = "setting direction"]
          BY <1>1, <1>2, <3>3 DEF Follows, Succeeded, At
        <4>2. handler.op = h[p].op /\ handler.id = h[p].id /\ handler.row = h[p].row
          BY <1>0, <4>1 DEF Handler
        <4>3. Comp(id)' = Comp(id)
          BY <1>5, <3>1, <3>3, <4>1, IdleType DEF Proceeds, Changes, Changed, Respelled, At
        <4>4. id = h[p].id /\ h[p].op # "update"
          BY <1>2, <2>1, <3>1, <4>2
        <4>5. Comp(id).row = h[p].row
          BY <1>0, <4>1, <4>4 DEF RowIsCached, At
        <4> QED  BY <1>2, <3>1, <4>2, <4>3, <4>5 DEF Comp
      <3>4. CASE h'[p].pc = "cleaning up"
        BY <1>0, <1>1, <1>2, <3>4 DEF Follows, LineIsLow, At
      <3> QED  BY <2>1, <3>2, <3>3, <3>4
    <2> QED  BY <2>1 DEF RowIsCached, Comp
  <1>7. ASSUME h'[p].pc = "unexporting"  PROVE exec'[p].line \notin high
    <2>1. PICK id \in KnownIds' : id = h'[p].id /\ exec'[p].line = Comp(id)'.gpio.pinNo
      BY <1>7 DEF DrivingInv, Drives, Driving
    <2>2. id \in KnownIds
      BY <1>5, <1>7, <2>1
    <2>3. CASE h[p] = Idle /\ Comp(id).row.direction # DIR_OUT
      <3>1. Comp(id)' = Comp(id)
        BY <1>7, <2>2, <2>3, IdleType DEF Proceeds, Changes, Changed, Respelled, At
      <3>2. ASSUME NEW q \in Handlers, h[q].pc \in Initializing  PROVE h[q].id # id
        <4>1. q # p
          BY <2>3, <3>2, IdleType
        <4>2. h'[q] = h[q] /\ h'[p].pc \in Driving /\ h'[q].pc \in Driving
          BY <1>2, <1>7, <3>2, <4>1 DEF Driving
        <4> QED  BY <2>1, <4>1, <4>2 DEF DrivingInv, OwnComponents
      <3>3. Settled(id)
        BY <2>2, <3>2 DEF LowInv, OthersAreSettled
      <3> QED  BY <1>0, <2>1, <2>3, <3>1, <3>3 DEF Settled, HighAreDriven
    <2>4. CASE At(p, "turning off") /\ Answered(p) /\ id = h[p].id
      <3>1. Comp(id)' = Comp(id)
        BY <1>7, <2>2, <2>4, IdleType DEF Proceeds, Changes, Changed, Respelled, At
      <3>2. exec[p].line = Comp(id).gpio.pinNo
        BY <2>4 DEF DrivingInv, Drives, Driving, At
      <3> QED  BY <1>0, <2>1, <2>4, <3>1, <3>2 DEF LineIsLow
    <2> QED  BY <1>1, <1>2, <1>7, <2>1, <2>3, <2>4 DEF Follows
  <1>8. ASSUME h'[p].pc = "exporting"
        PROVE  exec'[p].line \notin exported /\ exec'[p].line \notin high
    BY <1>0, <1>8, ExportsFreeLine DEF HighAreDriven
  <1>9. ASSUME h'[p].pc = "setting direction"  PROVE exec'[p].line \notin high
    BY <1>0, <1>1, <1>2, <1>9 DEF Follows, LineIsLow, At
  <1>10. h'[p].pc # "cleaning up"
    BY <1>0, <1>1, <1>2 DEF Follows, LineIsLow, At
  <1>11. LineIsLow(p)'
    BY <1>0, <1>3, <1>7, <1>8, <1>9, <1>10 DEF LineIsLow, At, kernel
  <1>12. ASSUME NEW q \in Handlers \ {p}  PROVE RowIsCached(q)' /\ LineIsLow(q)'
    <2>1. LineIsLow(q)'
      BY <1>0, <1>2 DEF LowInv, LineIsLow, At, Answered, Ok, kernel
    <2>2. CASE h[q].pc \in Initializing
      <3>1. PICK id \in KnownIds : id = h[q].id
        BY <2>2 DEF DrivingInv, Drives, Driving
      <3>2. Comp(id)' = Comp(id)
        BY <2>2, <3>1, OthersAreSpared DEF Proceeds, Driving
      <3>3. h'[q] = h[q]
        BY <1>2
      <3>4. h[q].op # "update" => Comp(id).row = h[q].row
        BY <1>0, <2>2, <3>1 DEF LowInv, RowIsCached
      <3> QED  BY <2>1, <3>1, <3>2, <3>3, <3>4 DEF RowIsCached, Comp
    <2>3. CASE h[q].pc \notin Initializing
      BY <1>2, <2>1, <2>3 DEF RowIsCached
    <2> QED  BY <2>2, <2>3
  <1> QED  BY <1>4, <1>6, <1>11, <1>12 DEF LowInv

LEMMA NextLow ==
  ASSUME SeparateClients, EarlyRequests = FALSE, Orphan = {}, ExecMayFail = FALSE, MaxRestarts = 0,
         TypeInv, OrderInv, DrivingInv, WiringInv, OwnedInv, PinsInv, LowInv, [Next]_vars,
         TypeInv', DrivingInv'
  PROVE  LowInv'
  <1>1. CASE GpioStep
    BY <1>1, GpioLow
  <1>2. CASE Restart
    BY <1>2 DEF Restart, TypeInv, TypeOK
  <1>3. CASE UNCHANGED <<gpioVars, cacheVars, h>>
    <2>1. UNCHANGED <<exported, outputs, high, exec, components, objects, h>>
      BY <1>3 DEF gpioVars, cacheVars
    <2>2. KnownIds' = KnownIds /\ \A id \in Id : Comp(id)' = Comp(id)
      BY <1>3, SameCache
    <2>3. \A id \in KnownIds : Settled(id)' = Settled(id)
      BY <2>1, <2>2 DEF Settled, KnownIds
    <2>4. OthersAreSettled' /\ HighAreDriven'
      BY <2>1, <2>2, <2>3 DEF LowInv, OthersAreSettled, HighAreDriven
    <2>5. ASSUME NEW p \in Handlers  PROVE RowIsCached(p)' /\ LineIsLow(p)'
      <3>1. RowIsCached(p)'
        BY <2>1 DEF LowInv, RowIsCached, Comp
      <3>2. LineIsLow(p)'
        BY <2>1 DEF LowInv, LineIsLow, At, Answered, Ok
      <3> QED  BY <3>1, <3>2
    <2> QED  BY <2>4, <2>5 DEF LowInv
  <1> QED  BY <1>1, <1>2, <1>3, NextProceeds, LinesStay, ProceedsLow

LEMMA InitLow == Init => LowInv
  <1> SUFFICES ASSUME Init  PROVE LowInv
    OBVIOUS
  <1>1. KnownIds = {} /\ high = {}
    BY DEF Init, GpioInit, KnownIds, Known
  <1>2. \A p \in Handlers : h[p] \in {Idle, Booting}
    BY DEF Init, Handlers
  <1> QED  BY <1>1, <1>2, IdleType, BootingFields
           DEF LowInv, OthersAreSettled, HighAreDriven, RowIsCached, LineIsLow, At

\* What the lines are wired to, who owns them and which levels they have stand
\* and fall together: that no two requests work on one line follows from all.
LinesInv ==
  /\ TypeInv /\ OrderInv /\ DrivingInv /\ PinsInv
  /\ WiringInv /\ OwnedInv /\ LowInv

LEMMA LinesInvariance ==
  ASSUME SeparateClients, EarlyRequests = FALSE, Contested = FALSE, Orphan = {},
         ExecMayFail = FALSE, MaxRestarts = 0
  PROVE  Spec => []LinesInv
  <1>1. Init => WiringInv /\ OwnedInv /\ LowInv
    BY InitWiring, InitOwned, InitLow
  <1>2. ASSUME LinesInv, [Next]_vars, TypeInv', DrivingInv'
        PROVE  WiringInv' /\ OwnedInv' /\ LowInv'
    <2>1. TypeInv /\ OrderInv /\ DrivingInv /\ PinsInv /\ WiringInv /\ OwnedInv /\ LowInv
      BY <1>2 DEF LinesInv
    <2>2. OwnLines /\ OthersExportNothing /\ ~Restart
      BY <2>1, LinesApart, SilentExportNothing, NoRestart
    <2>3. WiringInv'
      BY <1>2, <2>1, <2>2, NextAchieves
    <2>4. OwnedInv'
      BY <1>2, <2>1, <2>2, NextOwned
    <2>5. LowInv'
      BY <1>2, <2>1, NextLow
    <2> QED  BY <2>3, <2>4, <2>5
  <1>3. LinesInv <=> /\ TypeInv /\ OrderInv /\ DrivingInv /\ PinsInv
                     /\ WiringInv /\ OwnedInv /\ LowInv
    BY DEF LinesInv
  <1> QED  BY <1>1, <1>2, <1>3, DrivingInvariance, PinsInvariance, PTL DEF Spec

\* If clients keep off the components that others work on and off the pins that
\* other components have or are to get, no line is left behind: every component
\* drives the line that its row asks for unless somebody is at work on it, what
\* is high is exported, and what is exported, cleared or given up is in the
\* state that Gpio.init() and unexport() count on. (no restart, and no command
\* that fails without a reason)
THEOREM SeparateLinesAreLow ==
  ASSUME SeparateClients, EarlyRequests = FALSE, Contested = FALSE, Orphan = {},
         ExecMayFail = FALSE, MaxRestarts = 0
  PROVE  Spec => []LowInv
  <1>1. LinesInv => LowInv
    BY DEF LinesInv
  <1> QED  BY <1>1, LinesInvariance, PTL

\* Under the same conditions, no two requests send commands for the same line at
\* a time, and a line that is exported belongs to a component: none leaks.
\* (unexport in updateComponent and removeComponent)
THEOREM SeparateLinesAreOwned ==
  ASSUME SeparateClients, EarlyRequests = FALSE, Contested = FALSE, Orphan = {},
         ExecMayFail = FALSE, MaxRestarts = 0
  PROVE  Spec => [](OwnLines /\ ExportedIsOwned /\ exported \subseteq OwnedLines)
  <1>1. LinesInv => OwnLines /\ ExportedIsOwned /\ exported \subseteq OwnedLines
    BY LinesApart DEF LinesInv, OwnedInv, OwnedLines, ExportedIsOwned
  <1> QED  BY <1>1, LinesInvariance, PTL

\* Under the same conditions, an update that reports success after it rewired a
\* component has done so, whatever other clients do meanwhile. (executeUpdate)
THEOREM SeparateUpdatesRewire ==
  ASSUME SeparateClients, EarlyRequests = FALSE, Contested = FALSE, Orphan = {},
         ExecMayFail = FALSE, MaxRestarts = 0
  PROVE  Spec => OkUpdateRewires
  <1>1. LinesInv => TypeInv /\ OrderInv /\ DrivingInv /\ WiringInv
    BY DEF LinesInv
  <1> QED  BY <1>1, UpdatesRewire, LinesInvariance, PTL DEF Spec, OkUpdateRewires

\* A line is driven low before it is given up, by an update, a removal or not
\* at all: under the same conditions, a line that is high is exported.
\* (updateComponent, "turn off first", and removeComponent)
THEOREM ReleasedLinesAreLow ==
  ASSUME SeparateClients, EarlyRequests = FALSE, Contested = FALSE, Orphan = {},
         ExecMayFail = FALSE, MaxRestarts = 0
  PROVE  Spec => []ReleasedIsLow
  <1>1. LinesInv => ReleasedIsLow
    BY DEF LinesInv, LowInv, HighAreDriven, ReleasedIsLow
  <1> QED  BY <1>1, LinesInvariance, PTL

\* Under the same conditions, a toggle that reports success has driven the line
\* that the row of the component asks for: no update that failed half way, or is
\* still under way, has left the component with another line. (toggleComponent)
THEOREM TogglesDriveTheirLine ==
  ASSUME SeparateClients, EarlyRequests = FALSE, Contested = FALSE, Orphan = {},
         ExecMayFail = FALSE, MaxRestarts = 0
  PROVE  Spec => TogglesItsOwnLine
  <1>1. ASSUME LinesInv, NEW s \in Slot, Toggled(s)
        PROVE  exec[s].line = convertPhysicalPin[PinNumber(Comp(h[s].id).row.physicalPin)]
    <2>1. s \in Handlers /\ h[s].pc = "toggling" /\ DrivingInv /\ LowInv
      BY <1>1 DEF Handlers, Toggled, At, LinesInv
    <2>2. PICK id \in KnownIds : id = h[s].id /\ exec[s].line = Comp(id).gpio.pinNo
      BY <2>1 DEF DrivingInv, Drives, Driving
    <2>3. ASSUME NEW p \in Handlers, h[p].pc \in Initializing  PROVE h[p].id # id
      BY <2>1, <2>2, <2>3 DEF DrivingInv, OwnComponents, Driving
    <2>4. Settled(id)
      BY <2>1, <2>3 DEF LowInv, OthersAreSettled
    <2> QED  BY <2>2, <2>4 DEF Settled, MadeFor, NewGpio
  <1>2. LinesInv /\ [Next]_vars =>
          [\A s \in Slot :
             Toggled(s) /\ answer'.reply = "OK" /\ Known(h[s].id)
               => exec[s].line = convertPhysicalPin[PinNumber(Comp(h[s].id).row.physicalPin)]]_vars
    BY <1>1
  <1> QED  BY <1>2, LinesInvariance, PTL DEF Spec, TogglesItsOwnLine
=============================================================================
