------------------------------ MODULE ServerProofs ------------------------------
(***************************************************************************)
(* Theorems about Server: the listener, the room and the shutdown do not   *)
(* disturb what ComponentsManager promises, and the room is told.          *)
(***************************************************************************)
EXTENDS Server, ComponentsManagerProofs

USE GpioAssumption, ComponentsManagerAssumption, ServerAssumption
    DEF Initializing, tableVars, sentVars

-----------------------------------------------------------------------------
(***************************************************************************)
(* A step of the server is one of the components manager, or one beside it *)
(* that touches the lines and the commands only.                           *)
(***************************************************************************)
Beside ==
  /\ UNCHANGED <<cacheVars, dbVars, bootVars, h>>
  /\ GpioTypeOK'
  /\ answer' = NoAnswer

LEMMA BesideType ==
  ASSUME TypeInv, Beside
  PROVE  TypeInv'
  <1>1. TypeOK'
    BY DEF TypeInv, TypeOK, Beside, cacheVars, dbVars, bootVars
  <1> QED  BY <1>1 DEF TypeInv, CachedAreObjects, KnownIds, Known, Comp, WellFormed, At,
                       Beside, cacheVars

LEMMA BesideOrder ==
  ASSUME OrderInv, Beside
  PROVE  OrderInv'
  BY DEF OrderInv, CachedIsStored, HandedOut, LockedIsStored, DeletedIsUncached,
         InsertedIsPrivate, BootIsAlone, KnownIds, Known, At, Beside, cacheVars, dbVars,
         bootVars

\* The commands of the listener and of the shutdown.
LEMMA IssueType ==
  ASSUME TypeInv, NEW p, NEW verb \in Verb, NEW id \in Id, Known(id),
         Issue(p, verb, Comp(id).gpio.pinNo)
  PROVE  exec' \in [Proc \cup Orphan -> Exec \cup {NoExec}]
  <1>1. Comp(id).gpio.pinNo \in Line
    BY CachedType
  <1> QED  BY <1>1 DEF TypeInv, TypeOK, GpioTypeOK, Issue, Exec

LEMMA ForgetType ==
  ASSUME TypeInv, NEW p, exec' = [exec EXCEPT ![p] = NoExec]
  PROVE  exec' \in [Proc \cup Orphan -> Exec \cup {NoExec}]
  BY DEF TypeInv, TypeOK, GpioTypeOK

LEMMA ExecBeside ==
  ASSUME TypeInv, exec' \in [Proc \cup Orphan -> Exec \cup {NoExec}], UNCHANGED kernel
  PROVE  GpioTypeOK'
  BY DEF TypeInv, TypeOK, GpioTypeOK, kernel

LEMMA PollExec ==
  ASSUME TypeInv, NEW todo \in SUBSET Id, NEW values, Poll(todo, values)
  PROVE  /\ exec' \in [Proc \cup Orphan -> Exec \cup {NoExec}]
         /\ \/ exec' = [exec EXCEPT ![Listener] = NoExec]
            \/ \E line : Issue(Listener, "cat", line)
  <1>1. CASE RoundDone(values) \/ Dies
    BY <1>1, ForgetType DEF RoundDone, Dies
  <1>2. ASSUME NEW id \in todo, Known(id), Issue(Listener, "cat", Comp(id).gpio.pinNo)
        PROVE  exec' \in [Proc \cup Orphan -> Exec \cup {NoExec}]
    BY <1>2, IssueType DEF Verb
  <1> QED  BY <1>1, <1>2 DEF Poll, RoundDone, Dies

LEMMA ListenExec ==
  ASSUME TypeInv, ServerTypeOK, Listen
  PROVE  /\ exec' \in [Proc \cup Orphan -> Exec \cup {NoExec}]
         /\ \/ exec' = [exec EXCEPT ![Listener] = NoExec]
            \/ \E line : Issue(Listener, "cat", line)
            \/ UNCHANGED exec
  <1>1. listener.todo \in SUBSET Id /\ KnownIds \in SUBSET Id
    BY DEF ServerTypeOK, Polling, KnownIds
  <1>2. CASE NextRound
    BY <1>1, <1>2, PollExec DEF NextRound, TypeInv, TypeOK, GpioTypeOK
  <1>3. CASE ValueRead
    BY <1>1, <1>3, PollExec, ForgetType DEF ValueRead, Dies
  <1> QED  BY <1>2, <1>3 DEF Listen

LEMMA UnexportExec ==
  ASSUME TypeInv, NEW c \in Stopper, NEW todo \in SUBSET Id, NEW main,
         Unexport(c, todo, main)
  PROVE  /\ exec' \in [Proc \cup Orphan -> Exec \cup {NoExec}]
         /\ \/ exec' = [exec EXCEPT ![c] = NoExec]
            \/ \E line : Issue(c, "unexport", line)
  <1>1. CASE exec' = [exec EXCEPT ![c] = NoExec]
    BY <1>1, ForgetType
  <1>2. ASSUME NEW id \in todo, Known(id), Issue(c, "unexport", Comp(id).gpio.pinNo)
        PROVE  exec' \in [Proc \cup Orphan -> Exec \cup {NoExec}]
    BY <1>2, IssueType DEF Verb
  <1> QED  BY <1>1, <1>2 DEF Unexport

\* What a "stop" command that has been entered holds.
LEMMA StopperType ==
  ASSUME ServerTypeOK, NEW c \in Stopper, stopper[c] # NoCommand
  PROVE  /\ stopper[c] \in StopCommand
         /\ stopper[c].todo \in SUBSET Id
         /\ stopper[c].main \in {"waiting", "done"}
  BY DEF ServerTypeOK, StopCommand

LEMMA StopExec ==
  ASSUME TypeInv, ServerTypeOK, NEW c \in Stopper, Stop(c) \/ Unexported(c)
  PROVE  /\ exec' \in [Proc \cup Orphan -> Exec \cup {NoExec}]
         /\ \/ exec' = [exec EXCEPT ![c] = NoExec]
            \/ \E line : Issue(c, "unexport", line)
  <1>1. CASE Stop(c)
    BY <1>1, UnexportExec DEF Stop, KnownIds
  <1>2. CASE Unexported(c)
    <2>1. stopper[c] # NoCommand
      BY <1>2 DEF Unexported, NoCommand
    <2> QED  BY <1>2, <2>1, StopperType, UnexportExec DEF Unexported
  <1> QED  BY <1>1, <1>2

LEMMA InputLines ==
  ASSUME NEW line \in InputLine
  PROVE  line \in Line
  BY LineOfPin DEF InputLine

LEMMA ServerStep ==
  ASSUME TypeInv, ServerTypeOK, [ServerNext]_allVars
  PROVE  [Next]_vars \/ Beside
  <1>1. CASE Arrive \/ Proceed \/ Outlive \/ Restart
    BY <1>1 DEF Arrive, Proceed, Outlive, Manage, Next, Work
  <1>2. CASE JoinRoom \/ LeaveRoom \/ Exit \/ Quit
             \/ (\E c \in Stopper : Stopped(c) \/ Prompt(c)) \/ UNCHANGED allVars
    BY <1>2 DEF JoinRoom, LeaveRoom, Exit, Quit, Stopped, Prompt, allVars
  <1>3. CASE Listen
    BY <1>3, ListenExec, ExecBeside DEF Listen, Beside
  <1>4. ASSUME NEW c \in Stopper, Stop(c) \/ Unexported(c)  PROVE Beside
    BY <1>4, StopExec, ExecBeside DEF Stop, Unexported, Beside
  <1>5. ASSUME NEW line \in InputLine, InputChanges(line)  PROVE Beside
    BY <1>5, InputLines DEF InputChanges, Beside, TypeInv, TypeOK, GpioTypeOK
  <1> QED  BY <1>1, <1>2, <1>3, <1>4, <1>5 DEF ServerNext, Shutdown

LEMMA ServerStepType ==
  ASSUME TypeInv, ServerTypeOK, [ServerNext]_allVars
  PROVE  TypeInv'
  BY ServerStep, NextType, BesideType
-----------------------------------------------------------------------------
(***************************************************************************)
(* Each step of the components manager is one of a single request or of    *)
(* init(), which issues no command but its own.                            *)
(***************************************************************************)
Claims(p, handler, verb) ==
  \/ verb \in {"none", "cat"}
  \/ p \in Slot /\ handler.op \in Changing
  \/ p = Boot /\ handler # Idle

\* p goes on to `handler', and awaits a command that it may issue, or none.
MovesTo(p, handler, e) ==
  /\ h' = [h EXCEPT ![p] = handler]
  /\ exec' = [exec EXCEPT ![p] = e]
  /\ Claims(p, handler, e.verb)
  /\ e.verb = "none" => e = NoExec
  /\ p \in Slot => Matches(handler)

Moves(p) == \E handler, e : MovesTo(p, handler, e)

LEMMA AwaitMoves ==
  ASSUME NEW p \in Handlers, NEW handler, NEW verb \in Verb, NEW line,
         Await(p, handler, verb, line), Claims(p, handler, verb),
         p \in Slot => Matches(handler)
  PROVE  Moves(p)
  <1> DEFINE e == [verb |-> verb, line |-> line, out |-> "pending"]
  <1>1. e.verb = verb /\ verb # "none"
    BY DEF Verb
  <1>2. MovesTo(p, handler, e)
    BY <1>1 DEF Await, Issue, MovesTo
  <1> QED  BY <1>2 DEF Moves

LEMMA GotoMoves ==
  ASSUME NEW p \in Handlers, NEW handler, Goto(p, handler),
         p \in Slot => Matches(handler)
  PROVE  Moves(p)
  <1>1. MovesTo(p, handler, NoExec)
    BY DEF Goto, MovesTo, Claims, NoExec
  <1> QED  BY <1>1 DEF Moves

LEMMA FinishMoves ==
  ASSUME NEW p \in Handlers, NEW op, NEW id, NEW reply, Finish(p, op, id, reply)
  PROVE  Moves(p)
  <1>1. MovesTo(p, Idle, NoExec)
    BY IdleType DEF Finish, MovesTo, Claims, NoExec, Matches, Initializing
  <1> QED  BY <1>1 DEF Moves
-----------------------------------------------------------------------------
(***************************************************************************)
(* What such a step tells the room.                                        *)
(***************************************************************************)
\* The room is told; or a request is in progress that will tell it; or there is
\* nothing to tell, and who was going to tell it still is.
Informs ==
  \/ Broadcasts
  \/ \E s \in Slot : h'[s].op \in Changing
  \/ /\ Shown' = Shown
     /\ \A s \in Slot : h[s].op \in Changing => h'[s].op \in Changing

LEMMA ShownStays ==
  ASSUME UNCHANGED <<kernel, cacheVars>>
  PROVE  Shown' = Shown
  BY DEF Shown, Known, Comp, kernel, cacheVars

\* It goes on.
LEMMA AwaitInforms ==
  ASSUME TypeInv, NEW s \in Slot, NEW handler, NEW verb \in Verb, NEW line,
         Await(s, handler, verb, line), handler.op \in Changing,
         Matches(handler)
  PROVE  Moves(s) /\ Informs
  <1>1. Moves(s)
    BY AwaitMoves DEF Handlers, Claims
  <1>2. h'[s] = handler
    BY DEF Await, TypeInv, TypeOK
  <1> QED  BY <1>1, <1>2 DEF Informs

\* It ends with a response.
LEMMA FinishInforms ==
  ASSUME NEW s \in Slot, NEW op \in Changing, NEW id, NEW reply \in Reply \ {"silent"},
         Finish(s, op, id, reply)
  PROVE  Moves(s) /\ Informs
  <1>1. Moves(s)
    BY FinishMoves DEF Handlers
  <1>2. Broadcasts
    BY DEF Finish, Broadcasts, Changing
  <1> QED  BY <1>1, <1>2 DEF Informs

\* It is none of those that have something to tell.
LEMMA OtherInforms ==
  ASSUME TypeInv, NEW s \in Slot, Moves(s), h[s].op \notin Changing, Shown' = Shown
  PROVE  Moves(s) /\ Informs
  <1>1. \A t \in Slot \ {s} : h'[t] = h[t]
    BY DEF Moves, MovesTo, TypeInv, TypeOK
  <1> QED  BY <1>1 DEF Informs

LEMMA IdleChangesNothing == Idle.op \notin Changing
  BY DEF Idle, Changing

LEMMA ToggleInforms ==
  ASSUME TypeInv, NEW s \in Slot, NEW id \in Id, NEW status \in Status,
         Toggle(s, id, status)
  PROVE  Moves(s) /\ Informs
  <1> DEFINE handler == [Idle EXCEPT !.pc = "toggling", !.op = "toggle", !.id = id]
  <1>1. CASE status # "invalid" /\ Await(s, handler, status, Comp(id).gpio.pinNo)
    <2>1. status \in Verb /\ handler.op \in Changing /\ Matches(handler)
      BY <1>1 DEF Status, Verb, Idle, Changing, Matches, Initializing
    <2> QED  BY <1>1, <2>1, AwaitInforms
  <1>2. ASSUME NEW i, NEW reply \in {"OK", "SERVER_ERR", "INVALID_FORMAT"},
               Finish(s, "toggle", i, reply)
        PROVE  Moves(s) /\ Informs
    BY <1>2, FinishInforms DEF Changing, Reply
  <1> QED  BY <1>1, <1>2 DEF Toggle

LEMMA ToggledInforms ==
  ASSUME TypeInv, NEW s \in Slot, Toggled(s)
  PROVE  Moves(s) /\ Informs
  BY FinishInforms DEF Toggled, Changing, Reply

LEMMA UpdateInforms ==
  ASSUME TypeInv, NEW s \in Slot, NEW id \in Id, NEW data \in UpdateData,
         Update(s, id, data)
  PROVE  Moves(s) /\ Informs
  <1> DEFINE handler == [Idle EXCEPT !.op = "update", !.id = id, !.c = components[id],
                                     !.row = Merge(data, Comp(id).row)]
  <1>1. CASE Finish(s, "update", id, "silent") /\ UNCHANGED objects
    <2>1. Shown' = Shown /\ h[s].op \notin Changing
      BY <1>1, ShownStays, IdleChangesNothing DEF Update, Arrives, cacheVars
    <2>2. Moves(s)
      BY <1>1, FinishMoves DEF Handlers
    <2> QED  BY <2>1, <2>2, OtherInforms
  <1>2. CASE Finish(s, "update", id, "OK")
    BY <1>2, FinishInforms DEF Changing, Reply
  <1>3. ASSUME NEW pc \in {"turning off", "unexporting"}, NEW verb \in {"0", "unexport"},
               Await(s, [handler EXCEPT !.pc = pc], verb, Comp(id).gpio.pinNo)
        PROVE  Moves(s) /\ Informs
    <2>1. /\ verb \in Verb /\ [handler EXCEPT !.pc = pc].op \in Changing
          /\ Matches([handler EXCEPT !.pc = pc])
      BY DEF Verb, Idle, Changing, Matches, Initializing
    <2> QED  BY <1>3, <2>1, AwaitInforms
  <1> QED  BY <1>1, <1>2, <1>3 DEF Update

\* A suspended update that goes on.
LEMMA UpdateGoesOn ==
  ASSUME TypeInv, NEW s \in Slot, UpdateTurnedOff(s) \/ UpdateUnexported(s)
  PROVE  Moves(s) /\ Informs
  <1>1. ASSUME NEW pc \in {"unexporting", "exporting"}, NEW verb \in {"unexport", "export"},
               NEW line, Await(s, [h[s] EXCEPT !.pc = pc], verb, line)
        PROVE  Moves(s) /\ Informs
    <2>1. h[s].op = "update" /\ h[s] \in Handler /\ verb \in Verb
      BY HandlerType DEF UpdateTurnedOff, UpdateUnexported, Handlers, Verb
    <2>2. [h[s] EXCEPT !.pc = pc].op = "update" /\ Matches([h[s] EXCEPT !.pc = pc])
      BY <2>1 DEF Handler, Matches
    <2> QED  BY <1>1, <2>1, <2>2, AwaitInforms DEF Changing
  <1>2. CASE Finish(s, "update", h[s].id, "SERVER_ERR")
    BY <1>2, FinishInforms DEF Changing, Reply
  <1> QED  BY <1>1, <1>2 DEF UpdateTurnedOff, UpdateUnexported

LEMMA AddInforms ==
  ASSUME TypeInv, NEW s \in Slot, NEW data, Add(s, data)
  PROVE  Moves(s) /\ Informs
  <1> DEFINE handler == [Idle EXCEPT !.pc = "inserting", !.op = "add", !.row = data]
  <1>1. CASE Goto(s, handler)
    <2>1. handler.op = "add" /\ Matches(handler)
      BY DEF Idle, Matches, Initializing
    <2>2. Moves(s)
      BY <1>1, <2>1, GotoMoves DEF Handlers
    <2>3. h'[s] = handler
      BY <1>1 DEF Goto, TypeInv, TypeOK
    <2> QED  BY <2>1, <2>2, <2>3 DEF Informs, Changing
  <1>2. CASE Finish(s, "add", 0, "INVALID_FORMAT")
    BY <1>2, FinishInforms DEF Changing, Reply
  <1>3. CASE Finish(s, "add", 0, "silent")
    <2>1. Shown' = Shown /\ h[s].op \notin Changing
      BY ShownStays, IdleChangesNothing DEF Add, Arrives
    <2>2. Moves(s)
      BY <1>3, FinishMoves DEF Handlers
    <2> QED  BY <2>1, <2>2, OtherInforms
  <1> QED  BY <1>1, <1>2, <1>3 DEF Add

LEMMA InsertInforms ==
  ASSUME TypeInv, NEW s \in Slot, Insert(s)
  PROVE  Moves(s) /\ Informs
  <1> DEFINE handler == [h[s] EXCEPT !.pc = "inserted", !.id = nextId]
  <1>1. CASE Goto(s, handler)
    <2>1. h[s].op = "add" /\ h[s] \in Handler
      BY HandlerType DEF Insert, Handlers, WellFormed
    <2>2. handler.op = "add" /\ Matches(handler)
      BY <2>1 DEF Handler, Matches, Initializing
    <2>3. Moves(s)
      BY <1>1, <2>2, GotoMoves DEF Handlers
    <2>4. h'[s] = handler
      BY <1>1 DEF Goto, TypeInv, TypeOK
    <2> QED  BY <2>2, <2>3, <2>4 DEF Informs, Changing
  <1>2. CASE Finish(s, "add", 0, "INVALID_FORMAT")
    BY <1>2, FinishInforms DEF Changing, Reply
  <1> QED  BY <1>1, <1>2 DEF Insert

LEMMA InsertedInforms ==
  ASSUME TypeInv, NEW s \in Slot, Inserted(s)
  PROVE  Moves(s) /\ Informs
  <1> DEFINE handler == [h[s] EXCEPT !.pc = "exporting"]
  <1>1. ASSUME NEW line, Await(s, handler, "export", line)
        PROVE  Moves(s) /\ Informs
    <2>1. h[s].op = "add" /\ h[s] \in Handler
      BY HandlerType DEF Inserted, Handlers, WellFormed
    <2>2. handler.op = "add" /\ Matches(handler)
      BY <2>1 DEF Handler, Matches
    <2> QED  BY <1>1, <2>2, AwaitInforms DEF Changing, Verb
  <1>2. CASE Finish(s, "add", h[s].id, "OK")
    BY <1>2, FinishInforms DEF Changing, Reply
  <1> QED  BY <1>1, <1>2 DEF Inserted

LEMMA RemoveInforms ==
  ASSUME TypeInv, NEW s \in Slot, NEW id \in Id,
         Remove(s, id) \/ RemoveTurnedOff(s) \/ RemoveUnexported(s)
  PROVE  Moves(s) /\ Informs
  <1>1. ASSUME NEW i, NEW pc \in {"turning off", "unexporting"},
               NEW verb \in {"0", "unexport"}, NEW line,
               Await(s, [Idle EXCEPT !.pc = pc, !.op = "remove", !.id = i], verb, line)
        PROVE  Moves(s) /\ Informs
    <2> DEFINE handler == [Idle EXCEPT !.pc = pc, !.op = "remove", !.id = i]
    <2>1. verb \in Verb /\ handler.op \in Changing /\ Matches(handler)
      BY DEF Verb, Idle, Changing, Matches, Initializing
    <2> QED  BY <1>1, <2>1, AwaitInforms
  <1>2. ASSUME NEW i, NEW reply \in {"OK", "SERVER_ERR"}, Finish(s, "remove", i, reply)
        PROVE  Moves(s) /\ Informs
    BY <1>2, FinishInforms DEF Changing, Reply
  <1> QED  BY <1>1, <1>2 DEF Remove, RemoveTurnedOff, RemoveUnexported, AwaitUnexport

LEMMA VisitMoves ==
  ASSUME NEW s \in Slot, NEW todo, Visit(s, todo)
  PROVE  Moves(s)
  <1>1. ASSUME NEW id, NEW left, NEW pc \in {"isOn", "readValue"}, NEW line,
               Await(s, [Idle EXCEPT !.pc = pc, !.op = "list", !.id = id, !.todo = left],
                     "cat", line)
        PROVE  Moves(s)
    <2> DEFINE handler == [Idle EXCEPT !.pc = pc, !.op = "list", !.id = id, !.todo = left]
    <2>1. Matches(handler) /\ "cat" \in Verb
      BY DEF Idle, Matches, Initializing, Verb
    <2> QED  BY <1>1, <2>1, AwaitMoves DEF Handlers, Claims
  <1>2. ASSUME NEW reply, Finish(s, "list", 0, reply)  PROVE Moves(s)
    BY <1>2, FinishMoves DEF Handlers
  <1> QED  BY <1>1, <1>2 DEF Visit

LEMMA ListInforms ==
  ASSUME TypeInv, AwaitsMatch, NEW s \in Slot, List(s) \/ Read(s)
  PROVE  Moves(s) /\ Informs
  <1>1. Moves(s)
    BY VisitMoves, FinishMoves DEF List, Read, Handlers
  <1>2. h[s].op \notin Changing
    <2>1. CASE List(s)
      BY <2>1, IdleChangesNothing DEF List, Arrives
    <2>2. CASE Read(s)
      BY <2>2 DEF Read, At, AwaitsMatch, Matches, Changing
    <2> QED  BY <2>1, <2>2
  <1>3. Shown' = Shown
    BY ShownStays DEF List, Read
  <1> QED  BY <1>1, <1>2, <1>3, OtherInforms

LEMMA LoadFromMoves ==
  ASSUME NEW todo, NEW table, LoadFrom(todo, table)
  PROVE  Moves(Boot)
  <1>1. CASE Goto(Boot, Idle)
    BY <1>1, GotoMoves DEF Handlers
  <1>2. ASSUME NEW id, NEW left, NEW row, NEW line,
               Await(Boot, [Idle EXCEPT !.pc = "exporting", !.op = "init", !.id = id,
                                        !.row = row, !.todo = left], "export", line)
        PROVE  Moves(Boot)
    <2> DEFINE handler == [Idle EXCEPT !.pc = "exporting", !.op = "init", !.id = id,
                                       !.row = row, !.todo = left]
    <2>1. handler # Idle
      BY DEF Idle
    <2> QED  BY <1>2, <2>1, AwaitMoves DEF Handlers, Claims, Verb
  <1> QED  BY <1>1, <1>2 DEF LoadFrom

LEMMA SelectMoves ==
  ASSUME Select
  PROVE  Moves(Boot)
  BY LoadFromMoves, GotoMoves DEF Select, Handlers

\* Gpio.init() of init().
LEMMA BootInitMoves ==
  ASSUME TypeInv, InitGpio(Boot)
  PROVE  Moves(Boot)
  <1>1. ASSUME NEW pc \in {"setting direction", "cleaning up"}, NEW verb \in Verb, NEW line,
               Await(Boot, [h[Boot] EXCEPT !.pc = pc], verb, line)
        PROVE  Moves(Boot)
    <2>1. [h[Boot] EXCEPT !.pc = pc] # Idle
      BY HandlerType DEF Idle, Handler, Handlers
    <2> QED  BY <1>1, <2>1, AwaitMoves DEF Handlers, Claims
  <1>2. ASSUME NEW ok \in BOOLEAN, AfterInit(Boot, ok)  PROVE Moves(Boot)
    BY <1>2, LoadFromMoves, FinishMoves DEF AfterInit, Handlers
  <1>3. WiredAs(h[Boot].row) \in Verb
    BY DEF WiredAs, DIR_IN, DIR_OUT, Verb
  <1> QED  BY <1>1, <1>2, <1>3
           DEF InitGpio, Exported, DirectionSet, CleanedUp, At, Initializing, Verb

\* Gpio.init() of a request.
LEMMA InitInforms ==
  ASSUME TypeInv, AwaitsMatch, NEW s \in Slot, InitGpio(s)
  PROVE  Moves(s) /\ Informs
  <1>0. h[s].op \in {"add", "update"} /\ h[s] \in Handler
    BY HandlerType
       DEF InitGpio, Exported, DirectionSet, CleanedUp, At, AwaitsMatch, Matches, Handlers
  <1>1. h[s].op \in {"add", "update"} /\ h[s] \in Handler /\ WiredAs(h[s].row) \in Verb
    BY <1>0 DEF WiredAs, DIR_IN, DIR_OUT, Verb
  <1>2. ASSUME NEW pc \in {"setting direction", "cleaning up"}, NEW verb \in Verb, NEW line,
               Await(s, [h[s] EXCEPT !.pc = pc], verb, line)
        PROVE  Moves(s) /\ Informs
    <2>1. /\ [h[s] EXCEPT !.pc = pc].op \in {"add", "update"}
          /\ [h[s] EXCEPT !.pc = pc].op \in Changing
          /\ Matches([h[s] EXCEPT !.pc = pc])
      BY <1>1 DEF Handler, Matches, Changing
    <2> QED  BY <1>2, <2>1, AwaitInforms
  <1>3. ASSUME NEW ok \in BOOLEAN, AfterInit(s, ok)  PROVE Moves(s) /\ Informs
    <2>1. ASSUME NEW op \in {"add", "update"}, NEW reply \in {"OK", "SERVER_ERR"},
                 Finish(s, op, h[s].id, reply)
          PROVE  Moves(s) /\ Informs
      BY <2>1, FinishInforms DEF Changing, Reply
    <2> QED  BY <1>1, <1>3, <2>1 DEF AfterInit
  <1> QED  BY <1>1, <1>2, <1>3 DEF InitGpio, Exported, DirectionSet, CleanedUp, Verb

LEMMA RequestInforms ==
  ASSUME TypeInv, AwaitsMatch, NEW s \in Slot,
         Request(s) \/ Continue(s) \/ Insert(s) \/ InitGpio(s)
  PROVE  Moves(s) /\ Informs
  <1>1. CASE Request(s)
    BY <1>1, ToggleInforms, UpdateInforms, RemoveInforms, AddInforms, ListInforms
       DEF Request
  <1>2. CASE Continue(s)
    <2>1. CASE RemoveTurnedOff(s) \/ RemoveUnexported(s)
      <3>1. h[s].id \in Id
        BY <2>1, HandlerType DEF RemoveTurnedOff, RemoveUnexported, Handlers, WellFormed
      <3> QED  BY <2>1, <3>1, RemoveInforms
    <2> QED  BY <1>2, <2>1, ToggledInforms, UpdateGoesOn, InsertedInforms, ListInforms DEF Continue
  <1> QED  BY <1>1, <1>2, InsertInforms, InitInforms
-----------------------------------------------------------------------------
(***************************************************************************)
(* Commands are claimed, whoever takes the next step.                      *)
(***************************************************************************)
\* The same, with who may have issued the command that a caller awaits.
Claimed(p) ==
  exec[p].verb \notin {"none", "cat"} =>
     \/ p \in Slot /\ h[p].op \in Changing
     \/ p = Boot /\ h[Boot] # Idle
     \/ p \in Stopper /\ stopping

LEMMA ClaimedIs == CommandsAreClaimed <=> \A p \in Proc : Claimed(p)
  BY DEF CommandsAreClaimed, Claimed

\* Nobody's command changes but that of p.
LEMMA ExecOfOthers ==
  ASSUME TypeInv, NEW p, NEW e, exec' = [exec EXCEPT ![p] = e],
         NEW q \in Proc \cup Orphan, q # p
  PROVE  exec'[q] = exec[q]
  BY DEF TypeInv, TypeOK, GpioTypeOK

LEMMA ExecOfOwn ==
  ASSUME TypeInv, NEW p \in Proc, NEW e, exec' = [exec EXCEPT ![p] = e]
  PROVE  exec'[p] = e
  BY DEF TypeInv, TypeOK, GpioTypeOK

\* A step of a request or of init().
LEMMA MovesCommands ==
  ASSUME TypeInv, CommandInv, NEW p \in Handlers, Moves(p), UNCHANGED <<stopper, stopping>>
  PROVE  CommandInv'
  <1>1. PICK handler, e : MovesTo(p, handler, e)
    BY DEF Moves
  <1>2. /\ h' = [h EXCEPT ![p] = handler] /\ exec' = [exec EXCEPT ![p] = e]
        /\ Claims(p, handler, e.verb) /\ (p \in Slot => Matches(handler))
        /\ p \in Proc /\ p # Listener
    BY <1>1 DEF MovesTo, Handlers
  <1>3. h'[p] = handler /\ \A q \in Handlers \ {p} : h'[q] = h[q]
    BY <1>2 DEF TypeInv, TypeOK, Handlers
  <1>4. ASSUME NEW q \in Proc  PROVE Claimed(q)'
    <2>1. CASE q = p
      BY <1>2, <1>3, <2>1, ExecOfOwn DEF Claimed, Claims
    <2>2. CASE q # p
      <3>1. exec'[q] = exec[q] /\ Claimed(q)
        BY <1>2, <2>2, ExecOfOthers, ClaimedIs DEF CommandInv
      <3> QED  BY <1>3, <2>2, <3>1 DEF Claimed, Handlers
    <2> QED  BY <2>1, <2>2
  <1>5. CommandsAreClaimed'
    BY <1>4 DEF CommandsAreClaimed, Claimed
  <1>6. AwaitsMatch'
    BY <1>2, <1>3 DEF CommandInv, AwaitsMatch, Matches, Handlers
  <1>7. ListenerReads'
    BY <1>2, ExecOfOthers DEF CommandInv, ListenerReads
  <1> QED  BY <1>5, <1>6, <1>7 DEF CommandInv, StopIsEntered

\* A shell runs a command, or its caller stops waiting for it.
LEMMA GpioCommands ==
  ASSUME TypeInv, CommandInv, GpioStep, UNCHANGED <<stopper, stopping>>
  PROVE  CommandInv'
  <1>1. ASSUME NEW p \in Proc, NEW out \in {OutputOf(exec[p]), "undefined"},
               exec[p] \in Exec, exec' = [exec EXCEPT ![p].out = out] \/
               (\E o \in Orphan : exec' = [exec EXCEPT ![o] = exec[p], ![p].out = out])
        PROVE  CommandInv'
    <2>1. \A q \in Proc : exec'[q].verb = exec[q].verb
      BY <1>1 DEF TypeInv, TypeOK, GpioTypeOK, Exec
    <2>2. exec'[Listener].out \in {exec[Listener].out, OutputOf(exec[Listener]), "undefined"}
      BY <1>1 DEF TypeInv, TypeOK, GpioTypeOK, Exec
    <2>3. CASE exec[Listener].verb = "cat"
      <3>1. OutputOf(exec[Listener]) # "true"
        BY <2>3 DEF OutputOf
      <3> QED  BY <2>1, <2>2, <3>1 DEF CommandInv, CommandsAreClaimed, AwaitsMatch, Matches,
                 StopIsEntered, ListenerReads, GpioStep
    <2>4. CASE exec[Listener].verb = "none"
      <3>1. p # Listener
        BY <1>1, <2>4 DEF Exec, Verb
      <3>2. exec'[Listener] = exec[Listener]
        BY <1>1, <3>1 DEF TypeInv, TypeOK, GpioTypeOK
      <3> QED  BY <2>1, <3>2 DEF CommandInv, CommandsAreClaimed, AwaitsMatch, Matches,
                 StopIsEntered, ListenerReads, GpioStep
    <2> QED  BY <2>3, <2>4 DEF CommandInv, ListenerReads
  <1>2. ASSUME NEW p \in Proc, Pending(p)  PROVE exec[p] \in Exec
    BY <1>2 DEF TypeInv, TypeOK, GpioTypeOK, Pending, NoExec
  <1>3. ASSUME NEW p \in Proc, RunCommand(p) \/ Timeout(p)  PROVE CommandInv'
    BY <1>1, <1>2, <1>3 DEF RunCommand, Timeout
  <1>4. ASSUME NEW o \in Orphan, RunOrphan(o)  PROVE CommandInv'
    <2>1. \A q \in Proc : exec'[q] = exec[q]
      BY <1>4 DEF RunOrphan, TypeInv, TypeOK, GpioTypeOK
    <2> QED  BY <2>1 DEF CommandInv, CommandsAreClaimed, AwaitsMatch, Matches,
                 StopIsEntered, ListenerReads, GpioStep
  <1> QED  BY <1>3, <1>4 DEF GpioStep, GpioNext

\* A step of the listener or of a "stop" command.
LEMMA BesideCommands ==
  ASSUME TypeInv, CommandInv, NEW p \in Stopper \cup {Listener},
         \/ exec' = [exec EXCEPT ![p] = NoExec]
         \/ p = Listener /\ \E line : Issue(p, "cat", line)
         \/ p \in Stopper /\ stopping' /\ \E line : Issue(p, "unexport", line)
         \/ UNCHANGED exec,
         stopping => stopping', StopIsEntered', UNCHANGED h
  PROVE  CommandInv'
  <1>1. CASE UNCHANGED exec
    BY <1>1 DEF CommandInv, CommandsAreClaimed, AwaitsMatch, Matches, ListenerReads
  <1>2. ASSUME NEW e, exec' = [exec EXCEPT ![p] = e], e.verb \in {"none", "cat", "unexport"},
               e.verb = "unexport" => p \in Stopper /\ stopping', e.out # "true"
        PROVE  CommandInv'
    <2>1. p \in Proc /\ exec'[p] = e /\ \A q \in Proc \ {p} : exec'[q] = exec[q]
      BY <1>2 DEF TypeInv, TypeOK, GpioTypeOK
    <2> QED  BY <1>2, <2>1 DEF CommandInv, CommandsAreClaimed, AwaitsMatch, Matches,
               ListenerReads
  <1>3. CASE exec' = [exec EXCEPT ![p] = NoExec]
    <2>1. NoExec.verb = "none" /\ NoExec.out # "true"
      BY DEF NoExec
    <2> QED  BY <1>2, <1>3, <2>1
  <1>4. ASSUME NEW line, NEW verb \in {"cat", "unexport"}, Issue(p, verb, line),
               verb = "unexport" => p \in Stopper /\ stopping'
        PROVE  CommandInv'
    <2> DEFINE e == [verb |-> verb, line |-> line, out |-> "pending"]
    <2>1. e.verb = verb /\ e.out # "true" /\ exec' = [exec EXCEPT ![p] = e]
      BY <1>4 DEF Issue
    <2> HIDE DEF e
    <2> QED  BY <1>2, <1>4, <2>1
  <1> QED  BY <1>1, <1>3, <1>4

LEMMA RestartCommands ==
  ASSUME Restart, Started
  PROVE  CommandInv'
  <1>1. \A p \in Proc : exec'[p] = NoExec
    BY DEF Restart
  <1>2. \A s \in Slot : h'[s] = Idle
    BY DEF Restart
  <1>3. \A c \in Stopper : stopper'[c] = NoCommand
    BY DEF Started
  <1>4. NoExec.verb = "none" /\ NoExec.out # "true" /\ Matches(Idle)
    BY DEF NoExec, Matches, Initializing, Idle
  <1>5. CommandsAreClaimed' /\ ListenerReads'
    BY <1>1, <1>4 DEF CommandsAreClaimed, ListenerReads
  <1>6. AwaitsMatch' /\ StopIsEntered'
    BY <1>2, <1>3, <1>4 DEF AwaitsMatch, Matches, StopIsEntered
  <1> QED  BY <1>5, <1>6 DEF CommandInv
-----------------------------------------------------------------------------
(***************************************************************************)
(* The types.                                                              *)
(***************************************************************************)
LEMMA RestingType ==
  ASSUME NEW pc \in {"sleeping", "dead", "stopped"}
  PROVE  Resting(pc) \in Polling
  BY DEF Resting, Polling, NoValues, Values

LEMMA PollType ==
  ASSUME ServerTypeOK, NEW todo \in SUBSET Id, NEW values \in Values, Poll(todo, values)
  PROVE  listener' \in Polling /\ prevValues' \in Values /\ untold' \in BOOLEAN
  <1>1. CASE RoundDone(values)
    BY <1>1, RestingType DEF RoundDone, ServerTypeOK
  <1>2. CASE Dies
    BY <1>2, RestingType DEF Dies, ServerTypeOK
  <1>3. ASSUME NEW id \in todo,
               listener' = [pc |-> "reading", id |-> id, values |-> values,
                            todo |-> {i \in todo : i > id}],
               UNCHANGED <<prevValues, untold>>
        PROVE  listener' \in Polling /\ prevValues' \in Values /\ untold' \in BOOLEAN
    BY <1>3 DEF ServerTypeOK, Polling
  <1> QED  BY <1>1, <1>2, <1>3 DEF Poll

LEMMA ListenType ==
  ASSUME TypeInv, ServerTypeOK, CommandInv, Listen
  PROVE  listener' \in Polling /\ prevValues' \in Values /\ untold' \in BOOLEAN
  <1>1. CASE NextRound
    <2>1. NoValues \in Values /\ KnownIds \in SUBSET Id
      BY DEF NoValues, Values, KnownIds
    <2> QED  BY <1>1, <2>1, PollType, RestingType DEF NextRound, ServerTypeOK
  <1>2. CASE ValueRead
    <2>1. CASE Dies
      BY <2>1, RestingType DEF Dies, ServerTypeOK
    <2>2. CASE Ok(Listener) /\ Poll(listener.todo,
                 [listener.values EXCEPT ![listener.id] = exec[Listener].out])
      <3>1. exec[Listener].out \in {"0", "1"}
        BY <1>2, <2>2 DEF ValueRead, Answered, Output, Ok, CommandInv, ListenerReads
      <3>2. listener.values \in Values /\ listener.todo \in SUBSET Id
        BY DEF ServerTypeOK, Polling
      <3>3. [listener.values EXCEPT ![listener.id] = exec[Listener].out] \in Values
        BY <3>1, <3>2 DEF Values
      <3> QED  BY <2>2, <3>2, <3>3, PollType
    <2> QED  BY <1>2, <2>1, <2>2 DEF ValueRead
  <1> QED  BY <1>1, <1>2 DEF Listen

LEMMA StopType ==
  ASSUME ServerTypeOK, NEW c \in Stopper, Stop(c) \/ Unexported(c)
  PROVE  stopper' \in [Stopper -> StopCommand \cup {NoCommand}]
  <1>1. ASSUME NEW todo \in SUBSET Id, NEW main \in {"waiting", "done"},
               Unexport(c, todo, main)
        PROVE  stopper' \in [Stopper -> StopCommand \cup {NoCommand}]
    BY <1>1 DEF Unexport, ServerTypeOK, StopCommand
  <1>2. CASE Stop(c)
    BY <1>1, <1>2 DEF Stop, KnownIds
  <1>3. CASE Unexported(c)
    <2>1. stopper[c] # NoCommand
      BY <1>3 DEF Unexported, NoCommand
    <2> QED  BY <1>1, <1>3, <2>1, StopperType DEF Unexported
  <1> QED  BY <1>2, <1>3

\* What entering "stop" does to the rest of the command.
LEMMA StopEntered ==
  ASSUME ServerTypeOK, CommandInv, NEW c \in Stopper, Stop(c) \/ Unexported(c)
  PROVE  stopping' /\ StopIsEntered'
  <1>1. stopping'
    <2>1. CASE Stop(c)
      BY <2>1 DEF Stop
    <2>2. CASE Unexported(c)
      <3>1. stopper[c] # NoCommand
        BY <2>2 DEF Unexported, NoCommand
      <3> QED  BY <2>2, <3>1 DEF Unexported, CommandInv, StopIsEntered
    <2> QED  BY <2>1, <2>2
  <1> QED  BY <1>1 DEF StopIsEntered

LEMMA StoppedType ==
  ASSUME ServerTypeOK, CommandInv, NEW c \in Stopper, Stopped(c) \/ Prompt(c)
  PROVE  stopper' \in [Stopper -> StopCommand \cup {NoCommand}] /\ StopIsEntered'
  <1>1. CASE Stopped(c)
    <2>1. stopper[c] # NoCommand
      BY <1>1 DEF Stopped, NoCommand
    <2>2. [stopper[c] EXCEPT !.main = "done"] \in StopCommand
      BY <2>1, StopperType DEF StopCommand
    <2>3. stopper' = [stopper EXCEPT ![c] = [stopper[c] EXCEPT !.main = "done"]]
      BY <1>1 DEF Stopped
    <2>4. stopping /\ UNCHANGED stopping
      BY <1>1, <2>1 DEF Stopped, CommandInv, StopIsEntered
    <2> QED  BY <2>2, <2>3, <2>4 DEF ServerTypeOK, StopIsEntered
  <1>2. CASE Prompt(c)
    BY <1>2 DEF Prompt, ServerTypeOK, CommandInv, StopIsEntered
  <1> QED  BY <1>1, <1>2

\* Steps that leave the commands and the requests alone.
LEMMA CommandsStay ==
  ASSUME CommandInv, UNCHANGED <<exec, h, stopping>>, StopIsEntered'
  PROVE  CommandInv'
  BY DEF CommandInv, CommandsAreClaimed, AwaitsMatch, Matches, ListenerReads

LEMMA WorkMoves ==
  ASSUME TypeInv, CommandInv, (\E s \in Slot : Request(s)) \/ Work,
         UNCHANGED <<stopper, stopping>>
  PROVE  CommandInv'
  <1>1. ASSUME NEW s \in Slot, Request(s) \/ Continue(s) \/ Insert(s) \/ InitGpio(s)
        PROVE  CommandInv'
    BY <1>1, RequestInforms, MovesCommands DEF Handlers, CommandInv
  <1>2. CASE InitGpio(Boot) \/ Select
    BY <1>2, BootInitMoves, SelectMoves, MovesCommands DEF Handlers
  <1>3. ASSUME NEW w \in writes, ExecuteWrite(w)  PROVE CommandInv'
    BY <1>3, CommandsStay DEF ExecuteWrite, gpioVars, CommandInv, StopIsEntered
  <1>4. ASSUME NEW id \in uncommitted, CommitInsert(id) \/ LoseInsert(id)
        PROVE  CommandInv'
    BY <1>4, CommandsStay DEF CommitInsert, LoseInsert, gpioVars, CommandInv, StopIsEntered
  <1> QED  BY <1>1, <1>2, <1>3, <1>4, GpioCommands DEF Work

ServerTypeInv == TypeInv /\ ServerTypeOK /\ CommandInv

LEMMA ServerInitType == ServerInit => ServerTypeInv
  <1> SUFFICES ASSUME ServerInit  PROVE ServerTypeInv
    OBVIOUS
  <1>1. TypeInv
    BY InitType DEF ServerInit
  <1>2. ServerTypeOK
    BY <1>1, RestingType DEF ServerInit, ServerTypeOK, TypeInv, NoValues, Values
  <1>3. /\ \A p \in Proc : exec[p] = NoExec
        /\ \A s \in Slot : h[s] = Idle
        /\ \A c \in Stopper : stopper[c] = NoCommand
    BY DEF ServerInit, Init, GpioInit
  <1>4. NoExec.verb = "none" /\ NoExec.out # "true" /\ Matches(Idle)
    BY DEF NoExec, Matches, Initializing, Idle
  <1>5. CommandInv
    BY <1>3, <1>4 DEF CommandInv, CommandsAreClaimed, ListenerReads, AwaitsMatch, StopIsEntered
  <1> QED  BY <1>1, <1>2, <1>5 DEF ServerTypeInv

LEMMA ServerNextType == ServerTypeInv /\ [ServerNext]_allVars => ServerTypeInv'
  <1> SUFFICES ASSUME TypeInv, ServerTypeOK, CommandInv, [ServerNext]_allVars
               PROVE  ServerTypeOK' /\ CommandInv'
    BY ServerStepType DEF ServerTypeInv
  <1>0. TypeOK'
    BY ServerStepType DEF TypeInv
  <1>1. CASE Arrive \/ Proceed
    <2>1. UNCHANGED <<listener, prevValues, joined, shutdownVars>> /\ untold' \in BOOLEAN
      BY <1>1 DEF Arrive, Proceed, Manage, Tell
    <2>2. CommandInv'
      BY <1>1, <2>1, WorkMoves DEF Arrive, Proceed, Manage, shutdownVars, stopVars
    <2> QED  BY <1>0, <2>1, <2>2 DEF ServerTypeOK, shutdownVars, stopVars
  <1>2. CASE JoinRoom \/ LeaveRoom \/ Exit \/ Quit \/ UNCHANGED allVars
    <2>1. UNCHANGED <<exec, h, listener, prevValues, stopVars>>
      BY <1>2 DEF JoinRoom, LeaveRoom, Exit, Quit, allVars, serverVars, shutdownVars, vars,
                  gpioVars
    <2>2. /\ joined' \in BOOLEAN /\ untold' \in BOOLEAN
          /\ exiting' \in BOOLEAN /\ exitCode' \in {"none", "0", "1"}
      BY <1>2 DEF JoinRoom, LeaveRoom, Exit, Quit, allVars, serverVars, shutdownVars,
                  ServerTypeOK
    <2>3. CommandInv'
      BY <2>1, CommandsStay DEF CommandInv, StopIsEntered, stopVars
    <2> QED  BY <1>0, <2>1, <2>2, <2>3 DEF ServerTypeOK, stopVars
  <1>3. CASE Listen
    <2>1. UNCHANGED <<h, joined, shutdownVars>>
      BY <1>3 DEF Listen
    <2>2. CommandInv'
      BY <1>3, <2>1, ListenExec, BesideCommands
         DEF CommandInv, StopIsEntered, shutdownVars, stopVars
    <2> QED  BY <1>0, <1>3, <2>1, <2>2, ListenType DEF ServerTypeOK, shutdownVars, stopVars
  <1>4. ASSUME NEW c \in Stopper, Stop(c) \/ Unexported(c)
        PROVE  ServerTypeOK' /\ CommandInv'
    <2>1. CommandInv'
      BY <1>4, StopExec, StopEntered, BesideCommands DEF Stop, Unexported
    <2>2. stopper' \in [Stopper -> StopCommand \cup {NoCommand}]
      BY <1>4, StopType
    <2>3. calm' \in BOOLEAN
      BY <1>4 DEF Stop, Unexported, ServerTypeOK
    <2>4. /\ UNCHANGED <<listener, prevValues, stoppedProperly, exiting, exitCode>>
          /\ joined' \in BOOLEAN /\ untold' \in BOOLEAN /\ stopping' \in BOOLEAN
      BY <1>4 DEF Stop, Unexported, ServerTypeOK
    <2> QED  BY <1>0, <2>1, <2>2, <2>3, <2>4 DEF ServerTypeOK
  <1>5. ASSUME NEW c \in Stopper, Stopped(c) \/ Prompt(c)
        PROVE  ServerTypeOK' /\ CommandInv'
    <2>1. /\ UNCHANGED <<exec, h, listener, prevValues, joined, untold, stopping, calm,
                         exiting, exitCode>>
          /\ stoppedProperly' \in BOOLEAN
      BY <1>5 DEF Stopped, Prompt, vars, gpioVars, ServerTypeOK
    <2>2. stopper' \in [Stopper -> StopCommand \cup {NoCommand}] /\ StopIsEntered'
      BY <1>5, StoppedType
    <2>3. CommandInv'
      BY <2>1, <2>2, CommandsStay
    <2> QED  BY <1>0, <2>1, <2>2, <2>3 DEF ServerTypeOK
  <1>6. ASSUME NEW line \in InputLine, InputChanges(line)
        PROVE  ServerTypeOK' /\ CommandInv'
    <2>1. UNCHANGED <<exec, h, serverVars>>
      BY <1>6 DEF InputChanges
    <2>2. CommandInv'
      BY <2>1, CommandsStay DEF CommandInv, StopIsEntered, serverVars, shutdownVars, stopVars
    <2> QED  BY <1>0, <2>1, <2>2 DEF ServerTypeOK, serverVars, shutdownVars, stopVars
  <1>7. CASE Outlive
    <2>1. UNCHANGED <<h, serverVars>> /\ GpioStep
      BY <1>7 DEF Outlive, GpioStep
    <2>2. CommandInv'
      BY <2>1, GpioCommands DEF serverVars, shutdownVars, stopVars
    <2> QED  BY <1>0, <2>1, <2>2 DEF ServerTypeOK, serverVars, shutdownVars, stopVars
  <1>8. CASE Restart /\ Started
    BY <1>0, <1>8, RestartCommands, RestingType DEF Started, ServerTypeOK, NoValues, Values
  <1> QED  BY <1>1, <1>2, <1>3, <1>4, <1>5, <1>6, <1>7, <1>8 DEF ServerNext, Shutdown

\* No interleaving of requests, rounds of the listener, "stop" commands, the end
\* of the process and restarts gives a variable a value of the wrong shape: what
\* the listener stores is what a line can read. (startListener,
\* getINComponentsValues, onStop)
THEOREM ServerTypeCorrectness == ServerSpec => []ServerTypeOK
  <1>1. ServerTypeInv => ServerTypeOK
    BY DEF ServerTypeInv
  <1> QED  BY <1>1, ServerInitType, ServerNextType, PTL DEF ServerSpec
-----------------------------------------------------------------------------
(***************************************************************************)
(* What ComponentsManager promises holds for the running server.           *)
(***************************************************************************)
LEMMA ServerNextOrder ==
  ASSUME EarlyRequests = FALSE
  PROVE  ServerTypeInv /\ OrderInv /\ [ServerNext]_allVars => OrderInv'
  BY ServerStep, NextOrder, BesideOrder DEF ServerTypeInv

LEMMA ServerInitOrder ==
  ASSUME EarlyRequests = FALSE
  PROVE  ServerInit => OrderInv
  BY InitOrder DEF ServerInit

\* Neither the listener nor a shutdown, with requests in progress or not, makes
\* clients see a component that has no row, but for one whose INSERT was undone after
\* the answer. (onStop, getINComponentsValues)
THEOREM ServedComponentsAreStored ==
  ASSUME EarlyRequests = FALSE
  PROVE  ServerSpec => []CachedIsStored
  <1>1. OrderInv => CachedIsStored
    BY DEF OrderInv
  <1> QED  BY <1>1, ServerInitType, ServerNextType, ServerInitOrder, ServerNextOrder, PTL
              DEF ServerSpec

\* The running server implements ComponentLifecycle, as its components manager
\* does: the rest of it neither creates, drops nor deletes an id.
THEOREM ServerImplementsLifecycle ==
  ASSUME EarlyRequests = FALSE
  PROVE  ServerSpec => FollowsLifecycle
  <1>1. ServerInit => Lifecycle!Init
    BY DEF ServerInit, Init, Lifecycle!Init, life, StageOf, Known, Deletes
  <1>2. ASSUME ServerTypeInv, OrderInv, [ServerNext]_allVars  PROVE LifeStep
    <2>1. CASE [Next]_vars
      BY <1>2, <2>1, NextLife DEF ServerTypeInv
    <2>2. CASE Beside
      BY <2>2, UnchangedLife DEF Beside, cacheVars, dbVars
    <2> QED  BY <1>2, <2>1, <2>2, ServerStep DEF ServerTypeInv
  <1>3. ServerTypeInv /\ OrderInv /\ [ServerNext]_allVars
          => [Lifecycle!Next]_<<life, uncommitted>>
    BY <1>2 DEF LifeStep
  <1> QED  BY <1>1, <1>3, ServerInitType, ServerNextType, ServerInitOrder, ServerNextOrder,
              PTL DEF ServerSpec, FollowsLifecycle, Lifecycle!Spec

LEMMA ServerNextFollow ==
  ASSUME EarlyRequests = FALSE
  PROVE  ServerTypeInv /\ OrderInv /\ FollowInv /\ [ServerNext]_allVars => FollowInv'
  BY ServerStep, NextFollow, ElsewhereFollow DEF ServerTypeInv, Beside, cacheVars, dbVars

\* The listener and the shutdown change neither what the cache says nor what the table
\* says of a component: the two differ in the running server only where an UPDATE was
\* overtaken, refused or lost. (executeUpdate, getINComponentsValues, onStop)
THEOREM ServerTableAgreesWithCache ==
  ASSUME EarlyRequests = FALSE
  PROVE  ServerSpec => []TableFollowsCache
  <1>1. ServerInit => FollowInv
    BY BootingFollow DEF ServerInit, Init, Known
  <1>2. FollowInv => TableFollowsCache
    BY DEF FollowInv, RowFollows, TableFollowsCache
  <1> QED  BY <1>1, <1>2, ServerInitType, ServerNextType, ServerInitOrder, ServerNextOrder,
              ServerNextFollow, PTL DEF ServerSpec

LEMMA ServerNextAccount ==
  ASSUME EarlyRequests = FALSE, DbMayFail = FALSE
  PROVE  ServerTypeInv /\ OrderInv /\ AccountInv /\ [ServerNext]_allVars => AccountInv'
  BY ServerStep, NextAccount, ElsewhereAccount DEF ServerTypeInv, Beside, cacheVars, dbVars

\* The running server forgets no row, however many clients it has, and whatever
\* the listener and the shutdown do meanwhile, but for one whose pin addComponent
\* could not drive as it was given. (addComponent, removeComponent)
THEOREM ServerForgetsNoRow ==
  ASSUME EarlyRequests = FALSE, DbMayFail = FALSE
  PROVE  ServerSpec => []StoredIsAccountedFor
  <1>1. ServerInit => AccountInv
    BY BootingAccount DEF ServerInit, Init
  <1>2. AccountInv => StoredIsAccountedFor
    BY DEF AccountInv
  <1> QED  BY <1>1, <1>2, ServerInitType, ServerNextType, ServerInitOrder, ServerNextOrder,
              ServerNextAccount, PTL DEF ServerSpec
-----------------------------------------------------------------------------
(***************************************************************************)
(* The room is told.  From here on no command outlives its caller's wait,  *)
(* and no request comes before init() has finished.                        *)
(***************************************************************************)
\* A command that changes a line belongs to a request that will tell the room.
LEMMA GpioInforms ==
  ASSUME Orphan = {}, TypeInv, CommandInv, h[Boot] = Idle, ~stopping, GpioStep
  PROVE  Informs
  <1>1. UNCHANGED <<h, cacheVars>>
    BY DEF GpioStep
  <1>2. CASE UNCHANGED kernel
    BY <1>1, <1>2, ShownStays DEF Informs
  <1>3. ASSUME NEW p \in Proc, Pending(p), Perform(exec[p])  PROVE Informs
    <2>1. CASE exec[p].verb = "cat"
      BY <1>2, <1>3, <2>1 DEF Perform, kernel
    <2>2. CASE exec[p].verb # "cat"
      <3>1. exec[p].verb # "none"
        BY <1>3 DEF TypeInv, TypeOK, GpioTypeOK, Pending, Exec, Verb, NoExec
      <3>2. p \in Slot /\ h[p].op \in Changing
        BY <2>2, <3>1 DEF CommandInv, CommandsAreClaimed
      <3> QED  BY <1>1, <3>2 DEF Informs
    <2> QED  BY <2>1, <2>2
  <1> QED  BY <1>2, <1>3 DEF GpioStep, GpioNext, RunCommand, Timeout, Pending

LEMMA WorkInforms ==
  ASSUME Orphan = {}, TypeInv, CommandInv, h[Boot] = Idle, ~stopping,
         (\E s \in Slot : Request(s)) \/ Work
  PROVE  Informs /\ h'[Boot] = Idle
  <1>1. ASSUME NEW s \in Slot, Request(s) \/ Continue(s) \/ Insert(s) \/ InitGpio(s)
        PROVE  Informs /\ h'[Boot] = Idle
    <2>1. Moves(s) /\ Informs
      BY <1>1, RequestInforms DEF CommandInv
    <2>2. h'[Boot] = h[Boot]
      BY <2>1 DEF Moves, MovesTo, TypeInv, TypeOK
    <2> QED  BY <2>1, <2>2
  <1>2. ~InitGpio(Boot) /\ ~Select
    BY IdleType DEF InitGpio, Exported, DirectionSet, CleanedUp, Select, At
  <1>3. ASSUME NEW w \in writes, ExecuteWrite(w)  PROVE Informs /\ h'[Boot] = Idle
    BY <1>3, ShownStays DEF ExecuteWrite, gpioVars, kernel, Informs
  <1>4. CASE GpioStep
    BY <1>4, GpioInforms DEF GpioStep
  <1>5. ASSUME NEW id \in uncommitted, CommitInsert(id) \/ LoseInsert(id)
        PROVE  Informs /\ h'[Boot] = Idle
    BY <1>5, ShownStays DEF CommitInsert, LoseInsert, gpioVars, kernel, Informs
  <1> QED  BY <1>1, <1>2, <1>3, <1>4, <1>5 DEF Work

LEMMA ManageRoom ==
  ASSUME RoomInv, UNCHANGED <<joined, stopping>>, Tell(Broadcasts),
         joined => Informs /\ h'[Boot] = Idle
  PROVE  RoomInv'
  <1> SUFFICES ASSUME joined, untold'  PROVE \E s \in Slot : h'[s].op \in Changing
    BY DEF RoomInv
  <1>1. ~Broadcasts /\ (untold \/ Shown' # Shown)
    BY DEF Tell
  <1>2. CASE \E s \in Slot : h'[s].op \in Changing
    BY <1>2
  <1>3. CASE /\ Shown' = Shown
             /\ \A s \in Slot : h[s].op \in Changing => h'[s].op \in Changing
    BY <1>1, <1>3 DEF RoomInv
  <1> QED  BY <1>1, <1>2, <1>3 DEF Informs

\* Steps that tell the room nothing new, and leave it as it is.
LEMMA RoomStays ==
  ASSUME RoomInv, UNCHANGED <<joined, stopping, h>>, untold' => untold
  PROVE  RoomInv'
  BY DEF RoomInv

LEMMA ServerNextRoom ==
  ASSUME EarlyRequests = FALSE, Orphan = {}
  PROVE  ServerTypeInv /\ RoomInv /\ [ServerNext]_allVars => RoomInv'
  <1> SUFFICES ASSUME TypeInv, CommandInv, RoomInv, [ServerNext]_allVars  PROVE RoomInv'
    BY DEF ServerTypeInv
  <1>1. CASE Arrive \/ Proceed
    <2>1. joined => Informs /\ h'[Boot] = Idle
      BY <1>1, WorkInforms DEF RoomInv, Arrive, Proceed, Manage
    <2> QED  BY <1>1, <2>1, ManageRoom DEF Arrive, Proceed, Manage, shutdownVars, stopVars
  <1>2. CASE JoinRoom
    BY <1>2 DEF JoinRoom, RoomInv, vars, shutdownVars, stopVars
  <1>3. CASE LeaveRoom \/ (\E c \in Stopper : Stop(c)) \/ (Restart /\ Started)
    BY <1>3 DEF LeaveRoom, Stop, Started, RoomInv
  <1>4. CASE Listen
    <2>1. untold' => untold
      BY <1>4 DEF Listen, NextRound, ValueRead, Poll, RoundDone, Dies
    <2> QED  BY <1>4, <2>1, RoomStays DEF Listen, shutdownVars, stopVars
  <1>5. CASE \/ \E c \in Stopper : Unexported(c) \/ Stopped(c) \/ Prompt(c)
             \/ Exit \/ Quit \/ Outlive \/ (\E line \in InputLine : InputChanges(line))
             \/ UNCHANGED allVars
    <2>1. UNCHANGED <<joined, stopping, h, untold>>
      BY <1>5 DEF Unexported, Stopped, Prompt, Exit, Quit, Outlive, InputChanges, GpioStep,
                  allVars, vars, serverVars, shutdownVars, stopVars
    <2> QED  BY <2>1, RoomStays
  <1> QED  BY <1>1, <1>2, <1>3, <1>4, <1>5 DEF ServerNext, Shutdown

LEMMA RoomInvariance ==
  ASSUME EarlyRequests = FALSE, Orphan = {}
  PROVE  ServerSpec => [](ServerTypeInv /\ RoomInv)
  <1>1. ServerInit => RoomInv
    BY DEF ServerInit, RoomInv
  <1> QED  BY <1>1, ServerInitType, ServerNextType, ServerNextRoom, PTL DEF ServerSpec

\* A command that writes belongs to somebody who is still at work, and what the
\* room has not been told of, a request in progress will tell it. (cmdOutput,
\* io.in(componentsRoom).emit)
THEOREM CommandsAndRoomAreInOrder ==
  ASSUME EarlyRequests = FALSE, Orphan = {}
  PROVE  ServerSpec => []ServerInv
  <1>1. ServerTypeInv /\ RoomInv => ServerInv
    BY DEF ServerTypeInv, ServerInv
  <1> QED  BY <1>1, RoomInvariance, PTL

\* When no request is in progress, the members of the room have been told of
\* every change: of what a request changed before it failed, too, and whatever
\* other requests told them meanwhile. (io.in(componentsRoom).emit)
THEOREM RoomIsTold ==
  ASSUME EarlyRequests = FALSE, Orphan = {}
  PROVE  ServerSpec => []MembersAreTold
  <1>1. RoomInv => MembersAreTold
    BY IdleChangesNothing DEF RoomInv, MembersAreTold
  <1> QED  BY <1>1, RoomInvariance, PTL
=============================================================================
