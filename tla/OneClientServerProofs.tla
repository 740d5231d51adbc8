------------------------- MODULE OneClientServerProofs -------------------------
(***************************************************************************)
(* Theorems about the running server: whatever the listener and the        *)
(* shutdown do, no row is forgotten, the table keeps agreeing with the     *)
(* cache if clients keep off each other's components and, with one client, *)
(* no line leaks; and a stop that finds the server at rest releases the    *)
(* lines.                                                                  *)
(***************************************************************************)
EXTENDS ServerProofs, OneClientProofs

USE GpioAssumption, ComponentsManagerAssumption, ServerAssumption

-----------------------------------------------------------------------------
(***************************************************************************)
(* Beside the components manager, lines are read and unexported only.      *)
(***************************************************************************)
Aside ==
  /\ UNCHANGED <<exported, outputs, cacheVars, dbVars, bootVars, h>>
  /\ \A p \in Handlers : exec'[p] = exec[p]
  /\ \A q \in Proc \ Handlers :
        exec'[q] = exec[q] \/ exec'[q].verb \in {"none", "cat", "unexport"}

\* Only the command of somebody else than a request or init() changes.
LEMMA OtherCommand ==
  ASSUME TypeInv, NEW p \in Proc \ Handlers, NEW e, exec' = [exec EXCEPT ![p] = e],
         e.verb \in {"none", "cat", "unexport"}
  PROVE  /\ \A q \in Handlers : exec'[q] = exec[q]
         /\ \A q \in Proc \ Handlers :
               exec'[q] = exec[q] \/ exec'[q].verb \in {"none", "cat", "unexport"}
  BY DEF TypeInv, TypeOK, GpioTypeOK, Handlers

LEMMA OtherIssues ==
  ASSUME TypeInv, NEW p \in Proc \ Handlers, NEW verb \in {"cat", "unexport"}, NEW line,
         Issue(p, verb, line)
  PROVE  /\ \A q \in Handlers : exec'[q] = exec[q]
         /\ \A q \in Proc \ Handlers :
               exec'[q] = exec[q] \/ exec'[q].verb \in {"none", "cat", "unexport"}
  <1> DEFINE e == [verb |-> verb, line |-> line, out |-> "pending"]
  <1>1. exec' = [exec EXCEPT ![p] = e] /\ e.verb \in {"none", "cat", "unexport"}
    BY DEF Issue
  <1> HIDE DEF e
  <1> QED  BY <1>1, OtherCommand

LEMMA OtherForgets ==
  ASSUME TypeInv, NEW p \in Proc \ Handlers, exec' = [exec EXCEPT ![p] = NoExec]
  PROVE  /\ \A q \in Handlers : exec'[q] = exec[q]
         /\ \A q \in Proc \ Handlers :
               exec'[q] = exec[q] \/ exec'[q].verb \in {"none", "cat", "unexport"}
  <1>1. NoExec.verb = "none"
    BY DEF NoExec
  <1> QED  BY <1>1, OtherCommand

LEMMA ListenAside ==
  ASSUME TypeInv, ServerTypeOK, Listen
  PROVE  Aside
  <1>1. Listener \in Proc \ Handlers
    BY DEF Handlers
  <1>2. /\ \A p \in Handlers : exec'[p] = exec[p]
        /\ \A q \in Proc \ Handlers :
              exec'[q] = exec[q] \/ exec'[q].verb \in {"none", "cat", "unexport"}
    BY <1>1, ListenExec, OtherForgets, OtherIssues
  <1> QED  BY <1>2 DEF Aside, Listen, kernel

LEMMA StopAside ==
  ASSUME TypeInv, ServerTypeOK, NEW c \in Stopper, Stop(c) \/ Unexported(c)
  PROVE  Aside
  <1>1. c \in Proc \ Handlers
    BY DEF Handlers
  <1>2. /\ \A p \in Handlers : exec'[p] = exec[p]
        /\ \A q \in Proc \ Handlers :
              exec'[q] = exec[q] \/ exec'[q].verb \in {"none", "cat", "unexport"}
    BY <1>1, StopExec, OtherForgets, OtherIssues
  <1> QED  BY <1>2 DEF Aside, Stop, Unexported, kernel

\* A step of the server is one of the components manager, or one aside.
LEMMA ServerStepAside ==
  ASSUME TypeInv, ServerTypeOK, [ServerNext]_allVars
  PROVE  [Next]_vars \/ Aside
  <1>1. CASE Arrive \/ Proceed \/ Outlive \/ Restart
    BY <1>1 DEF Arrive, Proceed, Outlive, Manage, Next, Work
  <1>2. CASE JoinRoom \/ LeaveRoom \/ Exit \/ Quit
             \/ (\E c \in Stopper : Stopped(c) \/ Prompt(c)) \/ UNCHANGED allVars
    BY <1>2 DEF JoinRoom, LeaveRoom, Exit, Quit, Stopped, Prompt, allVars
  <1>3. ASSUME NEW line \in InputLine, InputChanges(line)  PROVE Aside
    BY <1>3 DEF InputChanges, Aside
  <1> QED  BY <1>1, <1>2, <1>3, ListenAside, StopAside DEF ServerNext, Shutdown
-----------------------------------------------------------------------------
(***************************************************************************)
(* Commands keep driving the components of their requests.                 *)
(***************************************************************************)
LEMMA AsideDrives ==
  ASSUME DrivingInv, Aside
  PROVE  DrivingInv'
  <1>1. RefsAreOwn'
    BY SameCache DEF DrivingInv, Aside
  <1>2. ASSUME NEW p \in Handlers  PROVE Drives(p)'
    <2>1. exec'[p] = exec[p] /\ UNCHANGED <<h, components, objects>>
      BY DEF Aside, cacheVars
    <2>2. VerbsAt(p)' = VerbsAt(p) /\ KnownIds' = KnownIds
      BY <2>1 DEF VerbsAt, At, KnownIds, Known
    <2> QED  BY <2>1, <2>2 DEF DrivingInv, Drives, Comp
  <1>3. OwnComponents'
    BY DEF DrivingInv, OwnComponents, Aside
  <1> QED  BY <1>1, <1>2, <1>3 DEF DrivingInv

LEMMA ServerNextDrives ==
  ASSUME SeparateClients, EarlyRequests = FALSE
  PROVE  ServerTypeInv /\ OrderInv /\ DrivingInv /\ [ServerNext]_allVars => DrivingInv'
  BY ServerStepAside, NextDrives, AsideDrives DEF ServerTypeInv

LEMMA ServerInitDrives == ServerInit => DrivingInv
  <1> SUFFICES ASSUME ServerInit  PROVE DrivingInv
    OBVIOUS
  <1>1. \A id \in Id : components[id] = Undefined
    BY DEF ServerInit, Init
  <1>2. \A p \in Handlers : h[p] \in {Idle, Booting} /\ exec[p] = NoExec
    BY DEF ServerInit, Init, GpioInit, Handlers
  <1> QED  BY <1>1, <1>2, NothingDrives

-----------------------------------------------------------------------------
(***************************************************************************)
(* No line leaks.                                                          *)
(***************************************************************************)
LEMMA NextExportsNothing ==
  ASSUME EarlyRequests = FALSE, TypeInv, OrderInv, DrivingInv,
         OthersExportNothing, [Next]_vars
  PROVE  OthersExportNothing'
  <1>1. ASSUME NEW p \in Handlers, GoesOn(p)  PROVE OthersExportNothing'
    <2>1. \A q \in Proc \ Handlers : exec'[q] = exec[q]
      BY <1>1 DEF GoesOn, TypeInv, TypeOK, GpioTypeOK
    <2> QED  BY <2>1 DEF OthersExportNothing
  <1>2. CASE GpioStep
    <2>1. \A q \in Proc : exec'[q].verb = exec[q].verb
      BY <1>2 DEF GpioStep, TypeInv, TypeOK, GpioTypeOK, GpioNext, RunCommand, Timeout, RunOrphan,
                  Exec, NoExec
    <2> QED  BY <2>1 DEF OthersExportNothing
  <1>3. CASE Restart
    <2>1. \A q \in Proc : exec'[q] = NoExec
      BY <1>3 DEF Restart
    <2> QED  BY <2>1 DEF OthersExportNothing, NoExec
  <1>4. CASE UNCHANGED exec
    BY <1>4 DEF OthersExportNothing
  <1> QED  BY <1>1, <1>2, <1>3, <1>4, NextProceeds, LinesStay DEF Proceeds, gpioVars

LEMMA AsideExportsNothing ==
  ASSUME OthersExportNothing, Aside
  PROVE  OthersExportNothing'
  BY DEF OthersExportNothing, Aside

LEMMA AsideOwned ==
  ASSUME OwnedInv, Aside
  PROVE  OwnedInv'
  <1>1. KnownIds' = KnownIds /\ OwnedLines' = OwnedLines /\ UNCHANGED <<h, exported>>
    BY DEF Aside, cacheVars, OwnedLines, KnownIds, Known, Comp
  <1> QED  BY <1>1 DEF OwnedInv, Aside, At, Answered

\* Unless the server has crashed before, when lines of the time before may be
\* left.
ReleasingInv == DrivingInv /\ OthersExportNothing /\ (restarts = 0 => OwnedInv)

LEMMA ServerNextLines ==
  ASSUME OneClient, EarlyRequests = FALSE, Orphan = {}, ExecMayFail = FALSE
  PROVE  ServerTypeInv /\ OrderInv /\ ReleasingInv /\ [ServerNext]_allVars => ReleasingInv'
  <1> SUFFICES ASSUME ServerTypeInv, OrderInv, ReleasingInv, [ServerNext]_allVars
               PROVE  ReleasingInv'
    OBVIOUS
  <1>1. TypeInv /\ ServerTypeOK /\ SeparateClients /\ OwnLines
    BY OneClientLines DEF ServerTypeInv, SeparateClients
  <1>2. DrivingInv' /\ OthersExportNothing'
    BY <1>1, ServerNextDrives, ServerStepAside, NextExportsNothing, AsideExportsNothing DEF ReleasingInv
  <1>3. ASSUME restarts' = 0  PROVE OwnedInv'
    <2>1. restarts = 0 /\ ~Restart
      <3>1. restarts \in Nat
        BY <1>1 DEF TypeInv, TypeOK
      <3>2. ~Restart
        BY <1>3, <3>1 DEF Restart
      <3>3. UNCHANGED restarts
        <4>1. CASE Aside
          BY <4>1 DEF Aside, bootVars
        <4>2. CASE [Next]_vars
          BY <3>2, <4>2 DEF Next, vars, bootVars, Request, Toggle, Update, Remove, Add, List,
             Work, Continue, Insert, Toggled, UpdateTurnedOff, UpdateUnexported, Inserted,
             RemoveTurnedOff, RemoveUnexported, Read, InitGpio, Exported, DirectionSet,
             CleanedUp, Select, ExecuteWrite, CommitInsert, LoseInsert, GpioStep
        <4> QED  BY <1>1, <4>1, <4>2, ServerStepAside
      <3> QED  BY <1>3, <3>2, <3>3
    <2> QED  BY <1>1, <2>1, ServerStepAside, NextOwned, AsideOwned DEF ReleasingInv
  <1> QED  BY <1>2, <1>3 DEF ReleasingInv

LEMMA ServerInitLines == ServerInit => ReleasingInv
  <1> SUFFICES ASSUME ServerInit  PROVE ReleasingInv
    OBVIOUS
  <1>1. Init /\ \A p \in Proc : exec[p] = NoExec
    BY DEF ServerInit, Init, GpioInit
  <1>2. DrivingInv
    BY ServerInitDrives
  <1>3. OthersExportNothing
    BY <1>1 DEF OthersExportNothing, NoExec
  <1>4. OwnedInv
    BY <1>1, IdleType, BootingFields DEF Init, GpioInit, OwnedInv, At, Handlers
  <1> QED  BY <1>2, <1>3, <1>4 DEF ReleasingInv

\* The listener and the shutdown, at whatever point of a request they come, leave
\* no line exported that belongs to no component. (getINComponentsValues, onStop)
THEOREM ServerLeaksNoLine ==
  ASSUME OneClient, EarlyRequests = FALSE, Orphan = {}, ExecMayFail = FALSE, MaxRestarts = 0
  PROVE  ServerSpec => []ExportedIsOwned
  <1>1. ServerTypeInv /\ ReleasingInv => ExportedIsOwned
    BY DEF ServerTypeInv, TypeInv, TypeOK, ReleasingInv, OwnedInv, OwnedLines, ExportedIsOwned
  <1> QED  BY <1>1, ServerInitType, ServerNextType, ServerInitOrder, ServerNextOrder,
              ServerInitLines, ServerNextLines, PTL DEF ServerSpec
-----------------------------------------------------------------------------
(***************************************************************************)
(* A stop that finds everybody at rest.                                    *)
(***************************************************************************)
AtRest == \A p \in Handlers : h[p] = Idle

\* Once no request can arrive, only commands and statements are left to run.
LEMMA RestingWork ==
  ASSUME AtRest, Work
  PROVE  GpioStep \/ DbStep
  BY IdleType DEF AtRest, Handlers, Work, DbStep, Continue, Insert, Toggled, UpdateTurnedOff,
     UpdateUnexported, Inserted, RemoveTurnedOff, RemoveUnexported, Read, InitGpio, Exported,
     DirectionSet, CleanedUp, Select, At

\* None of those commands exports a line, and one that a "stop" command awaits
\* gives its line up, or the line was not exported.
LEMMA RestingGpio ==
  ASSUME Orphan = {}, ExecMayFail = FALSE, TypeInv, DrivingInv, OthersExportNothing,
         AtRest, GpioStep
  PROVE  /\ UNCHANGED <<cacheVars, h>>
         /\ exported' \subseteq exported
         /\ \A c \in Stopper : Releases(c) /\ UNCHANGED stopper => Releases(c)'
  <1>1. PICK p \in Proc : RunCommand(p)
    BY OneRuns DEF GpioStep
  <1>2. UNCHANGED <<cacheVars, h>> /\ KnownIds' = KnownIds /\ \A id \in Id : Comp(id)' = Comp(id)
    BY DEF GpioStep, cacheVars, KnownIds, Known, Comp
  <1>3. exec[p].verb # "export"
    <2>1. CASE p \in Handlers
      BY <2>1, IdleVerbs DEF AtRest, DrivingInv, Drives
    <2>2. CASE p \notin Handlers
      BY <2>2 DEF OthersExportNothing
    <2> QED  BY <2>1, <2>2
  <1>4. exported' \subseteq exported
    BY <1>1, <1>3, Runs, Performs DEF kernel, Exec, Verb
  <1>5. ASSUME NEW c \in Stopper, Releases(c), UNCHANGED stopper, NEW id \in KnownIds'
        PROVE  LET line == Comp(id)'.gpio.pinNo
               IN \/ line \notin exported'
                  \/ /\ stopper'[c].pc = "unexporting"
                     /\ \/ id \in stopper'[c].todo
                        \/ exec'[c] = [verb |-> "unexport", line |-> line, out |-> "pending"]
    <2> DEFINE line == Comp(id).gpio.pinNo
    <2>1. id \in KnownIds /\ id \in Id /\ Comp(id)'.gpio.pinNo = line /\ c \in Proc
      BY <1>2, <1>5 DEF KnownIds
    <2>2. CASE line \notin exported \/ (stopper[c].pc = "unexporting" /\ id \in stopper[c].todo)
      BY <1>4, <1>5, <2>1, <2>2
    <2>3. CASE /\ stopper[c].pc = "unexporting"
               /\ exec[c] = [verb |-> "unexport", line |-> line, out |-> "pending"]
      <3>1. CASE p = c
        <4>1. exec[c].verb = "unexport" /\ exec[c].line = line
          BY <2>3
        <4>2. CASE Perform(exec[c])
          BY <2>1, <4>1, <4>2, Performs
        <4>3. CASE ~Allowed(exec[c]) /\ UNCHANGED kernel
          BY <2>1, <4>1, <4>3 DEF Allowed, kernel
        <4> QED  BY <1>1, <3>1, <4>2, <4>3, Runs
      <3>2. CASE p # c
        <4>1. exec'[c] = exec[c]
          BY <1>1, <2>1, <3>2, Runs
        <4> QED  BY <1>5, <2>1, <2>3, <4>1
      <3> QED  BY <3>1, <3>2
    <2> HIDE DEF line
    <2>4. /\ id \in KnownIds
          /\ \/ line \notin exported
             \/ /\ stopper[c].pc = "unexporting"
                /\ \/ id \in stopper[c].todo
                   \/ exec[c] = [verb |-> "unexport", line |-> line, out |-> "pending"]
      BY <1>5, <2>1 DEF Releases, line
    <2> QED  BY <2>2, <2>3, <2>4
  <1> QED  BY <1>2, <1>4, <1>5 DEF Releases

\* A "stop" command goes on with the next component that is left.
LEMMA UnexportReleases ==
  ASSUME ServerTypeOK, UNCHANGED <<exported, cacheVars>>, NEW c \in Stopper,
         NEW todo, NEW main, Unexport(c, todo, main),
         \A id \in KnownIds : Comp(id).gpio.pinNo \notin exported \/ id \in todo
  PROVE  Releases(c)'
  <1>1. KnownIds' = KnownIds /\ \A id \in Id : Comp(id)' = Comp(id)
    BY DEF cacheVars, KnownIds, Known, Comp
  <1>2. c \in Proc /\ \A e : exec' = [exec EXCEPT ![c] = e] => exec'[c] = e
    BY DEF ServerTypeOK, TypeOK, GpioTypeOK
  <1>3. \A e : stopper' = [stopper EXCEPT ![c] = e] => stopper'[c] = e
    BY DEF ServerTypeOK
  <1> DEFINE left == {id \in todo : Known(id)}
             next(id) == [pc |-> "unexporting", todo |-> left \ {id}, main |-> main]
             command(id) == [verb |-> "unexport", line |-> Comp(id).gpio.pinNo, out |-> "pending"]
  <1>4. CASE left = {}
    <2>1. \A id \in KnownIds : Comp(id).gpio.pinNo \notin exported
      BY <1>4 DEF KnownIds
    <2> QED  BY <1>1, <2>1 DEF Releases, KnownIds
  <1>5. ASSUME NEW id \in left, stopper' = [stopper EXCEPT ![c] = next(id)],
               exec' = [exec EXCEPT ![c] = command(id)]
        PROVE  Releases(c)'
    <2>1. exec'[c] = command(id) /\ stopper'[c] = next(id)
      BY <1>2, <1>3, <1>5
    <2>2. stopper'[c].pc = "unexporting" /\ stopper'[c].todo = left \ {id}
      BY <2>1
    <2>3. \A i \in KnownIds : Comp(i).gpio.pinNo \notin exported \/ i \in left
      BY DEF KnownIds
    <2> HIDE DEF left, next
    <2> QED  BY <1>1, <2>1, <2>2, <2>3 DEF Releases, KnownIds
  <1> QED  BY <1>4, <1>5 DEF Unexport, Issue
\* What is left as it is.
LEMMA ReleasesStays ==
  ASSUME NEW c \in Stopper, Releases(c), UNCHANGED <<exported, cacheVars>>,
         exec'[c] = exec[c], stopper'[c].pc = stopper[c].pc, stopper'[c].todo = stopper[c].todo
  PROVE  Releases(c)'
  BY DEF Releases, KnownIds, Known, Comp, cacheVars

LEMMA ReleasedStays ==
  ASSUME exported' \subseteq exported, UNCHANGED cacheVars
  PROVE  ComponentsAreReleased => ComponentsAreReleased'
  BY DEF ComponentsAreReleased, KnownIds, Known, Comp, cacheVars

\* The command of a "stop" in progress belongs to nobody else.
LEMMA StopperCommand ==
  ASSUME TypeInv, NEW c \in Stopper, NEW p \in Proc \ {c},
         \/ exec' = [exec EXCEPT ![p] = NoExec]
         \/ \E verb, line : Issue(p, verb, line)
         \/ UNCHANGED exec
  PROVE  exec'[c] = exec[c]
  BY DEF TypeInv, TypeOK, GpioTypeOK, Issue

LEMMA StopCalm ==
  ASSUME TypeInv, ServerTypeOK, CommandInv, StopInv, NEW c \in Stopper,
         Stop(c) \/ Unexported(c)
  PROVE  CalmInv'
  <1> SUFFICES ASSUME calm'
               PROVE  /\ AtRest'
                      /\ \A d \in Stopper : stopper'[d] # NoCommand => Releases(d)'
                      /\ stoppedProperly' => ComponentsAreReleased'
    BY DEF CalmInv, AtRest
  <1>1. UNCHANGED <<exported, cacheVars, h, stoppedProperly>>
    BY DEF Stop, Unexported, kernel
  <1>2. ~stopping => \A d \in Stopper : stopper[d] = NoCommand
    BY DEF CommandInv, StopIsEntered
  <1>3. stopping => calm
    BY DEF Stop, Unexported
  <1>4. AtRest
    <2>1. CASE stopping
      BY <1>3, <2>1 DEF StopInv, CalmInv, AtRest
    <2>2. CASE ~stopping
      <3>1. ~Unexported(c)
        <4>1. NoCommand.pc = "none" /\ stopper[c] = NoCommand
          BY <1>2, <2>2 DEF NoCommand
        <4> QED  BY <4>1 DEF Unexported
      <3>2. calm' = IF stopping THEN calm ELSE \A p \in Slot \cup {Boot} : h[p] = Idle
        BY <3>1, Zenon DEF Stop
      <3>3. \A p \in Slot \cup {Boot} : h[p] = Idle
        BY <2>2, <3>2, Zenon
      <3> QED  BY <1>1, <3>3 DEF AtRest, Handlers
    <2> QED  BY <2>1, <2>2
  <1>5. ASSUME NEW d \in Stopper \ {c}, stopper'[d] # NoCommand  PROVE Releases(d)'
    <2>1. stopper'[d] = stopper[d]
      BY DEF Stop, Unexported, Unexport, ServerTypeOK
    <2>2. Releases(d)
      BY <1>2, <1>3, <1>5, <2>1 DEF StopInv, CalmInv
    <2>3. exec'[d] = exec[d]
      BY StopExec, StopperCommand
    <2> QED  BY <1>1, <2>1, <2>2, <2>3, ReleasesStays
  <1>6. Releases(c)'
    <2>1. CASE Stop(c)
      BY <1>1, <2>1, UnexportReleases DEF Stop
    <2>2. CASE Unexported(c)
      <3>1. stopper[c] # NoCommand /\ exec[c].out # "pending"
        BY <2>2 DEF Unexported, NoCommand, Answered, Output
      <3>2. Releases(c)
        BY <1>2, <1>3, <3>1 DEF StopInv, CalmInv
      <3>3. \A id \in KnownIds :
               Comp(id).gpio.pinNo \notin exported \/ id \in stopper[c].todo
        <4>1. \A line : exec[c] # [verb |-> "unexport", line |-> line, out |-> "pending"]
          BY <3>1
        <4> QED  BY <3>2, <4>1 DEF Releases
      <3> QED  BY <1>1, <2>2, <3>3, UnexportReleases DEF Unexported
    <2> QED  BY <2>1, <2>2
  <1>7. stoppedProperly' => ComponentsAreReleased'
    BY <1>1, <1>3, ReleasedStays DEF StopInv, CalmInv
  <1> QED  BY <1>1, <1>4, <1>5, <1>6, <1>7 DEF AtRest
\* The commands of the listener.
LEMMA AsideCalm ==
  ASSUME CalmInv, UNCHANGED <<stopping, calm, stopper, stoppedProperly, exported, cacheVars, h>>,
         \A c \in Stopper : exec'[c] = exec[c]
  PROVE  CalmInv'
  <1> SUFFICES ASSUME stopping, calm
               PROVE  /\ AtRest'
                      /\ \A c \in Stopper : stopper[c] # NoCommand => Releases(c)'
                      /\ stoppedProperly => ComponentsAreReleased'
    BY DEF CalmInv, AtRest
  <1>1. \A c \in Stopper : stopper[c] # NoCommand => Releases(c)'
    BY ReleasesStays DEF CalmInv
  <1> QED  BY <1>1, ReleasedStays DEF CalmInv, AtRest

LEMMA StoppedCalm ==
  ASSUME Patient, ServerTypeOK, CommandInv, StopInv, NEW c \in Stopper, Stopped(c) \/ Prompt(c)
  PROVE  StopInv'
  <1>1. UNCHANGED <<stopping, calm, exitCode, exported, exec, cacheVars, h>>
    BY DEF Stopped, Prompt, vars, gpioVars
  <1>2. /\ stoppedProperly' => stoppedProperly \/ Stopped(c)
        /\ stoppedProperly => stoppedProperly'
    BY DEF Stopped, Prompt
  <1>3. Stopped(c) => stopping /\ stopper[c].pc = "done" /\ stopper[c] # NoCommand
    BY DEF Stopped, NoCommand, CommandInv, StopIsEntered
  <1>4. \A d \in Stopper : stopper'[d] # NoCommand =>
          /\ stopper[d] # NoCommand
          /\ stopper'[d].pc = stopper[d].pc /\ stopper'[d].todo = stopper[d].todo
    <2>1. CASE Prompt(c)
      BY <2>1 DEF Prompt, ServerTypeOK
    <2>2. CASE Stopped(c)
      <3>1. stopper[c] \in StopCommand
        BY <1>3, <2>2, StopperType
      <3> QED  BY <1>3, <2>2, <3>1 DEF Stopped, ServerTypeOK, StopCommand
    <2> QED  BY <2>1, <2>2
  <1>5. ASSUME stopping, calm
        PROVE  /\ AtRest'
               /\ \A d \in Stopper : stopper'[d] # NoCommand => Releases(d)'
               /\ stoppedProperly' => ComponentsAreReleased'
    <2>1. /\ AtRest
          /\ \A d \in Stopper : stopper[d] # NoCommand => Releases(d)
          /\ stoppedProperly => ComponentsAreReleased
      BY <1>5 DEF StopInv, CalmInv, AtRest
    <2>2. Stopped(c) => ComponentsAreReleased
      BY <1>3, <2>1 DEF Releases, ComponentsAreReleased
    <2>3. \A d \in Stopper : stopper'[d] # NoCommand => Releases(d)'
      BY <1>1, <1>4, <2>1, ReleasesStays
    <2> QED  BY <1>1, <1>2, <2>1, <2>2, <2>3, ReleasedStays DEF AtRest
  <1> QED  BY <1>1, <1>2, <1>3, <1>5 DEF StopInv, CalmInv, AtRest
LEMMA WorkCalm ==
  ASSUME Orphan = {}, ExecMayFail = FALSE, TypeInv, ReleasingInv, CalmInv, stopping,
         Work, UNCHANGED <<stopping, calm, stopper, stoppedProperly>>
  PROVE  CalmInv'
  <1> SUFFICES ASSUME calm  PROVE CalmInv'
    BY DEF CalmInv
  <1>1. AtRest
    BY DEF CalmInv, AtRest
  <1>2. CASE GpioStep
    BY <1>1, <1>2, RestingGpio, ReleasedStays DEF ReleasingInv, CalmInv, AtRest
  <1>3. CASE DbStep
    BY <1>3, AsideCalm, LinesStay DEF gpioVars
  <1> QED  BY <1>1, <1>2, <1>3, RestingWork

LEMMA ServerNextStop ==
  ASSUME Orphan = {}, ExecMayFail = FALSE, Patient
  PROVE  ServerTypeInv /\ ReleasingInv /\ StopInv /\ [ServerNext]_allVars => StopInv'
  <1> SUFFICES ASSUME TypeInv, ServerTypeOK, CommandInv, ReleasingInv, StopInv,
                      [ServerNext]_allVars
               PROVE  StopInv'
    BY DEF ServerTypeInv
  <1>1. CASE Arrive
    BY <1>1 DEF Arrive, Manage, StopInv, CalmInv, shutdownVars, stopVars
  <1>2. CASE Proceed \/ Outlive
    <2>1. Work /\ UNCHANGED shutdownVars
      BY <1>2 DEF Proceed, Outlive, Manage, Work, serverVars
    <2>2. stopping => CalmInv'
      BY <2>1, WorkCalm DEF StopInv, shutdownVars, stopVars
    <2> QED  BY <2>1, <2>2 DEF StopInv, CalmInv, shutdownVars, stopVars
  <1>3. CASE \/ JoinRoom \/ LeaveRoom \/ Exit \/ Quit \/ UNCHANGED allVars
             \/ \E line \in InputLine : InputChanges(line)
    <2>1. UNCHANGED <<stopVars, exported, exec, cacheVars, h>>
      BY <1>3 DEF JoinRoom, LeaveRoom, Exit, Quit, InputChanges, allVars, serverVars,
                  shutdownVars, vars, gpioVars
    <2>2. CalmInv'
      BY <2>1, AsideCalm DEF StopInv, stopVars
    <2>3. exitCode' = "0" => exitCode = "0" \/ stoppedProperly
      BY <1>3 DEF JoinRoom, LeaveRoom, Exit, Quit, InputChanges, allVars, serverVars,
                  shutdownVars
    <2> QED  BY <2>1, <2>2, <2>3 DEF StopInv, stopVars
  <1>4. CASE Listen
    <2>1. UNCHANGED <<shutdownVars, exported, cacheVars, h>>
      BY <1>4 DEF Listen, kernel
    <2>2. \A c \in Stopper : exec'[c] = exec[c]
      BY <1>4, ListenExec, StopperCommand
    <2>3. CalmInv'
      BY <2>1, <2>2, AsideCalm DEF StopInv, shutdownVars, stopVars
    <2> QED  BY <2>1, <2>3 DEF StopInv, shutdownVars, stopVars
  <1>5. ASSUME NEW c \in Stopper, Stop(c) \/ Unexported(c)  PROVE StopInv'
    <2>1. CalmInv' /\ stopping'
      BY <1>5, StopCalm, StopEntered
    <2>2. UNCHANGED <<exitCode, stoppedProperly>>
      BY <1>5 DEF Stop, Unexported
    <2> QED  BY <2>1, <2>2 DEF StopInv
  <1>6. ASSUME NEW c \in Stopper, Stopped(c) \/ Prompt(c)  PROVE StopInv'
    BY <1>6, StoppedCalm
  <1>7. CASE Restart /\ Started
    BY <1>7 DEF Started, StopInv, CalmInv
  <1> QED  BY <1>1, <1>2, <1>3, <1>4, <1>5, <1>6, <1>7 DEF ServerNext, Shutdown

LEMMA StopInvariance ==
  ASSUME OneClient, EarlyRequests = FALSE, Orphan = {}, ExecMayFail = FALSE, Patient
  PROVE  ServerSpec => [](ServerTypeInv /\ ReleasingInv /\ StopInv)
  <1>1. ServerInit => StopInv
    BY DEF ServerInit, StopInv, CalmInv
  <1> QED  BY <1>1, ServerInitType, ServerNextType, ServerInitOrder, ServerNextOrder,
              ServerInitLines, ServerNextLines, ServerNextStop, PTL DEF ServerSpec

\* With one client, whatever has been entered and however often: from a "stop"
\* that finds the server at rest on, each "stop" in progress has given up the line
\* of each component or is about to, and nobody exports one again; and the process
\* ends with code 0 only when one of them is through. (onStop)
THEOREM StopsGiveUpEveryLine ==
  ASSUME OneClient, EarlyRequests = FALSE, Orphan = {}, ExecMayFail = FALSE, Patient
  PROVE  ServerSpec => []StopInv
  <1>1. ServerTypeInv /\ ReleasingInv /\ StopInv => StopInv
    OBVIOUS
  <1> QED  BY <1>1, StopInvariance, PTL

\* A server with one client that "stop" finds at rest, and that "exit" lets end
\* with code 0, leaves no component's line exported, however often "stop" was
\* entered; and no line at all unless it crashed before. (onStop)
THEOREM CalmStopReleases ==
  ASSUME OneClient, EarlyRequests = FALSE, Orphan = {}, ExecMayFail = FALSE, Patient
  PROVE  ServerSpec => []CalmStopReleasesLines
  <1>1. ASSUME ServerTypeInv, ReleasingInv, StopInv  PROVE CalmStopReleasesLines
    <2> SUFFICES ASSUME exitCode = "0", calm
                 PROVE  ComponentsAreReleased /\ (restarts = 0 => exported = {})
      BY DEF CalmStopReleasesLines
    <2>1. ComponentsAreReleased
      BY <1>1 DEF StopInv, CalmInv
    <2>2. restarts = 0 => exported = {}
      BY <1>1, <2>1 DEF ReleasingInv, OwnedInv, OwnedLines, ComponentsAreReleased
    <2> QED  BY <2>1, <2>2
  <1> QED  BY <1>1, StopInvariance, PTL
=============================================================================
