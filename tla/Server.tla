--------------------------------- MODULE Server ---------------------------------
(***************************************************************************)
(* The running server: ComponentsManager with the loop of                  *)
(* src/modules/components-listener.js that polls the IN components, the    *)
(* room of src/socket-setup.js whose members are told of changes, and the  *)
(* shutdown of src/cli.js and src/main.js ("stop", then "exit").           *)
(*                                                                         *)
(* The loop and the shutdown read the same map and send commands to the    *)
(* same lines as the requests in progress.                                 *)
(***************************************************************************)
EXTENDS ComponentsManager

CONSTANTS
  Listener,  \* startListener(), as a caller that awaits commands
  Stopper,   \* onStop() of components-manager.js for each "stop" command that is
             \*   in progress at the same time (a bound), as others
  Patient    \* are 2 seconds enough for onStop() to end?

ASSUME ServerAssumption ==
  /\ Stopper \cup {Listener} \subseteq Proc \ (Slot \cup {Boot})
  /\ Listener \notin Stopper
  /\ Patient \in BOOLEAN

VARIABLES
  listener,    \* where startListener() is suspended
  prevValues,  \* what it read in its last complete round
  joined,      \* is a client in componentsRoom?
  untold,      \* history: something it is shown changed since the last broadcast
  stopper,     \* the "stop" commands in progress: where the manager's onStop() is
               \*   suspended, the ids it has yet to visit, and main.js's onStop()
  stopping,    \* has "stop" been entered?
  stoppedProperly,
  calm,        \* history: no request was in progress when it was
  exiting,     \* has "exit" been entered?
  exitCode     \* how the process ended, or "none"

stopVars == <<stopper, stopping, stoppedProperly, calm>>
shutdownVars == <<stopVars, exiting, exitCode>>
serverVars == <<listener, prevValues, joined, untold, shutdownVars>>
allVars == <<vars, serverVars>>
-----------------------------------------------------------------------------
\* A value for each id; "none" for an id that is not an IN component.
Values == [Id -> {"0", "1", "none"}]
NoValues == [id \in Id |-> "none"]

Polling == [pc : {"sleeping", "reading", "dead", "stopped"}, id : Id \cup {0},
            todo : SUBSET Id, values : Values]
Resting(pc) == [pc |-> pc, id |-> 0, todo |-> {}, values |-> NoValues]

\* A "stop" command; executeAll() waits until each of its parts has ended.
StopCommand == [pc : {"unexporting", "done"}, todo : SUBSET Id, main : {"waiting", "done"}]
NoCommand == [pc |-> "none", todo |-> {}, main |-> "none"]

ServerTypeOK ==
  /\ TypeOK
  /\ listener \in Polling
  /\ prevValues \in Values
  /\ joined \in BOOLEAN /\ untold \in BOOLEAN
  /\ stopper \in [Stopper -> StopCommand \cup {NoCommand}]
  /\ stopping \in BOOLEAN /\ stoppedProperly \in BOOLEAN
  /\ calm \in BOOLEAN /\ exiting \in BOOLEAN
  /\ exitCode \in {"none", "0", "1"}

Started ==
  /\ listener' = Resting("sleeping")
  /\ prevValues' = NoValues
  /\ joined' = FALSE
  /\ untold' = FALSE
  /\ stopper' = [c \in Stopper |-> NoCommand]
  /\ stopping' = FALSE
  /\ stoppedProperly' = FALSE
  /\ calm' = FALSE
  /\ exiting' = FALSE
  /\ exitCode' = "none"

ServerInit ==
  /\ Init
  /\ listener = Resting("sleeping")
  /\ prevValues = NoValues
  /\ joined = FALSE
  /\ untold = FALSE
  /\ stopper = [c \in Stopper |-> NoCommand]
  /\ stopping = FALSE
  /\ stoppedProperly = FALSE
  /\ calm = FALSE
  /\ exiting = FALSE
  /\ exitCode = "none"
-----------------------------------------------------------------------------
(***************************************************************************)
(* componentsRoom.                                                         *)
(***************************************************************************)
\* What the components endpoint shows, but for the values of IN components.
Shown ==
  [id \in Id |->
     IF Known(id)
     THEN [row |-> Comp(id).row,
           isOn |-> Comp(id).row.direction = DIR_OUT
                      /\ Comp(id).gpio.pinNo \in high \cap exported]
     ELSE [row |-> NoRow, isOn |-> FALSE]]

\* Mutant: an error is not broadcast.
BroadcastsOk ==
  answer'.op \in {"toggle", "update", "add", "remove"} /\ answer'.reply = "OK"

\* Every response of the endpoints that change components, error or not, is
\* followed by componentsChange; a handler that throws sends neither.
Broadcasts ==
  /\ answer'.op \in {"toggle", "update", "add", "remove"}
  /\ answer'.reply # "silent"

\* Keeps the history of a step in which the room is sent componentsChange or not.
Tell(broadcast) == untold' = (joined /\ ~broadcast /\ (untold \/ Shown' # Shown))

\* A client joins the room, and asks for the components.
JoinRoom ==
  /\ ~stopping
  /\ EarlyRequests \/ h[Boot] = Idle
  /\ ~joined
  /\ joined' = TRUE
  /\ untold' = FALSE
  /\ UNCHANGED <<vars, listener, prevValues, shutdownVars>>

LeaveRoom ==
  /\ joined
  /\ joined' = FALSE
  /\ untold' = FALSE
  /\ UNCHANGED <<vars, listener, prevValues, shutdownVars>>

\* A step of the components manager.  No request arrives once "stop" has closed
\* the sockets; those in progress go on.
Manage(A) ==
  /\ A
  /\ Tell(Broadcasts)
  /\ UNCHANGED <<listener, prevValues, joined, shutdownVars>>

Arrive == ~stopping /\ Manage(\E s \in Slot : Request(s))
Proceed == Manage(Work)

\* The outside world changes the level of a line that is not driven (of those
\* that components can be wired to).
InputLine == {convertPhysicalPin[pin] : pin \in PhysicalPin \cap HeaderPin}

InputChanges(line) ==
  /\ line \notin outputs
  /\ \/ high' = high \cup {line}
     \/ high' = high \ {line}
  /\ answer' = NoAnswer
  /\ UNCHANGED <<exported, outputs, exec, cacheVars, dbVars, bootVars, h, serverVars>>
-----------------------------------------------------------------------------
(***************************************************************************)
(* startListener and getINComponentsValues.  A read that throws ends the   *)
(* loop: nothing catches the exception.                                    *)
(***************************************************************************)
\* Mutant: the values are not kept.
RoundForgotten(values) ==
  /\ listener' = Resting("sleeping")
  /\ exec' = [exec EXCEPT ![Listener] = NoExec]
  /\ untold' = (untold /\ values = prevValues)
  /\ UNCHANGED prevValues

RoundDone(values) ==
  /\ listener' = Resting("sleeping")
  /\ prevValues' = values
  /\ exec' = [exec EXCEPT ![Listener] = NoExec]
  /\ untold' = (untold /\ values = prevValues)

Dies ==
  /\ listener' = Resting("dead")
  /\ exec' = [exec EXCEPT ![Listener] = NoExec]
  /\ UNCHANGED <<prevValues, untold>>

\* The next id, of those the map had at the start of the round, that still is
\* one of an IN component.
Poll(todo, values) ==
  LET left == {id \in todo : Known(id) /\ Comp(id).row.direction = DIR_IN}
  IN \/ left = {} /\ RoundDone(values)
     \/ \E id \in left :
          /\ \A i \in left : id <= i
          /\ \/ /\ Comp(id).gpio.direction = DIR_IN
                /\ listener' = [pc |-> "reading", id |-> id, values |-> values,
                                todo |-> {i \in todo : i > id}]
                /\ Issue(Listener, "cat", Comp(id).gpio.pinNo)
                /\ UNCHANGED <<prevValues, untold>>
             \/ Comp(id).gpio.direction = DIR_OUT /\ Dies

\* Mutant: the loop does not look at `stop'.
NextRoundRegardless ==
  listener.pc = "sleeping" /\ Poll(KnownIds, NoValues)

NextRound ==
  /\ listener.pc = "sleeping"
  /\ \/ ~stopping /\ Poll(KnownIds, NoValues)
     \/ /\ stopping
        /\ listener' = Resting("stopped")
        /\ UNCHANGED <<exec, prevValues, untold>>

\* Mutant: a read that fails gives a value.
ValueReadUnchecked ==
  /\ listener.pc = "reading"
  /\ Answered(Listener)
  /\ Poll(listener.todo, [listener.values EXCEPT ![listener.id] = exec[Listener].out])

ValueRead ==
  /\ listener.pc = "reading"
  /\ Answered(Listener)
  /\ \/ Ok(Listener) /\ Poll(listener.todo,
                             [listener.values EXCEPT ![listener.id] = exec[Listener].out])
     \/ ~Ok(Listener) /\ Dies

Listen ==
  /\ NextRound \/ ValueRead
  /\ answer' = NoAnswer
  /\ UNCHANGED <<kernel, cacheVars, dbVars, bootVars, h, joined, shutdownVars>>
-----------------------------------------------------------------------------
(***************************************************************************)
(* "stop" runs what each module registered for it: the manager unexports   *)
(* the lines one by one, the listener is told to end, the sockets are      *)
(* closed, and main.js waits for 2 seconds, or not if it has before.       *)
(* executeAll() starts all of them and prompts for the next command when   *)
(* each has ended, but the next one may be entered at any time.  "exit"    *)
(* closes the command line and ends the process 1 second later.            *)
(*                                                                         *)
(* "stop" is not entered before init() has finished unless requests may    *)
(* come that early.                                                        *)
(***************************************************************************)
\* Mutant: only OUT components are unexported.
UnexportOut(c, todo, main) ==
  LET left == {id \in todo : Known(id) /\ Comp(id).row.direction = DIR_OUT}
  IN \/ /\ left = {}
        /\ stopper' = [stopper EXCEPT ![c] = [pc |-> "done", todo |-> {}, main |-> main]]
        /\ exec' = [exec EXCEPT ![c] = NoExec]
     \/ \E id \in left :
          /\ stopper' = [stopper EXCEPT ![c] =
                           [pc |-> "unexporting", todo |-> left \ {id}, main |-> main]]
          /\ Issue(c, "unexport", Comp(id).gpio.pinNo)

Unexport(c, todo, main) ==
  LET left == {id \in todo : Known(id)}
  IN \/ /\ left = {}
        /\ stopper' = [stopper EXCEPT ![c] = [pc |-> "done", todo |-> {}, main |-> main]]
        /\ exec' = [exec EXCEPT ![c] = NoExec]
     \/ \E id \in left :
          /\ \A i \in left : id <= i
          /\ stopper' = [stopper EXCEPT ![c] =
                           [pc |-> "unexporting", todo |-> left \ {id}, main |-> main]]
          /\ Issue(c, "unexport", Comp(id).gpio.pinNo)

Stop(c) ==
  /\ stopper[c] = NoCommand
  /\ EarlyRequests \/ h[Boot] = Idle
  /\ ~exiting
  /\ Unexport(c, KnownIds, IF stoppedProperly THEN "done" ELSE "waiting")
  /\ stopping' = TRUE
  /\ calm' = IF stopping THEN calm ELSE \A p \in Slot \cup {Boot} : h[p] = Idle
  /\ joined' = FALSE
  /\ untold' = FALSE
  /\ answer' = NoAnswer
  /\ UNCHANGED <<kernel, cacheVars, dbVars, bootVars, h, listener, prevValues,
                 stoppedProperly, exiting, exitCode>>

\* The result of unexport() is not looked at.
Unexported(c) ==
  /\ stopper[c].pc = "unexporting"
  /\ Answered(c)
  /\ Unexport(c, stopper[c].todo, stopper[c].main)
  /\ answer' = NoAnswer
  /\ UNCHANGED <<kernel, cacheVars, dbVars, bootVars, h, listener, prevValues, joined,
                 untold, stopping, stoppedProperly, calm, exiting, exitCode>>

\* The 2 seconds are over, whether or not onStop() has ended.
Stopped(c) ==
  /\ stopper[c].main = "waiting"
  /\ Patient => stopper[c].pc = "done"
  /\ stopper' = [stopper EXCEPT ![c].main = "done"]
  /\ stoppedProperly' = TRUE
  /\ UNCHANGED <<vars, listener, prevValues, joined, untold, stopping, calm, exiting,
                 exitCode>>

\* executeAll has counted every action.
Prompt(c) ==
  /\ stopper[c].pc = "done" /\ stopper[c].main = "done"
  /\ stopper' = [stopper EXCEPT ![c] = NoCommand]
  /\ UNCHANGED <<vars, listener, prevValues, joined, untold, stopping, stoppedProperly,
                 calm, exiting, exitCode>>

Exit ==
  /\ ~exiting
  /\ exiting' = TRUE
  /\ UNCHANGED <<vars, listener, prevValues, joined, untold, stopVars, exitCode>>

Quit ==
  /\ exiting
  /\ exitCode' = IF stoppedProperly THEN "0" ELSE "1"
  /\ UNCHANGED <<vars, listener, prevValues, joined, untold, stopVars, exiting>>

\* The process is gone, but the shells it started are not.
Outlive ==
  /\ exitCode # "none"
  /\ GpioStep
  /\ UNCHANGED serverVars
-----------------------------------------------------------------------------
Shutdown ==
  \/ \E c \in Stopper : Stop(c) \/ Unexported(c) \/ Stopped(c) \/ Prompt(c)
  \/ Exit
  \/ Quit

ServerNext ==
  \/ /\ exitCode = "none"
     /\ \/ Arrive
        \/ Proceed
        \/ JoinRoom
        \/ LeaveRoom
        \/ Listen
        \/ Shutdown
        \/ \E line \in InputLine : InputChanges(line)
  \/ Outlive
  \/ Restart /\ Started

Alive(A) == exitCode = "none" /\ A

\* Timers fire and commands are answered, until the process ends.
ServerFairness ==
  /\ WF_allVars(Alive(Listen))
  /\ \A c \in Stopper : WF_allVars(Alive(Unexported(c) \/ Stopped(c) \/ Prompt(c)))
  /\ WF_allVars(Alive(Proceed))
  /\ \A p \in Stopper \cup {Listener} :
        WF_allVars(Alive(Manage(GpioStep /\ (RunCommand(p) \/ Timeout(p)))))

ServerSpec == ServerInit /\ [][ServerNext]_allVars /\ ServerFairness
-----------------------------------------------------------------------------
(***************************************************************************)
(* Properties.                                                             *)
(***************************************************************************)
\* When no request is in progress, the members of the room have been told of
\* everything that changed since they joined: also of what a request changed
\* before it failed. (io.in(componentsRoom).emit)
MembersAreTold ==
  joined /\ (\A p \in Slot \cup {Boot} : h[p] = Idle) => ~untold

ComponentsAreReleased == \A id \in KnownIds : Comp(id).gpio.pinNo \notin exported

\* A server that was stopped at rest, and given the time, leaves no component's
\* line exported, and no line at all unless it crashed before: init() exports
\* what the rows ask for, and an update may have exported another line by then,
\* which nobody gives up any more. (onStop of components-manager.js)
CalmStopReleasesLines ==
  exitCode = "0" /\ calm => ComponentsAreReleased /\ (restarts = 0 => exported = {})

\* A server that exits with code 0 leaves no line exported. (The comment of
\* onStop: "Must be called before the server exits to export all the pins")
StopReleasesLines == exitCode = "0" => exported = {}

\* An IN component whose line is not at the level the listener read last.
Differs(id) ==
  /\ Known(id) /\ Comp(id).row.direction = DIR_IN
  /\ prevValues[id] # (IF Comp(id).gpio.pinNo \in high THEN "1" ELSE "0")
  /\ ~stopping /\ exitCode = "none" /\ listener.pc # "dead"

\* The listener catches up with every level that lasts. (startListener)
ChangesAreNoticed == \A id \in Id : Differs(id) ~> ~Differs(id)

\* Every "stop" command ends and lets the next be entered, however often it is
\* entered and whatever the others are doing, and the listener ends, unless the
\* process does so first. (executeAll of cli.js, onStop of each module)
StopEnds ==
  /\ \A c \in Stopper : stopper[c] # NoCommand ~> stopper[c] = NoCommand \/ exitCode # "none"
  /\ stopping ~> listener.pc \in {"stopped", "dead"} \/ exitCode # "none" \/ ~stopping

\* The listener listens until the server stops. (The comment at the top of
\* components-listener.js: listens to changes in IN components)
ListenerSurvives == listener.pc # "dead"
-----------------------------------------------------------------------------
(***************************************************************************)
(* Why the types and MembersAreTold hold.                                  *)
(***************************************************************************)
Changing == {"toggle", "update", "add", "remove"}

\* A command that is not a read was issued by init(), by a request that changes
\* components and is still in progress, or by a "stop" command.
CommandsAreClaimed ==
  \A p \in Proc : exec[p].verb \notin {"none", "cat"} =>
     \/ p \in Slot /\ h[p].op \in Changing
     \/ p = Boot /\ h[Boot] # Idle
     \/ p \in Stopper /\ stopping

\* What a request awaits is something that its endpoint awaits.
Matches(handler) ==
  /\ handler.pc \in Initializing => handler.op \in {"add", "update"}
  /\ handler.pc \in {"isOn", "readValue"} => handler.op = "list"

AwaitsMatch == \A s \in Slot : Matches(h[s])

StopIsEntered == \A c \in Stopper : stopper[c] # NoCommand => stopping

\* What the listener reads is a value, or nothing.
ListenerReads == exec[Listener].verb \in {"none", "cat"} /\ exec[Listener].out # "true"

CommandInv == CommandsAreClaimed /\ AwaitsMatch /\ StopIsEntered /\ ListenerReads

\* What the room has not been told of, a request in progress will tell it.
RoomInv ==
  joined => /\ h[Boot] = Idle /\ ~stopping
            /\ untold => \E s \in Slot : h[s].op \in Changing

ServerInv == CommandInv /\ RoomInv
-----------------------------------------------------------------------------
(***************************************************************************)
(* Why CalmStopReleasesLines holds.                                        *)
(***************************************************************************)
\* A "stop" command has given up the line of each component, or is about to.
Releases(c) ==
  \A id \in KnownIds :
     LET line == Comp(id).gpio.pinNo
     IN \/ line \notin exported
        \/ /\ stopper[c].pc = "unexporting"
           /\ \/ id \in stopper[c].todo
              \/ exec[c] = [verb |-> "unexport", line |-> line, out |-> "pending"]

\* A stop that finds everybody at rest leaves everybody at rest.
CalmInv ==
  stopping /\ calm =>
     /\ \A p \in Handlers : h[p] = Idle
     /\ \A c \in Stopper : stopper[c] # NoCommand => Releases(c)
     /\ stoppedProperly => ComponentsAreReleased

StopInv ==
  /\ exitCode = "0" => stoppedProperly
  /\ stoppedProperly => stopping
  /\ CalmInv
=============================================================================
