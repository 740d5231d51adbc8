------------------------------- MODULE OneClient -------------------------------
(***************************************************************************)
(* Why the lines and the cache agree: the invariants behind                *)
(* ExportedIsOwned, OkUpdateRewires, ReleasedIsLow and TogglesItsOwnLine   *)
(* of ComponentsManager.  They are those of one client that waits for each *)
(* response, with init() finished before its first request: nobody else    *)
(* changes the line or the component that it works on.  Most of them also  *)
(* hold for several clients, as long as each keeps off the components that *)
(* the others work on.                                                     *)
(***************************************************************************)
EXTENDS ComponentsManager

OneClient == \A s, t \in Slot : s = t

\* Clients keep off the components that others work on.
SeparateClients == OneClient \/ Shared = FALSE

\* What is awaited here is a command that may change a line.
Driving == {"toggling", "turning off", "unexporting"} \cup Initializing

MadeFor(row) == NewGpio(PinNumber(row.physicalPin), WiredAs(row))

-----------------------------------------------------------------------------
(***************************************************************************)
(* What each request awaits.                                               *)
(***************************************************************************)
VerbsAt(p) ==
  CASE At(p, "toggling")          -> {"0", "1"}
    [] At(p, "turning off")       -> {"0"}
    [] At(p, "unexporting")       -> {"unexport"}
    [] At(p, "exporting")         -> {"export"}
    [] At(p, "setting direction") -> {WiredAs(h[p].row)}
    [] At(p, "cleaning up")       -> {"unexport"}
    [] OTHER                      -> {"none", "cat"}

\* A command drives the line of the component that its request works on, and
\* Gpio.init() that of the object made for the request's row.
Drives(p) ==
  /\ exec[p].verb \in VerbsAt(p)
  /\ h[p].op \in {"update", "remove"} => h[p].pc \in Driving
  /\ h[p].op = "update" => h[p].c = components[h[p].id]
  /\ h[p].pc \in Driving =>
       /\ h[p].op # "list"
       /\ h[p].id \in KnownIds
       /\ exec[p].line = Comp(h[p].id).gpio.pinNo
  /\ h[p].pc \in Initializing => Comp(h[p].id).gpio = MadeFor(h[p].row)

\* No two ids share an object.
RefsAreOwn == \A id \in KnownIds : components[id] \in RefsOf(id)

\* No two requests are at work on the line of the same component.
OwnComponents ==
  \A p, q \in Handlers :
     p # q /\ h[p].pc \in Driving /\ h[q].pc \in Driving => h[p].id # h[q].id

DrivingInv == RefsAreOwn /\ OwnComponents /\ \A p \in Handlers : Drives(p)

\* No two commands that they await are for the same line.
OwnLines ==
  \A p, q \in Handlers :
     p # q /\ h[p].pc \in Driving /\ h[q].pc \in Driving => exec[p].line # exec[q].line

\* Nobody else sends commands: the manager's own module.
OthersAreSilent == \A q \in Proc \ Handlers : exec[q] = NoExec

Succeeded(p) == Answered(p) /\ Ok(p)

\* What has been achieved for a line when the command that does it succeeds.
Achieved(p) ==
  /\ At(p, "exporting") /\ Succeeded(p) => exec[p].line \in exported
  /\ At(p, "setting direction") =>
       /\ exec[p].line \in exported
       /\ Succeeded(p) => ((exec[p].line \in outputs) = (h[p].row.direction = DIR_OUT))

WiringInv == OthersAreSilent /\ \A p \in Handlers : Achieved(p)
-----------------------------------------------------------------------------
(***************************************************************************)
(* Which lines are exported, if no command fails without a reason.         *)
(***************************************************************************)
OwnedLines == {Comp(id).gpio.pinNo : id \in KnownIds}

\* Nobody but a request of the manager exports a line.
OthersExportNothing == \A q \in Proc \ Handlers : exec[q].verb \in {"none", "cat", "unexport"}

\* A line is given up before the object that drives it is.
OwnedInv ==
  /\ exported \subseteq OwnedLines
  /\ \A p \in Handlers : At(p, "unexporting") /\ Answered(p) => exec[p].line \notin exported
-----------------------------------------------------------------------------
(***************************************************************************)
(* Which pins components have, if clients ask for no pin that another      *)
(* component has or is to get.                                             *)
(***************************************************************************)
\* physicalPin is UNIQUE.
StoredPinsDiffer ==
  \A i, j \in StoredIds(rows) : SamePin(rows[i], rows[j]) => i = j

CachedPinsDiffer ==
  \A i \in KnownIds :
     /\ ValidPin(PinNumber(Comp(i).row.physicalPin))
     /\ \A j \in KnownIds : SamePin(Comp(i).row, Comp(j).row) => i = j

\* Nobody takes the pin that a request has asked for.
AskedPinIsFree(s) ==
  h[s].op \in {"add", "update"} =>
    \A i \in KnownIds :
       SamePin(Comp(i).row, h[s].row) => i = h[s].id /\ ~At(s, "inserting")

\* No two requests ask for the same pin.
AskedPinsDiffer ==
  \A s, t \in Slot :
     s # t /\ h[s].op \in {"add", "update"} /\ h[t].op \in {"add", "update"}
       => ~SamePin(h[s].row, h[t].row)

LoadedIsStored == h[Boot] # Idle => \A id \in KnownIds : Comp(id).row = rows[id]

PinsInv ==
  /\ StoredPinsDiffer
  /\ CachedPinsDiffer
  /\ \A s \in Slot : AskedPinIsFree(s)
  /\ AskedPinsDiffer
  /\ LoadedIsStored
-----------------------------------------------------------------------------
(***************************************************************************)
(* Which levels the lines have, if moreover the server is not restarted.   *)
(***************************************************************************)
\* The object drives the line that the row asks for, which has the direction
\* that the row asks for if it is exported.
Settled(id) ==
  LET row == Comp(id).row
      line == Comp(id).gpio.pinNo
  IN /\ Comp(id).gpio = MadeFor(row)
     /\ line \in exported => ((line \in outputs) = (row.direction = DIR_OUT))

\* All components are, but for the one that Gpio.init() is at work on.
OthersAreSettled ==
  \A id \in KnownIds :
     Settled(id) \/ \E p \in Handlers : h[p].pc \in Initializing /\ h[p].id = id

\* init() and addComponent give that one its row at once.
RowIsCached(p) ==
  h[p].pc \in Initializing /\ h[p].op # "update" => Comp(h[p].id).row = h[p].row

HighAreDriven == high \subseteq exported \cap outputs

\* What is turned off, unexported or has just been exported is low, and no step
\* of Gpio.init() fails.
LineIsLow(p) ==
  /\ At(p, "turning off") /\ Answered(p) => exec[p].line \notin high
  /\ h[p].pc \in {"unexporting"} \cup Initializing => exec[p].line \notin high
  /\ At(p, "exporting") => (exec[p].line \notin exported \/ Answered(p))
  /\ h[p].pc \in {"exporting", "setting direction"} => Ok(p)
  /\ ~At(p, "cleaning up")

LowInv ==
  /\ OthersAreSettled
  /\ HighAreDriven
  /\ \A p \in Handlers : RowIsCached(p) /\ LineIsLow(p)
=============================================================================
