--------------------------------- MODULE Gpio ---------------------------------
(***************************************************************************)
(* src/modules/Gpio.js: GPIO lines driven through /sys/class/gpio by shell *)
(* commands.                                                               *)
(*                                                                         *)
(* Every access to a line is one command (echo ... > file, cat file) that  *)
(* cmdOutput() hands to child_process.exec and then polls for.  The caller *)
(* is suspended between the two, so the command runs, and the caller goes  *)
(* on, in steps of their own.  A caller that has polled long enough goes   *)
(* on without an answer; its command is still there and may run later.     *)
(*                                                                         *)
(* The sysfs files themselves belong to the kernel: they are modelled from *)
(* the commands the code sends to them.                                    *)
(***************************************************************************)
EXTENDS Integers, FiniteSets

CONSTANTS
  Proc,         \* the asynchronous functions that await shell commands
  Orphan,       \* names for commands whose caller stopped waiting (a bound)
  PhysicalPin,  \* the pins that requests and database rows mention
  ExecMayFail   \* can a command fail for a reason that is not in sysfs?

\* A request may give a pin as a number or as a text, "24" for 24; -24 stands for
\* that text here.  The number is what the database and `!=' make of it.
PinNumber(pin) == IF pin < 0 THEN -pin ELSE pin

ASSUME GpioAssumption ==
  /\ Proc \cap Orphan = {}
  /\ PhysicalPin \subseteq Int \ {0}
  /\ \A pin \in PhysicalPin : PinNumber(pin) \in PhysicalPin
  /\ ExecMayFail \in BOOLEAN

VARIABLES
  exported,  \* the lines that have a directory gpio<line>/
  outputs,   \* the lines whose direction is "out"
  high,      \* the lines at level 1
  exec       \* the command each caller awaits, and those that are orphaned

kernel == <<exported, outputs, high>>
gpioVars == <<exported, outputs, high, exec>>
-----------------------------------------------------------------------------
DIR_OUT == "out"
DIR_IN == "in"
Direction == {DIR_IN, DIR_OUT}

HeaderPin == 24..34

\* The switch from physical pins to GPIO lines; other pins are rejected.
convertPhysicalPin ==
  [p \in HeaderPin |-> <<12, 13, 69, 115, 4, 24, 25, 35, 34, 28, 33>>[p - 23]]

Line == {convertPhysicalPin[p] : p \in HeaderPin}

GpioObject == [pinNo : Line, direction : Direction]

\* new Gpio(pin, direction); the switch throws unless pin is a number on the header:
\* a text is none of its cases.
ValidPin(pin) == pin \in HeaderPin
NewGpio(pin, dir) == [pinNo |-> convertPhysicalPin[pin], direction |-> dir]
-----------------------------------------------------------------------------
(***************************************************************************)
(* Commands.  The verbs "in" and "out" write the direction file, "0" and   *)
(* "1" the value file, "cat" reads the value file.                         *)
(***************************************************************************)
Verb == {"export", "unexport", "in", "out", "0", "1", "cat"}

\* What cmdOutput resolves to: `true' stands for an empty output.
Output == {"true", "0", "1", "undefined"}

Exec == [verb : Verb, line : Line, out : Output \cup {"pending"}]
NoExec == [verb |-> "none", line |-> 0, out |-> "none"]

GpioTypeOK ==
  /\ exported \subseteq Line
  /\ outputs \subseteq Line
  /\ high \subseteq Line
  /\ exec \in [Proc \cup Orphan -> Exec \cup {NoExec}]

GpioInit ==
  /\ exported = {}
  /\ outputs = {}
  /\ high = {}
  /\ exec = [r \in Proc \cup Orphan |-> NoExec]

Issue(p, verb, line) ==
  exec' = [exec EXCEPT ![p] = [verb |-> verb, line |-> line, out |-> "pending"]]

Pending(r) == exec[r].out = "pending"
Answered(p) == exec[p].out \in Output
Ok(p) == exec[p].out # "undefined"
-----------------------------------------------------------------------------
(***************************************************************************)
(* The kernel's side of a command.                                         *)
(***************************************************************************)
Allowed(c) ==
  \/ c.verb = "export" /\ c.line \notin exported
  \/ c.verb \in {"unexport", "in", "out", "cat"} /\ c.line \in exported
  \/ c.verb \in {"0", "1"} /\ c.line \in exported \cap outputs

\* An unexported line keeps its direction and level: the kernel only forgets
\* the files.  Setting direction "out" drives the line low.
Perform(c) ==
  /\ exported' = CASE c.verb = "export"   -> exported \cup {c.line}
                   [] c.verb = "unexport" -> exported \ {c.line}
                   [] OTHER               -> exported
  /\ outputs' = CASE c.verb = "out" -> outputs \cup {c.line}
                  [] c.verb = "in"  -> outputs \ {c.line}
                  [] OTHER          -> outputs
  /\ high' = CASE c.verb = "1"          -> high \cup {c.line}
               [] c.verb \in {"0", "out"} -> high \ {c.line}
               [] OTHER                 -> high

OutputOf(c) ==
  IF c.verb # "cat" THEN "true" ELSE IF c.line \in high THEN "1" ELSE "0"

\* The shell runs the command a caller awaits, and exec's callback stores
\* its output, or leaves it undefined after an error.
RunCommand(p) ==
  /\ p \in Proc
  /\ Pending(p)
  /\ \/ /\ Allowed(exec[p])
        /\ Perform(exec[p])
        /\ exec' = [exec EXCEPT ![p].out = OutputOf(exec[p])]
     \/ /\ ExecMayFail \/ ~Allowed(exec[p])
        /\ exec' = [exec EXCEPT ![p].out = "undefined"]
        /\ UNCHANGED kernel

\* cmdOutput gives up: the caller gets undefined, the command stays behind.
Timeout(p) ==
  /\ p \in Proc
  /\ Pending(p)
  /\ \E o \in Orphan :
        /\ exec[o] = NoExec
        /\ exec' = [exec EXCEPT ![o] = exec[p], ![p].out = "undefined"]
  /\ UNCHANGED kernel

\* A command that nobody awaits any more runs after all, or fails.
RunOrphan(o) ==
  /\ o \in Orphan
  /\ Pending(o)
  /\ \/ Allowed(exec[o]) /\ Perform(exec[o])
     \/ (ExecMayFail \/ ~Allowed(exec[o])) /\ UNCHANGED kernel
  /\ exec' = [exec EXCEPT ![o] = NoExec]

GpioNext ==
  \/ \E p \in Proc : RunCommand(p) \/ Timeout(p)
  \/ \E o \in Orphan : RunOrphan(o)
=============================================================================
