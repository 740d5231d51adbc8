# TLA+ models of GpioManager_Server

This directory models the server in `src/`: a Node.js program (Node 10, see
`README.md` of the repository) through which a mobile app switches GPIO lines of a
DragonBoard 410c. The models are checked with TLC on small instances, and the
properties that matter most are proved with TLAPS for every value of the
constants. `PROJECT.json` lists the runs, the source lines that each definition
translates, the hazards, the findings and the theorems.

## The system

| Part | Code | State | Operations | Interacts with |
| --- | --- | --- | --- | --- |
| GPIO lines | `modules/Gpio.js` | the sysfs files (exported lines, directions, levels); the shell commands under way | `init`, `turnOn`, `turnOff`, `isOn`, `readValue`, `unexport`, all through `cmdOutput` | the kernel, by `echo` and `cat` in a shell |
| Components manager | `modules/components-manager.js` | `components`, a map from ids to mutable objects | `init`, `getComponents`, `toggleComponent`, `updateComponent`, `addComponent`, `removeComponent`, `getINComponentsValues`, `onStop` | `Gpio.js`, the database, the endpoints, the listener |
| Components listener | `modules/components-listener.js` | `prevValues`, `stop` | `startListener`, `onStop` | the manager, the room |
| Endpoints | `socket-setup.js` | the members of `componentsRoom` | one handler per request, `processIncomingMsg`, broadcasts | all of the above, sessions |
| Sessions | `util/authenticator.js` | `accessTokens`, a map from tokens to expiry dates | `initTokens`, `registerNewUserSession`, `verifyToken`, `removeUserSession` | the database, the endpoints |
| Database access | `util/db/*.js`, `db_setup/schema.sql` | tables `Components`, `AccessTokens`, `Users`; one connection and transaction per statement | select, insert, update, delete | MySQL or MariaDB |
| Command line, entry and exit | `cli.js`, `main.js` | registered commands, `stoppedProperly` | `stop`, `exit`, `help`, `components` | every module registers its `onStop` |
| Token generator | `util/token-generator.js` | `map`: the numbers used in the current millisecond | `generateToken`, `generateAccessToken` | sessions |
| Login | `socket-setup.js`, `util/authenticator.js` | a request suspended at its `SELECT` | `verifyUser`, `registerNewUserSession` | the database, sessions |
| User setup | `setup-new-user.js` | none | a script, a process of its own, that adds a user | the database, the terminal |
| Operator | `README.md` of the repository | none | `DELETE FROM Users` in the mysql shell | the database |
| Logger, error codes, ngrok, e-mail | `util/logger.js`, `err-codes.js`, `main.js` | log files | output | external services |

What makes the server hard to test:

- *Interleaving.* Node runs one callback at a time, but every handler gives way to
  the others at each `await`, and handlers share the map, its objects and the
  lines. A handler that reads `components[id]` before an await and again after it
  may see two different things.
- *Two copies.* Both maps are caches of tables. An `UPDATE` or `DELETE` is sent
  without being awaited, on a connection of its own: those pending are executed in
  any order, may be refused, and are lost when the process ends.
- *Commands that outlive their callers.* `cmdOutput` stops waiting after 10000
  polls; the shell it started is still there.
- *Exceptions nobody catches.* In Node 10 a rejected promise is only a warning:
  the handler ends without a response, the listener without a trace.
- *Restart.* Lines keep their state, tables theirs, caches are lost.
- *Answered before it is stored.* Each statement has a connection and a transaction of
  its own. The promise is settled when the statement is answered, the `COMMIT` follows,
  and nobody waits for it. Server, script and shell do this at the same time.
- *Conversions.* `!=` and the table take the text `"24"` for the number 24, the `switch` in
  `Gpio.js` does not; the table takes `OUT` for `out`, the code for anything but `out`.
- *Time.* Leases end with the clock, and a date loses its milliseconds in the table.

What makes it correct: what clients see is stored (and the other way round); ids
are never reused; a component, its data and its line agree; a released line is low;
no line leaks; every request ends; members of the room are told of what changed;
levels that last are noticed; a stop releases the lines; an idle session ends and
an active one lasts; a logout holds; a token is issued once; an account that was
reported as created is there until it is removed; a stored session has an account.

## Modules

| Module | Models | Builds on |
| --- | --- | --- |
| `Gpio` | `Gpio.js` and the sysfs files | |
| `ComponentsManager` | `components-manager.js`, its endpoints, table `Components` | extends `Gpio` |
| `ComponentLifecycle` | abstract: the stages of an id | implemented by `ComponentsManager` |
| `OneClient` | the invariants behind what holds for one client that waits for each response, and for several that keep off each other's components | extends `ComponentsManager` |
| `Server` | listener, room, shutdown, changing inputs | extends `ComponentsManager` |
| `Sessions` | `authenticator.js`, logout, table `AccessTokens` | |
| `AtomicTable` | abstract: what other modules take for granted of a statement | implemented by `Database` |
| `Database` | `Database.js`, `db-controller.js`: connections and transactions | |
| `TokenGenerator` | `token-generator.js` | |
| `Accounts` | login, `setup-new-user.js`, the operator; `Users` and `AccessTokens` | extends `Database`, `TokenGenerator` |
| `ComponentsManagerProofs`, `OneClientProofs`, `ServerProofs`, `OneClientServerProofs` | theorems about the manager and the running server | the first is extended by the next two, and these by the last |
| `SessionsProofs`, `TokenGeneratorProofs`, `DatabaseProofs`, `AccountsProofs` | theorems about sessions, tokens, the database and accounts | the last extends the two before it |
| `MCComponentsManager`, `MCServer`, `MCSessions`, `MCAccounts` | instances for TLC | |

Definitions have the names of the code where there is one (`verifyToken`,
`convertPhysicalPin`, `components`, `rows`). Definitions whose comment begins with
"Mutant" are what the next definition would be with a plausible bug in the code or the schema;
they are not part of any specification, and are there to show that each property
can fail.

**Gpio.** `exec[p]` is the command that asynchronous function `p` awaits. `Issue`
starts it, `RunCommand` lets the kernel accept or refuse it and stores the output,
`Timeout` is `cmdOutput` giving up: the command moves to a name in `Orphan`, and
`RunOrphan` runs it later. The kernel's side is external, modelled from the commands
the code sends: exporting twice fails, a value can be written only to an exported
output, direction `out` drives the line low, unexporting forgets only the files.

**ComponentsManager.** `h[s]` says at which await request `s` is suspended and what
its local variables hold; `h[Boot]` is `init()`. One action is what a handler does
between two awaits, so all interleavings of handlers are those of the code.
`components` maps ids to references and `objects` holds what they refer to, because
`executeUpdate` writes to an object that may have left the map. `writes` is the set
of `UPDATE`s and `DELETE`s sent and not executed; `ExecuteWrite` executes any of them, or
fails. `resent` are those that were sent a second time while pending. An `INSERT` is
awaited, and its row is in `rows` from then on, but `uncommitted`: locked, and not read by a
`SELECT`, until `CommitInsert`. `LoseInsert` is the connection lost before that, after the
client was answered and perhaps the component put into the map; a restart undoes the row,
too. Three history variables hold the ids of this run whose `INSERT` was `undone` so,
that `addComponent` stored but could not serve (`unserved`), and whose `UPDATE` was sent while
another was pending, or was not executed (`doubtful`).
`answer` is the response of the last step; `"silent"` means that the handler threw
outside any `try`. Names and descriptions are left out: they are copied together
with pin and direction, and nothing depends on them. Statuses, pins and missing
fields that the code rejects are enumerated together with good ones.

A pin in a request is a number or a text, and a direction may be in capitals (`Spelling`): a
negative number stands for the text, `-24` for `"24"`. What the code and the table make of
them differs, and each conversion is modelled where it happens: `Stored` is what the
table keeps (`INTEGER`, `ENUM`), `Rewires` compares as `!=` does, `ValidPin` is the strict
`switch` of `Gpio.js`, `WiredAs` the `"out"` or input of `addComponent` and `init()`, and
`Wirable` the checks of the constructor, which `executeUpdate` gives the data as they are.

**ComponentLifecycle.** The stages of an id: unused, stored, served, dropped, deleted; and
undone, when its row was lost between the answer and the `COMMIT` (`unsaved` are the ids whose
row can still be lost). From there it only gets to deleted, by a restart.

**Server.** Adds the listener's loop (`Poll`, `ValueRead`, `NextRound`, `Dies`), a
member of the room with the history variable `untold` (something it is shown changed
and no `componentsChange` followed), inputs that the world changes, and `stop` and
`exit` with the modules' `onStop`. `stopper[c]` is a `stop` command in progress: where
the manager's `onStop` is suspended and whether that of `main.js` has ended;
`Prompt` is `executeAll` having counted all of them. `stop` may be entered again, as the
command line allows: `main.js` then returns at once if `stoppedProperly`, and the
manager walks through the map again. `help`, `components` and unknown commands only
print. `Manage(A)` is a step `A` of the manager together
with the broadcast that follows it.

**Sessions.** A token's expiry in the map and in the table, pending statements,
`initTokens` split at its `SELECT`, logouts suspended twice. The clock counts half
seconds, so that `Floor` and `Ceiling` are what dateformat and the database make of
an expiry. `use` and `loggedOut` are history variables. Tokens are fresh, which is what
`TokenGenerator` shows.

**Database.** `conn[c]` is a connection: `Send` is `new Database()` and the query,
`Perform` the database executing it, `Answer` the callback, with `close()` at once;
`Commit` is the `COMMIT` arriving, `Break` a connection lost before that, `Crash` the end of a
process. The database is external: rows are locked until the transaction ends
(`HasLocks`), also the one that an `INSERT` was refused for (`Found`), a `SELECT` reads what
is committed, and keys are checked at execution.
`AtomicTable` knows only statements sent and executed. The mapping counts a
statement as pending until its `COMMIT`, or until it is refused: the abstract execution is the
`COMMIT`, although the answer came before.

**TokenGenerator.** A token is two time stamps, each with a number and random letters.
Only stamp and number are kept: the letters make an equal token less likely, but are no
guarantee. `drawn` counts, over all runs, how often each pair was drawn.

**Accounts.** A login is suspended at its `SELECT` (`logins`); `LoginGranted` draws the
token, puts the session into the map and sends the `INSERT` without awaiting it.
`NewUser` sends the `INSERT` of a user whose name may be taken: `checkUsername` tests a
promise, so it never rejects a name for that, and its `SELECT` has no effect (it is left out).
`Report` is the script's "successfully created", `ScriptExits` the end of the process,
when its connection is closed. `promised` is history: the password of each account
that was there at first, or was reported by a script that ended without an error, until a
removal is committed. Users and passwords are values, compared for equality: hashing is a
pure function, and names that the database takes as equal are one value.

### The assumption EarlyRequests = FALSE

`components-manager.js` and `authenticator.js` start loading their tables when they
are required, and the server listens at once: nothing makes the first request wait.
A request served in between can remove a component that `init()` then puts back
from its snapshot, and a logout in between is undone. Constant `EarlyRequests` says
whether this happens. With `TRUE`, `CachedIsStored`, `TableFollowsCache` and `FollowsLifecycle` of
`ComponentsManager` and
`CachedIsStored`, `ActiveSessionsLast` and `LogoutHolds` of `Sessions` fail; all
passing runs use `FALSE`, and the theorems that need it say so. It means that no
client knows the server's new address (which is mailed to the user) before the
tables are loaded. `TypeOK` and `IdleSessionsExpire` hold either way.

### The assumption Contested = FALSE

`updateComponent` does not look whether another component has the new pin. It gives
up the old line, points the object at the new one and only then finds that it
cannot be exported. The request is answered with an error, but the object stays on the other
component's line. From then on a toggle drives, and a removal releases, a
line that is somebody else's, and the table keeps the old pin. Constant `Contested`
says whether clients ask for a pin that another component has, or that another request in
progress is about to give to one; a text counts as the number it stands for. With `TRUE`,
`TableMatchesCache`, `ReleasedIsLow` and `TogglesItsOwnLine` fail for one client already
(run `table_diverges` shows the first). The theorems about the last two state the
assumption, and so do those about the lines with several clients; no other theorem needs it.

### The assumption Shared = FALSE

No handler locks the component it works on. With two updates of one component in progress,
each replaces the line object between the other's awaits, and object, data and lines no
longer belong together. Constant `Shared` says whether clients send a toggle, an update or a
removal of a component that another request in progress works on; the guard is
`NobodyWorksOn`. With `TRUE` and more than one client, `ExportedIsOwned`,
`OkUpdateRewires`, `ReleasedIsLow` and `TogglesItsOwnLine` fail. With `FALSE` any number of
requests may be in progress and interleave at every await, on different components. The code
has no lock, and no document promises one: this is an assumption on how the server is used.
Only `uncontested` needs it among the runs; the others have `TRUE`, and with one client the
constant makes no difference.

### Table and cache

`executeUpdate` changes the cache, sends the `UPDATE` and reports success, and does not look
at what becomes of it. So the table does not always say what the map says
(`TableMatchesCache` fails, run `table_diverges`): an `UPDATE` may be refused, may fail, or two
of one component may be executed in the other order. `TableFollowsCache` says that these are
the only ways: the row of a component with no `UPDATE` pending is what is cached, unless the
last one was sent while another with other data was pending, or one was refused or failed. It
is checked with both pending and with failing statements, and proved (with `EarlyRequests = FALSE`) without any
other assumption on clients, pins, failures or the number of pending statements.

## Runs

| Run | Instance | Shows |
| --- | --- | --- |
| `uncontested` | two clients that keep off each other's components and pins, two ids, two good pins and a bad one, all endpoints; symmetry of clients | lines are low when released; a toggle drives the line its component names, also right after an update; the invariant of the proofs |
| `contested` | one client, two ids, two pins, one of them also as a text, `OUT` besides `in` and `out`, without that restriction; update, add, remove | no line leaks; commands are for the right lines; an update that reports success has rewired the component |
| `two_clients` | two clients, two ids, one pin as a number or a text; update, add, remove; symmetry of clients | the life cycle of ids, no forgotten row but those of `addComponent` with a text, rows that follow the cache, and the invariants of the proofs, under all interleavings; no statement fails and nothing restarts |
| `faults` | one client, one id; failing commands and statements, `COMMIT`s lost after the answer, a late command, two pending statements, a restart | rows that follow the cache, the life cycle and stored components under faults; every request ends |
| `server` | one client, one id, listener, room, inputs, shutdown, a restart | members are told, levels are noticed, a stop at rest releases lines, a stop ends; the invariant of the proofs |
| `accounts` | one user, two passwords, two connections, one login, two stamps and numbers; refusals, lost connections, restarts | statements are atomic; reported accounts last; stored sessions have accounts; tokens are issued once; every login is answered and the script ends |
| `sessions` | one token, two logouts at a time, validity of 3 ticks in 5, three pending statements, a restart | sessions end when they should and not before; the invariants of the proofs |

Why these bounds are enough to be interesting. Two handlers are the least that
interleave, two ids and two pins the least that compete for a pin. An id lives
through at most one `init()` and one `addComponent()` per run, and a restart brings
it from one to the other. `DbLag` is the number of pending statements and `COMMIT`s above which no
new request arrives: with 1, or with 0 and two clients, two statements are pending and can be
swapped. In `two_clients` both pins are one to the table, so that every two additions
compete for it; two different good pins besides were followed for 2 million states without a
violation, but take too long. Tokens do not
influence each other, so one is enough; its lease can end, be renewed, be rounded
in either direction and be loaded after a restart within 5 ticks of a validity
of 3. Two connections are the least on which transactions overlap: an `INSERT` of a
session and the `DELETE` of its user, or two statements on one row; two passwords tell an
account that was replaced from one that was kept, and two stamps and two numbers let
the generator's memory begin anew while it is in use. `MaxReading` also bounds logins and
restarts of the server: a login begins, and a restart happens, only before the last stamp.
`MaxId`, `Preloaded`, `DbLag`, `MaxTime`, `MaxRestarts` and the sets `Slot` and `Orphan` are
bounds for TLC only; the theorems hold for all of them, unless they state an assumption.
Deadlock is checked in all runs but those of `Server`, whose process exits.

Some properties hold only for part of the behaviours; the instance says which, and so do
the assumptions of the theorems. `ReleasedIsLow` and
`TogglesItsOwnLine` are checked with `Contested = FALSE` and `Shared = FALSE`, `ExportedIsOwned`
and `OkUpdateRewires` for one client with `Contested = TRUE`. `uncontested` starts with at
most one component; with two from the start (`Preloaded = 2`) it has 1.6 million states and
was checked, too, also for `DrivingInv`, `OwnedInv`, `PinsInv`, `WiringInv`, `OwnLines`,
`ExportedIsOwned` and `OkUpdateRewires`.

`server` has one id, so that liveness can be checked quickly. Its properties were also
checked with two ids on one good pin (`MaxId = 2`, no toggles, no restart: 1.1 million
states, three minutes), where they hold, and its safety properties with one id on two good
pins and a restart (8.7 million states). It has one `stop` command in progress at a time (constant `Stopper`),
which may be entered again when it has ended. With two at the same time
(`TwoStops`) its safety properties were checked, too, and hold (4.5 million states).

Five runs end in a violation, each of something that the repository says:

| Run | Property | What happens |
| --- | --- | --- |
| `unanswered_listing` | `ListingsAreAnswered` | an update to a bad pin gives up the old line first; from then on the listing's read throws and no response is sent |
| `table_diverges` | `TableMatchesCache` | with two components an `UPDATE` is refused by `UNIQUE`, unnoticed, after success was reported |
| `logout_undone` | `LogoutIsFinal` | the `DELETE` is lost in a restart, or overtakes the `INSERT`; the token is loaded again |
| `listener_dies` | `ListenerSurvives` | the listener reads a line that is not exported yet, or no longer, and its loop ends |
| `lines_left_exported` | `StopReleasesLines` | a request in progress during `stop` exports a line after `onStop()` has passed |

### Fairness

`ComponentsManager`: a handler whose command is answered goes on, because its timer
fires and Node runs the callback; a command is answered or given up, because
`cmdOutput` counts its polls; the database answers. No fairness for requests, for
restarts, or for commands nobody waits for. `Server` adds the timers of the
listener and of `stop`, as long as the process lives. `Patient = TRUE` assumes that the
2 seconds in `main.js` are enough for `onStop()`; the code does not ensure this, one line
may take 10 seconds. `Sessions` needs no fairness: its properties are safety
properties.

`Accounts`: the clock goes on, the script's callback runs, and the database gives a
lock to those who have waited long enough (InnoDB queues them), so what becomes of a
connection is strongly fair. So is answering a login, because a granted one needs a free
connection for its `INSERT`: the code opens as many as it needs, only the model
has few. There is no fairness for logins, removals, restarts, or Ctrl+C.

## Proofs

`ComponentsManagerProofs` proves, for any sets of pins, requests and late commands,
any number of ids and any faults:

- `TypeCorrectness`: `Spec => []TypeOK`. `TypeOK` alone is not inductive: what a
  handler does next depends on what it holds. `TypeInv` adds that every cached
  reference is to an object, and `WellFormed`, what each suspended handler holds at
  each await. The proof has lemmas for the ways to suspend and to finish, and a lemma per
  operation.
- `CachedComponentsAreStored`: `Spec => []CachedIsStored`, assuming `EarlyRequests =
  FALSE`. The invariant is `OrderInv`: ids that are known anywhere have been handed
  out (`HandedOut`); a row that is not committed is there, and one that was undone is not
  (`LockedIsStored`); a pending `DELETE` is of an id that has left the map
  (`DeletedIsUncached`); between the `INSERT` and the map an id belongs to one
  request, and its row is what the request will cache (`InsertedIsPrivate`); `init()` is alone
  and what it has yet to load is still
  stored (`BootIsAlone`). Without `InsertedIsPrivate` a second request could delete the
  row of an id that the first is about to cache. `RequestsAreInOrder` states `OrderInv`
  itself. `CachedIsStored` makes one exception, a row that was undone between the answer and
  the `COMMIT`: such a component is served without a row, and nothing in the code prevents it.
- `ImplementsLifecycle`: `Spec => FollowsLifecycle`, under the same assumption. Every step maps
  to a step of `ComponentLifecycle` or a stutter under `life`, which reads the stage of an id off
  the map, the table and the pending statements. With `CachedIsStored` this gives that a deleted
  id never comes back, whatever is reordered or lost, and that a row is lost otherwise only
  before its `COMMIT`.
- `StoredRowsAreAccountedFor`: `Spec => []StoredIsAccountedFor`, assuming `EarlyRequests =
  FALSE` and `DbMayFail = FALSE`. The danger is an `UPDATE` that is executed late: it could give a
  row that nobody serves, because its pin is bad, a good pin. `AccountInv` excludes this: a
  component that an update is under way or sent for is in the map, or its row is gone or
  about to go (`UpdatedIsAccountedFor`). A row that `addComponent` could not serve as it was
  given is the exception (`unserved`): with the pin as a text, `new Gpio` throws, but the row has a
  good pin. A `DELETE` that fails leaves a forgotten row, hence the
  second assumption; restarts, failing commands and reordered statements do no harm.
- `RowsFollowTheCache`, `TableAgreesWithCache`: `[]FollowInv` and `[]TableFollowsCache`, assuming
  only `EarlyRequests = FALSE`. The pending `UPDATE`s of an id that is not doubtful carry what is
  cached, and without any the row does (`RowFollows`). It needs that an update which is
  suspended holds the object in the map, and that no two ids share one (`ObjectsAreOwn`): else
  the `UPDATE` sent at its end would carry the data of an object that nobody is shown.

`OneClientProofs` proves, with `EarlyRequests = FALSE` and for any number of ids and pins, what
holds for one client that waits for each response (`OneClient`: there is at most one `Slot`),
and what of it holds for any number of clients that keep off the components others work on
(`SeparateClients`: `OneClient`, or `Shared = FALSE`). The invariants are in `OneClient.tla`, each
built on the ones before it:

| Invariant | Says | Assumes in addition to `SeparateClients` |
| --- | --- | --- |
| `DrivingInv` | what a request awaits is a command of its own kind for the line of the component it works on; no two requests work on one component (`OwnComponents`); an update holds the object in the map; no two ids share an object | |
| `WiringInv` | what a command that succeeded has achieved for its line | `Orphan = {}`, and `OwnLines` |
| `OwnedInv` | exported lines are those of components, and a line is given up before the object that drives it | `Orphan = {}`, `ExecMayFail = FALSE`, no restart, and `OwnLines` |
| `PinsInv` | cached pins are valid and differ, nobody takes the pin a request has asked for, and no two requests ask for one pin | `Contested = FALSE` |
| `LowInv` | objects, rows and directions agree but for the components that `Gpio.init()` is at work on; high lines are exported outputs; what is turned off or given up is low; no step of `Gpio.init()` fails | those of `OwnedInv` and `PinsInv` |

`OwnLines` says that no two requests in progress await commands for the same line. One client
makes it trivial, whatever the pins. With several, different components are not enough: two
of them could drive one line, and one request would unexport what the other has just
exported. Lemma `LinesApart` derives it from `DrivingInv`, `PinsInv` and `LowInv`: components
have different pins, and the object of each drives the line that its pin, or the one asked
for, is converted to. As `LowInv` in turn needs `WiringInv` and `OwnedInv`, the three are
proved together (`LinesInv`).

Lemma `NextProceeds` is the core of these proofs: every step is one of a request or `init()`
(`Proceeds`), or a command that runs, a statement that is executed, or a restart. `Proceeds`
says once what such a step may do to the commands, the cache, the table and the statements, so
each invariant is proved from it instead of from some twenty actions. In particular, by
`WorksOn`, a step changes only the component it works on, which nobody else does: so what the
invariants say of the other requests is not disturbed.

- `CommandsDriveTheirComponents`: `[]DrivingInv` for `SeparateClients`, whatever fails or
  restarts, and whoever asks for which pins.
- `SuccessfulUpdatesRewire`: `OkUpdateRewires` for one client, from `WiringInv`. Commands may
  fail and pins be contested: then the update does not report success. A late command could
  undo what the update has done, hence `Orphan = {}`.
- `ExportedLinesAreOwned`: `[]ExportedIsOwned` for one client, and more: at every moment, not
  only at rest. An `unexport` that fails is not noticed, and after a restart in the middle of an
  update the line it had exported belongs to nobody, hence the assumptions.
- `SeparateLinesAreLow`, `SeparateLinesAreOwned`, `SeparateUpdatesRewire`: `[]LowInv`,
  `[]OwnLines` with `[]ExportedIsOwned`, and `OkUpdateRewires`, for any number of clients that
  keep off each other's components and pins, under the assumptions of `LowInv`.
- `ReleasedLinesAreLow` and `TogglesDriveTheirLine`: `[]ReleasedIsLow`,
  `TogglesItsOwnLine` under the same assumptions, from `LowInv`. That the line to be exported is
  free, so that `Gpio.init()` does not fail half way, follows from pins that differ
  (`PinsInv`) and lines that do not leak (`OwnedInv`).

`ServerProofs` proves, for any number of clients, ids, pins and `stop` commands at a time:

- `ServerTypeCorrectness`: `ServerSpec => []ServerTypeOK`. That the listener stores
  values needs `CommandInv`: it issues only reads (`ListenerReads`), and a command that
  writes belongs to a request that changes components, to `init()` or to a `stop`
  command in progress (`CommandsAreClaimed`).
- `ServedComponentsAreStored`, `ServerImplementsLifecycle`: `ServerSpec =>
  []CachedIsStored`, `ServerSpec => FollowsLifecycle`, assuming `EarlyRequests = FALSE`.
  By lemma `ServerStep` each step of the server is one of the components manager, or
  `Beside` it, touching lines and commands only, so what was proved of the manager holds
  in the composition.
- `ServerTableAgreesWithCache`, `ServerForgetsNoRow`: `TableFollowsCache` and
  `StoredIsAccountedFor` of the running server in the same way, each under the assumptions it has
  in the manager, for any number of clients.
- `RoomIsTold`: `ServerSpec => []MembersAreTold`, assuming `EarlyRequests = FALSE` and
  `Orphan = {}`, from `RoomInv`: what a member has not been told of, a request in progress
  will tell it. Each step of a request broadcasts, or goes on with a request that will, or
  changes nothing that is shown (`Informs`). A command that runs after its caller
  has stopped waiting changes a line when nobody is left to tell of it, hence `Orphan =
  {}`. The run has one client; the theorem has any number. `CommandsAndRoomAreInOrder`
  states the invariant itself.

`OneClientServerProofs` brings these results together. By lemma `ServerStepAside` each step of
the server is one of the manager, or one `Aside`, which changes no cache, row or request,
exports no line, and leaves the commands of requests alone. So it proves for the running
server, with any number of `stop` commands at a time:

- `ServerLeaksNoLine`: `ExportedIsOwned` for one client. For several the manager's proof rests
  on `LowInv`, which does not hold of the running server (`onStop` unexports
  lines that are high).
- `CalmStopReleases`: `ServerSpec => []CalmStopReleasesLines`, assuming one client,
  `EarlyRequests = FALSE`, `Orphan = {}`, `ExecMayFail = FALSE` and `Patient = TRUE`. The
  invariant is `StopInv`, which `StopsGiveUpEveryLine` states: when the first `stop` has
  found everybody at rest, everybody stays at rest, so no command that is left exports a line; and each `stop` command
  `Releases` every component: its line is not exported, or is yet to be visited, or is
  being unexported. With `OwnedInv`, as long as the server was not restarted, no line
  is left. It needs no bound on restarts: after one, the lines of components are released
  all the same.

`ReleasedIsLow` is not a property of the running server: `onStop` unexports lines without
turning them off, and inputs are high when the world says so.

`SessionsProofs` proves, for any tokens, validity, pending statements and restarts:

- `TypeCorrectness`: `Spec => []TypeOK`.
- `IdleSessionsAreOver`: `Spec => IdleSessionsExpire`, from `LeaseInv`: wherever a lease is
  (map, table, snapshot, statement), it ends at most half a second after the last use
  plus the validity. A token is accepted strictly before its expiry, so the rounding
  never shows. Lemma `Rounding` bounds what the database makes of a date. `LeasesAreBounded`
  states `LeaseInv` itself.
- `LogoutsHold`, `SessionsLast`: `Spec => []LogoutHolds`, `Spec => []ActiveSessionsLast`,
  assuming `EarlyRequests = FALSE`, from `ServiceInv` (a token that was never used is known
  nowhere, `initTokens()` is alone, the map holds the lease of the last use), which
  `SessionsAreConsistent` states.
- `CachedSessionsAreStored`: `Spec => []CachedIsStored`, assuming in addition that no
  statement fails without a reason.

`TokenGeneratorProofs` proves `TokensAreUnique`: `GeneratorSpec =>
[]TokensAreIssuedOnce`, assuming `ClockMayStepBack = FALSE`. The invariant says of every
pair that was drawn that its stamp is in the past, or is the one the map holds, with its
number (`Remembered`).

`DatabaseProofs` proves, for any rows, values, connections and clients:

- `LocksHold`: `DbSpec => []LockInv`. Two statements that are executed and not committed do
  not touch or refer to each other's rows (`Apart`), and each can still be committed without
  breaking a key. The first part is what the second needs when another one commits.
- `StatementsAreAtomic`: `DbSpec => ImplementsAtomicTable`, by `LockInv`: the keys were checked
  at execution, and still hold at the `COMMIT`, where the abstract table checks them.

`AccountsProofs` shows that each step of `Accounts` is one of `Database` (lemma
`StepOfDatabase`) and one of `TokenGenerator`, so both results carry over
(`AccountsUseAtomicStatements`, `SessionTokensAreUnique`), and proves, for any users,
passwords, connections and requests:

- `TypeCorrectness`, with the part `AwaitedIsUnderWay`, which needs that no two
  logins await the same connection (`AwaitedOnce`).
- `AccountsAreKept`: `Spec => []AccountsLast`. `Promises` adds that what the script has
  reported is stored or on its way to the `COMMIT`; that no other `INSERT` can replace it is
  what `LockInv` says of the locks.
- `SessionsHaveAccounts`: `Spec => []StoredSessionsHaveAccounts`, from `References`: a
  committed row refers to a committed row.

Only model-checked: liveness (`EverythingEnds`, `ChangesAreNoticed`, `StopEnds`,
`EverybodyIsAnswered`), which the prover cannot do under fairness. Every safety
invariant, action property and refinement that a passing run checks is stated by a theorem.

## Abstractions

- `ComponentsManager` and `Sessions` execute a statement as a whole at some time after it
  was sent. `Database` shows that this is what its transactions amount to, with one
  difference: an answer may come before the statement takes effect, and the
  effect may be undone by a crash or a lost connection in between. `ComponentsManager` has this
  for `INSERT`, the only statement whose answer it waits for; nobody waits for that of an
  `UPDATE` or a `DELETE`, which is executed when it is committed, or fails. `Sessions` waits for
  no statement but the `SELECT` of `initTokens`.
- The database itself is not restarted: `AUTO_INCREMENT` does not go back.
- Of equal pending `DELETE`s one counts: executing both changes no more. Of equal pending
  `UPDATE`s two count (`resent`), because another may be executed in between. Ids
  used up by refused `INSERT`s are left out.
- A restart waits for the commands that handlers await (a shell outlives the process, and
  ends within the time of a restart); late ones survive it.
- The listener's broadcast follows from `RoundDone`; a broadcast is delivered when sent.
- Ids in a request are numbers that the table could hand out. Directions other than `in` and
  `out`, in any case, are left out: `addComponent` gets an error from the `ENUM` for them, and
  `executeUpdate` treats them as it does a bad pin.
- The operator has one shell. Input that the script finds invalid makes it ask again, and
  is left out. In Node 10 a rejected promise that nobody handles is a warning; a process that ended
  because of it would be a `Restart` or `ScriptKilled`, which happen at any time.
- A deadlock of transactions, which the database breaks by refusing one of them, is a
  statement that fails; each transaction has one statement, so it is rare.

## Observations

- An `addComponent` with the pin as a text (`"24"`) is stored and reported as a success, but
  `new Gpio` throws (`Gpio.js:90`), so the component is not served until a restart loads the
  number 24 from the table. An update to a text ends with an error after the old line was given
  up, unless the text stands for the pin the component has and the direction stays.
- An `addComponent` with direction `OUT` stores `out`, but wires an input: it cannot be switched
  until a restart loads `out` from the table.
- Two `UPDATE`s of one component that overlap may be executed in the other order. The cache
  shows the second, the table keeps the first, and the next restart brings it back
  (`TableMatchesCache` fails with `DbLag = 1` for one component and one client).
- An `INSERT` whose `COMMIT` is lost leaves a component that is served, toggled and updated
  without a row; it is gone after a restart.
- `checkUsername` never finds that a name is taken, because it does not await `getUser`
  (`setup-new-user.js:92`). The `INSERT` is refused instead, and the script shows the error
  of the database; `AccountsLast` says that the account that is there is not touched.
- `README.md:50` of the repository removes a user with a plain `DELETE FROM Users`. It
  is refused as long as a session of the user is stored (`FOREIGN KEY`), which is what
  `StoredSessionsHaveAccounts` relies on; sessions in the map of a running server outlive
  a removal that overtook their `INSERT`, until they expire or the server is restarted.
- A crash in the middle of an update leaks a line for good: the update has exported the new
  line, the row still has the old pin, and after the restart `init()` exports the old one. No
  component has the line of the new pin, so even a calm stop leaves it exported.
  `CalmStopReleasesLines` therefore promises "no line at all" only as long as the server has
  not crashed; the lines of components it promises always. The same update
  without a crash does not leak (`ExportedLinesAreOwned`).
- A command that `cmdOutput` has given up waiting for may change a line later, when no request
  is left to tell the room: with one late command (`Orphan`) `MembersAreTold` fails. Nothing
  in the repository says what members see then; they see it at the next change.
- When the clock is set back (dateformat shows local time), stamps come back, and
  `TokensAreIssuedOnce` fails with `ClockMayStepBack = TRUE`: then only random letters keep
  tokens apart, contrary to the comment in `token-generator.js:104`.

## Not modelled

- `util/logger.js`: output only. Nothing reads what it keeps, and its functions that
  delete files are called by nobody.
- `ngrok` and e-mail in `main.js`: external services; the retry loop of `sendEmail`
  touches no state of the server.
- Password hashing: a pure use of pbkdf2, represented by the equality of passwords.
- The length of a token against its column (`VARCHAR(191)`): possible, but a matter of
  probability; the refused `INSERT` that follows is modelled.

## Plan

1. Done: `Gpio`, `ComponentsManager`, `ComponentLifecycle`, their theorems; `Sessions` and
   its theorems; `Server` and its theorems; `TokenGenerator`, `Database`, `AtomicTable`,
   `Accounts` and their theorems.
2. Done: the theorems on forgotten rows, on one client and on clients that keep off each other's
   components, for the manager and for the running server.
3. Left: what remains of the line properties with `Shared = TRUE`, when two requests work on one
   component; what `EarlyRequests = TRUE` leaves of `CachedIsStored`.
