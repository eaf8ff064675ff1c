# Formal models of the AFK client

TLA+ specifications of the parts of this repository whose correctness depends
on *order*: who drives an account's connection, who starts and stops its bot in
the shared SoulFire service, what survives a crash, what is written to the
database and when, what a browser shows while requests overlap. TLC checks each
specification on small instances; TLAPS proves the safety properties of the
supervisor, the backend, the website, the engine, the pages (but for the order of
the cards) and the former engine for all values of their constants: any number of
controllers, requests, users and lines, any delays.

Paths below are relative to `src/`, or to `src/backend/src/` and
`src/frontend/src/` where a directory of theirs comes first. `PROJECT.json` maps
each definition to the lines it stands for and lists the hazards of the code
with the properties that cover them.

Contents: [1 Inventory](#1-inventory), [2 Modules](#2-modules),
[3 Runs](#3-runs-bounds-and-fairness), [4 Proofs](#4-proofs),
[5 Divergences](#5-where-the-code-and-its-comments-disagree),
[6 Not modelled](#6-not-modelled), [7 Plan](#7-plan).

---

## 1 Inventory

A website (React) talks over HTTP and WebSockets to one Node process
(`backend/src/server.ts`), which keeps everything in SQLite and runs one
*supervisor* per game account. A supervisor owns at most one *controller*; each
controller runs one *session* against the shared SoulFire service, a separate
Java process that hosts the bots of all accounts and outlives the backend.

```
browser: pages, sockets, dashboard preferences
      |  HTTP, WebSocket
routes: users, accounts, commands, notes, profile, security
      |
ClientManager --- status persistence, console log, earnings --> SQLite
      |  one per account
MinecraftClient (supervisor): status, timers, reconnect policy, duties
      |  one JSON line per order or event, kill, close
SoulFireController / session.ts / behaviors.ts
      |  RPC, event stream
SoulFire service with the plugin (native AutoSell, camera)  -->  game server
```

`backend/src/bedrock-bot/` is the former engine: a process per account that
speaks the Bedrock protocol itself, with the same lines to the supervisor. It is
kept beside the program and not launched by it.

| Component | State it keeps | Operations | What is hard about it | What makes it correct |
|---|---|---|---|---|
| Supervisor: connection (`minecraft/MinecraftClient.ts`, `reconnectPolicy.ts`, `utils/terminateSubprocess.ts`) | status, attached controller, four timers, stop flag, sign-in, ages, failure counters | connect, disconnect, restart, updateConfig; lines, errors and close of the controller; four timers | late events of old controllers; orders during back-off and restart pause; three forms of one deadline; two failures of one attempt | one driver of an account; a truthful status; every attempt ends; a silent bot is noticed; the back-off does not forget |
| Supervisor: duties (same file, `worldRestart.ts`) | announced restart, two series of crouch checks, settings sent | announcement, settings, check timers, spawn | all of it survives reconnects, and must end with the wish for it | no sale too soon after a restart; a due check is made up for; the series end |
| Controller and session (`soulfire/controller.ts`, `session.ts`) | stage of the sign-in, resubscription and health-check counters | start, lines from the supervisor, stream events, polls, kill, finally | runs on after it was cancelled; its finally block stops a bot by name | a session ends exactly once; what it leaves behind is stopped |
| The bot in the shared service (`soulfire/lifecycle.ts`, `ClientManager.loadAll`) | the service's desired state | requests to run and to stop, from four places | requests are lost, late and reordered; the backend crashes; the service restarts | no bot is left unattended; an account that is to run ends up running |
| Client manager (`minecraft/ClientManager.ts`) | registry of supervisors, persisted autoStart | loadAll, register, start, stop, restart, bulk restart, shutdownAll | intent written without waiting; requests overlap | row, registered client and orders agree |
| Status persistence (`minecraft/statusPersistence.ts`) | last requested status, promise chain | persist | slow and failed writes; crash between two | the column ends up at the status |
| Buffered writer (`logging/bufferedWriter.ts`; used by the console log and the earnings) | queue, timer, running save | enqueue, timer, flush | timer, save, failure and flush race | nothing lost, doubled or reordered; flush means settled |
| Behaviours (`soulfire/behaviors.ts`, `inventory.ts`, `homeRecovery.ts`) | foreground task, command queue, home, gates | tick, events, commands | awaits between a decision and its effect | a task belongs to the world it was begun in; the saved home is the bot's |
| Native AutoSell (`soulfire/plugin/.../NativeAutoSell.java` and helpers) | lease, sale, transfer in flight, recovery counter | tick, menu, acknowledgement | late menus and acknowledgements; controller gone | never touches a menu not its own; stops with the lease; goes on while it may |
| Website sockets (`websocket/authorization.ts`, `routes.ts`) | job queue, batches | run, send, revoke | permissions change while jobs wait | every event to whom it is due, and to nobody else |
| Live camera (`soulfire/liveCam.ts`) | streams and their viewers | subscribe, unsubscribe, reopen | a viewer arrives while the last stream closes | one stream per account; none without viewers |
| Users, sessions, login (`users/`, `auth/`) | users, sessions | login, logout, create, update, delete | a check and its update in two statements | one active admin is left; revoked means revoked |
| Address bans (`security/`) | table, cached set, sliding windows | failed login, ban, unban | three places changed in steps | a ban is in force, a lifted one is not |
| Accounts, commands, notes (`accounts/`, `commands/`, `notes/`) | rows; cache of earning histories; note revisions | request handlers | deletion while a supervisor runs; stale cache; two editors | no history from before a sale is served after it; no text lost |
| Profile (`profile/`, `lib/useDashboardPreferences.ts`, `useWebsiteUpdates.ts`) | preferences on server and in browser | edit, save, refresh | answers out of order | an edit is not undone by an older answer |
| Browser helpers (`lib/sockets.ts`, `consoleBuffer.ts`, `api.ts`) | buffers, shared readings, cache | connect, close, read | reconnects; readings shared across a change | nothing shown twice or lost; a reading after a change holds it |
| Pages (`pages/`, `components/`) | what is shown, forms, requests under way | load, save, move, type | answers for another account, list or text | what is shown is what is stored |
| Former Bedrock engine (`bedrock-bot/`) | phase of the join, inventory and menu, the world in view, held keys | packets, ticks, commands | the server's view of sneaking, digging and menus lags behind | agrees with the server; joins and sales end |

The rest (Microsoft sign-in and RPC wrappers, chat parsing, validation, layout,
`backend/rust-bot/`) is stateless, presentation or unused; see section 6.

---

## 2 Modules

| Module | Models | Composed in |
|---|---|---|
| `ReconnectPolicy` | class `ReconnectPolicy`: counters and delay as operators | `Supervisor` |
| `AccountLifecycle` | abstract specification: what the supervisor promises to the rest of the website | `Supervisor`, `SupervisorDuties` |
| `Supervisor` | the connection part of `MinecraftClient`, with all its timers and with the controllers it has let go | implements `AccountLifecycle` |
| `SupervisorDuties` | the other things the same handlers do: settings, AutoSell pause, crouch checks | conjoined with the actions of `AccountLifecycle`; `MCBackend` |
| `SharedBot` | the requests that start and stop one bot, from session, supervisor, orderly exit and reconciliation | `MCEngine` |
| `NativeSelling` | the plugin's tick-driven sale under the controller's lease | `MCEngine` |
| `Behaviors` | the session's commands: queue, foreground task, gates, the way home | `MCEngine` |
| `SessionWatch` | how a session learns of its bot: event stream, resubscription, health check | `MCEngine` |
| `StatusPersistence` | `createStatusPersistence` with the resets of `loadAll` | `MCBackend` |
| `AccountRecords` | an account's row, its registered client, and the intent to run, under overlapping requests | `MCBackend` |
| `EarningsHistory` | the history of sales through two caches, server's and browser's | `MCBackend` |
| `AddressBans` | table, cache and counters of banned addresses | `MCBackend` |
| `BufferedWriter` | `createBufferedWriter` | `ConsoleStream` |
| `ConsoleStream` | the console of one account from the bot's line to the page | `MCConsoleStream`, `MCPages` |
| `DashboardView` | one account's card: lists over HTTP against the dashboard socket | `MCPages` |
| `DashboardOrder` | the order of cards and categories | `MCPages` |
| `AccountNote` | the autosaved note on a card | `MCPages` |
| `AccountPage` | the account page's requests across changes of the account | `MCPages` |
| `AccessForm` | the form of settings and users with access | `MCPages` |
| `UserTable` | the admins' table of users with its shared readings | `MCPages` |
| `Sessions` | users, logins, sessions and administrators' requests as chains of database calls | `MCWebsite` |
| `LiveSocket` | one socket: queue of jobs, checks, batches, revocation | `MCWebsite` |
| `Notes` | shared notes with revisions, and their editors | `MCWebsite` |
| `Profile` | dashboard preferences with pending edits | `MCWebsite` |
| `Announcements` | the website's news in several tabs | `MCWebsite` |
| `LiveCam` | camera streams and the panels that view them | `MCWebsite` |
| `BedrockClient` | the former engine's process from configuration to end | `MCBedrock` |
| `BedrockSelling` | its sale through the server's menu | `MCBedrock` |
| `BedrockCrouch` | how it keeps the player sneaking | `MCBedrock` |
| `BedrockMouse` | its held mouse button against the server's view | `MCBedrock` |
| `SupervisorProofs` | theorems about the supervisor | extends `Supervisor` |
| `BackendProofs` | theorems about the backend | extends `MCBackend` |
| `WebsiteProofs`, with `SessionsProofs`, `EditingProofs` | theorems about the website | extends `MCWebsite` |
| `EngineProofs` | theorems about the engine | extends `MCEngine` |
| `PagesProofs` | theorems about every page part but `DashboardOrder` | extends `MCPages` |
| `BedrockProofs` | theorems about the former engine | extends `MCBedrock` |

`MCBackend`, `MCEngine`, `MCWebsite`, `MCPages` and `MCBedrock` check several
parts that share no state in one instance. Their variable `focus` names
the part a behaviour exercises; the others stay as they began. The reachable
states are the sum of the parts' states, not their product, and nothing is lost,
since no action of one part reads another's variables. Where parts do interact they
are composed for real: `ConsoleStream` runs on the actions of
`BufferedWriter`, `SupervisorDuties` on those of `AccountLifecycle`,
and `Supervisor` implements the latter.

Definitions whose comment begins with *Faulty* are wrong on purpose: each is a
plausible bug in the definition that follows it and shows that a property
notices it. No specification uses them. Variables marked *ghost* are read by
properties only: they remember what excuses a divergence the code does not
prevent, which the property's comment then names.

### Supervisor

The variables are the fields of `MinecraftClient` under their own names, with
these exceptions. The four `setTimeout`/`setInterval` handles are one function
`timers` from a timer's name to the ticks it still has to run. Moments
(`lastHeartbeatAt`, `lastControlFailureAt`, `connectedSince`) are ages, counted
as far as the code can tell them apart. `signIn` joins `msaSignIn` and
`authenticated`, which are never both set. `stage` is how far the
session of each controller has come, the one attached and those let go.

Each public method, each line of a controller that changes the connection and
each timer is one action. The private methods
(`teardownSubprocess`, `handleConnectionFailure`, `attemptConnect`) are
operators that take the timers as the calling handler has left them, so that an
action is the whole handler. Reasons for a failure are the four classes that
`reconnectPolicy.ts` tells apart by regular expressions. `attemptConnect` may
throw while it creates the controller (`CreationThrows`).

Every listener compares its controller with `this.subprocess` first; in the
model that is `Current(c)`. A controller that was let go of stays in `stage`
until it closes, and the faulty form of `Current` shows what its late lines
would do. A user may press anything at any time.

*Time.* A due timer fires before the next tick (`Tick` is disabled while a
timer is at 0); due timers and everything else interleave freely. This is what
Node's event loop does up to its latency. The other modules with time
(`SupervisorDuties`, `NativeSelling`, the Bedrock modules) do the same.

### AccountLifecycle and SupervisorDuties

`AccountLifecycle` has two variables: the phase (stopped, resting, attempting,
online, waiting, failed) and whether the last order was to stop.
`Supervisor!ImplementsAccount` maps the supervisor to it. The duties depend on
the connection only through these phases, so `SupervisorDuties` conjoins them
with the abstract actions; being implemented by `Supervisor`, those cover
every order in which the phases can follow one another. The world restart's time, the
pause a controller was sent and the checks are counted in ticks relative to now.
A controller counts its pause from the moment it is configured, which is what
`session.ts` does; the step in between (`Configure`) takes any time.

### The engine: SharedBot, NativeSelling, Behaviors, SessionWatch

`SharedBot`: a *session* asks for its bot to run; when it is cancelled its
finally block asks for it to stop; the supervisor itself sends a second stop
request when it lets a controller go; the orderly exit waits for the last such
request; the next start asks every recorded bot to stop before it resumes
accounts. The requests are a sequence: a *reliable* service applies them in
order; an unreliable one applies them in any order, loses them, or applies one
its sender has given up. The service's own restart stops the bot. `Crash` may
happen anywhere and leaves only the requests already sent.

`NativeSelling`: the sale of the plugin, which runs on the game thread, one
action per tick, acknowledgement or packet. The controller renews its lease by
calls that may come late; the user's own commands open menus of their own, and a
menu may come after its request was given up.

`Behaviors`: each stretch of a handler between two awaits is an action, so that a
command, an event of the world and the answer of a call meet in every order.

`SessionWatch`: the loop over the stream of events and the health check run side
by side, each a chain of awaits. The frames come in order, but some are lost when
the stream breaks; an answer of the health check tells the state at the time of
the question. Either may take the bot into the world or end the session, and
both look at the abort signal after each await.

### The backend: StatusPersistence, AccountRecords, EarningsHistory, AddressBans

The database is external: a call succeeds, fails, or is reported as failed after
it was carried out. The promise chain of `StatusPersistence` is a queue of
writes. `AccountRecords` runs the request handlers of `accounts/routes.ts` as
chains of calls beside the client manager's registry, with crashes and the
resumption after them. `EarningsHistory` follows a number of sales from the
buffered write through the server's query and cache to the browser's shared
reads and its own cache. `AddressBans` keeps the three places a ban is stored.

### The website: Sessions, LiveSocket, Notes, Profile, Announcements, LiveCam

Each handler is a chain of steps, one per database call; requests of several
users or tabs interleave between them. In `LiveSocket` the jobs of a socket run
one at a time, each after it has read session and permissions again; the
listeners of a revocation run at once. `Notes`, `Profile` and `Announcements`
pair the server's rows with the state of the React hooks that mirror them,
each answer arriving at its own time.

### The pages: ConsoleStream to UserTable

`ConsoleStream` conjoins the writer's actions with the channel of the console:
a line is published and handed to the writer in one step, the history is read
from the rows, and the page merges both. `DashboardView` numbers the versions of
a card's status, image and last sale. `AccountPage` gives every request the
account and the visit it was sent from. `AccessForm` holds the form as it was
filled when the panel was opened, and `UserTable` the readings of
the list that `lib/api.ts` lets several readers share.

### The former engine: BedrockClient, BedrockSelling, BedrockCrouch, BedrockMouse

The server is external and answers late, twice or not at all; what the bot
believes (inventory, open menu, sneaking, blocks) is kept apart from what the
server has. Where the code compares times, a tick of the model is the time
between two of its checks.

---

## 3 Runs, bounds and fairness

Six runs pass and six find the disagreements of section 5. The passing runs take
between half a minute and three and a half minutes.

| Run | States | What it shows |
|---|---|---|
| `supervisor` | 265k | 2 controllers. `OneDriver`: at most one driver of the account; `StatusAgrees`: a truthful status; `EveryAttemptHasDeadline`; `HeardOrExcused`: silence noticed or excused; `FailuresRemembered`: the back-off not forgotten; `ImplementsAccount`: every behaviour is one of the abstract lifecycle, its progress included |
| `engine` | 887k | `Settles`: no bot is left unattended if the service applies what it is asked, and an account that is to run ends up running whatever happened to the requests; `SellsByRight`: sales only for a live controller, an open menu that answers the user neither emptied nor closed unless it is a sale menu that opened while one was waited for, and while it can sell it does; `SessionAsIs`: the supervisor hears of a session's end once, of a bot that stays in the world, and of no life in a frozen game once what that sent before is dealt with; `WorldKept`: home and task are of the world the bot is in |
| `backend` | 2.4M | `ColumnFollowsStatus`; `RecordsAgree`: row, client and orders; `ReadIsFresh`: no history from before a sale its reader knew of; `NeverSellsTooSoon`, `CrouchChecksKept`: the duties; `BansInForce` |
| `website` | 1.4M | `AdminsDecide`: an administrator is left and revoked logins are gone; `EventsAsDue`: every event is sent to whom it is due or the socket closed, nothing after a revocation; `TextKept`: no note is lost; `AcknowledgedShown`: an edit the server took is shown; `DisplayedBeforeRead`; `OneUpstream` |
| `pages` | 1.6M | `LiveLinesKept`: of every text the console has at least as many lines as were published since it connected, in whatever order and doubles allowed; `EntriesSettle`: the writer loses, doubles and reorders nothing and its flush is complete; `NoteSaved`: a note's field at rest shows what is stored, with the exceptions its comment names; `DashboardTrue`: one account's card at rest shows its image, status and last sale, and the sale never goes back; `OnlyNeighboursMove`; `AnswersStayHome`: answers act on the account they are about; `SavedAsPressed`: what was saved is what the form had; `UsersAsShown`: a list read after a change holds it, and nobody's typing is undone |
| `bedrock` | 407k | `JoinEnds`: in the world or with the process, and with a reason; `SalesGoWell`: neither the menu of a reading under way nor, within the guard, the user's is filled, nor anything from an inventory not known, and every sale ends (what may be filled instead, see section 5); `CrouchRestored`; `AgreesWithServer`: the world and the hands |
| `supervisor_duties_settings`, `supervisor_duties_pause`, `shared_bot_unattended`, `navigation`, `console_twice`, `notes_overwrite` | – | violated, see section 5 |

Each passing run also checks one type invariant (`TypeOK`, `EngineTypeOK`, ...).

### Bounds

- *Controllers.* The attached one and one old one still alive, identities being
  reused once a controller is gone. Safety of the supervisor does not depend on
  the bound at all (section 4).
- *Delays.* A few ticks each, so that timers overlap, run out together and overtake
  each other. The instances keep the order of the back-off's bases and caps and of
  the three deadlines of an attempt. Safety of the supervisor is proved for all values.
  The waits of the Bedrock sale keep theirs as well: menu and transfer (1) < guard of a
  command (2) < a cancelled sale, an open menu, a reading (3), and the interval between
  sales (2) is longer than the settling after a teleport (1), which may bring a sale forward.
- *Counters of the policy* stop at 5 and 4: above, the code computes the same delay.
  `MaxCreationFailures = 1`: a creation that throws at any one point.
- *Orders and faults of `SharedBot`*: two each is the least in which a fault hits the
  cleanup after another fault, and a stop races a restart.
- *Requests under way*: two or three, so that one overtakes another and a third meets
  both (`Tasks`, `Requests`, `MaxLists`, `Inquiries`, `Queries`, `Reads`, `MaxClicks`
  with the first load).
- *Values*: two or three texts, settings, images or configurations, enough to tell the old, the
  new and another one apart; identical lines are part of `TextOf` of the console.
- *Queues*: `MaxJobs = 2`, `MaxQueue = 2`, `BatchSize = 2` with three entries, so
  that they fill up and a rest is left.
- *Faults and upsets*: one to four, so that a fault hits what cleans up after
  another; each module's comment on the constant says what it counts.

Deadlock is checked in `supervisor`. The other passing runs may come to rest: users
need not do anything, and requests, changes and faults are bounded.

### Fairness

- *Supervisor*: the clock ticks, due timers fire (`setTimeout`), and a controller
  let go of closes (`terminateSubprocess` kills it at the latest 4.5 s
  later). Nothing is assumed of a controller still attached. `RestartsCease`: a user does not press
  restart for ever, each time within the 5 s the last restart is still waiting;
  without it, the restart pause need never end.
- *SharedBot*: the backend goes on with what it began, is started again when down
  (`restart: unless-stopped` in docker-compose.yml), and the service works off
  its oldest request. Orders and faults are bounded, which is the "when orders and
  faults come to an end" of `Settles`.
- *NativeSelling*: the game thread ticks, time passes, the server answers; that
  it neither moves the bot nor rejects for ever is a premise of `GoesOnSelling`, a part of
  `SellsByRight`.
- *SessionWatch*: the calls of the start and of the health check are answered, well or
  badly, and its timer fires; nothing is assumed of the stream of events. Troubles are bounded.
- *StatusPersistence*: the database answers, well or badly; the backend is started again.
- *LiveSocket*: the jobs of a socket get their answers from the database, and the
  timer of a batch fires.
- *BufferedWriter*: the timer fires, transactions end, promises continue.
- *Bedrock*: ticks and time go on, the supervisor writes the configuration, and the
  server reports the player's state and lets it in; troubles are bounded.

---

## 4 Proofs

The theorems hold for all values of the constants that the modules' `ASSUME`s
allow: delays, limits and intervals are positive naturals, counters' bounds are
naturals, values that stand for "none" are none of the others, and there is at
least one user. The bounds of section 3 are constants too, so nothing
below depends on them. The composed modules' `focus` is part of their
specifications: the theorems speak of each part as that composition runs it,
which is the part's own specification while the others rest.

| Theorem | States |
|---|---|
| `DelayBounds`, `DelayGrows` | a delay of the back-off lies between the base and the cap of its class; more failures never shorten it |
| `TypeCorrect`, `AlwaysConsistent` | the supervisor's type invariant and its inductive invariant `Consistent` |
| `OneDriverAlways`, `StatusAgreesAlways`, `DeadlineAlways`, `HeardOrExcusedAlways`, `FailuresRememberedAlways` | the safety properties of the run `supervisor` |
| `StepsImplementAccount` | `Spec => Account!Spec`: every step of the supervisor is a step of the abstract lifecycle or changes nothing in it |
| `BackendAlwaysConsistent`, `BackendTypeCorrect` | inductive invariant and types of the backend's five parts |
| `RecordsAlwaysAgree`, `ReadAlwaysFresh`, `NeverSellsTooSoonAlways`, `CrouchChecksAlwaysKept`, `BansAlwaysInForce` | the safety properties of the run `backend` |
| `ChainAlwaysEndsInStatus` | the safety part of `ColumnFollowsStatus` |
| `WebsiteAlwaysConsistent`, `WebsiteTypeCorrect` | inductive invariant and types of the website's six parts |
| `AdminsAlwaysDecide`, `TextAlwaysKept`, `AcknowledgedAlwaysShown`, `AlwaysDisplayedBeforeRead`, `AlwaysOneUpstream` | the safety properties of the run `website` |
| `NothingEverUndue` | the safety part of `EventsAsDue` |
| `EngineAlwaysConsistent`, `EngineTypeCorrect` | inductive invariant and types of the engine's four parts |
| `WorldAlwaysKept` | the safety property of the behaviours |
| `ReliableNeverUnattended` | the safety part of `Settles`: `reliable => NeverUnattended` |
| `AlwaysSellsForController`, `AlwaysLeavesManualMenus` | the safety parts of `SellsByRight` |
| `AlwaysToldOnce`, `AlwaysSilentWhenFrozen` | the safety parts of `SessionAsIs` |
| `PagesAlwaysConsistent`, `PagesTypeCorrect` | inductive invariants of writer, console, dashboard, note, account page, access form and table of users; the types of all but the writer, whose are part of its invariant |
| `LinesAlwaysKept`, `DashboardAlwaysTrue`, `AnswersAlwaysStayHome`, `AlwaysSavedAsPressed` | four safety properties of the run `pages` |
| `AlwaysWrittenAsEntered`, `FlushAlwaysComplete` | the safety parts of `EntriesSettle` |
| `NoteAlwaysSaved`, `UsersAlwaysAsShown` | two more of them |
| `BedrockAlwaysConsistent`, `BedrockTypeCorrect` | inductive invariant and types of the former engine's four parts |
| `AlwaysAgreesWithServer` | the safety property of the mouse |
| `AlwaysFillsOwnMenus` | the safety part of `SalesGoWell` |
| `EndAlwaysExplained` | the safety part of `JoinEnds` |

Each proof module has one lemma per action, or per private method where several actions
call it; the composed modules have one theorem per property that cites them.

### The inductive invariants

*Supervisor* (`Consistent`). That a due back-off may start an attempt without
letting go of a controller (`OneDriver`) needs that nothing is attached while it is
armed; that a failure leaves the status right (`StatusAgrees`) needs that the
attempt had not been ended before, for a failure that is ignored must find its work
done; that the deadline is there (`EveryAttemptHasDeadline`) needs the status.
`Consistent` is their conjunction with the two facts that tie them together: an
attached controller's attempt has not ended, and a bot shown ONLINE has signed in.
`HeardOrExcused` bounds an age that is read only when the watchdog fires;
`SilenceBounded` strengthens it: the age *plus the ticks until the watchdog fires*
stays within the limit plus one interval, and a tick of time moves one from the
second term to the first. The refinement reuses `Consistent`: the phase is a
function of the attached controller, the armed timers and the status, which
`Consistent` keeps from contradicting each other.

*Status chain* (`StatusConsistent`). The chain ends in the supervisor's status; while
the process is down it is empty.

*Records* (`RecordsConsistent`). What each request relies on at its next call as long
as no second one shapes the account (`ShapingAlone`); in between, a client has its
row and its configuration (`ClientIsRow`), and the intents not yet written end in the
last order (`IntentIsWish`).

*History* (`HistoryConsistent`). Each cache on a sale's way is dropped before the
next party hears of the sale. So the generation of a read tells what its reader
knew (`ReadsOwed`), the query in the server's cache counts what was announced
(`EntryCounts`), and what a reader waits for counts what the reader is owed (`ReadersServed`).

*Duties* (`DutiesConsistent`). The pause of every controller that has begun reaches
past the restart, before it signs in as well as after (`PauseSuffices`).

*Bans* (`BansConsistent`). The requests under way for an address that nothing has
parted all bring about the same (`OneDirection`), and one that awaits only the cache
finds the table as it left it (`TableFirst`).

*Sessions* (`SessionsConsistent`). A request that no other overlaps is alone for its
user (`CleanIsAlone`); who is about to get a session knows the password
(`KnowsPassword`); a session by an old one has its revocation under way
(`SessionsFollow`); and a request about to take an administrator's rights leaves
another one (`AnotherAdmin`). The last is what the check of `users/routes.ts`
establishes and what a second such request between check and update (`raced`) breaks.

*Sockets* (`SocketConsistent`). Only the first job runs; a job that has been let
through holds events that are due (`FirstAllowed`); once the listeners of a
revocation were told, no job of an open socket has read the session (`RevokedWaits`).

*Notes* (`NotesConsistent`). Per user (`Holds`): the text typed last is in the editor,
in the draft, under way or stored.

*Profile* (`ProfileConsistent`). A GET that is or may be waited for is the user's own
and was not served before the last acknowledged edit (`ReadsCount`), and the server
has applied what it acknowledged (`AckedApplied`).

*Announcements* (`NewsConsistent`). Only what a dialog showed is being marked.

*Camera* (`CamConsistent`). The streams of an account form a chain in which each
waits for the one before and the last is in the map (`Chained`, by a rank that
decreases along it); so only the first can be open.

*The bot in the shared service* (`BotConsistent`). While the service is reliable, the stop
request for the controller let go of last is due, or under way with no request to run
behind it, unless the bot is stopped and so are the requests still under way
(`WillBeStopped`); an orderly exit ends only then (`ExitedIsDark`).

*Native AutoSell* (`SellConsistent`). Lease and renewal under way never reach beyond
`LeaseMax` after the last one was sent (`LeaseOfLastRenewal`); a menu that answers the user
is never the one sold in, but for a sale menu that opened while one was waited for
(`UsersMenuLetBe`).

*Behaviours* (`BehaviorConsistent`). `WorldKept`, with: what is about to be saved is
the home (`ToSaveIsHome`), and a save goes on until there is nothing to save.

*Session watch* (`WatchConsistent`). The report of the end is sent with what sets off
the abort signal, and every continuation looks at that signal first. A frozen game is one
the bot was in or entering (`FrozenInGame`), so nothing more can come of it.

*Buffered writer* (`WriterConsistent`). Entries are numbered as they come, so the
sequences can be told by their ends (`UpTo`): what is settled, what is left of the one
save under way and the queue follow each other without a gap (`OneSave`). That a
flush returns with everything settled is read off the case without a save.

*Console* (`StreamConsistent`). Per text, what was published to the present connection
is shown, pending, in the page's batch or in a frame on its way (`LinesKept`), counted
as a bag, since equal lines cannot be told apart; what the history brought is merged into
what is shown unless an answer of HTTP may still replace it (`HistoryKept`). The
lemmas underneath say how each step moves a line from one place to the next.

*Dashboard* (`DashConsistent`). Nothing the page has is newer than the server's
(`NoneAhead`), a list read later holds the later sale (`SalesInOrder`), and a reading on
which the page may come to rest has everything there is, or what it lacks is on its way
over the socket (`AllSuffice`). That clause says nothing of a reading a newer one will
replace, and nothing while a reload is due after a reconnection: without these
two exceptions it is not inductive. The property is its case with nothing under way.

*Note* (`TextConsistent`). With no request under way the text last saved is known; with
one, it is known once that is answered (`KnowsSaved`).

*Account page* (`PageConsistent`). A request of the visit under way is about the account
shown (`RequestsOfVisits`), so its answer may speak; while nothing is shown and no
error, the load of this visit is under way (`SaysOfShown`); and of the commands of a visit
one at most is unanswered (`OneCommand`), which is why the button may be freed by it.

*Access form* (`FormConsistent`). A panel has one save at a time, of what the form had
when it was pressed (`OneSaveOfPanel`), and each of its calls finds the row as the one before
has left it (`WrittenSoFar`), unless somebody else's save came between.

*Table of users* (`TableConsistent`). Per user, the click that changed that one last
decides: a list is true of the user unless it is older than that click
(`ReadingsFollow`), and the list shown unless that click has not brought its list yet
(`ListFollows`). The field needs more: a name saved and not yet put into the list makes
lists of two ages disagree about the name, and the theorem rests on there being one name they
all agree on from before and the typed one after (`NamesFrom`).

*Former engine* (`BedrockConsistent`). The process: the watchdog runs only with a client
to watch, and the process ends having said why (`EndIsExplained`). The sale
(`SellingConsistent`): a lost packet calls for the whole inventory (`lost => needsFull`), and
nothing is asked for while a reading goes on or another's menu is open (`SaleOK`); and the
guard of a user's command lasts as long as a menu is in time for it, unless a reading or a
join ended it, while no sale is asked for (`Guarded`). So the menu that a sale finds is one
it asked for, one mistaken for that, or one told by its title to be a sell menu (`Proper`),
however it was closed and opened in between. The mouse (`MouseConsistent`): `AgreesWithServer` is inductive with the
types and the fact that an item is in use only by the right button.

### What has no proof

- *Liveness.* Beyond this prover: `CrouchRestored`, the progress parts of
  `ImplementsAccount`, `Settles`, `SellsByRight` (`GoesOnSelling`), `SessionAsIs`,
  `ColumnFollowsStatus`, `EventsAsDue`, `EntriesSettle`, `JoinEnds` and `SalesGoWell`
  (`SalesEnd`). TLC checks them. `ENABLED` appears in no theorem for the same reason.
- *Sequences that are sorted or filtered.* The order of the cards (`OnlyNeighboursMove`, and the
  part of `PagesTypeOK` about `DashboardOrder`) is built by sorting and filtering;
  what these compute for every input is an induction over data, which the installed
  provers cannot do. TLC checks it over all orders of the instance. `PagesTypeCorrect`
  states the types of the other parts.

No module has a recursive operator, so any of them can be proved about. For the
proofs some definitions were given names or split: the kinds of passes and writes of `Behaviors`,
the menus of `NativeSelling`, `NewTask` of `Sessions`, the places of a line on its way of
`ConsoleStream`, the blocks of a section and its updates of `BedrockMouse`, the age of a menu of
`BedrockSelling`. Values that stand for "none" were assumed to be none of the others
(`AddressBans`, `UserTable`, `AccountPage`, `DashboardView`). One
type was wrong: `nextSell` of `BedrockSelling` was bounded by the interval between sales, but
`behaviors.ts` also sets it to the time for settling, which is longer when the interval is at
its minimum. TLC had not met it (the instance settles in one tick); the proof did.

---

## 5 Where the code and its comments disagree

1. **Settings during a sign-in** (`supervisor_duties_settings`). The configuration line of an attempt is
   written when the controller is created; `updateConfig` sends settings only to
   an account ONLINE; the spawn handler does not send them again. A change saved
   in between is in force only from the next connection on. The comment
   (`MinecraftClient.ts:107`): "Push behavior settings to a running bot so changes take
   effect live."
2. **The pause of AutoSell** (`supervisor_duties_pause`). It is sent as an offset when an attempt begins
   and counted from the end of the sign-in, so it begins and ends late by the
   length of the sign-in. The late end is harmless (`NeverSellsTooSoon`); the late
   beginning lets the bot sell within the ten seconds before the world restart.
   The comment (`MinecraftClient.ts:83`): "Kept by the supervisor so a subprocess
   reconnect cannot bypass the pause."
3. **Unattended bots** (`shared_bot_unattended`). Each stop request is sent once. If the
   reconciliation's request after a crash fails (3 s), the failure is logged and
   a bot whose account is not to run keeps running. The comment
   (`lifecycle.ts:5`): "A controller dying must never leave an unattended bot in
   the shared JVM." The first part of `Settles` says what does hold.
4. **A navigation command undone** (`navigation`). A command that leaves the old worksite,
   given while the entry into the world awaits the held keys, clears
   `returningHome` and awaits the plugin before it forgets the home; the entry goes
   on, finds the home and sets `returningHome` again. The bot then recovers a home it
   no longer knows. The comment (`behaviors.ts:239`): "An explicit navigation command
   takes precedence over the old worksite."
5. **A line shown twice** (`console_twice`). A line emitted between a socket's
   subscription and the reading of the history is in both, and arrives live after
   the history was merged. `docs/PERFORMANCE-2026-10-30.md:10` says that history and live events
   are deduplicated.
6. **A draft saved over another's text** (`notes_overwrite`). A draft that met a conflict,
   opened again, takes the revision just loaded for its own and replaces the text that
   another user saved. `backend/test/notes/routes.test.ts:72`: "rejects stale or simultaneous
   writes instead of silently overwriting another user's changes".

Met while modelling, and excused by name in a property's comment; no text but the one quoted
denies them:

- *Backend.* A failed status write is retried only with the next snapshot, which an account
  resting ONLINE does not emit. A lost write of the intent to run is not repeated. A change of
  an account answered after its deletion registers the client again (`accounts/routes.ts:179`).
  Two administrators who demote each other at once may both succeed (`users/routes.ts:83`).
  `unbanIp` swallows a failed deletion, so the ban returns with the next restart;
  a ban and its lifting at once leave table and cache apart.
- *Pages.* Lists keep no order: an older list of accounts or users that arrives last stays, and
  the row that answers a saved Minecraft name replaces a newer one. Two autosaves of a note may be
  carried out in either order. The access form writes back the list of users it was filled with,
  and grants again what another user revoked meanwhile. Errors and the navigation of an account's actions
  appear on whatever account is shown when they are answered.
- *Bedrock engine.* Reading the multipliers, or a new join, ends the guard of the user's own menu
  (`inventory.ts:71`), which is then filled if it is a sell menu. Within 5 s of a sale's request
  any container is taken for its menu (`inventory.ts:114`): so the menu of a reading that was
  given up, by a teleport for one, or of a user's command older than the guard is filled when
  it opens while the sale waits for its own (`mistaken` in `BedrockSelling`), although
  `inventory.ts:37` says that only the sell command's own GUI is automated. The late untitled menu of a cancelled sale stays open and holds selling back.
  An abort of digging that is lost with the packet of a changed block is not sent again. The first
  input packet after the launch says `stop_sneaking`.

---

## 6 Not modelled

- *In modelled components*: recognising texts (reasons, announcements, menu titles, chat lines)
  is reduced to its outcome; logging, wording and everything the properties do not read
  are left out. Of the session, the calls of the sign-in and of single clicks; of the
  client manager, accounts other than the one modelled (they share only the registry); of images, the file they are stored in; of the camera, encoding and pacing.
- *Dead code*: the sale over RPC (`tickSell` in `soulfire/behaviors.ts`): every session
  sells natively (`session.ts:129`). `backend/rust-bot/`: reference code with a vendored client,
  neither built nor launched.
- *Pure I/O and external calls*: Microsoft sign-in, RPC wrappers, settings, version and
  runtime status (`soulfire/auth.ts`, `rpc.ts`, `settings.ts`, ...): their
  outcomes are nondeterministic choices of the models. The wire formats of the Bedrock engine.
- *Pure functions on text*: chat parsing, spawner tables, validation; covered by unit tests.
- *Presentation*: layout, menus, the dialog that creates an account, the graph of earnings, polling
  of pages that only display, the check scripts under `scripts/`.

---

## 7 Plan

Done: every component of section 1 has a module, with the exceptions of section 6. Of the
properties the passing runs check, each state invariant is a theorem, but for the order of the
cards, and so are the safety parts of the temporal properties. What is left, in order of worth:

| Step | Work |
|---|---|
| 1 | Abstract specifications: a log with acknowledgement, implemented by `BufferedWriter`; a register, implemented by `StatusPersistence` |
| 2 | `DashboardOrder` with orders as injections of cards into positions instead of sequences, about which `OnlyNeighboursMove` could be proved |
