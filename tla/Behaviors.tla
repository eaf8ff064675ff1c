------------------------------ MODULE Behaviors ------------------------------
(***************************************************************************)
(* The scheduler of one bot's session (soulfire/behaviors.ts), as the      *)
(* session drives it (soulfire/session.ts): passes that run one at a time, *)
(* each a sequence of awaited calls, and beside them what the stream of    *)
(* the bot's events does at once: spawns, deaths, teleports and the chat   *)
(* lines that confirm a destination.                                       *)
(*                                                                         *)
(* Of the queue's commands a family is told apart: the two that go         *)
(* somewhere, the two that begin a task in a menu, and any other. The      *)
(* game's answers and the service's store of settings are external. An     *)
(* awaited call succeeds, fails having done nothing, or fails having been  *)
(* done (its answer was lost).                                             *)
(***************************************************************************)
EXTENDS Naturals, Sequences

CONSTANTS
  Homes,        \* names of homes
  NoHome,       \* the empty name
  Nothing,      \* undefined
  MaxQueue,     \* the queue holds this many commands (32)
  MaxCommands,  \* bound: commands given
  MaxResets,    \* bound: how often tasks are reset by spawns, deaths, teleports
  MaxMishaps    \* bound: failed calls

ASSUME BehaviorsAssumption ==
  /\ NoHome \notin Homes /\ Nothing \notin Homes \union {NoHome}
  /\ {MaxQueue, MaxCommands, MaxResets, MaxMishaps} \subseteq Nat

VARIABLES
  autoReturn,      \* auto_return_home
  online,          \* as far as the session and its behaviours know
  spawning,        \* spawned(): "no", or what it awaits
  queue,           \* commands
  pass,            \* the pass under way: what it awaits, and for which command
  began,           \* generation when its command began
  generation,
  foreground,      \* the task in a menu, by the generation of its command
  home,            \* the home to return to
  pendingHome,     \* a destination asked for and not confirmed
  saveHome,        \* the name to be saved, or Nothing
  saved,           \* the name in confirmed-home.json
  returningHome,
  homeGateRetry,   \* homeGatePending is false, not undefined
  homePending,     \* sell-home-pending as the session knows it
  gate,            \* sell-home-pending
  writes,          \* to it, by the pass and by spawned(): value, and whether done
  trips,           \* destinations the game was asked for and has not answered
  given,           \* commands given
  mishaps          \* calls that failed

behaviorVars == <<autoReturn, online, spawning, queue, pass, began, generation, foreground, home,
                  pendingHome, saveHome, saved, returningHome, homeGateRetry, homePending, gate, writes,
                  trips, given, mishaps>>

Commands == [does : {"home"}, to : Homes]
              \union [does : {"travel", "menu", "say"}, to : {NoHome}]
NoCommand == [does |-> "none", to |-> NoHome]
NoTask == MaxResets + 1

\* What a pass waits for: nothing, the gate, the file, or a step of a command.
\* Between two awaits it is past the gate, or past the file as well.
Awaited == {"idle", "gate", "gated", "save", "saved", "suspend", "close", "release", "dispatch",
            "return"}

NoWrite == [value |-> FALSE, landed |-> FALSE, open |-> FALSE]

Passes == [at : Awaited, for : Commands \union {NoCommand}, name : Homes \union {NoHome}]
WriteStates == [value : BOOLEAN, landed : BOOLEAN, open : BOOLEAN]

BehaviorTypeOK ==
  /\ {autoReturn, online, returningHome, homeGateRetry, homePending, gate} \subseteq BOOLEAN
  /\ spawning \in {"no", "held", "gate"}
  /\ queue \in Seq(Commands) /\ Len(queue) <= MaxQueue
  /\ pass \in Passes
  /\ {began, generation} \subseteq 0..MaxResets /\ foreground \in 0..NoTask
  /\ {home, saved} \subseteq Homes \union {NoHome}
  /\ pendingHome \in Homes \union {NoHome, Nothing}
  /\ saveHome \in Homes \union {NoHome, Nothing}
  /\ writes \in [{"pass", "spawn"} -> WriteStates]
  /\ trips \subseteq Homes
  /\ given \in 0..MaxCommands /\ mishaps \in 0..MaxMishaps

Idle == [at |-> "idle", for |-> NoCommand, name |-> NoHome]

\* The settings are written when the session begins.
BehaviorInit ==
  /\ autoReturn = TRUE /\ online = FALSE /\ spawning = "no"
  /\ queue = <<>> /\ pass = Idle /\ began = 0 /\ generation = 0 /\ foreground = NoTask
  /\ home \in Homes \union {NoHome} /\ saved = home
  /\ pendingHome = Nothing /\ saveHome = Nothing
  /\ returningHome = FALSE /\ homeGateRetry = FALSE
  /\ homePending = (home # NoHome) /\ gate = homePending
  /\ writes = [w \in {"pass", "spawn"} |-> NoWrite]
  /\ trips = {} /\ given = 0 /\ mishaps = 0

worksite == <<home, pendingHome, saveHome, returningHome>>
setting == <<homePending, gate, writes>>
bounds == <<trips, given, mishaps>>

\* resetTasks
ResetTasks ==
  /\ generation < MaxResets
  /\ generation' = generation + 1
  /\ foreground' = NoTask

Mishap == mishaps < MaxMishaps /\ mishaps' = mishaps + 1

\* recoveringHome: the setting is written unless the session knows it is so.
Writing(w, pending) ==
  writes' = [writes EXCEPT ![w] = [value |-> pending, landed |-> FALSE, open |-> TRUE]]

\* The service has stored the setting, and has answered.
Landed(w) == writes[w].open /\ writes[w].landed

WriteAnswered(w) ==
  /\ homePending' = writes[w].value
  /\ writes' = [writes EXCEPT ![w] = NoWrite]

\* Whether or not it landed.
GivesUp(w) == writes' = [writes EXCEPT ![w] = NoWrite] /\ UNCHANGED homePending

Land ==
  \E w \in {"pass", "spawn"} :
    /\ writes[w].open /\ ~writes[w].landed
    /\ gate' = writes[w].value
    /\ writes' = [writes EXCEPT ![w].landed = TRUE]
    /\ UNCHANGED <<autoReturn, online, spawning, queue, pass, began, generation, foreground,
                   worksite, saved, homeGateRetry, homePending, bounds>>

-----------------------------------------------------------------------------
(***************************************************************************)
(* The stream of the bot's events, and the health check beside it.         *)
(***************************************************************************)

\* spawned: the tasks of the last world end, then held is awaited. Bound: one
\* at a time.
Spawn ==
  /\ ~online /\ spawning = "no"
  /\ online' = TRUE /\ spawning' = "held"
  /\ ResetTasks
  /\ UNCHANGED <<autoReturn, queue, pass, began, worksite, saved, homeGateRetry, setting, bounds>>

\* Only then is it known whether to return, and the gate is made to follow.
SpawnHeld ==
  /\ spawning = "held"
  /\ returningHome' = (autoReturn /\ home # NoHome)
  /\ IF homePending = returningHome'
     THEN spawning' = "no" /\ UNCHANGED writes
     ELSE spawning' = "gate" /\ Writing("spawn", returningHome')
  /\ UNCHANGED <<autoReturn, online, queue, pass, began, generation, foreground, home, pendingHome,
                 saveHome, saved, homeGateRetry, homePending, gate, bounds>>

SpawnDone ==
  /\ spawning = "gate" /\ Landed("spawn")
  /\ WriteAnswered("spawn")
  /\ spawning' = "no"
  /\ UNCHANGED <<autoReturn, online, queue, pass, began, generation, foreground, worksite, saved,
                 homeGateRetry, gate, bounds>>

\* Either call fails: as if the bot had not spawned.
SpawnFails ==
  /\ spawning # "no"
  /\ Mishap
  /\ spawning' = "no" /\ online' = FALSE
  /\ ResetTasks
  /\ GivesUp("spawn")
  /\ UNCHANGED <<autoReturn, queue, pass, began, worksite, saved, homeGateRetry, gate, trips, given>>

Die ==
  /\ online
  /\ online' = FALSE
  /\ ResetTasks
  /\ UNCHANGED <<autoReturn, spawning, queue, pass, began, worksite, saved, homeGateRetry, setting,
                 bounds>>

\* transition: the bot was moved; or the server locks the inventory.
Transition ==
  /\ online
  /\ ResetTasks
  /\ UNCHANGED <<autoReturn, online, spawning, queue, pass, began, worksite, saved, homeGateRetry,
                 setting, bounds>>

\* onChat: the destination that was asked for last is confirmed, and becomes
\* the home to return to.
Arrive ==
  \E h \in trips :
    /\ trips' = trips \ {h}
    /\ IF pendingHome = h
       THEN /\ home' = h /\ saveHome' = h /\ pendingHome' = Nothing
            /\ returningHome' = FALSE /\ homeGateRetry' = TRUE
       ELSE UNCHANGED <<worksite, homeGateRetry>>
    /\ UNCHANGED <<autoReturn, online, spawning, queue, pass, began, generation, foreground, saved,
                   setting, given, mishaps>>

\* 120 s without confirmation.
ForgetPending ==
  /\ pendingHome # Nothing
  /\ pendingHome' = Nothing
  /\ UNCHANGED <<autoReturn, online, spawning, queue, pass, began, generation, foreground, home,
                 saveHome, saved, returningHome, homeGateRetry, setting, bounds>>

-----------------------------------------------------------------------------
(***************************************************************************)
(* What the controller hands over, between two passes.                     *)
(***************************************************************************)

\* enqueue: a command that is still queued, or one too many, is dropped.
Enqueue ==
  /\ pass = Idle /\ given < MaxCommands
  /\ given' = given + 1
  /\ \E command \in Commands :
       queue' = IF (\E i \in DOMAIN queue : queue[i] = command) \/ Len(queue) >= MaxQueue
                THEN queue ELSE Append(queue, command)
  /\ UNCHANGED <<autoReturn, online, spawning, pass, began, generation, foreground, worksite, saved,
                 homeGateRetry, setting, trips, mishaps>>

ConfigureReturn ==
  /\ pass = Idle /\ given < MaxCommands
  /\ given' = given + 1
  /\ autoReturn' = ~autoReturn
  /\ IF autoReturn THEN returningHome' = FALSE /\ homeGateRetry' = TRUE
                   ELSE UNCHANGED <<returningHome, homeGateRetry>>
  /\ UNCHANGED <<online, spawning, queue, pass, began, generation, foreground, home, pendingHome,
                 saveHome, saved, setting, trips, mishaps>>

-----------------------------------------------------------------------------
(***************************************************************************)
(* A pass: the gate, the file, then one command, task or request to        *)
(* return.                                                                 *)
(***************************************************************************)

stream == <<autoReturn, online, spawning>>

TickGate ==
  /\ pass = Idle /\ online /\ homeGateRetry
  /\ IF homePending
     THEN pass' = [Idle EXCEPT !.at = "gate"] /\ Writing("pass", FALSE) /\ UNCHANGED homeGateRetry
     ELSE pass' = [Idle EXCEPT !.at = "gated"] /\ homeGateRetry' = FALSE /\ UNCHANGED writes
  /\ UNCHANGED <<stream, queue, began, generation, foreground, worksite, saved, homePending, gate,
                 bounds>>

GateDone ==
  /\ pass.at = "gate" /\ Landed("pass")
  /\ WriteAnswered("pass")
  /\ homeGateRetry' = FALSE
  /\ pass' = [Idle EXCEPT !.at = "gated"]
  /\ UNCHANGED <<stream, queue, began, generation, foreground, worksite, saved, gate, bounds>>

PastGate == pass.at = "gated" \/ (pass = Idle /\ online /\ ~homeGateRetry)

TickSave ==
  /\ PastGate /\ saveHome # Nothing
  /\ pass' = [Idle EXCEPT !.at = "save", !.name = saveHome]
  /\ UNCHANGED <<stream, queue, began, generation, foreground, worksite, saved, homeGateRetry,
                 setting, bounds>>

\* A name confirmed meanwhile stays to be saved.
SaveDone ==
  /\ pass.at = "save"
  /\ saved' = pass.name
  /\ saveHome' = IF saveHome = pass.name THEN Nothing ELSE saveHome
  /\ pass' = [Idle EXCEPT !.at = "saved"]
  /\ UNCHANGED <<stream, queue, began, generation, foreground, home, pendingHome, returningHome,
                 homeGateRetry, setting, bounds>>

Ready == pass.at = "saved" \/ (PastGate /\ saveHome = Nothing)

\* Nothing is due, or not yet.
PassEnds ==
  /\ pass.at \in {"gated", "saved"}
  /\ pass' = Idle
  /\ UNCHANGED <<stream, queue, began, generation, foreground, worksite, saved, homeGateRetry,
                 setting, bounds>>

\* runCommand: selling is suspended first.
TakeCommand ==
  /\ Ready /\ queue # <<>>
  /\ queue' = Tail(queue)
  /\ pass' = [Idle EXCEPT !.at = "suspend", !.for = Head(queue)]
  /\ UNCHANGED <<stream, began, generation, foreground, worksite, saved, homeGateRetry, setting,
                 bounds>>

Suspended ==
  /\ pass.at = "suspend"
  /\ began' = generation /\ foreground' = NoTask
  /\ pass' = [pass EXCEPT !.at = "close"]
  /\ UNCHANGED <<stream, queue, generation, worksite, saved, homeGateRetry, setting, bounds>>

Navigates == pass.for.does \in {"home", "travel"}

\* What is not a home is no place to return to.
LeaveWorksite ==
  IF pass.for.does = "travel" THEN home' = NoHome /\ saveHome' = NoHome
                              ELSE UNCHANGED <<home, saveHome>>

\* The open menu, if any, is closed. An explicit navigation ends the return.
Closed ==
  /\ pass.at = "close"
  /\ pendingHome' = IF pass.for.does = "home" THEN pass.for.to ELSE pendingHome
  /\ returningHome' = (returningHome /\ ~Navigates)
  /\ IF Navigates /\ homePending
     THEN /\ Writing("pass", FALSE) /\ pass' = [pass EXCEPT !.at = "release"]
          /\ UNCHANGED <<home, saveHome>>
     ELSE /\ pass' = [pass EXCEPT !.at = "dispatch"] /\ LeaveWorksite
          /\ UNCHANGED writes
  /\ UNCHANGED <<stream, queue, began, generation, foreground, saved, homeGateRetry, homePending,
                 gate, bounds>>

Released ==
  /\ pass.at = "release" /\ Landed("pass")
  /\ WriteAnswered("pass")
  /\ LeaveWorksite
  /\ pass' = [pass EXCEPT !.at = "dispatch"]
  /\ UNCHANGED <<stream, queue, began, generation, foreground, pendingHome, returningHome, saved,
                 homeGateRetry, gate, bounds>>

\* Faulty: the task begins even if the world it was asked for in is gone.
BeginsAnyway == pass.for.does = "menu"

\* A task begins if the bot has not been moved since.
Begins == pass.for.does = "menu" /\ began = generation

\* The game has the command.
Dispatched ==
  /\ pass.at = "dispatch"
  /\ trips' = IF pass.for.does = "home" THEN trips \union {pass.for.to} ELSE trips
  /\ foreground' = IF Begins THEN began ELSE foreground
  /\ pass' = Idle
  /\ UNCHANGED <<stream, queue, began, generation, worksite, saved, homeGateRetry, setting, given,
                 mishaps>>

\* tickForeground: done, timed out, or its menu is gone.
TaskEnds ==
  /\ Ready /\ queue = <<>> /\ foreground # NoTask
  /\ foreground' = NoTask
  /\ pass' = Idle
  /\ UNCHANGED <<stream, queue, began, generation, worksite, saved, homeGateRetry, setting, bounds>>

\* The bot asks to be brought home, again and again until that is confirmed.
TickReturn ==
  /\ Ready /\ queue = <<>> /\ foreground = NoTask /\ returningHome
  /\ pendingHome' = home
  /\ pass' = [Idle EXCEPT !.at = "return", !.name = home]
  /\ UNCHANGED <<stream, queue, began, generation, foreground, home, saveHome, returningHome, saved,
                 homeGateRetry, setting, bounds>>

Requested(name) == trips \union ({name} \intersect Homes)

ReturnSent ==
  /\ pass.at = "return"
  /\ trips' = Requested(pass.name)
  /\ pass' = Idle
  /\ UNCHANGED <<stream, queue, began, generation, foreground, worksite, saved, homeGateRetry,
                 setting, given, mishaps>>

\* A call of the pass fails, done or not: the pass ends, its command is lost.
PassFails ==
  /\ pass.at \notin {"idle", "gated", "saved"}
  /\ Mishap
  /\ pass' = Idle
  /\ GivesUp("pass")
  /\ saved' \in IF pass.at = "save" THEN {saved, pass.name} ELSE {saved}
  /\ trips' \in IF pass.at = "return" THEN {trips, Requested(pass.name)}
                ELSE IF pass.at = "dispatch" /\ pass.for.does = "home"
                THEN {trips, trips \union {pass.for.to}} ELSE {trips}
  /\ UNCHANGED <<stream, queue, began, generation, foreground, worksite, homeGateRetry, gate, given>>

BehaviorNext ==
  \/ Spawn \/ SpawnHeld \/ SpawnDone \/ SpawnFails \/ Die \/ Transition \/ Arrive \/ ForgetPending
  \/ Land \/ Enqueue \/ ConfigureReturn
  \/ TickGate \/ GateDone \/ TickSave \/ SaveDone \/ PassEnds
  \/ TakeCommand \/ Suspended \/ Closed \/ Released \/ Dispatched
  \/ TaskEnds \/ TickReturn \/ ReturnSent \/ PassFails

BehaviorSpec == BehaviorInit /\ [][BehaviorNext]_behaviorVars

-----------------------------------------------------------------------------
(***************************************************************************)
(* What must hold.                                                         *)
(***************************************************************************)

\* The file names the home to return to, or its new name is still to be saved,
\* whatever the game confirms while the file is written, and whichever writes
\* fail: after a restart the bot does not return to a home it was led away
\* from.
HomeSaved == saveHome = Nothing => saved = home

\* A task in a menu is one of the world the bot is in: its command was not
\* overtaken by a spawn, a death or a teleport while it was carried out.
TaskOfThisWorld == foreground # NoTask => foreground = generation

\* Nothing of it is under way.
Quiet == online /\ spawning = "no" /\ pass = Idle /\ ~homeGateRetry

\* An explicit navigation takes precedence over the old worksite: once it has
\* been carried out, the bot is not to return there, and selling is not held
\* back until it does.
NavigationWins == Quiet /\ home = NoHome => ~returningHome /\ ~gate

\* What is kept for the world the bot is in is of that world: the home in the
\* file, and the task under way.
WorldKept == HomeSaved /\ TaskOfThisWorld
=============================================================================
