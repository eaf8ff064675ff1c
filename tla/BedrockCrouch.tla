---------------------------- MODULE BedrockCrouch ----------------------------
(***************************************************************************)
(* How the former Bedrock engine keeps the player crouched: BehaviorState  *)
(* decides when the held key must be pressed again, BotSender says so in   *)
(* the input packet of the next tick (bedrock-bot/behaviors.ts, send.ts).  *)
(*                                                                         *)
(* The server is external: it follows the edges of the key, forgets them   *)
(* at a join, within a while of a teleport and sometimes just so, and      *)
(* tells of a change sooner or later, unless the teleport made it.         *)
(***************************************************************************)
EXTENDS Integers

CONSTANTS
  Stabilize,     \* 250 ms after a spawn, 100 ms after a teleport, up to 750 ms after a command
  Check,         \* 2 s: between two checks, and the grace of a renewed key
  TeleportCheck, \* 3 s: from a teleport to the check it calls for
  MaxMishaps     \* bound: settings, joins, teleports, lost packets, forgetful servers

ASSUME BedrockCrouchAssumption ==
  {Stabilize, Check, TeleportCheck, MaxMishaps} \subseteq Nat \ {0}

NotSpawned == -1

VARIABLES
  crouch,      \* crouch_enabled
  held,        \* sneaking, of BehaviorState and of BotSender
  edge,        \* sneakEdge: the next packet says that the key went down or up
  renew,       \* crouchResyncPending
  serverSneaking, \* as the server last told: "yes", "no" or "unknown"
  grace,       \* units until crouchResyncGraceUntil
  nextCheck,   \* units until nextCrouchCheckAt
  checks,      \* teleportCrouchChecks, as the units left of each
  settling,    \* units until automationReadyAt
  spawnedHere, \* spawned
  spawnDue,    \* the spawn event that follows the join is still to come
  sneaks,      \* the server's player sneaks
  report,      \* what the server has still to tell of it, or "nothing"
  unsure,      \* units in which the last teleport may still end the sneaking
  mishaps

crouchVars == <<crouch, held, edge, renew, serverSneaking, grace, nextCheck, checks, settling,
                spawnedHere, spawnDue, sneaks, report, unsure, mishaps>>
presence == <<spawnedHere, spawnDue>>
server == <<sneaks, report, unsure>>
clocks == <<grace, nextCheck, checks, settling>>

CrouchTypeOK ==
  /\ {crouch, held, edge, renew, spawnedHere, spawnDue, sneaks} \subseteq BOOLEAN
  /\ serverSneaking \in {"yes", "no", "unknown"} /\ report \in {"yes", "no", "nothing"}
  /\ {grace, nextCheck} \subseteq 0..Check
  /\ checks \subseteq 0..TeleportCheck /\ unsure \in 0..TeleportCheck
  /\ settling \in NotSpawned..Stabilize /\ mishaps \in 0..MaxMishaps
  /\ held => crouch

CrouchInit ==
  /\ crouch \in BOOLEAN /\ held = FALSE /\ edge = TRUE
  /\ renew = FALSE /\ serverSneaking = "unknown" /\ grace = 0 /\ nextCheck = 0
  /\ checks = {} /\ settling = NotSpawned /\ spawnedHere = FALSE /\ spawnDue = TRUE
  /\ sneaks = FALSE /\ report = "nothing" /\ unsure = 0 /\ mishaps = 0

Mishap == mishaps < MaxMishaps /\ mishaps' = mishaps + 1

\* Faulty: the setting is taken over, and the key stays as it is.
SetCrouchOnly ==
  /\ Mishap
  /\ crouch' = ~crouch
  /\ UNCHANGED <<held, edge, renew, serverSneaking, clocks, presence, server>>

\* updateConfig: applyCrouch and setSneak.
SetCrouch ==
  /\ Mishap
  /\ crouch' = ~crouch /\ held' = crouch' /\ edge' = (edge \/ held # crouch')
  /\ UNCHANGED <<renew, serverSneaking, clocks, presence, server>>

-----------------------------------------------------------------------------
(***************************************************************************)
(* The world: joins and teleports.                                         *)
(***************************************************************************)

\* markJoining. The player of the new world does not sneak.
Joins ==
  /\ Mishap
  /\ spawnedHere' = FALSE /\ spawnDue' = TRUE /\ settling' = NotSpawned
  /\ renew' = TRUE /\ serverSneaking' = "unknown"
  /\ sneaks' = FALSE /\ report' = "nothing" /\ unsure' = 0
  /\ UNCHANGED <<crouch, held, edge, grace, nextCheck, checks>>

\* markSpawned. A change of dimension may have come before.
Spawns ==
  /\ spawnDue /\ spawnDue' = FALSE
  /\ spawnedHere' = TRUE /\ settling' = Stabilize /\ renew' = TRUE /\ serverSneaking' = "unknown"
  /\ UNCHANGED <<crouch, held, edge, grace, nextCheck, checks, server, mishaps>>

\* Faulty: no check is kept for the time after the teleport.
ScheduleNothing == checks' = checks

\* scheduleTeleportCrouchCheck.
Schedule == checks' = checks \union {TeleportCheck}

\* markTeleported and updatePosition: by move_player, change_dimension and a
\* start_game in the game.
Teleports ==
  /\ Mishap
  /\ Schedule
  /\ spawnedHere' = TRUE /\ settling' = Stabilize /\ renew' = TRUE /\ serverSneaking' = "unknown"
  /\ edge' = TRUE
  /\ unsure' = TeleportCheck
  /\ UNCHANGED <<crouch, held, grace, nextCheck, spawnDue, sneaks, report>>

\* onChat: the server's message comes with the teleport that it tells of.
TellsOfTeleport ==
  /\ Mishap /\ spawnedHere
  /\ Schedule /\ renew' = TRUE /\ serverSneaking' = "unknown"
  /\ unsure' = TeleportCheck
  /\ UNCHANGED <<crouch, held, edge, grace, nextCheck, settling, presence, sneaks, report>>

\* The teleport ends the sneaking, and nothing is told of it.
ForgetsByTeleport ==
  /\ unsure > 0 /\ sneaks' = FALSE /\ report' = "nothing"
  /\ UNCHANGED <<crouch, held, edge, renew, serverSneaking, clocks, presence, unsure, mishaps>>

Forgets ==
  /\ Mishap /\ sneaks
  /\ sneaks' = FALSE /\ report' = "no"
  /\ UNCHANGED <<crouch, held, edge, renew, serverSneaking, clocks, presence, unsure>>

\* observeSneakMetadata, onSneakStatus.
Reports ==
  /\ report # "nothing" /\ report' = "nothing"
  /\ serverSneaking' = report
  /\ IF report = "no" /\ crouch /\ grace = 0 THEN renew' = TRUE /\ nextCheck' = 0
     ELSE UNCHANGED <<renew, nextCheck>>
  /\ UNCHANGED <<crouch, held, edge, grace, checks, settling, presence, sneaks, unsure, mishaps>>

\* check_crouch, of the supervisor.
ChecksCrouch ==
  /\ crouch /\ ~(renew /\ nextCheck = 0)
  /\ Mishap
  /\ renew' = TRUE /\ nextCheck' = 0
  /\ UNCHANGED <<crouch, held, edge, serverSneaking, grace, checks, settling, presence, server>>

-----------------------------------------------------------------------------
(***************************************************************************)
(* The tick.                                                               *)
(***************************************************************************)

\* tickInput: the packet gets through, or the edge waits for the next.
Sends(down, went) ==
  \/ /\ edge' = FALSE
     /\ sneaks' = IF went THEN down ELSE sneaks
     /\ report' = IF sneaks' = sneaks THEN report ELSE IF sneaks' THEN "yes" ELSE "no"
     /\ UNCHANGED mishaps
  \/ Mishap /\ edge' = went /\ UNCHANGED <<sneaks, report>>

\* The checks that are due, the key that is pressed or pressed again, the packet.
TicksInWorld ==
  /\ spawnedHere
  /\ LET due == 0 \in checks /\ crouch
         again == renew \/ due
         presses == settling = 0 /\ crouch /\ (~held \/ again \/ nextCheck = 0)
         renewed == presses /\ (again \/ serverSneaking = "no")
     IN /\ checks' = checks \ {0}
        /\ held' = (held \/ presses)
        /\ renew' = (again /\ ~presses)
        /\ nextCheck' = IF presses THEN Check ELSE IF due THEN 0 ELSE nextCheck
        /\ grace' = IF renewed THEN Check ELSE grace
        /\ Sends(held', edge \/ renewed \/ held' # held)
  /\ UNCHANGED <<crouch, serverSneaking, settling, presence, unsure>>

TimePasses ==
  LET less(n) == IF n > 0 THEN n - 1 ELSE n
  IN /\ grace' = less(grace) /\ nextCheck' = less(nextCheck)
     /\ settling' = less(settling) /\ unsure' = less(unsure)
     /\ checks' = {less(c) : c \in checks}
     /\ UNCHANGED <<crouch, held, edge, renew, serverSneaking, presence, sneaks, report, mishaps>>

CrouchNext ==
  \/ SetCrouch \/ Joins \/ Spawns \/ Teleports \/ TellsOfTeleport
  \/ ForgetsByTeleport \/ Forgets \/ Reports \/ ChecksCrouch
  \/ TicksInWorld \/ TimePasses

\* The ticks and the time go on, the server reports, and who joins is spawned.
CrouchFairness ==
  /\ WF_crouchVars(TicksInWorld) /\ WF_crouchVars(TimePasses)
  /\ WF_crouchVars(Reports) /\ WF_crouchVars(Spawns)

CrouchSpec == CrouchInit /\ [][CrouchNext]_crouchVars /\ CrouchFairness

-----------------------------------------------------------------------------
(***************************************************************************)
(* What must hold.                                                         *)
(***************************************************************************)

\* When the troubles are over the player crouches for good if it shall, however
\* the server's forgetting, its late reports, the grace of a renewed key, lost
\* packets and the checks after teleports fell together.
CrouchRestored == <>[](crouch => sneaks)
=============================================================================
