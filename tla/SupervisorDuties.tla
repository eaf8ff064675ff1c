--------------------------- MODULE SupervisorDuties ---------------------------
(***************************************************************************)
(* What an account's supervisor tells its controller besides connecting:   *)
(* the settings of the account, the pause of AutoSell around a restart of  *)
(* the game world, and the crouch checks (MinecraftClient.ts).             *)
(*                                                                         *)
(* These duties depend on the connection only through the phases of        *)
(* AccountLifecycle, which Supervisor implements; the actions of that      *)
(* specification are conjoined here with what the same handlers do for     *)
(* the duties. Of the settings only crouchEnabled is kept: the supervisor  *)
(* treats the others alike but reads none of them itself.                  *)
(*                                                                         *)
(* Time passes in ticks. A line for a controller in the world is applied   *)
(* before the next tick (the controller polls its queue every 100 ms).     *)
(***************************************************************************)
EXTENDS Integers

CONSTANTS
  Notices,        \* the countdowns the game server announces
  ShortNotice,    \* 10 s: an announcement that starts the crouch checks
  SameRestart,    \* 5 s: announcements this close are of one restart
  SellLead,       \* WORLD_RESTART_SELL_LEAD_MS, 10 s
  SellCooldown,   \* WORLD_RESTART_SELL_COOLDOWN_MS, 120 s
  CheckInterval,  \* 60 s between the crouch checks after a restart
  RestartChecks,  \* 5 such checks
  CheckPeriod     \* 30 min between the other crouch checks

ASSUME DutiesAssumption ==
  /\ Notices \subseteq Nat
  /\ ShortNotice \in Nat
  /\ SameRestart \in Nat
  /\ SellLead \in Nat
  /\ SellCooldown \in Nat \ {0}
  /\ CheckInterval \in Nat \ {0}
  /\ RestartChecks \in Nat \ {0}
  /\ CheckPeriod \in Nat \ {0}

VARIABLES
  phase,            \* of AccountLifecycle
  stopOrdered,      \* of AccountLifecycle: manuallyStopped
  crouchEnabled,    \* config.crouchEnabled
  toldCrouch,       \* the settings last given to the controller attached
  configured,       \* the controller has signed in and counts its pause
  pause,            \* the controller's pause of AutoSell
  restartIn,        \* until worldRestartAt; negative once past
  checkedRestartIn, \* until lastCrouchRestartAt, likewise
  restartCheck,     \* restartCrouchTimer, or Off
  checksLeft,       \* remaining
  windowLeft,       \* until restartCrouchWindowEnd, or Off once past
  restartPending,   \* pendingRestartCrouchCheck
  periodicCheck,    \* periodicCrouchTimer, or Off
  periodicPending   \* pendingPeriodicCrouchCheck

connection == <<phase, stopOrdered>>
selling    == <<configured, pause>>
restarts   == <<restartIn, checkedRestartIn>>
checks     == <<restartCheck, checksLeft, windowLeft>>
pendings   == <<restartPending, periodicPending>>

dutyVars == <<connection, crouchEnabled, toldCrouch, selling, restarts, checks, pendings,
          periodicCheck>>

Account == INSTANCE AccountLifecycle

Off == -1

\* A restart this long past counts for nothing; so does one never announced.
Past        == -SellCooldown
PastChecked == -SameRestart - 1

Positive(n) == IF n > 0 THEN n ELSE 0
Distance(a, b) == IF a >= b THEN a - b ELSE b - a

\* A pause as it is sent: it begins after .from and is over after .until.
NoPause == [from |-> 0, until |-> 0]

\* Not further off than a restart that has been announced.
Announced(moment) == moment <= 0 \/ \E n \in Notices : moment <= n

DutiesTypeOK ==
  /\ Account!TypeOK
  /\ crouchEnabled \in BOOLEAN
  /\ toldCrouch \in BOOLEAN
  /\ configured \in BOOLEAN
  /\ pause \in [from : Nat, until : Nat]
  /\ Announced(pause.from) /\ Announced(pause.until - SellCooldown)
  /\ restartIn \in Int /\ restartIn >= Past /\ Announced(restartIn)
  /\ checkedRestartIn \in PastChecked..ShortNotice
  /\ restartCheck \in {Off} \union (0..CheckInterval)
  /\ checksLeft \in 0..RestartChecks
  /\ windowLeft \in {Off} \union (0..(RestartChecks * CheckInterval))
  /\ restartPending \in BOOLEAN
  /\ periodicCheck \in {Off} \union (0..CheckPeriod)
  /\ periodicPending \in BOOLEAN

DutiesInit ==
  /\ Account!Init
  /\ crouchEnabled \in BOOLEAN
  /\ toldCrouch = crouchEnabled
  /\ configured = FALSE
  /\ pause = NoPause
  /\ restartIn = Past
  /\ checkedRestartIn = PastChecked
  /\ restartCheck = Off
  /\ checksLeft = 0
  /\ windowLeft = Off
  /\ restartPending = FALSE
  /\ periodicCheck = Off
  /\ periodicPending = FALSE

-----------------------------------------------------------------------------
(***************************************************************************)
(* The private methods.                                                    *)
(***************************************************************************)

\* Faulty: the cool-down after the restart is left out.
LeadOnlyWindow(due) ==
  IF due <= 0 THEN NoPause
  ELSE [from |-> Positive(due - SellLead), until |-> due]

\* sellPauseWindow, for a restart due so many ticks from now.
SellPauseWindow(due) ==
  IF due = Past THEN NoPause
  ELSE [from |-> Positive(due - SellLead), until |-> due + SellCooldown]

\* Faulty: a check that comes due offline is forgotten.
SyncForgettingChecks ==
  IF stopOrdered' \/ ~crouchEnabled' \/ phase' = "failed"
  THEN periodicCheck' = Off /\ periodicPending' = FALSE
  ELSE /\ periodicPending' = FALSE
       /\ periodicCheck' = IF phase' = "online" /\ periodicCheck = Off
                           THEN CheckPeriod ELSE periodicCheck

\* syncPeriodicCrouchChecks, which setStatus, disconnect and updateConfig end
\* with: a check missed while offline is sent on return.
SyncPeriodicCrouchChecks ==
  IF stopOrdered' \/ ~crouchEnabled' \/ phase' = "failed"
  THEN periodicCheck' = Off /\ periodicPending' = FALSE
  ELSE IF phase' = "online"
  THEN /\ periodicPending' = FALSE
       /\ periodicCheck' = IF periodicCheck = Off THEN CheckPeriod ELSE periodicCheck
  ELSE UNCHANGED <<periodicCheck, periodicPending>>

\* attemptConnect gives a new controller the settings and the pause as they
\* are now; teardownSubprocess lets the controller go.
Replace ==
  /\ toldCrouch' = crouchEnabled
  /\ configured' = FALSE
  /\ pause' = IF phase' = "attempting" THEN SellPauseWindow(restartIn) ELSE NoPause

\* scheduleRestartCrouchChecks, unless this restart has been scheduled already.
ScheduleRestartCrouchChecks(notice) ==
  IF Distance(notice, checkedRestartIn) <= SameRestart
  THEN UNCHANGED <<checkedRestartIn, checks, restartPending>>
  ELSE /\ checkedRestartIn' = notice
       /\ restartCheck' = CheckInterval
       /\ checksLeft' = RestartChecks
       /\ windowLeft' = RestartChecks * CheckInterval
       /\ restartPending' = FALSE

-----------------------------------------------------------------------------
(***************************************************************************)
(* Steps of the connection.                                                *)
(***************************************************************************)

\* A controller begins, or the connection ends one way or the other.
Reconnect ==
  /\ Account!Start \/ Account!Stop \/ Account!Restart \/ Account!Resume \/ Account!Lose
  /\ UNCHANGED <<crouchEnabled, restarts, checks, restartPending>>
  /\ Replace
  /\ SyncPeriodicCrouchChecks

\* The session of the attempt has signed in; from here on it counts the pause
\* it was sent when the attempt began.
Configure ==
  /\ phase = "attempting"
  /\ ~configured
  /\ configured' = TRUE
  /\ UNCHANGED <<connection, crouchEnabled, toldCrouch, pause, restarts, checks, pendings,
                 periodicCheck>>

\* The spawn line, on entering the world and after each death in it.
Spawn ==
  /\ configured
  /\ Account!Enter \/ (phase = "online" /\ UNCHANGED connection)
  /\ UNCHANGED <<crouchEnabled, toldCrouch, selling, restarts, checks>>
  /\ IF phase = "online" THEN UNCHANGED <<periodicCheck, periodicPending>>
                         ELSE SyncPeriodicCrouchChecks
  /\ restartPending' = (restartPending /\ (windowLeft = Off \/ ~crouchEnabled))

-----------------------------------------------------------------------------
(***************************************************************************)
(* Steps of the duties.                                                    *)
(***************************************************************************)

\* Settings are pushed to a controller that is in the world.
UpdateConfig(enabled) ==
  /\ crouchEnabled' = enabled
  /\ UNCHANGED <<connection, selling, restarts, checks, restartPending>>
  /\ toldCrouch' = IF phase = "online" THEN enabled ELSE toldCrouch
  /\ SyncPeriodicCrouchChecks

\* The game server announces when it restarts the world.
AnnounceRestart(notice) ==
  /\ configured
  /\ restartIn' = notice
  /\ pause' = SellPauseWindow(notice)
  /\ IF notice <= ShortNotice
     THEN ScheduleRestartCrouchChecks(notice)
     ELSE UNCHANGED <<checkedRestartIn, checks, restartPending>>
  /\ UNCHANGED <<connection, crouchEnabled, toldCrouch, configured, periodicPending,
                 periodicCheck>>

RestartCheckFires ==
  /\ restartCheck = 0
  /\ restartPending' = IF crouchEnabled THEN phase # "online" ELSE restartPending
  /\ checksLeft' = checksLeft - 1
  /\ restartCheck' = IF checksLeft = 1 THEN Off ELSE CheckInterval
  /\ UNCHANGED <<connection, crouchEnabled, toldCrouch, selling, restarts, windowLeft,
                 periodicPending, periodicCheck>>

PeriodicCheckFires ==
  /\ periodicCheck = 0
  /\ periodicPending' = (phase # "online")
  /\ periodicCheck' = CheckPeriod
  /\ UNCHANGED <<connection, crouchEnabled, toldCrouch, selling, restarts, checks,
                 restartPending>>

\* Moments count down until nothing can tell them from one long past.
Nearer(moment, past) == IF moment = past THEN past ELSE moment - 1
Shorter(timer) == IF timer = Off THEN Off ELSE timer - 1

Tick ==
  /\ restartCheck # 0
  /\ periodicCheck # 0
  /\ restartIn' = Nearer(restartIn, Past)
  /\ checkedRestartIn' = Nearer(checkedRestartIn, PastChecked)
  /\ restartCheck' = Shorter(restartCheck)
  /\ windowLeft' = Shorter(windowLeft)
  /\ periodicCheck' = Shorter(periodicCheck)
  /\ pause' = IF configured
              THEN [from |-> Positive(pause.from - 1), until |-> Positive(pause.until - 1)]
              ELSE pause
  /\ UNCHANGED <<connection, crouchEnabled, toldCrouch, configured, checksLeft, pendings>>

DutiesNext ==
  \/ Reconnect \/ Configure \/ Spawn
  \/ \E enabled \in BOOLEAN : UpdateConfig(enabled)
  \/ \E notice \in Notices : AnnounceRestart(notice)
  \/ RestartCheckFires \/ PeriodicCheckFires \/ Tick

DutiesSpec == DutiesInit /\ [][DutiesNext]_dutyVars

\* The clock runs and due timers fire.
FairDutiesSpec ==
  /\ DutiesSpec
  /\ WF_dutyVars(Tick)
  /\ WF_dutyVars(RestartCheckFires)
  /\ WF_dutyVars(PeriodicCheckFires)

-----------------------------------------------------------------------------
(***************************************************************************)
(* What holds.                                                             *)
(***************************************************************************)

\* However the connection comes and goes between an announcement and the
\* restart, no controller takes up selling before the supervisor's pause ends.
NeverSellsTooSoon ==
  configured => pause.until >= restartIn + SellCooldown

\* The crouch checks follow the wish for them. Their cadence survives reconnects
\* but never outlives the wish: it runs for every account online that wants it,
\* and stops with the setting, with the user's stop and with giving up. A check
\* that came due while the account was away is kept until it is back, however
\* often the connection fails in between.
CadenceFollowsWish ==
  /\ phase = "online" /\ crouchEnabled => periodicCheck # Off
  /\ stopOrdered \/ ~crouchEnabled \/ phase = "failed"
       => periodicCheck = Off /\ ~periodicPending

DueChecksKept ==
  [][ periodicPending /\ ~periodicPending' =>
        \/ phase' = "online"
        \/ phase' \in {"stopped", "failed"}
        \/ ~crouchEnabled' ]_dutyVars

CrouchChecksKept == []CadenceFollowsWish /\ DueChecksKept

-----------------------------------------------------------------------------
(***************************************************************************)
(* What the comments of the code say and the code does not do.             *)
(***************************************************************************)

\* "Push behavior settings to a running bot so changes take effect live."
\* A change made while the controller signs in reaches neither that line,
\* which was written before, nor a later one.
SettingsTakeEffect == phase = "online" => toldCrouch = crouchEnabled

\* "Kept by the supervisor so a subprocess reconnect cannot bypass the pause."
\* The pause is sent as an offset and counted from the end of the sign-in, so
\* a reconnect shifts it by the time the sign-in takes.
PauseSurvivesReconnect ==
  phase = "online" /\ restartIn \in (Past + 1)..SellLead => pause.from = 0
=============================================================================
