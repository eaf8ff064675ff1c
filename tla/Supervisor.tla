------------------------------ MODULE Supervisor ------------------------------
(***************************************************************************)
(* The supervisor of one game account: class MinecraftClient of            *)
(* backend/src/minecraft/MinecraftClient.ts.                               *)
(*                                                                         *)
(* It owns at most one controller (a SoulFireController, the in-process    *)
(* stand-in of a child process), reads that controller's event lines, and  *)
(* owns four timers: the back-off before the next attempt, the pause of a  *)
(* manual restart, the deadline of the running attempt and the interval of *)
(* the watchdog that recycles a bot gone silent. Controllers it has let go *)
(* of go on living for a while and their late lines must change nothing.   *)
(*                                                                         *)
(* Time passes in ticks. A timer holds the ticks it still has to run and   *)
(* fires at 0; an age counts the ticks since the moment the code stored    *)
(* with Date.now(). The event loop is assumed to run a due timer before    *)
(* the next tick; timers due together fire in any order.                   *)
(*                                                                         *)
(* The settings, world-restart pauses and crouch checks the same object    *)
(* forwards to its controller are conjoined to these actions in            *)
(* SupervisorDuties.                                                       *)
(***************************************************************************)
EXTENDS ReconnectPolicy

CONSTANTS
  Controllers,         \* identities of controllers, reused once one is gone
  NoController,        \* no controller is attached
  RestartDelay,        \* MANUAL_RESTART_DELAY_MS, 5 s
  HangTimeout,         \* SUBPROCESS_HANG_TIMEOUT_MS, 5 min
  SignInTimeout,       \* life of a Microsoft code plus its grace, 915 s
  EntryTimeout,        \* AUTHENTICATED_WORLD_ENTRY_TIMEOUT_MS, 90 s
  SilenceLimit,        \* SUBPROCESS_ONLINE_SILENCE_MS, 45 s
  WatchdogInterval,    \* ONLINE_WATCHDOG_INTERVAL_MS, 15 s
  OutageLease,         \* CONTROL_OUTAGE_LEASE_MS, 15 s
  MaxCreationFailures  \* bound: how often creating a controller may throw

ASSUME SupervisorAssumption ==
  /\ NoController \notin Controllers
  /\ RestartDelay \in Nat \ {0}
  /\ HangTimeout \in Nat \ {0}
  /\ SignInTimeout \in Nat \ {0}
  /\ EntryTimeout \in Nat \ {0}
  /\ SilenceLimit \in Nat
  /\ WatchdogInterval \in Nat \ {0}
  /\ OutageLease \in Nat \ {0}
  /\ MaxCreationFailures \in Nat

VARIABLES
  status,            \* what the dashboard shows
  subprocess,        \* the controller attached, or NoController
  timers,            \* ticks each timer still has to run, or Off
  manuallyStopped,   \* the last order of a user was to disconnect
  connectionEnded,   \* the current attempt has been ended already
  signIn,            \* "code": msaSignIn is set; "done": authenticated
  heartbeatAge,      \* since lastHeartbeatAt
  controlAge,        \* since lastControlFailureAt, or Never
  connectedFor,      \* since connectedSince, or Never
  policy,            \* the counters of reconnectPolicy
  autoReconnect,     \* config.autoReconnect
  stage,             \* how far each controller's session has come
  creationFailures   \* how often creating a controller has thrown

vars == <<status, subprocess, timers, manuallyStopped, connectionEnded, signIn,
          heartbeatAge, controlAge, connectedFor, policy, autoReconnect, stage,
          creationFailures>>

Off   == -1    \* a timer that is not armed
Never == -1    \* a moment the code stores as null

TimerNames == {"reconnect", "restart", "hang", "watchdog"}
Statuses   == {"OFFLINE", "CONNECTING", "ONLINE", "RECONNECTING", "ERROR"}
Stages     == {"gone",      \* closed, or not created yet
               "starting",  \* created and configured, not signed in
               "prompted",  \* waits for a Microsoft device code
               "ready"}     \* signed in; may enter and leave the world

\* Ages are counted as far as the code can tell them apart.
HeartbeatAgeCap == SilenceLimit + WatchdogInterval + 1
ControlAgeCap   == OutageLease + WatchdogInterval

Older(age, cap) == IF age = Never \/ age >= cap THEN age ELSE age + 1

Without(armed, names) ==
  [t \in TimerNames |-> IF t \in names THEN Off ELSE armed[t]]

TypeOK ==
  /\ status \in Statuses
  /\ subprocess \in Controllers \union {NoController}
  /\ timers \in [TimerNames -> Nat \union {Off}]
  /\ manuallyStopped \in BOOLEAN
  /\ connectionEnded \in BOOLEAN
  /\ signIn \in {"none", "code", "done"}
  /\ heartbeatAge \in 0..HeartbeatAgeCap
  /\ controlAge \in {Never} \union (0..ControlAgeCap)
  /\ connectedFor \in {Never} \union (0..StableAfter)
  /\ policy \in Policies
  /\ autoReconnect \in BOOLEAN
  /\ stage \in [Controllers -> Stages]
  /\ creationFailures \in 0..MaxCreationFailures

Init ==
  /\ status = "OFFLINE"
  /\ subprocess = NoController
  /\ timers = [t \in TimerNames |-> Off]
  /\ manuallyStopped = FALSE
  /\ connectionEnded = FALSE
  /\ signIn = "none"
  /\ heartbeatAge = 0
  /\ controlAge = Never
  /\ connectedFor = Never
  /\ policy = NoFailures
  /\ autoReconnect \in BOOLEAN
  /\ stage = [c \in Controllers |-> "gone"]
  /\ creationFailures = 0

-----------------------------------------------------------------------------
(***************************************************************************)
(* The private methods. `armed` is what the calling handler makes of the   *)
(* timers before the method runs.                                          *)
(***************************************************************************)

\* Faulty: the prompt and the sign-in outlive their controller.
TeardownKeepingSignIn(armed) ==
  /\ subprocess' = NoController
  /\ timers' = Without(armed, {"watchdog"})
  /\ connectedFor' = Never
  /\ UNCHANGED signIn

\* teardownSubprocess: lets go of the controller and of what it told. The
\* controller is asked to disconnect and lives on until it closes.
Teardown(armed) ==
  /\ subprocess' = NoController
  /\ timers' = Without(armed, {"watchdog"})
  /\ connectedFor' = Never
  /\ signIn' = "none"

\* handleConnectionFailure past its guard. The policy and the time in the
\* world are those it reads; manuallyStopped may just have been assigned.
EndConnection(reason, armed, counters, stableFor) ==
  LET rested  == Without(armed, {"hang"})
      counted == Counted(counters, reason, stableFor)
      retry   == ~manuallyStopped' /\ autoReconnect
  IN  /\ connectionEnded' = TRUE
      /\ Teardown(IF retry THEN [rested EXCEPT !["reconnect"] = Delay(counted, reason)]
                           ELSE rested)
      /\ policy' = IF retry THEN counted ELSE counters
      /\ status' = IF manuallyStopped' THEN "OFFLINE"
                   ELSE IF autoReconnect THEN "RECONNECTING" ELSE "ERROR"

\* An attempt ends once.
HandleConnectionFailure(reason, armed) ==
  IF connectionEnded
  THEN /\ timers' = armed
       /\ UNCHANGED <<status, subprocess, connectionEnded, signIn, connectedFor, policy>>
  ELSE EndConnection(reason, armed, policy, Larger(0, connectedFor))

\* attemptConnect, when the controller can be created: it is configured, the
\* watchdog starts and the attempt gets its deadline.
BeginAttempt(shown, armed, counters) ==
  \E c \in Controllers :
    /\ stage[c] = "gone"
    /\ stage' = [stage EXCEPT ![c] = "starting"]
    /\ subprocess' = c
    /\ status' = shown
    /\ connectionEnded' = FALSE
    /\ controlAge' = Never
    /\ heartbeatAge' = 0
    /\ timers' = [armed EXCEPT !["watchdog"] = WatchdogInterval,
                               !["hang"] = HangTimeout]
    /\ policy' = counters
    /\ UNCHANGED <<signIn, connectedFor, creationFailures>>

\* attemptConnect, when creating the controller throws.
CreationThrows(armed, counters) ==
  /\ creationFailures < MaxCreationFailures
  /\ creationFailures' = creationFailures + 1
  /\ controlAge' = Never
  /\ EndConnection("other", armed, counters, 0)
  /\ UNCHANGED <<heartbeatAge, stage>>

AttemptConnect(shown, armed, counters) ==
  \/ BeginAttempt(shown, armed, counters)
  \/ CreationThrows(armed, counters)

-----------------------------------------------------------------------------
(***************************************************************************)
(* Orders of a user or of the client manager.                              *)
(***************************************************************************)

Connect ==
  /\ status \in {"OFFLINE", "ERROR"}
  /\ timers["restart"] = Off
  /\ manuallyStopped' = FALSE
  /\ AttemptConnect("CONNECTING", Without(timers, {"reconnect"}), NoFailures)
  /\ UNCHANGED autoReconnect

\* Faulty: the back-off survives the user's disconnect.
DisconnectKeepingBackoff ==
  /\ manuallyStopped' = TRUE
  /\ Teardown(Without(timers, {"restart", "hang"}))
  /\ status' = "OFFLINE"
  /\ UNCHANGED <<connectionEnded, heartbeatAge, controlAge, policy, autoReconnect,
                 stage, creationFailures>>

Disconnect ==
  /\ manuallyStopped' = TRUE
  /\ Teardown(Without(timers, {"restart", "reconnect", "hang"}))
  /\ status' = "OFFLINE"
  /\ UNCHANGED <<connectionEnded, heartbeatAge, controlAge, policy, autoReconnect,
                 stage, creationFailures>>

Restart ==
  /\ manuallyStopped' = FALSE
  /\ policy' = NoFailures
  /\ Teardown([Without(timers, {"reconnect", "hang"}) EXCEPT
                 !["restart"] = RestartDelay])
  /\ status' = "OFFLINE"
  /\ UNCHANGED <<connectionEnded, heartbeatAge, controlAge, autoReconnect, stage,
                 creationFailures>>

UpdateConfig(enabled) ==
  /\ autoReconnect' = enabled
  /\ UNCHANGED <<status, subprocess, timers, manuallyStopped, connectionEnded, signIn,
                 heartbeatAge, controlAge, connectedFor, policy, stage,
                 creationFailures>>

-----------------------------------------------------------------------------
(***************************************************************************)
(* Lines and stream events of controllers. Every listener first compares   *)
(* its controller with this.subprocess.                                    *)
(***************************************************************************)

\* Faulty: the lines of a controller let go of are still obeyed.
CurrentOrNot(c) == stage[c] # "gone"

Current(c) == c = subprocess

SignInCode(c) ==
  /\ Current(c)
  /\ stage[c] = "starting"
  /\ stage' = [stage EXCEPT ![c] = "prompted"]
  /\ timers' = [timers EXCEPT !["hang"] = SignInTimeout]
  /\ signIn' = "code"
  /\ UNCHANGED <<status, subprocess, manuallyStopped, connectionEnded, heartbeatAge,
                 controlAge, connectedFor, policy, autoReconnect, creationFailures>>

Profile(c) ==
  /\ Current(c)
  /\ stage[c] \in {"starting", "prompted"}
  /\ stage' = [stage EXCEPT ![c] = "ready"]
  /\ timers' = [timers EXCEPT !["hang"] = EntryTimeout]
  /\ signIn' = "done"
  /\ UNCHANGED <<status, subprocess, manuallyStopped, connectionEnded, heartbeatAge,
                 controlAge, connectedFor, policy, autoReconnect, creationFailures>>

\* Faulty: the deadline of the attempt goes on running in the world.
SpawnedKeepingDeadline(c) ==
  /\ Current(c)
  /\ stage[c] = "ready"
  /\ controlAge' = Never
  /\ heartbeatAge' = 0
  /\ connectedFor' = 0
  /\ signIn' = IF signIn = "code" THEN "none" ELSE signIn
  /\ status' = "ONLINE"
  /\ UNCHANGED <<subprocess, timers, manuallyStopped, connectionEnded, policy,
                 autoReconnect, stage, creationFailures>>

\* Faulty: reaching the world is taken for being stable in it.
SpawnedForgiving(c) ==
  /\ Current(c)
  /\ stage[c] = "ready"
  /\ timers' = Without(timers, {"hang"})
  /\ controlAge' = Never
  /\ heartbeatAge' = 0
  /\ connectedFor' = 0
  /\ signIn' = IF signIn = "code" THEN "none" ELSE signIn
  /\ status' = "ONLINE"
  /\ policy' = NoFailures
  /\ UNCHANGED <<subprocess, manuallyStopped, connectionEnded, autoReconnect, stage,
                 creationFailures>>

\* World entry; again after every death and world change.
Spawned(c) ==
  /\ Current(c)
  /\ stage[c] = "ready"
  /\ timers' = Without(timers, {"hang"})
  /\ controlAge' = Never
  /\ heartbeatAge' = 0
  /\ connectedFor' = 0
  /\ signIn' = IF signIn = "code" THEN "none" ELSE signIn
  /\ status' = "ONLINE"
  /\ UNCHANGED <<subprocess, manuallyStopped, connectionEnded, policy, autoReconnect,
                 stage, creationFailures>>

\* A tick of the behaviours has been confirmed.
Heartbeat(c) ==
  /\ Current(c)
  /\ stage[c] = "ready"
  /\ controlAge' = Never
  /\ heartbeatAge' = 0
  /\ UNCHANGED <<status, subprocess, timers, manuallyStopped, connectionEnded, signIn,
                 connectedFor, policy, autoReconnect, stage, creationFailures>>

\* control_status: the shared service does not answer the controller.
ControlLost(c) ==
  /\ Current(c)
  /\ stage[c] = "ready"
  /\ controlAge' = 0
  /\ UNCHANGED <<status, subprocess, timers, manuallyStopped, connectionEnded, signIn,
                 heartbeatAge, connectedFor, policy, autoReconnect, stage,
                 creationFailures>>

\* control_status: it answers again.
ControlRestored(c) ==
  /\ Current(c)
  /\ stage[c] = "ready"
  /\ controlAge # Never
  /\ controlAge' = Never
  /\ heartbeatAge' = 0
  /\ UNCHANGED <<status, subprocess, timers, manuallyStopped, connectionEnded, signIn,
                 connectedFor, policy, autoReconnect, stage, creationFailures>>

\* disconnect, connection_failed, fatal_error, the fallback-server message, a
\* failed pipe or an error event: the controller itself goes on to close.
Failure(c, reason) ==
  /\ Current(c)
  /\ stage[c] # "gone"
  /\ UNCHANGED manuallyStopped
  /\ HandleConnectionFailure(reason, timers)
  /\ UNCHANGED <<heartbeatAge, controlAge, autoReconnect, stage,
                 creationFailures>>

\* The attached controller closes without having said why.
ClosesUnexplained(c) ==
  /\ Current(c)
  /\ stage[c] # "gone"
  /\ UNCHANGED manuallyStopped
  /\ stage' = [stage EXCEPT ![c] = "gone"]
  /\ IF manuallyStopped
     THEN /\ Teardown(timers)
          /\ UNCHANGED <<status, connectionEnded, policy>>
     ELSE HandleConnectionFailure("other", timers)
  /\ UNCHANGED <<heartbeatAge, controlAge, autoReconnect,
                 creationFailures>>

\* A controller let go of closes: terminateSubprocess sees to it.
Closed(c) ==
  /\ ~Current(c)
  /\ stage[c] # "gone"
  /\ stage' = [stage EXCEPT ![c] = "gone"]
  /\ UNCHANGED <<status, subprocess, timers, manuallyStopped, connectionEnded, signIn,
                 heartbeatAge, controlAge, connectedFor, policy, autoReconnect,
                 creationFailures>>

-----------------------------------------------------------------------------
(***************************************************************************)
(* Timers.                                                                 *)
(***************************************************************************)

ReconnectFires ==
  /\ timers["reconnect"] = 0
  /\ UNCHANGED manuallyStopped
  /\ AttemptConnect("RECONNECTING", Without(timers, {"reconnect"}), policy)
  /\ UNCHANGED autoReconnect

RestartFires ==
  /\ timers["restart"] = 0
  /\ UNCHANGED manuallyStopped
  /\ IF manuallyStopped
     THEN /\ timers' = Without(timers, {"restart"})
          /\ UNCHANGED <<status, subprocess, connectionEnded, signIn, heartbeatAge,
                         controlAge, connectedFor, policy, stage, creationFailures>>
     ELSE AttemptConnect("CONNECTING", Without(timers, {"restart"}), policy)
  /\ UNCHANGED autoReconnect

\* The deadline of the attempt. Only the first of its three forms, armed by
\* attemptConnect and still running while nobody has signed in, rechecks the
\* status; the one armed by a sign-in blames the missing world entry.
HangFires ==
  /\ timers["hang"] = 0
  /\ UNCHANGED manuallyStopped
  /\ IF signIn = "none" /\ status \notin {"CONNECTING", "RECONNECTING"}
     THEN /\ timers' = Without(timers, {"hang"})
          /\ UNCHANGED <<status, subprocess, connectionEnded, signIn, connectedFor,
                         policy>>
     ELSE HandleConnectionFailure(IF signIn = "done" THEN "unavailable" ELSE "other",
                                  Without(timers, {"hang"}))
  /\ UNCHANGED <<heartbeatAge, controlAge, autoReconnect, stage,
                 creationFailures>>

\* Faulty: an outage once seen excuses the bot for ever.
FrozenWithoutLease ==
  /\ status = "ONLINE"
  /\ controlAge = Never
  /\ heartbeatAge > SilenceLimit

\* One round of the watchdog: a bot in the world that has been silent too
\* long is recycled, unless the shared service was unreachable just now.
Frozen ==
  /\ status = "ONLINE"
  /\ controlAge = Never \/ controlAge >= OutageLease
  /\ heartbeatAge > SilenceLimit

WatchdogFires ==
  LET rearmed == [timers EXCEPT !["watchdog"] = WatchdogInterval]
  IN  /\ timers["watchdog"] = 0
      /\ UNCHANGED manuallyStopped
      /\ IF Frozen
         THEN HandleConnectionFailure("other", rearmed)
         ELSE /\ timers' = rearmed
              /\ UNCHANGED <<status, subprocess, connectionEnded, signIn, connectedFor,
                             policy>>
      /\ UNCHANGED <<heartbeatAge, controlAge, autoReconnect, stage,
                     creationFailures>>

\* Time passes once every due timer has fired. The two ages are read only
\* while the bot is online and set anew when it gets there.
Tick ==
  /\ \A t \in TimerNames : timers[t] # 0
  /\ timers' = [t \in TimerNames |-> IF timers[t] = Off THEN Off ELSE timers[t] - 1]
  /\ heartbeatAge' = IF status = "ONLINE" THEN Older(heartbeatAge, HeartbeatAgeCap)
                     ELSE heartbeatAge
  /\ controlAge' = IF status = "ONLINE" THEN Older(controlAge, ControlAgeCap)
                   ELSE controlAge
  /\ connectedFor' = Older(connectedFor, StableAfter)
  /\ UNCHANGED <<status, subprocess, manuallyStopped, connectionEnded, signIn, policy,
                 autoReconnect, stage, creationFailures>>

-----------------------------------------------------------------------------
Order == Connect \/ Disconnect \/ Restart \/ \E b \in BOOLEAN : UpdateConfig(b)

Report(c) ==
  \/ SignInCode(c) \/ Profile(c) \/ Spawned(c) \/ Heartbeat(c)
  \/ ControlLost(c) \/ ControlRestored(c)
  \/ \E reason \in Reasons : Failure(c, reason)
  \/ ClosesUnexplained(c) \/ Closed(c)

Timer == ReconnectFires \/ RestartFires \/ HangFires \/ WatchdogFires

Next == Order \/ (\E c \in Controllers : Report(c)) \/ Timer \/ Tick

Spec == Init /\ [][Next]_vars

(***************************************************************************)
(* The clock runs and due timers fire. A controller that was let go of     *)
(* closes: its session is aborted and killed 4.5 s later at the latest.    *)
(* Nothing is assumed of users or of a controller still attached, except   *)
(* that a user does not press restart again and again for ever, each time  *)
(* within the five seconds the last restart was still waiting.             *)
(***************************************************************************)
Fairness ==
  /\ WF_vars(Tick)
  /\ WF_vars(ReconnectFires)
  /\ WF_vars(RestartFires)
  /\ WF_vars(HangFires)
  /\ WF_vars(WatchdogFires)
  /\ \A c \in Controllers : WF_vars(Closed(c))

RestartsCease == <>[][~Restart]_vars

FairSpec == Spec /\ Fairness /\ RestartsCease

-----------------------------------------------------------------------------
(***************************************************************************)
(* What must hold.                                                         *)
(***************************************************************************)
Attached    == subprocess # NoController
Armed(name) == timers[name] # Off

\* At most one thing may bring the account online: the attached controller,
\* the back-off or the pause of a restart. Two of them together would run
\* two bots of one account. After a user's disconnect there is none.
OneDriver ==
  /\ ~(Attached /\ Armed("reconnect"))
  /\ ~(Attached /\ Armed("restart"))
  /\ ~(Armed("reconnect") /\ Armed("restart"))
  /\ manuallyStopped => ~Attached /\ \A t \in TimerNames : ~Armed(t)

\* The status the dashboard shows agrees with what the supervisor does: it
\* promises a bot only if one is attached, a reconnection only if one is
\* running or scheduled, and rest only if nothing is; and what a controller
\* told about the sign-in goes with the controller.
StatusAgrees ==
  /\ status \in {"ONLINE", "CONNECTING"} => Attached
  /\ status = "RECONNECTING" => Attached \/ Armed("reconnect")
  /\ status = "OFFLINE" => ~Attached /\ ~Armed("reconnect")
  /\ status = "ERROR" => ~Attached /\ \A t \in TimerNames : ~Armed(t)
  /\ ~Attached => signIn = "none" /\ connectedFor = Never
  /\ status = "ONLINE" <=> connectedFor # Never

\* No attempt can hang unnoticed: while a controller is on its way to the
\* world a deadline runs, and once it is there the watchdog does. Neither
\* outlives its controller, where it would end the next attempt early.
EveryAttemptHasDeadline ==
  /\ Attached <=> Armed("watchdog")
  /\ Armed("hang") <=> Attached /\ status # "ONLINE"

\* The facts each of which needs the others to be preserved by every step.
Consistent ==
  /\ OneDriver
  /\ StatusAgrees
  /\ EveryAttemptHasDeadline
  /\ Attached => ~connectionEnded
  /\ status = "ONLINE" => stage[subprocess] = "ready"

\* A bot shown ONLINE was heard of within the silence limit and one round of
\* the watchdog, or else the shared service failed to answer within its lease
\* and one round.
HeardOrExcused ==
  status = "ONLINE" =>
    \/ heartbeatAge <= SilenceLimit + WatchdogInterval
    \/ controlAge # Never /\ controlAge < OutageLease + WatchdogInterval

\* A server that keeps rejecting the account is left in peace for longer and
\* longer: only a user's order, or the end of a connection that was stable,
\* forgets an earlier failure. Being online for a moment does not.
FailuresRemembered ==
  [][ \/ policy'.failures >= policy.failures
         /\ policy'.loginRejections >= policy.loginRejections
      \/ Connect
      \/ Restart
      \/ connectedFor = StableAfter /\ ~UNCHANGED subprocess ]_vars

\* What the account's dashboard, users and client manager may rely on.
Phase ==
  IF Attached THEN IF status = "ONLINE" THEN "online" ELSE "attempting"
  ELSE IF Armed("reconnect") THEN "waiting"
  ELSE IF Armed("restart") THEN "resting"
  ELSE IF status = "ERROR" THEN "failed" ELSE "stopped"

Account == INSTANCE AccountLifecycle WITH phase <- Phase, stopOrdered <- manuallyStopped

\* The supervisor implements the abstract account. The progress part says
\* that a back-off or a restart pause always ends in an attempt, and an
\* attempt in the world, in a new back-off or in a reported failure.
ImplementsAccount == Account!FairSpec
=============================================================================
