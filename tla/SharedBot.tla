------------------------------ MODULE SharedBot ------------------------------
(***************************************************************************)
(* The bot of one account in the shared SoulFire service, and everything   *)
(* in the backend that tells it to run or to stop: the session of each     *)
(* controller (soulfire/session.ts), the supervisor's own stop request     *)
(* (soulfire/lifecycle.ts), the orderly exit of the backend and its        *)
(* reconciliation on the next start (minecraft/ClientManager.ts).          *)
(*                                                                         *)
(* The service is outside the repository. It is known here by what the     *)
(* sessions see of it: it applies the requests it gets to the bot's state. *)
(* Each request is an HTTP request of its own, given up by its sender      *)
(* after a time, so an unreliable service may apply them in any order,     *)
(* lose them, or apply them after the sender has given up.                 *)
(***************************************************************************)
EXTENDS Naturals, Sequences

CONSTANTS
  Controllers,   \* identities of controllers, reused once nothing of them is left
  NoController,  \* no controller
  MaxOrders,     \* bound: orders of users, and orderly exits
  MaxFaults      \* bound: crashes, failed connections and failed requests

ASSUME SharedBotAssumption ==
  /\ NoController \notin Controllers
  /\ MaxOrders \in Nat
  /\ MaxFaults \in Nat

VARIABLES
  backend,    \* the Node process
  wanted,     \* the persisted autoStart: the account is to run
  attached,   \* the supervisor's controller
  session,    \* what each controller's session is doing
  stopping,   \* the supervisor's stop request for a controller let go
  lastStop,   \* the controller whose stop request pendingStop stands for
  awaited,    \* the controller an orderly exit waits for
  recorded,   \* soulfire.json names the bot
  requests,   \* under way to the service, in the order they were sent
  bot,        \* the service runs the bot
  reliable,   \* the service applies every request, in order
  orders,     \* orders given
  faults      \* faults that happened

vars == <<backend, wanted, attached, session, stopping, lastStop, awaited, recorded,
          requests, bot, reliable, orders, faults>>

Backends     == {"down", "reconciling", "up", "exiting", "exited"}
SessionSteps == {"gone",      \* not begun, or over
                 "preparing", \* signs in and configures the bot
                 "asking",    \* has asked for the bot to run
                 "playing",   \* the bot runs as far as the session knows
                 "leaving",   \* cancelled: in its finally block
                 "stopping"}  \* has asked for the bot to stop
StopSteps    == {"idle", "reading", "waiting"}

Senders  == [who : {"session", "supervisor"}, for : Controllers]
              \union [who : {"startup", "nobody"}, for : {NoController}]
Requests == [state : {"RUNNING", "STOPPED"}, by : Senders]

Startup == [who |-> "startup", for |-> NoController]
Nobody  == [who |-> "nobody", for |-> NoController]

TypeOK ==
  /\ backend \in Backends
  /\ wanted \in BOOLEAN
  /\ attached \in Controllers \union {NoController}
  /\ session \in [Controllers -> SessionSteps]
  /\ stopping \in [Controllers -> StopSteps]
  /\ lastStop \in Controllers \union {NoController}
  /\ awaited \in Controllers \union {NoController}
  /\ recorded \in BOOLEAN
  /\ requests \in Seq(Requests)
  /\ bot \in {"running", "stopped"}
  /\ reliable \in BOOLEAN
  /\ orders \in 0..MaxOrders
  /\ faults \in 0..MaxFaults

Init ==
  /\ backend = "down"
  /\ wanted \in BOOLEAN
  /\ attached = NoController
  /\ session = [c \in Controllers |-> "gone"]
  /\ stopping = [c \in Controllers |-> "idle"]
  /\ lastStop = NoController
  /\ awaited = NoController
  /\ recorded = FALSE
  /\ requests = <<>>
  /\ bot = "stopped"
  /\ reliable \in BOOLEAN
  /\ orders = 0
  /\ faults = 0

Ordered == orders < MaxOrders /\ orders' = orders + 1 /\ UNCHANGED faults
Faulty  == faults < MaxFaults /\ faults' = faults + 1 /\ UNCHANGED orders

Request(state, who, c) == [state |-> state, by |-> [who |-> who, for |-> c]]

-----------------------------------------------------------------------------
(***************************************************************************)
(* The supervisor (MinecraftClient.ts): attachment, orders and failures.   *)
(***************************************************************************)

\* Nothing of the controller is left in the backend or on the way from it.
Fresh(c) ==
  /\ session[c] = "gone"
  /\ stopping[c] = "idle"
  /\ \A i \in DOMAIN requests : requests[i].by.for # c

Attach ==
  \E c \in Controllers :
    /\ Fresh(c)
    /\ attached' = c
    /\ session' = [session EXCEPT ![c] = "preparing"]
    /\ UNCHANGED <<stopping, lastStop>>

\* Faulty: only the controller is told, the bot is left to its session.
LetGoOfControllerOnly(c) ==
  /\ attached' = NoController
  /\ session' = [session EXCEPT ![c] = IF @ = "preparing" THEN "gone" ELSE "leaving"]
  /\ UNCHANGED <<stopping, lastStop>>

\* teardownSubprocess: the controller's session is cancelled at once, and a
\* stop request for the bot set going without waiting for it. A session that
\* has not asked for the bot to run has no finally block to go through.
LetGo(c) ==
  /\ attached' = NoController
  /\ session' = [session EXCEPT ![c] = IF @ = "preparing" THEN "gone" ELSE "leaving"]
  /\ stopping' = [stopping EXCEPT ![c] = "reading"]
  /\ lastStop' = c

LetGoIfAttached ==
  IF attached = NoController THEN UNCHANGED <<attached, session, stopping, lastStop>>
                             ELSE LetGo(attached)

\* A user starts the account: the attempt begins at once.
Start ==
  /\ backend = "up"
  /\ Ordered
  /\ attached = NoController
  /\ wanted' = TRUE
  /\ Attach
  /\ UNCHANGED <<backend, awaited, recorded, requests, bot, reliable>>

Stop ==
  /\ backend = "up"
  /\ Ordered
  /\ wanted' = FALSE
  /\ LetGoIfAttached
  /\ UNCHANGED <<backend, awaited, recorded, requests, bot, reliable>>

Restart ==
  /\ backend = "up"
  /\ Ordered
  /\ wanted' = TRUE
  /\ LetGoIfAttached
  /\ UNCHANGED <<backend, awaited, recorded, requests, bot, reliable>>

\* A connection that fails, by itself, by a deadline or by the watchdog.
Fail(c) ==
  /\ attached = c
  /\ Faulty
  /\ LetGo(c)
  /\ UNCHANGED <<backend, wanted, awaited, recorded, requests, bot, reliable>>

\* The next attempt of an account that is to run: after a back-off of 15 s or
\* more, the 5 s of a restart, or the start of the backend. By then the
\* sessions and stop requests of earlier attempts, cancelled or given 3 s, are
\* over as far as the backend is concerned.
Resume ==
  /\ backend = "up"
  /\ wanted
  /\ attached = NoController
  /\ \A c \in Controllers : session[c] = "gone" /\ stopping[c] = "idle"
  /\ Attach
  /\ UNCHANGED <<backend, wanted, awaited, recorded, requests, bot, reliable, orders,
                 faults>>

\* stopRemoteAccount: the request goes out once the file has been read.
SendStop(c) ==
  /\ stopping[c] = "reading"
  /\ IF recorded
     THEN /\ stopping' = [stopping EXCEPT ![c] = "waiting"]
          /\ requests' = Append(requests, Request("STOPPED", "supervisor", c))
     ELSE /\ stopping' = [stopping EXCEPT ![c] = "idle"]
          /\ UNCHANGED requests
  /\ UNCHANGED <<backend, wanted, attached, session, lastStop, awaited, recorded, bot,
                 reliable, orders, faults>>

-----------------------------------------------------------------------------
(***************************************************************************)
(* A controller's session (runSoulFire).                                   *)
(***************************************************************************)

\* The bot is named in soulfire.json, configured, and asked to run.
Ask(c) ==
  /\ session[c] = "preparing"
  /\ recorded' = TRUE
  /\ session' = [session EXCEPT ![c] = "asking"]
  /\ requests' = Append(requests, Request("RUNNING", "session", c))
  /\ UNCHANGED <<backend, wanted, attached, stopping, lastStop, awaited, bot, reliable,
                 orders, faults>>

\* A status request finds the bot stopped beneath its session, which ends.
NoticeStopped(c) ==
  /\ session[c] = "playing"
  /\ attached = c
  /\ bot = "stopped"
  /\ LetGo(c)
  /\ UNCHANGED <<backend, wanted, awaited, recorded, requests, bot, reliable, orders,
                 faults>>

\* The finally block of a cancelled session.
SendLeave(c) ==
  /\ session[c] = "leaving"
  /\ session' = [session EXCEPT ![c] = "stopping"]
  /\ requests' = Append(requests, Request("STOPPED", "session", c))
  /\ UNCHANGED <<backend, wanted, attached, stopping, lastStop, awaited, recorded, bot,
                 reliable, orders, faults>>

-----------------------------------------------------------------------------
(***************************************************************************)
(* The service, and how an answer, or giving up, moves the sender. Nobody  *)
(* retries a stop request: its failure is logged or ignored.               *)
(***************************************************************************)
Answered(by) ==
  /\ session' = IF by.who # "session" THEN session
                ELSE [session EXCEPT ![by.for] =
                        IF @ = "asking" THEN "playing"
                        ELSE IF @ = "stopping" THEN "gone" ELSE @]
  /\ stopping' = IF by.who # "supervisor" THEN stopping
                 ELSE [stopping EXCEPT ![by.for] = "idle"]
  /\ backend' = IF by.who = "startup" THEN "up" ELSE backend
  /\ UNCHANGED <<attached, lastStop>>

\* A session whose request to run fails ends; a failed stop request is let be.
GivenUp(r) ==
  IF r.state = "RUNNING" /\ r.by.who = "session" /\ session[r.by.for] = "asking"
  THEN LetGo(r.by.for) /\ UNCHANGED backend
  ELSE Answered(r.by)

\* The answer to a cancelled request to run reaches nobody.
Awaits(r) ==
  r.by.who = "session" /\ r.state = "RUNNING" => session[r.by.for] = "asking"

InOrder(i) == reliable => i = 1

\* Faulty: the state asked for is taken for the state the bot is in.
AppliedAsAsked(i) == requests[i].state

Applied(i) == IF requests[i].state = "RUNNING" THEN "running" ELSE "stopped"

Without(i) ==
  SubSeq(requests, 1, i - 1) \o SubSeq(requests, i + 1, Len(requests))

Apply(i) ==
  /\ InOrder(i)
  /\ bot' = Applied(i)
  /\ requests' = Without(i)
  /\ IF Awaits(requests[i])
     THEN Answered(requests[i].by)
     ELSE UNCHANGED <<backend, attached, session, stopping, lastStop>>
  /\ UNCHANGED <<wanted, awaited, recorded, reliable, orders, faults>>

\* The request fails before the service has applied it.
Lose(i) ==
  /\ ~reliable
  /\ Faulty
  /\ requests' = Without(i)
  /\ IF Awaits(requests[i])
     THEN GivenUp(requests[i])
     ELSE UNCHANGED <<backend, attached, session, stopping, lastStop>>
  /\ UNCHANGED <<wanted, awaited, recorded, bot, reliable>>

\* The sender gives up a request that the service may yet apply.
GiveUp(i) ==
  /\ ~reliable
  /\ requests[i].by # Nobody
  /\ Awaits(requests[i])
  /\ Faulty
  /\ requests' = [requests EXCEPT ![i].by = Nobody]
  /\ GivenUp(requests[i])
  /\ UNCHANGED <<wanted, awaited, recorded, bot, reliable>>

\* The service restarts without its bots; what was under way to it is lost.
ServiceRestarts ==
  /\ bot = "running"
  /\ requests = <<>>
  /\ Faulty
  /\ bot' = "stopped"
  /\ UNCHANGED <<backend, wanted, attached, session, stopping, lastStop, awaited,
                 recorded, requests, reliable>>

-----------------------------------------------------------------------------
(***************************************************************************)
(* The backend process.                                                    *)
(***************************************************************************)

\* What the end of the process leaves: only the requests it has sent.
Vanish ==
  /\ attached' = NoController
  /\ session' = [c \in Controllers |-> "gone"]
  /\ stopping' = [c \in Controllers |-> "idle"]
  /\ lastStop' = NoController
  /\ awaited' = NoController
  /\ requests' = [i \in DOMAIN requests |-> [requests[i] EXCEPT !.by = Nobody]]

Crash ==
  /\ backend \in {"reconciling", "up", "exiting"}
  /\ Faulty
  /\ backend' = "down"
  /\ Vanish
  /\ UNCHANGED <<wanted, recorded, bot, reliable>>

\* shutdown: disconnects as a user's stop does, but keeps the wish to run.
Shutdown ==
  /\ backend = "up"
  /\ Ordered
  /\ backend' = "exiting"
  /\ awaited' = attached
  /\ LetGoIfAttached
  /\ UNCHANGED <<wanted, recorded, requests, bot, reliable>>

\* The controller attached at the time has closed and the last stop request
\* has been answered or given up. Earlier ones are not waited for.
Exit ==
  /\ backend = "exiting"
  /\ awaited # NoController => session[awaited] = "gone"
  /\ lastStop # NoController => stopping[lastStop] = "idle"
  /\ backend' = "exited"
  /\ Vanish
  /\ UNCHANGED <<wanted, recorded, bot, reliable, orders, faults>>

\* loadAll: before any account is resumed its bot is asked to stop.
LoadAll ==
  /\ backend \in {"down", "exited"}
  /\ IF recorded
     THEN /\ backend' = "reconciling"
          /\ requests' = Append(requests, [state |-> "STOPPED", by |-> Startup])
     ELSE backend' = "up" /\ UNCHANGED requests
  /\ UNCHANGED <<wanted, attached, session, stopping, lastStop, awaited, recorded, bot,
                 reliable, orders, faults>>

-----------------------------------------------------------------------------
Controller(c) ==
  Fail(c) \/ SendStop(c) \/ Ask(c) \/ NoticeStopped(c) \/ SendLeave(c)

Service ==
  \/ \E i \in DOMAIN requests : Apply(i) \/ Lose(i) \/ GiveUp(i)
  \/ ServiceRestarts

Next ==
  \/ Start \/ Stop \/ Restart \/ Resume
  \/ \E c \in Controllers : Controller(c)
  \/ Service
  \/ Crash \/ Shutdown \/ Exit \/ LoadAll

Spec == Init /\ [][Next]_vars

(***************************************************************************)
(* The backend goes on with what it has begun, is started again when it is *)
(* down (its container restarts it) and the service works off what it got. *)
(* Users need not order anything and nothing need fail.                    *)
(***************************************************************************)
ApplyNext == requests # <<>> /\ Apply(1)

FairSpec ==
  /\ Spec
  /\ WF_vars(Resume)
  /\ WF_vars(ApplyNext)
  /\ WF_vars(Exit)
  /\ WF_vars(LoadAll)
  /\ \A c \in Controllers :
       /\ WF_vars(SendStop(c))
       /\ WF_vars(Ask(c))
       /\ WF_vars(NoticeStopped(c))
       /\ WF_vars(SendLeave(c))

-----------------------------------------------------------------------------
(***************************************************************************)
(* What must hold.                                                         *)
(***************************************************************************)

\* Nothing in the backend attends to the bot, or still means to.
Unattended ==
  /\ backend \in {"up", "exited"}
  /\ attached = NoController
  /\ \A c \in Controllers : session[c] = "gone" /\ stopping[c] = "idle"

\* "A controller dying must never leave an unattended bot in the shared JVM."
\* Nobody retries a stop request that failed or was overtaken.
NeverUnattended == Unattended => bot = "stopped"

\* A service that applies every request in order is left with no bot that
\* nobody attends to: not after a stop, a failed attempt or an orderly exit,
\* and not after a crash, once the backend is up again. And when orders and
\* faults come to an end, so does the struggle between late stop requests and
\* new sessions: an account that is to run ends up with its bot running under a
\* session, whatever the service did to the requests, and if it was reliable,
\* one that is not to run ends up without.
Settles ==
  /\ [](reliable => NeverUnattended)
  /\ <>[] /\ wanted => bot = "running" /\ attached # NoController
          /\ ~wanted /\ reliable => bot = "stopped"
=============================================================================
