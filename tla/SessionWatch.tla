----------------------------- MODULE SessionWatch -----------------------------
(***************************************************************************)
(* How the session of one controller learns what its bot does              *)
(* (soulfire/session.ts): the stream of the bot's events, which is         *)
(* subscribed to again when it breaks, and beside it the health check, a   *)
(* query of the game thread that falls back to one of the status manager   *)
(* (soulfire/runtimeStatus.ts). Either may find that the bot has entered   *)
(* the world, or end the session; so may the supervisor.                   *)
(*                                                                         *)
(* The service is external. Its game client is in the world or not, and    *)
(* its game thread may freeze; its frames come in order, but a burst or a  *)
(* broken stream loses some. What the behaviours do with the events is in  *)
(* module Behaviors, and the requests to run and to stop in SharedBot.     *)
(***************************************************************************)
EXTENDS Naturals, Sequences

CONSTANTS
  MaxFrames,   \* bound: snapshots and inventories sent
  MaxTroubles  \* bound: failed calls, lost frames, deaths, freezes, outages

ASSUME SessionWatchAssumption == MaxFrames \in Nat /\ MaxTroubles \in Nat

VARIABLES
  client,     \* the game client in the service
  frozen,     \* its game thread answers nothing
  reachable,  \* the control service answers
  frames,     \* events under way to the session
  start,      \* the session's way to its request to run
  inWorld,    \* online
  stocked,    \* the inventory is known
  watch,      \* the loop over the events: what it awaits
  poll,       \* the health check: what it awaits
  seen,       \* the state of the client that an answer under way tells
  outage,     \* controlUnavailable, and so the supervisor was told
  ended,      \* the abort signal, and who set it off
  reports,    \* connection_failed, as emitted
  beat,       \* changes with every heartbeat emitted
  shown,      \* snapshots and inventories so far
  troubles    \* troubles so far

external == <<client, frozen, reachable>>
view == <<inWorld, stocked>>
ends == <<ended, reports>>
watchVars == <<external, frames, start, view, watch, poll, seen, outage, ends, beat, shown, troubles>>

Clients == {"stopped", "starting", "world", "dead", "failed"}
Kinds == {"snapshot", "inventory", "resync", "spawned", "died", "respawned", "stopped",
          "disconnected"}

WatchTypeOK ==
  /\ client \in Clients /\ seen \in Clients
  /\ {frozen, reachable, inWorld, stocked, outage} \subseteq BOOLEAN
  /\ frames \in Seq(Kinds)
  /\ start \in {"preparing", "sent", "applied", "running"}
  /\ watch \in {"idle", "open", "spawning", "entering", "respawning", "delay"}
  /\ poll \in {"idle", "asked", "answered", "spawning", "probing", "probed"}
  /\ ended \in {"no", "killed", "failed"} /\ reports \in 0..2 /\ beat \in {0, 1}
  /\ shown \in 0..MaxFrames /\ troubles \in 0..MaxTroubles

WatchInit ==
  /\ client = "stopped" /\ seen = "stopped" /\ frozen = FALSE /\ reachable = TRUE
  /\ frames = <<>> /\ start = "preparing"
  /\ inWorld = FALSE /\ stocked = FALSE /\ outage = FALSE
  /\ watch = "idle" /\ poll = "idle"
  /\ ended = "no" /\ reports = 0 /\ beat = 0 /\ shown = 0 /\ troubles = 0

Running == ended = "no"
Trouble == troubles < MaxTroubles /\ troubles' = troubles + 1

\* SoulFireInventory: known since its last state came, until it is reset.
InventoryUpdated == stocked' = TRUE
InventoryReset == stocked' = FALSE

\* The session tells why it ends, and its other parts end with it.
Report == reports' = reports + 1 /\ ended' = IF Running THEN "failed" ELSE ended

\* heartbeat: with it the supervisor hears that the service is back.
Beat == beat' = 1 - beat /\ outage' = FALSE
NoBeat == UNCHANGED <<beat, outage>>

-----------------------------------------------------------------------------
(***************************************************************************)
(* The service.                                                            *)
(***************************************************************************)

\* Nobody hears what is sent while the session is not subscribed.
Put(kind) == frames' = IF watch \in {"idle", "delay"} THEN frames ELSE Append(frames, kind)

Outside == <<start, view, watch, poll, seen, outage, ends, beat>>

RunsClient ==
  /\ start = "sent"
  /\ start' = "applied" /\ client' = "starting"
  /\ UNCHANGED <<frozen, reachable, frames, view, watch, poll, seen, outage, ends, beat, shown,
                 troubles>>

EntersWorld ==
  /\ client = "starting" /\ ~frozen
  /\ client' = "world" /\ Put("spawned")
  /\ UNCHANGED <<frozen, reachable, Outside, shown, troubles>>

ShowsGame ==
  /\ client = "world" /\ ~frozen
  /\ shown < MaxFrames /\ shown' = shown + 1
  /\ \E kind \in {"snapshot", "inventory"} : Put(kind)
  /\ UNCHANGED <<external, Outside, troubles>>

\* A burst: frames are dropped, and the session is told so.
DropsFrames ==
  /\ frames # <<>> /\ Trouble
  /\ frames' = <<"resync">>
  /\ UNCHANGED <<external, Outside, shown>>

PlayerDies ==
  /\ client = "world" /\ ~frozen /\ Trouble
  /\ client' = "dead" /\ Put("died")
  /\ UNCHANGED <<frozen, reachable, Outside, shown>>

\* The game ends the connection, or somebody stops the bot.
LeavesGame ==
  /\ client \in {"starting", "world", "dead"} /\ Trouble
  /\ \/ client' = "failed" /\ Put("disconnected")
     \/ client' = "stopped" /\ Put("stopped")
  /\ frozen' = FALSE
  /\ UNCHANGED <<reachable, Outside, shown>>

Freezes ==
  /\ client \in {"starting", "world"} /\ ~frozen /\ Trouble
  /\ frozen' = TRUE
  /\ UNCHANGED <<client, reachable, frames, Outside, shown>>

Vanishes ==
  /\ reachable /\ Trouble
  /\ reachable' = FALSE
  /\ UNCHANGED <<client, frozen, frames, Outside, shown>>

Recovers ==
  /\ frozen \/ ~reachable
  /\ frozen' = FALSE /\ reachable' = TRUE
  /\ UNCHANGED <<client, frames, Outside, shown, troubles>>

Service_ ==
  \/ RunsClient \/ EntersWorld \/ ShowsGame \/ DropsFrames \/ PlayerDies \/ LeavesGame
  \/ Freezes \/ Vanishes \/ Recovers

-----------------------------------------------------------------------------
(***************************************************************************)
(* The session begins, and what it awaits.                                 *)
(***************************************************************************)

\* The abort signal ends every loop at its next look.
PrepareFails ==
  /\ start = "preparing" /\ Running /\ Trouble
  /\ Report
  /\ UNCHANGED <<external, frames, start, view, watch, poll, seen, outage, beat, shown>>

Begin ==
  /\ start = "preparing" /\ Running
  /\ start' = "sent" /\ watch' = "open"
  /\ UNCHANGED <<external, frames, view, poll, seen, outage, ends, beat, shown, troubles>>

\* setBotsDesiredState is answered, and the timer of the health check set.
StartAnswered ==
  /\ start = "applied" /\ Running
  /\ start' = "running"
  /\ UNCHANGED <<external, frames, view, watch, poll, seen, outage, ends, beat, shown, troubles>>

StartFails ==
  /\ start \in {"sent", "applied"} /\ Running /\ Trouble
  /\ Report
  /\ UNCHANGED <<external, frames, start, view, watch, poll, seen, outage, beat, shown>>

\* The supervisor ends the session.
Kill ==
  /\ Running
  /\ ended' = "killed"
  /\ UNCHANGED <<external, frames, start, view, watch, poll, seen, outage, reports, beat, shown,
                 troubles>>

-----------------------------------------------------------------------------
(***************************************************************************)
(* The stream of events.                                                   *)
(***************************************************************************)

Away == <<external, start, poll, seen, shown>>

\* spawned: the first to see the bot in the world awaits its behaviours.
Spawned(known, await) ==
  IF known THEN inWorld' = TRUE /\ watch' = "open"
           ELSE inWorld' = TRUE /\ watch' = await

TakeFrame ==
  /\ watch = "open" /\ Running /\ frames # <<>>
  /\ frames' = Tail(frames)
  /\ \/ /\ Head(frames) = "inventory"
        /\ InventoryUpdated /\ (NoBeat \/ (inWorld /\ Beat))
        /\ UNCHANGED <<inWorld, watch, ends>>
     \/ /\ Head(frames) = "resync"
        /\ InventoryReset
        /\ NoBeat /\ UNCHANGED <<inWorld, watch, ends>>
     \/ /\ Head(frames) = "snapshot"
        /\ Spawned(inWorld, "entering")
        /\ (NoBeat \/ (inWorld /\ Beat)) /\ UNCHANGED <<stocked, ends>>
     \/ /\ Head(frames) \in {"spawned", "respawned"}
        /\ Spawned(inWorld /\ Head(frames) = "spawned", "spawning")
        /\ NoBeat /\ UNCHANGED <<stocked, ends>>
     \/ /\ Head(frames) = "died"
        /\ InventoryReset /\ inWorld' = FALSE /\ watch' = "respawning"
        /\ NoBeat /\ UNCHANGED ends
     \/ /\ Head(frames) = "disconnected" \/ (Head(frames) = "stopped" /\ inWorld)
        /\ Report /\ watch' = "idle"
        /\ NoBeat /\ UNCHANGED view
     \/ /\ Head(frames) = "stopped" /\ ~inWorld
        /\ NoBeat /\ UNCHANGED <<view, watch, ends>>
  /\ UNCHANGED <<Away, troubles>>

\* The behaviours are ready; a snapshot is a sign of life.
StreamSpawned ==
  /\ watch \in {"spawning", "entering"}
  /\ watch' = "open"
  /\ NoBeat \/ (watch = "entering" /\ inWorld /\ Beat)
  /\ UNCHANGED <<Away, frames, view, ends, troubles>>

\* retryEventStream: after a delay the stream is subscribed to again, unless
\* the service denies it to the session.
StreamLost ==
  \/ /\ Running
     /\ watch' = "delay" /\ InventoryReset /\ frames' = <<>>
     /\ UNCHANGED ends
  \/ /\ Running
     /\ Report /\ watch' = "idle"
     /\ UNCHANGED <<stocked, frames>>
  \/ /\ ~Running
     /\ watch' = "idle"
     /\ UNCHANGED <<stocked, frames, ends>>

StreamSpawnFails ==
  /\ watch \in {"spawning", "entering"} /\ Trouble
  /\ inWorld' = FALSE
  /\ StreamLost
  /\ UNCHANGED <<Away, outage, beat>>

\* respawn: the game has the player back in the world.
RespawnAnswered ==
  /\ watch = "respawning"
  /\ watch' = "open"
  /\ IF client = "dead" THEN client' = "world" /\ frames' = Append(frames, "respawned")
                        ELSE UNCHANGED <<client, frames>>
  /\ UNCHANGED <<frozen, reachable, start, view, poll, seen, outage, ends, beat, shown, troubles>>

\* Done or not.
RespawnFails ==
  /\ watch = "respawning" /\ Trouble
  /\ client' \in {client, IF client = "dead" THEN "world" ELSE client}
  /\ StreamLost
  /\ UNCHANGED <<frozen, reachable, start, inWorld, poll, seen, outage, beat, shown>>

\* The stream breaks, or its server ends it.
StreamBreaks ==
  /\ watch = "open" /\ Trouble
  /\ StreamLost
  /\ UNCHANGED <<Away, inWorld, outage, beat>>

Resubscribes ==
  /\ watch = "delay" /\ Running /\ reachable
  /\ watch' = "open"
  /\ UNCHANGED <<Away, frames, view, outage, ends, beat, troubles>>

StreamOver ==
  /\ watch \in {"open", "delay"} /\ ~Running
  /\ watch' = "idle"
  /\ UNCHANGED <<Away, frames, view, outage, ends, beat, troubles>>

Watching ==
  \/ TakeFrame \/ StreamSpawned \/ StreamSpawnFails \/ RespawnAnswered \/ RespawnFails
  \/ StreamBreaks \/ Resubscribes \/ StreamOver

-----------------------------------------------------------------------------
(***************************************************************************)
(* The health check, one at a time: a query of the game thread, and when   *)
(* that is unavailable one of the status manager.                          *)
(***************************************************************************)

Beside == <<external, frames, start, watch, shown>>

Gone == {"stopped", "failed"}

PollBegins ==
  /\ poll = "idle" /\ start = "running" /\ Running
  /\ poll' = "asked"
  /\ UNCHANGED <<Beside, view, seen, outage, ends, beat, troubles>>

PollServed ==
  /\ poll = "asked" /\ reachable /\ ~frozen
  /\ poll' = "answered" /\ seen' = client
  /\ UNCHANGED <<Beside, view, outage, ends, beat, troubles>>

\* Faulty: only the stream tells that the bot is in the world.
PollAnsweredWithoutEntry ==
  /\ poll = "answered" /\ Running
  /\ \/ /\ seen \in Gone
        /\ Report /\ poll' = "idle"
        /\ outage' = FALSE /\ UNCHANGED <<inWorld, beat>>
     \/ /\ seen \in {"world", "dead"}
        /\ poll' = "idle"
        /\ outage' = FALSE /\ beat' = (IF inWorld THEN 1 - beat ELSE beat)
        /\ UNCHANGED <<inWorld, ends>>
     \/ /\ seen \in {"starting", "dead"}
        /\ poll' = "idle"
        /\ outage' = FALSE /\ UNCHANGED <<inWorld, beat, ends>>
  /\ UNCHANGED <<Beside, stocked, seen, troubles>>

\* A live player proves that the bot is in the world: the stream may have
\* lost the events that said so. A dead one may still count as live.
PollAnswered ==
  /\ poll = "answered" /\ Running
  /\ \/ /\ seen \in Gone
        /\ Report /\ poll' = "idle"
        /\ outage' = FALSE /\ UNCHANGED <<inWorld, beat>>
     \/ /\ seen \in {"world", "dead"}
        /\ inWorld' = TRUE /\ poll' = IF inWorld THEN "idle" ELSE "spawning"
        /\ outage' = FALSE /\ beat' = (IF inWorld THEN 1 - beat ELSE beat)
        /\ UNCHANGED ends
     \/ /\ seen \in {"starting", "dead"}
        /\ poll' = "idle"
        /\ outage' = FALSE /\ UNCHANGED <<inWorld, beat, ends>>
  /\ UNCHANGED <<Beside, stocked, seen, troubles>>

PollSpawned ==
  /\ poll = "spawning"
  /\ poll' = "idle"
  /\ IF inWorld THEN Beat ELSE NoBeat
  /\ UNCHANGED <<Beside, view, seen, ends, troubles>>

\* unavailableControlService, retryEventStream: the status manager is asked,
\* the next check awaited, or the session ended.
PollLost == poll' \in {"probing", "idle"} /\ UNCHANGED ends
PollDenied == poll' = "idle" /\ Report

PollFails ==
  /\ poll = "asked" /\ Running
  /\ \/ /\ ~reachable \/ frozen
        /\ poll' = "probing" /\ UNCHANGED <<ends, troubles>>
     \/ Trouble /\ (PollLost \/ PollDenied)
  /\ UNCHANGED <<Beside, view, seen, outage, beat>>

PollSpawnFails ==
  /\ poll = "spawning" /\ Trouble
  /\ inWorld' = FALSE
  /\ IF Running THEN PollLost \/ PollDenied ELSE poll' = "idle" /\ UNCHANGED ends
  /\ UNCHANGED <<Beside, stocked, seen, outage, beat>>

\* The status manager needs no game thread.
ProbeServed ==
  /\ poll = "probing" /\ reachable
  /\ poll' = "probed" /\ seen' = client
  /\ UNCHANGED <<Beside, view, outage, ends, beat, troubles>>

\* It is no sign of life of the game.
ProbeAnswered ==
  /\ poll = "probed" /\ Running
  /\ poll' = "idle"
  /\ outage' = FALSE
  /\ IF seen \in Gone THEN Report ELSE UNCHANGED ends
  /\ UNCHANGED <<Beside, view, seen, beat, troubles>>

ProbeFails ==
  /\ poll = "probing" /\ Running
  /\ \/ ~reachable /\ outage' = TRUE /\ UNCHANGED <<ends, troubles>>
     \/ Trouble /\ outage' = TRUE /\ UNCHANGED ends
     \/ Trouble /\ Report /\ UNCHANGED outage
  /\ poll' = "idle"
  /\ UNCHANGED <<Beside, view, seen, beat>>

\* An answer that comes after the end is ignored.
PollOver ==
  /\ poll \in {"asked", "answered", "probing", "probed"} /\ ~Running
  /\ poll' = "idle"
  /\ UNCHANGED <<Beside, view, seen, outage, ends, beat, troubles>>

Polling ==
  \/ PollBegins \/ PollServed \/ PollAnswered \/ PollSpawned \/ PollFails \/ PollSpawnFails
  \/ ProbeServed \/ ProbeAnswered \/ ProbeFails \/ PollOver

WatchNext ==
  \/ Service_ \/ PrepareFails \/ Begin \/ StartAnswered \/ StartFails \/ Kill
  \/ Watching \/ Polling

\* Calls are answered or time out, and a service that is back answers. The
\* health check waits for 5 s without a heartbeat, of which there is none
\* before the bot is in the world, and each of which ends an outage.
PollProcess == Polling /\ (poll = "idle" => ~inWorld \/ outage)

WatchSpec ==
  /\ WatchInit /\ [][WatchNext]_watchVars
  /\ WF_watchVars(StartAnswered) /\ WF_watchVars(PollProcess)

-----------------------------------------------------------------------------
(***************************************************************************)
(* What must hold.                                                         *)
(***************************************************************************)

\* What the service sent while the game thread still ran.
UnderWay == frames # <<>> \/ poll \in {"answered", "spawning"} \/ watch = "entering"

\* Why a session ended by itself is told exactly once, whichever of its parts,
\* all of them under way, finds out; a session that was ended from outside
\* tells nothing.
ToldOnce == reports = IF ended = "failed" THEN 1 ELSE 0

\* A game whose thread is frozen gives no heartbeat once what it sent before has
\* been dealt with, nor anything that a later one could follow from, for as long as
\* it is frozen: so that its watchdog expires, although the status manager says it
\* runs, and whatever loops are resubscribed and checks repeated meanwhile.
SilentWhenFrozen ==
  [][frozen /\ ~UnderWay => beat' = beat /\ (frozen' => ~UnderWay')]_watchVars

\* The supervisor hears of the session as it is: of its end once, and of no
\* life in a frozen game. And a bot that stays in the world gets known to be
\* there, whatever the stream lost, as it gets known that the service has
\* recovered; or the session ends.
SessionAsIs ==
  /\ []ToldOnce /\ SilentWhenFrozen
  /\ <>[](client = "world" /\ ~frozen /\ reachable) => <>[](inWorld \/ ~Running)
  /\ <>[]reachable => <>[](~outage \/ ~Running)
=============================================================================
