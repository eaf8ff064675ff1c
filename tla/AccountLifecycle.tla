--------------------------- MODULE AccountLifecycle ---------------------------
(***************************************************************************)
(* What the supervisor of one game account promises to the rest of the     *)
(* website, without its timers, controllers and counters: when an account  *)
(* is being connected, when it rests, and who may end either. In           *)
(* particular an account a user has stopped stays stopped until a user     *)
(* starts it, and one that is to run is retried until it is online or, if  *)
(* it must not reconnect by itself, reported as failed.                    *)
(*                                                                         *)
(* Supervisor implements this specification under the mapping it states.   *)
(***************************************************************************)

VARIABLES
  phase,        \* what is being done about the account's connection
  stopOrdered   \* the last order of a user was to stop it

lifecycle == <<phase, stopOrdered>>

Phases == {"stopped",     \* nothing, until a user asks
           "resting",     \* the pause of a manual restart
           "attempting",  \* a controller works towards the game world
           "online",      \* a controller is in the game world
           "waiting",     \* the back-off after a failed or lost connection
           "failed"}      \* lost with auto-reconnect off, until a user asks

TypeOK ==
  /\ phase \in Phases
  /\ stopOrdered \in BOOLEAN

Init ==
  /\ phase = "stopped"
  /\ stopOrdered = FALSE

\* An attempt begins; it may fail at once.
Attempt == phase' \in {"attempting", "waiting", "failed"}

Start ==
  /\ phase \in {"stopped", "failed"}
  /\ Attempt
  /\ stopOrdered' = FALSE

Stop ==
  /\ phase' = "stopped"
  /\ stopOrdered' = TRUE

Restart ==
  /\ phase' = "resting"
  /\ stopOrdered' = FALSE

\* The pause or back-off is over: the next attempt, with no user involved.
Resume ==
  /\ phase \in {"resting", "waiting"}
  /\ Attempt
  /\ UNCHANGED stopOrdered

Enter ==
  /\ phase = "attempting"
  /\ phase' = "online"
  /\ UNCHANGED stopOrdered

Lose ==
  /\ phase \in {"attempting", "online"}
  /\ phase' \in {"waiting", "failed"}
  /\ UNCHANGED stopOrdered

\* An attempt is over: it reached the game world, or it failed.
Conclude == phase = "attempting" /\ (Enter \/ Lose)

Next == Start \/ Stop \/ Restart \/ Resume \/ Enter \/ Lose

(***************************************************************************)
(* Every rest ends in an attempt and every attempt ends one way or the     *)
(* other. Being online ends only if something ends it.                     *)
(***************************************************************************)
Fairness ==
  /\ WF_lifecycle(Resume)
  /\ WF_lifecycle(Conclude)

Spec == Init /\ [][Next]_lifecycle

FairSpec == Spec /\ Fairness
=============================================================================
