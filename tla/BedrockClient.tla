---------------------------- MODULE BedrockClient ----------------------------
(***************************************************************************)
(* The process of the former Bedrock engine, one per account: it reads its *)
(* configuration and commands from stdin, looks for the server, signs in,  *)
(* joins the world and tells its supervisor on stdout how that went        *)
(* (bedrock-bot/index.ts, connection.ts, discovery.ts, version.ts).        *)
(*                                                                         *)
(* bedrock-protocol and the server are external: the library signs in and  *)
(* connects in this order, and then the server's packets come in any order *)
(* and any number. One tick is the second between two looks of the         *)
(* watchdog; it comes when nothing that is due is left undone.             *)
(***************************************************************************)
EXTENDS Naturals, Sequences

CONSTANTS
  StageTimeout,      \* CONNECT_TIMEOUT_MS
  AuthTimeout,       \* the deadline of the sign-in
  DiscoveryTimeout,  \* min(CONNECT_TIMEOUT_MS, 5000)
  CodeLife,          \* expires_in of a device code, with the 30 s on top
  Supported,         \* the protocols of the installed library
  CurrentProtocol,   \* that of CURRENT_VERSION
  Advertised,        \* the protocols servers advertise
  MaxCodes, MaxLines \* bounds: device codes in one sign-in, commands read

ASSUME ClientAssumption ==
  /\ {StageTimeout, AuthTimeout, DiscoveryTimeout, CodeLife} \subseteq Nat \ {0}
  /\ Supported \subseteq Nat /\ Advertised \subseteq Nat
  /\ CurrentProtocol \in Supported
  /\ MaxCodes \in Nat /\ MaxLines \in Nat

Unset == 0

VARIABLES
  main,       \* how far main() has come
  requested,  \* the configured protocol, or Unset for "auto"
  offered,    \* the protocol of the client that was made
  early,      \* bufferedCommands
  phase,      \* the phase of BedrockConnectionProgress, as its place in Order
  deadline,   \* ticks until timedOut
  query,      \* ticks until the discovery gives up
  library,    \* the client of bedrock-protocol
  watchdog,   \* the interval is set
  spawned,
  exiting, exited,
  told,       \* the reports that end the account's attempt
  stopAsked,  \* a disconnect command was read
  obeyed,     \* and executed
  codes, lines \* counters of the bounds

clientVars == <<main, requested, offered, early, phase, deadline, query, library, watchdog,
                spawned, exiting, exited, told, stopAsked, obeyed, codes, lines>>
start == <<main, requested, offered, early, query>>
ending == <<exiting, exited, told>>
orders == <<stopAsked, obeyed, codes, lines>>

Order == <<"discovery", "authentication", "transport", "login", "resources", "world", "spawned">>

Place(name) == CHOOSE i \in DOMAIN Order : Order[i] = name

ClientTypeOK ==
  /\ main \in {"config", "discovering", "running", "given up"}
  /\ requested \in Supported \union {Unset} /\ offered \in Supported \union {Unset}
  /\ early \in Seq({"task", "disconnect"}) /\ Len(early) <= MaxLines
  /\ phase \in DOMAIN Order
  /\ deadline \in 0..(StageTimeout + AuthTimeout + CodeLife)
  /\ query \in 0..DiscoveryTimeout
  /\ library \in {"none", "signing in", "connecting", "open", "closed"}
  /\ {watchdog, spawned, exiting, exited, stopAsked, obeyed} \subseteq BOOLEAN
  /\ told \subseteq {"fatal_error", "connection_failed", "disconnect"}
  /\ codes \in 0..MaxCodes /\ lines \in 0..MaxLines
  /\ library = "none" <=> main # "running"

\* The clock of the phases starts with the configuration.
ClientInit ==
  /\ main = "config" /\ requested \in Supported \union {Unset} /\ offered = Unset /\ early = <<>>
  /\ phase = 1 /\ deadline = StageTimeout /\ query = 0
  /\ library = "none" /\ watchdog = FALSE /\ spawned = FALSE
  /\ exiting = FALSE /\ exited = FALSE /\ told = {}
  /\ stopAsked = FALSE /\ obeyed = FALSE /\ codes = 0 /\ lines = 0

-----------------------------------------------------------------------------
(***************************************************************************)
(* The phases, each with a deadline of its own.                            *)
(***************************************************************************)

TimeFor(p) == IF Order[p] = "authentication" THEN AuthTimeout ELSE StageTimeout

\* Faulty: every event of the connection sets the deadline anew.
AdvanceAnyway(name) ==
  /\ phase' = IF Place(name) > phase THEN Place(name) ELSE phase
  /\ deadline' = TimeFor(Place(name))

\* advance: repeated packets and late events do not extend a stalled join.
Advance(name) ==
  IF Place(name) > phase
  THEN phase' = Place(name) /\ deadline' = TimeFor(Place(name))
  ELSE UNCHANGED <<phase, deadline>>

TimedOut == Order[phase] # "spawned" /\ deadline = 0

-----------------------------------------------------------------------------
(***************************************************************************)
(* The end of the process: first the report, then endProcess, which gives  *)
(* stdout 50 ms.                                                           *)
(***************************************************************************)

\* endProcess, after a report.
EndsTelling(report) == told' = told \union {report} /\ exiting' = TRUE /\ UNCHANGED exited

\* shutdown, after a report.
ShutsDown(report) == EndsTelling(report) /\ library' = "closed" /\ watchdog' = FALSE

Exit ==
  /\ exiting /\ ~exited
  /\ exited' = TRUE
  /\ UNCHANGED <<start, phase, deadline, library, watchdog, spawned, exiting, told, orders>>

\* An exception nobody caught. What is open stays open until the exit.
Uncaught ==
  /\ ~exited /\ main # "config"
  /\ EndsTelling("fatal_error")
  /\ UNCHANGED <<start, phase, deadline, library, watchdog, spawned, orders>>

-----------------------------------------------------------------------------
(***************************************************************************)
(* main.                                                                   *)
(***************************************************************************)

\* The first line is the configuration.
ReadConfig ==
  /\ main = "config" /\ ~exited
  /\ main' = "discovering" /\ query' = DiscoveryTimeout
  /\ UNCHANGED <<requested, offered, early, phase, deadline, library, watchdog, spawned, ending,
                 orders>>

\* It is no JSON, or stdin was closed before.
NoConfig ==
  /\ main = "config" /\ ~exiting
  /\ main' = "given up" /\ EndsTelling("fatal_error")
  /\ UNCHANGED <<requested, offered, early, phase, deadline, query, library, watchdog, spawned,
                 orders>>

\* selectBedrockVersion: the configured protocol, the advertised one, or the
\* library's current one where the server advertises a newer than any installed.
Negotiating(advertised) == requested = Unset /\ \A p \in Supported : advertised > p

Selectable(advertised) ==
  IF requested # Unset THEN {requested}
  ELSE IF Negotiating(advertised) THEN {CurrentProtocol} ELSE Supported \intersect {advertised}

\* The command "disconnect". Closing the client may make it report its closing
\* before the process is marked as exiting.
Disconnected ==
  /\ obeyed' = TRUE /\ library' = "closed" /\ watchdog' = FALSE
  /\ exiting' = TRUE /\ UNCHANGED exited
  /\ \/ UNCHANGED told
     \/ ~exiting /\ told' = told \union {"disconnect"}

\* The server answered, the client is made, the watchdog set and the commands
\* that came meanwhile are executed. An offline session is ready at once.
Discovered ==
  /\ main = "discovering" /\ ~exited
  /\ main' = "running" /\ early' = <<>> /\ query' = 0
  /\ \E advertised \in Advertised : offered' \in Selectable(advertised)
  /\ \E ready \in BOOLEAN :
       /\ Advance(IF ready THEN "transport" ELSE "authentication")
       /\ IF \E i \in DOMAIN early : early[i] = "disconnect"
          THEN Disconnected
          ELSE /\ library' = IF ready THEN "connecting" ELSE "signing in"
               /\ watchdog' = TRUE
               /\ UNCHANGED <<ending, obeyed>>
  /\ UNCHANGED <<requested, spawned, stopAsked, codes, lines>>

\* No answer in time, an error of the socket, no protocol to select, or the
\* client cannot be made.
Undiscovered ==
  /\ main = "discovering" /\ ~exited
  /\ main' = "given up" /\ query' = 0
  /\ EndsTelling("fatal_error")
  /\ UNCHANGED <<requested, offered, early, phase, deadline, library, watchdog, spawned, orders>>

DiscoveryTimesOut == query = 0 /\ Undiscovered

\* A line from the supervisor. Commands other than disconnect are for the
\* behaviours; here they only wait in their turn.
ReadLine(command) ==
  /\ main # "config" /\ ~exited /\ lines < MaxLines
  /\ lines' = lines + 1
  /\ stopAsked' = (stopAsked \/ command = "disconnect")
  /\ IF main # "running"
     THEN early' = Append(early, command) /\ UNCHANGED <<library, watchdog, ending, obeyed>>
     ELSE /\ UNCHANGED early
          /\ IF command = "disconnect" THEN Disconnected
             ELSE UNCHANGED <<library, watchdog, ending, obeyed>>
  /\ UNCHANGED <<main, requested, offered, phase, deadline, query, spawned, codes>>

-----------------------------------------------------------------------------
(***************************************************************************)
(* The events of the library and the watchdog.                             *)
(***************************************************************************)

\* onMsaCode: the sign-in may take as long as the code lives.
DeviceCode ==
  /\ library = "signing in" /\ ~exited /\ codes < MaxCodes
  /\ codes' = codes + 1
  /\ UNCHANGED phase /\ deadline' \in {deadline, CodeLife}
  /\ UNCHANGED <<start, library, watchdog, spawned, ending, stopAsked, obeyed, lines>>

SessionReady ==
  /\ library = "signing in" /\ ~exited
  /\ library' = "connecting" /\ Advance("transport")
  /\ UNCHANGED <<start, watchdog, spawned, ending, orders>>

LoggingIn ==
  /\ library = "connecting" /\ ~exited
  /\ library' = "open" /\ Advance("login")
  /\ UNCHANGED <<start, watchdog, spawned, ending, orders>>

\* resource_packs_info, join and start_game, whenever the server sends them.
Joining(name) ==
  /\ library = "open" /\ ~exited
  /\ Advance(name)
  /\ UNCHANGED <<start, library, watchdog, spawned, ending, orders>>

Spawn ==
  /\ library = "open" /\ ~exited
  /\ Advance("spawned")
  /\ watchdog' = FALSE /\ spawned' = TRUE
  /\ UNCHANGED <<start, library, ending, orders>>

\* onGone: the server disconnects or kicks, or the connection closes.
Gone ==
  /\ library \notin {"none", "closed"} /\ ~exited
  /\ IF exiting THEN library' = "closed" /\ UNCHANGED <<watchdog, ending>>
     ELSE ShutsDown("disconnect")
  /\ UNCHANGED <<start, phase, deadline, spawned, orders>>

\* A play_status of failure, or an error no packet recovery takes.
Failed ==
  /\ library \notin {"none", "closed"} /\ ~exiting
  /\ ShutsDown("connection_failed")
  /\ UNCHANGED <<start, phase, deadline, spawned, orders>>

WatchdogFires ==
  /\ watchdog /\ TimedOut /\ ~exited
  /\ ShutsDown("connection_failed")
  /\ UNCHANGED <<start, phase, deadline, spawned, orders>>

ClientTick ==
  /\ main # "config" /\ ~exited
  /\ ~(main = "discovering" /\ query = 0) /\ ~(watchdog /\ TimedOut)
  /\ deadline' = IF deadline > 0 THEN deadline - 1 ELSE 0
  /\ query' = IF query > 0 THEN query - 1 ELSE 0
  /\ UNCHANGED <<main, requested, offered, early, phase, library, watchdog, spawned, ending, orders>>

ClientNext ==
  \/ ReadConfig \/ NoConfig \/ Discovered \/ Undiscovered
  \/ \E command \in {"task", "disconnect"} : ReadLine(command)
  \/ DeviceCode \/ SessionReady \/ LoggingIn
  \/ \E name \in {"resources", "world"} : Joining(name)
  \/ Spawn \/ Gone \/ Failed \/ WatchdogFires \/ Uncaught \/ Exit \/ ClientTick

\* The supervisor writes the configuration or closes stdin, timers fire, and the
\* process exits once it is told to.
ClientFairness ==
  /\ WF_clientVars(ReadConfig \/ NoConfig)
  /\ WF_clientVars(DiscoveryTimesOut)
  /\ WF_clientVars(WatchdogFires)
  /\ WF_clientVars(Exit)
  /\ WF_clientVars(ClientTick)

ClientSpec == ClientInit /\ [][ClientNext]_clientVars /\ ClientFairness

-----------------------------------------------------------------------------
(***************************************************************************)
(* What must hold.                                                         *)
(***************************************************************************)

\* Whatever the server sends and repeats, a join that was configured ends, in the
\* world or with the process; an order to disconnect ends the process however
\* early it came; and unless it was ordered to, the process does not end without
\* having said why: the supervisor takes the reason, and with it the delay, from
\* the report.
JoinEnds ==
  /\ main # "config" ~> spawned \/ exited
  /\ stopAsked ~> exited
  /\ [](exiting => told # {} \/ obeyed)
=============================================================================
