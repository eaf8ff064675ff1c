------------------------------- MODULE LiveCam -------------------------------
(***************************************************************************)
(* The live camera of one account: the panels that show it                 *)
(* (LiveCamPanel.tsx), their sockets (websocket/routes.ts), and the        *)
(* upstream streams opened for whoever watches (soulfire/liveCam.ts).      *)
(*                                                                         *)
(* A closed upstream takes its time to end, so the streams of one account  *)
(* are chained: each waits for the one before. Images are left out, and    *)
(* the permissions of the sockets, which module LiveSocket has.            *)
(***************************************************************************)
EXTENDS Naturals, FiniteSets

CONSTANTS
  Panels,       \* panels of browsers that may show the account
  MaxStreams,   \* bound: streams that have not ended
  MaxSwitches   \* bound: panels that leave, lost sockets, fatal errors, the
                \* account going offline, the end of the backend

ASSUME LiveCamAssumption == MaxStreams \in Nat \ {0} /\ MaxSwitches \in Nat

VARIABLES
  online,     \* status of the account
  stream,     \* streams: number -> what it is doing, and for whom
  current,    \* the stream the account has in the map, 0 without one
  panel,      \* what each panel's socket is doing
  flow,       \* of each socket: a frame is queued; a frame is not acknowledged
  served,     \* the backend is not closing
  switches

camVars == <<online, stream, current, panel, flow, served, switches>>

Streams == 1..MaxStreams
Unused == [phase |-> "ended", aborted |-> TRUE, previous |-> 0, viewers |-> {}]
NoFlow == [queued |-> FALSE, unacked |-> FALSE]

Upstreams == [phase : {"waiting", "open", "delay", "ended"}, aborted : BOOLEAN,
              previous : 0..MaxStreams, viewers : SUBSET Panels]
Flows == [queued : BOOLEAN, unacked : BOOLEAN]

CamTypeOK ==
  /\ online \in BOOLEAN /\ served \in BOOLEAN
  /\ stream \in [Streams -> Upstreams]
  /\ current \in 0..MaxStreams
  /\ panel \in [Panels -> {"hidden", "connecting", "watching", "told", "retrying"}]
  /\ flow \in [Panels -> Flows]
  /\ switches \in 0..MaxSwitches

CamInit ==
  /\ online = TRUE /\ served = TRUE
  /\ stream = [n \in Streams |-> Unused] /\ current = 0
  /\ panel = [p \in Panels |-> "hidden"] /\ flow = [p \in Panels |-> NoFlow]
  /\ switches = 0

Switch == switches < MaxSwitches /\ switches' = switches + 1

\* Streams that have one viewer less: without viewers they are cancelled.
Without(p) ==
  [n \in Streams |->
     LET left == stream[n].viewers \ {p}
     IN [stream[n] EXCEPT !.viewers = left,
                          !.aborted = @ \/ (p \in stream[n].viewers /\ left = {})]]

-----------------------------------------------------------------------------
(***************************************************************************)
(* Panels and their sockets.                                               *)
(***************************************************************************)

\* The panel becomes visible, or tries again three seconds after a close.
ConnectPanel(p) ==
  /\ panel[p] \in {"hidden", "retrying"} /\ served
  /\ panel' = [panel EXCEPT ![p] = "connecting"]
  /\ UNCHANGED <<online, stream, current, flow, served, switches>>

Live == current # 0 /\ ~stream[current].aborted

\* Faulty: a new stream does not wait for the cancelled one.
SubscribedAtOnce(p, n) ==
  [stream EXCEPT ![n] = [phase |-> "waiting", aborted |-> FALSE, previous |-> 0, viewers |-> {p}]]

\* subscribe: a new stream after the cancelled one ...
Subscribed(p, n) ==
  [stream EXCEPT ![n] =
     [phase |-> "waiting", aborted |-> FALSE, previous |-> current, viewers |-> {p}]]

Subscribes(p) ==
  \/ /\ ~Live
     /\ \E n \in Streams : /\ stream[n] = Unused
                           /\ \A m \in 1..(n - 1) : stream[m] # Unused
                           /\ stream' = Subscribed(p, n)
                           /\ current' = n
  \* ... or the one that is there.
  \/ /\ Live
     /\ stream' = [stream EXCEPT ![current].viewers = @ \union {p}]
     /\ UNCHANGED current

\* The permissions were checked, and the socket joins. Without a connected
\* account it is closed.
Join(p) ==
  /\ panel[p] = "connecting"
  /\ IF online
     THEN Subscribes(p) /\ panel' = [panel EXCEPT ![p] = "watching"]
     ELSE panel' = [panel EXCEPT ![p] = "retrying"] /\ UNCHANGED <<stream, current>>
  /\ flow' = [flow EXCEPT ![p] = NoFlow]
  /\ UNCHANGED <<online, served, switches>>

\* The socket of the panel is closed, and its subscription ended.
Left(p, next) ==
  /\ panel' = [panel EXCEPT ![p] = next]
  /\ stream' = Without(p)
  /\ flow' = [flow EXCEPT ![p] = NoFlow]

\* The panel is left or hidden.
LeavePanel(p) ==
  /\ panel[p] # "hidden" /\ Switch
  /\ Left(p, "hidden")
  /\ UNCHANGED <<online, current, served>>

\* The connection is lost, or no frame has come within thirty seconds.
LoseSocket(p) ==
  /\ panel[p] = "watching" /\ Switch
  /\ Left(p, "retrying")
  /\ UNCHANGED <<online, current, served>>

\* A panel that was told of an error is closed by the server.
CloseTold(p) ==
  /\ panel[p] = "told"
  /\ Left(p, "retrying")
  /\ UNCHANGED <<online, current, served, switches>>

\* A queued frame is sent, unless the last one was not acknowledged: then it
\* is dropped, or after fifteen seconds the socket closed.
SendFrame(p) ==
  /\ panel[p] = "watching" /\ flow[p].queued
  /\ \/ /\ flow' = [flow EXCEPT ![p] = [queued |-> FALSE, unacked |-> TRUE]]
        /\ UNCHANGED <<panel, stream>>
     \/ /\ flow[p].unacked
        /\ Left(p, "retrying")
  /\ UNCHANGED <<online, current, served, switches>>

\* The image is shown.
Acknowledge(p) ==
  /\ panel[p] = "watching" /\ flow[p].unacked
  /\ flow' = [flow EXCEPT ![p].unacked = FALSE]
  /\ UNCHANGED <<online, stream, current, panel, served, switches>>

-----------------------------------------------------------------------------
(***************************************************************************)
(* Streams.                                                                *)
(***************************************************************************)

Waits(n) == stream[n].previous # 0 /\ stream[stream[n].previous].phase # "ended"

\* The stream is over: it leaves the map, and the next one need not wait.
Over(n) ==
  /\ stream' = [m \in Streams |->
                  IF m = n THEN Unused
                  ELSE [stream[m] EXCEPT !.previous = IF @ = n THEN 0 ELSE @]]
  /\ current' = IF current = n THEN 0 ELSE current

\* The upstream is opened, after the one before and after the pause of a retry.
OpenUpstream(n) ==
  /\ stream[n].phase \in {"waiting", "delay"} /\ ~Waits(n) /\ ~stream[n].aborted
  /\ stream' = [stream EXCEPT ![n].phase = "open"]
  /\ UNCHANGED <<online, current, panel, flow, served, switches>>

\* A cancelled stream ends, at once if nothing was open.
End(n) ==
  /\ stream[n].phase # "ended" /\ stream[n].aborted /\ ~Waits(n)
  /\ Over(n)
  /\ UNCHANGED <<online, panel, flow, served, switches>>

\* Each viewer that has no frame queued gets it.
Frame(n) ==
  /\ stream[n].phase = "open" /\ ~stream[n].aborted
  /\ flow' = [p \in Panels |-> IF p \in stream[n].viewers /\ panel[p] = "watching"
                               THEN [flow[p] EXCEPT !.queued = TRUE] ELSE flow[p]]
  /\ flow' # flow
  /\ UNCHANGED <<online, stream, current, panel, served, switches>>

\* Teleports end the upstream for a moment: it is opened again, for the same
\* viewers.
Interrupted(n) ==
  /\ stream[n].phase = "open" /\ ~stream[n].aborted /\ Switch
  /\ stream' = [stream EXCEPT ![n].phase = "delay"]
  /\ UNCHANGED <<online, current, panel, flow, served>>

\* An error that a retry cannot mend: the viewers are told.
Fatal(n) ==
  /\ stream[n].phase = "open" /\ ~stream[n].aborted /\ Switch
  /\ panel' = [p \in Panels |-> IF p \in stream[n].viewers THEN "told" ELSE panel[p]]
  /\ Over(n)
  /\ UNCHANGED <<online, flow, served>>

\* The account goes offline: its sockets are closed.
GoOffline ==
  /\ online /\ Switch
  /\ online' = FALSE
  /\ panel' = [p \in Panels |-> IF panel[p] = "watching" THEN "retrying" ELSE panel[p]]
  /\ stream' = [n \in Streams |-> [stream[n] EXCEPT !.viewers = {}, !.aborted = TRUE]]
  /\ flow' = [p \in Panels |-> NoFlow]
  /\ UNCHANGED <<current, served>>

GoOnline ==
  /\ ~online
  /\ online' = TRUE
  /\ UNCHANGED <<stream, current, panel, flow, served, switches>>

\* close: the backend ends its streams, and then its sockets.
CloseAll ==
  /\ served /\ Switch
  /\ served' = FALSE
  /\ stream' = [n \in Streams |-> [stream[n] EXCEPT !.aborted = TRUE]]
  /\ UNCHANGED <<online, current, panel, flow>>

CamNext ==
  \/ \E p \in Panels :
       \/ ConnectPanel(p) \/ Join(p) \/ LeavePanel(p) \/ LoseSocket(p) \/ CloseTold(p)
       \/ SendFrame(p) \/ Acknowledge(p)
  \/ \E n \in Streams :
       OpenUpstream(n) \/ End(n) \/ Frame(n) \/ Interrupted(n) \/ Fatal(n)
  \/ GoOffline \/ GoOnline \/ CloseAll

CamSpec == CamInit /\ [][CamNext]_camVars

-----------------------------------------------------------------------------
\* "One on-demand upstream stream per account": no second upstream is open
\* while a cancelled one is still ending, however the viewers come and go;
\* and every viewer is with the stream that is, or will be, open.
OneUpstream ==
  /\ Cardinality({n \in Streams : stream[n].phase = "open"}) <= 1
  /\ served => \A p \in Panels : panel[p] = "watching" =>
       Live /\ p \in stream[current].viewers
=============================================================================
