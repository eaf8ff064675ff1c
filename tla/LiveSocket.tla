------------------------------ MODULE LiveSocket ------------------------------
(***************************************************************************)
(* The socket on which a browser follows an account, and what it may be    *)
(* sent: authorizeSocket (websocket/authorization.ts) queues one job after *)
(* another, each of which reads the session and the assignment again       *)
(* before it acts, while sessions are revoked and assignments change       *)
(* between any two of its steps. Live events are gathered in batches.      *)
(*                                                                         *)
(* The model has one session of one user. Session rows are deleted by the  *)
(* requests of the module Sessions; the listeners are told afterwards,     *)
(* once the deletion was awaited.                                          *)
(***************************************************************************)
EXTENDS Naturals, Sequences

CONSTANTS
  MaxJobs,    \* jobs a socket may have queued (64)
  MaxEvents,  \* bound: events of the account
  MaxRights,  \* bound: changes of what the user may see
  MaxSockets, \* bound: connections
  MaxExtras   \* bound: commands, periodic checks and failed calls

ASSUME LiveSocketAssumption ==
  /\ MaxJobs \in Nat \ {0}
  /\ MaxEvents \in Nat /\ MaxRights \in Nat /\ MaxSockets \in Nat /\ MaxExtras \in Nat

VARIABLES
  admin,     \* the user's role is ADMIN
  assigned,  \* the account is assigned to the user
  session,   \* the session's row is there and its user active
  changing,  \* the role was changed, and the sessions are to be deleted
  telling,   \* the sessions were deleted, and the listeners are to be told
  revoked,   \* the listeners were told
  link,      \* the socket
  jobs,      \* its queued jobs; the first one runs
  batch,     \* events gathered for the next job
  timer,     \* the timer of the batch is set
  sent,      \* what the browser was sent: events, or a history
  ran,       \* commands of the browser that were executed
  happened,  \* events of the account so far
  due,       \* history: events at or since which the user was allowed to see them
  rights, connections, extras  \* what is bounded

socketVars == <<admin, assigned, session, changing, telling, revoked, link, jobs, batch,
                timer, sent, ran, happened, due, rights, connections, extras>>

permission == <<admin, assigned, session, changing, telling, revoked, rights>>
traffic == <<sent, ran, happened, due>>
bounds == <<connections, extras>>

Job(kind, events) == [kind |-> kind, events |-> events, at |-> "queued", role |-> FALSE]

Jobs == [kind : {"history", "batch", "check", "command"}, events : SUBSET (1..MaxEvents),
         at : {"queued", "session", "act", "read"}, role : BOOLEAN]

SocketTypeOK ==
  /\ {admin, assigned, session, changing, telling, revoked, timer} \subseteq BOOLEAN
  /\ link \in {"none", "opening", "open", "closed"}
  /\ jobs \in Seq(Jobs) /\ Len(jobs) \in 0..MaxJobs
  /\ batch \subseteq 1..happened
  /\ sent \subseteq 0..happened /\ ran \in Nat /\ due \subseteq 1..happened
  /\ happened \in 0..MaxEvents
  /\ rights \in 0..MaxRights /\ connections \in 0..MaxSockets /\ extras \in 0..MaxExtras

SocketInit ==
  /\ admin \in BOOLEAN /\ assigned \in BOOLEAN /\ session = TRUE
  /\ changing = FALSE /\ telling = FALSE /\ revoked = FALSE
  /\ link = "none" /\ jobs = <<>> /\ batch = {} /\ timer = FALSE
  /\ sent = {} /\ ran = 0 /\ happened = 0 /\ due = {}
  /\ rights = 0 /\ connections = 0 /\ extras = 0

-----------------------------------------------------------------------------
(***************************************************************************)
(* What the user may see changes.                                          *)
(***************************************************************************)

\* setAssignments: the account's assignments are replaced in a transaction.
SetAssignments ==
  /\ rights < MaxRights
  /\ rights' = rights + 1
  /\ assigned' = ~assigned
  /\ due' = IF admin \/ assigned' THEN 1..happened ELSE due
  /\ UNCHANGED <<admin, session, changing, telling, revoked, link, jobs, batch, timer,
                 sent, ran, happened, bounds>>

\* updateUser changes the role; its next call deletes the sessions.
ChangeRole ==
  /\ rights < MaxRights /\ session /\ ~changing
  /\ rights' = rights + 1
  /\ admin' = ~admin
  /\ changing' = TRUE
  /\ due' = IF admin' \/ assigned THEN 1..happened ELSE due
  /\ UNCHANGED <<assigned, session, telling, revoked, link, jobs, batch, timer, sent, ran,
                 happened, bounds>>

\* The rows are deleted: by a change of the role or password, the user's being
\* disabled or deleted, or a logout.
DeleteSessions ==
  /\ session /\ (changing \/ rights < MaxRights)
  /\ rights' = IF changing THEN rights ELSE rights + 1
  /\ session' = FALSE
  /\ telling' = TRUE
  /\ UNCHANGED <<admin, assigned, changing, revoked, link, jobs, batch, timer, traffic, bounds>>

\* The socket is closed: its subscriptions end, and its jobs find it closed.
Closed == link' = "closed" /\ batch' = {} /\ timer' = FALSE

\* Faulty: the sockets do not listen for revocations.
TellNobody ==
  /\ telling
  /\ telling' = FALSE /\ revoked' = TRUE
  /\ UNCHANGED <<admin, assigned, session, changing, rights, link, jobs, batch, timer,
                 traffic, bounds>>

\* notifyRevocation: an open socket of the session closes.
TellRevoked ==
  /\ telling
  /\ telling' = FALSE /\ revoked' = TRUE
  /\ IF link = "open" THEN Closed ELSE UNCHANGED <<link, batch, timer>>
  /\ UNCHANGED <<admin, assigned, session, changing, rights, jobs, traffic, bounds>>

-----------------------------------------------------------------------------
(***************************************************************************)
(* The socket.                                                             *)
(***************************************************************************)

\* The preHandler finds the session; the upgrade is still to be done.
Connect ==
  /\ link \in {"none", "closed"} /\ session /\ connections < MaxSockets
  /\ connections' = connections + 1
  /\ link' = "opening"
  /\ jobs' = <<>>   \* what is left of the last socket's does nothing
  /\ UNCHANGED <<permission, batch, timer, traffic, extras>>

\* authorizeSocket and the handler of the route: the listener is registered,
\* the history asked for and the events subscribed, in one turn.
Open ==
  /\ link = "opening"
  /\ link' = "open"
  /\ jobs' = <<Job("history", {})>>
  /\ UNCHANGED <<permission, batch, timer, traffic, bounds>>

\* Faulty: one job more is let into the queue.
RunOneMore(job) ==
  IF Len(jobs) > MaxJobs THEN Closed /\ UNCHANGED jobs
  ELSE /\ jobs' = Append(jobs, job)
       /\ IF job.kind = "batch" THEN batch' = {} /\ timer' = FALSE ELSE UNCHANGED <<batch, timer>>
       /\ UNCHANGED link

\* run: a job is queued, or the socket with a full queue is closed.
Run(job) ==
  IF Len(jobs) >= MaxJobs THEN Closed /\ UNCHANGED jobs
  ELSE /\ jobs' = Append(jobs, job)
       /\ IF job.kind = "batch" THEN batch' = {} /\ timer' = FALSE ELSE UNCHANGED <<batch, timer>>
       /\ UNCHANGED link

\* An event of the account joins the batch, whose timer it sets.
Happen ==
  /\ happened < MaxEvents
  /\ happened' = happened + 1
  /\ due' = IF admin \/ assigned THEN due \union {happened'} ELSE due
  /\ IF link = "open" THEN batch' = batch \union {happened'} /\ timer' = TRUE
     ELSE UNCHANGED <<batch, timer>>
  /\ UNCHANGED <<permission, link, jobs, sent, ran, bounds>>

\* The timer of 25 ms.
BatchTimer ==
  /\ timer /\ link = "open"
  /\ Run(Job("batch", batch))
  /\ UNCHANGED <<permission, traffic, bounds>>

\* The browser sends a command; every 15 s there is a check on its own.
Ask ==
  /\ link = "open" /\ extras < MaxExtras
  /\ extras' = extras + 1
  /\ \E kind \in {"command", "check"} : Run(Job(kind, {}))
  /\ UNCHANGED <<permission, traffic, connections>>

NextJob == jobs' = Tail(jobs)
JobGoesTo(stage) == jobs' = [jobs EXCEPT ![1].at = stage]

\* The first job finds the socket closed, or reads the session.
ReadSession ==
  /\ jobs # <<>> /\ jobs[1].at = "queued"
  /\ IF link # "open" THEN NextJob /\ UNCHANGED <<link, batch, timer>>
     ELSE IF ~session THEN NextJob /\ Closed
     ELSE /\ jobs' = [jobs EXCEPT ![1].at = "session", ![1].role = admin]
          /\ UNCHANGED <<link, batch, timer>>
  /\ UNCHANGED <<permission, traffic, bounds>>

\* canAccessAccount, with the role that was read.
CheckAccess ==
  /\ jobs # <<>> /\ jobs[1].at = "session"
  /\ IF jobs[1].role \/ assigned
     THEN JobGoesTo("act") /\ UNCHANGED <<link, batch, timer>>
     ELSE NextJob /\ Closed
  /\ UNCHANGED <<permission, traffic, bounds>>

\* The action, if the socket is still open: a history is read first, a command
\* is executed, and a batch is sent.
ActOn ==
  /\ jobs # <<>> /\ jobs[1].at = "act"
  /\ IF link = "open" /\ jobs[1].kind = "history" THEN JobGoesTo("read") ELSE NextJob
  /\ sent' = IF link = "open" THEN sent \union jobs[1].events ELSE sent
  /\ ran' = IF link = "open" /\ jobs[1].kind = "command" THEN ran + 1 ELSE ran
  /\ UNCHANGED <<permission, link, batch, timer, happened, due, bounds>>

\* The history was read; send does nothing on a closed socket.
SendRead ==
  /\ jobs # <<>> /\ jobs[1].at = "read"
  /\ NextJob
  /\ sent' = IF link = "open" THEN sent \union {0} ELSE sent
  /\ UNCHANGED <<permission, link, batch, timer, ran, happened, due, bounds>>

\* A job's call of the database fails, which closes the socket.
JobFails ==
  /\ jobs # <<>> /\ extras < MaxExtras
  /\ extras' = extras + 1
  /\ NextJob
  /\ IF link = "open" THEN Closed ELSE UNCHANGED <<link, batch, timer>>
  /\ UNCHANGED <<permission, traffic, connections>>

\* The browser leaves, or reads too slowly.
Leave ==
  /\ link = "open"
  /\ Closed
  /\ UNCHANGED <<permission, jobs, traffic, bounds>>

RunsJob == ReadSession \/ CheckAccess \/ ActOn \/ SendRead

SocketNext ==
  \/ SetAssignments \/ ChangeRole \/ DeleteSessions \/ TellRevoked
  \/ Connect \/ Open \/ Happen \/ BatchTimer \/ Ask
  \/ ReadSession \/ CheckAccess \/ ActOn \/ SendRead
  \/ JobFails \/ Leave

-----------------------------------------------------------------------------
(***************************************************************************)
(* What must hold.                                                         *)
(***************************************************************************)

\* A live event reaches the browser only if its user was allowed to follow the
\* account when it happened or at a time since: events gathered, queued and
\* checked while assignments and roles change do not slip through. And once the
\* listeners were told of a revocation, the socket is sent nothing and executes
\* nothing: neither one whose job had read the session before, nor one that was
\* being opened when the listeners were told.
NothingUndue ==
  /\ [](sent \ {0} \subseteq due)
  /\ [][sent' # sent \/ ran' # ran => ~revoked]_socketVars

\* An event that happens while the socket is open is sent or the socket is
\* closed, so that the browser connects again and asks for the history: a full
\* queue, a failed call or a lost permission never skips an event silently.
SentOrClosed ==
  \A n \in 1..MaxEvents : n \in batch ~> n \in sent \/ link # "open"

\* Every event goes to whom it is due, and to nobody else.
EventsAsDue == NothingUndue /\ SentOrClosed
=============================================================================
