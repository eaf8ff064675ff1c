--------------------------- MODULE AccountRecords ---------------------------
(***************************************************************************)
(* One account as the database row and as the client that ClientManager    *)
(* keeps for it: the requests of accounts/routes.ts that create, change,   *)
(* delete, start, stop and restart it, each a chain of database calls with *)
(* other requests between them, and the intent to run, which is written    *)
(* without being awaited and decides what loadAll resumes.                 *)
(*                                                                         *)
(* Who may send a request is left out: here every request was allowed. The *)
(* database is external: a call takes effect when it is answered, or fails *)
(* and leaves the row alone. What a running client does is the module      *)
(* Supervisor; here it runs or it does not.                                *)
(***************************************************************************)
EXTENDS Naturals

CONSTANTS
  Requests,    \* requests that can be under way at the same time
  MaxRequests, \* bound: requests sent
  MaxConfigs,  \* bound: configurations the account is given
  MaxFailures  \* bound: failed calls and crashes

ASSUME AccountRecordsAssumption ==
  /\ MaxRequests \in Nat
  /\ MaxConfigs \in Nat \ {0}
  /\ MaxFailures \in Nat

VARIABLES
  serving,    \* the backend has loaded the accounts and takes requests
  row,        \* the account's row
  client,     \* its entry in clients of ClientManager
  intentions, \* how many of persistAutoStart's calls are unanswered, by what they write
  wish,       \* what the last order accepted asks for
  requests,   \* the requests under way
  sent,       \* requests sent so far
  configs,    \* configurations made so far
  failures,   \* failures so far
  clouded,    \* history: a write of the intent overlapped one, or was lost
  tangled,    \* history: a creation, change or deletion overlapped another
  botched     \* history: a creation, change or deletion was only partly done

recordVars == <<serving, row, client, intentions, wish, requests, sent, configs,
                failures, clouded, tangled, botched>>

Idle == [op |-> "none", at |-> "none", config |-> 0, restarts |-> FALSE]
NoRow == [there |-> FALSE, config |-> 0, autoStart |-> FALSE]
AllWritten == [on \in BOOLEAN |-> 0]
NoClient == [there |-> FALSE, config |-> 0, runs |-> FALSE]

Shaping == {"create", "patch", "delete"}
Orders == {"start", "stop", "restart"}

RequestStates ==
  [op : {"none"} \union Shaping \union Orders,
   at : {"none", "insert", "assign", "update", "read", "register",
         "unregister", "remove", "look", "act"},
   config : 0..MaxConfigs, restarts : BOOLEAN]

RecordsTypeOK ==
  /\ serving \in BOOLEAN
  /\ row \in [there : BOOLEAN, config : 0..MaxConfigs, autoStart : BOOLEAN]
  /\ client \in [there : BOOLEAN, config : 0..MaxConfigs, runs : BOOLEAN]
  /\ intentions \in [BOOLEAN -> Nat]
  /\ requests \in [Requests -> RequestStates]
  /\ sent \in 0..MaxRequests /\ configs \in 0..MaxConfigs
  /\ failures \in 0..MaxFailures
  /\ {wish, clouded, tangled, botched} \subseteq BOOLEAN
  /\ ~row.there => row = NoRow
  /\ ~client.there => client = NoClient

RecordsInit ==
  /\ serving = TRUE
  /\ row = NoRow
  /\ client = NoClient
  /\ intentions = AllWritten
  /\ wish = FALSE
  /\ requests = [r \in Requests |-> Idle]
  /\ sent = 0 /\ configs = 0 /\ failures = 0
  /\ clouded = FALSE /\ tangled = FALSE /\ botched = FALSE

-----------------------------------------------------------------------------
(***************************************************************************)
(* The steps.                                                              *)
(***************************************************************************)

Becomes(r, stage) == requests' = [requests EXCEPT ![r].at = stage]
Finished(r) == requests' = [requests EXCEPT ![r] = Idle]
UnderWay == {r \in Requests : requests[r] # Idle}

\* The first call of each operation. An id is created once, and nobody can
\* name it before its row is there.
FirstCall ==
  [create |-> "insert", patch |-> "update", delete |-> "unregister",
   start |-> "look", stop |-> "look", restart |-> "look"]

\* A request arrives and its sender is found to be allowed to make it.
Send(r) ==
  /\ serving /\ requests[r] = Idle /\ sent < MaxRequests
  /\ \E op \in Shaping \union Orders, restarts \in BOOLEAN :
       /\ IF op = "create" THEN configs = 0 ELSE row.there
       /\ restarts => op = "patch"   \* the change names a Minecraft version
       /\ op \in {"create", "patch"} => configs < MaxConfigs
       /\ configs' = IF op \in {"create", "patch"} THEN configs + 1 ELSE configs
       /\ requests' = [requests EXCEPT ![r] =
            [op |-> op, at |-> FirstCall[op], config |-> configs', restarts |-> restarts]]
       /\ tangled' = \/ tangled
                      \/ /\ op \in Shaping
                         /\ \E other \in UnderWay : requests[other].op \in Shaping
  /\ sent' = sent + 1
  /\ UNCHANGED <<serving, row, client, intentions, wish, failures, clouded, botched>>

\* createAccount inserts the row; one made by a user who is no admin is then
\* assigned to its creator.
Insert(r) ==
  /\ requests[r].at = "insert"
  /\ row' = [there |-> TRUE, config |-> requests[r].config, autoStart |-> FALSE]
  /\ \E next \in {"assign", "read"} : Becomes(r, next)
  /\ UNCHANGED <<serving, client, intentions, wish, sent, configs, failures,
                 clouded, tangled, botched>>

Assign(r) ==
  /\ requests[r].at = "assign"
  /\ Becomes(r, "read")
  /\ UNCHANGED <<serving, row, client, intentions, wish, sent, configs, failures,
                 clouded, tangled, botched>>

\* updateAccount: a row that is gone is reported as not found.
Update(r) ==
  /\ requests[r].at = "update"
  /\ IF row.there
     THEN row' = [row EXCEPT !.config = requests[r].config] /\ Becomes(r, "read")
     ELSE Finished(r) /\ UNCHANGED row
  /\ UNCHANGED <<serving, client, intentions, wish, sent, configs, failures,
                 clouded, tangled, botched>>

\* getFullAccount; what it read is registered after the call is answered.
ReadFull(r) ==
  /\ requests[r].at = "read"
  /\ IF row.there
     THEN requests' = [requests EXCEPT ![r].at = "register", ![r].config = row.config]
     ELSE Finished(r)
  /\ UNCHANGED <<serving, row, client, intentions, wish, sent, configs, failures,
                 clouded, tangled, botched>>

\* An order is accepted: its intent is sent to the database, unawaited.
Intend(on) ==
  /\ wish' = on
  /\ intentions' = [intentions EXCEPT ![on] = @ + 1]
  /\ clouded' = (intentions # AllWritten)

\* Faulty: only the first registration gives the client its configuration.
RegisterKeepingConfig(r) ==
  /\ requests[r].at = "register"
  /\ client' = [there |-> TRUE, runs |-> client.runs,
                config |-> IF client.there THEN client.config ELSE requests[r].config]
  /\ IF requests[r].restarts /\ client.runs
     THEN Intend(TRUE) ELSE UNCHANGED <<intentions, wish, clouded>>
  /\ Finished(r)
  /\ UNCHANGED <<serving, row, sent, configs, failures, tangled, botched>>

\* register of ClientManager: the client there is given the configuration, or
\* a new one is made that is offline. A change of the version restarts a client
\* that is not offline.
Register(r) ==
  /\ requests[r].at = "register"
  /\ client' = [there |-> TRUE, runs |-> client.runs, config |-> requests[r].config]
  /\ IF requests[r].restarts /\ client.runs
     THEN Intend(TRUE) ELSE UNCHANGED <<intentions, wish, clouded>>
  /\ Finished(r)
  /\ UNCHANGED <<serving, row, sent, configs, failures, tangled, botched>>

\* DELETE disposes of the client before it asks for the row's deletion.
Unregister(r) ==
  /\ requests[r].at = "unregister"
  /\ client' = NoClient
  /\ Becomes(r, "remove")
  /\ UNCHANGED <<serving, row, intentions, wish, sent, configs, failures,
                 clouded, tangled, botched>>

\* deleteAccount; the failure of a row that is gone is swallowed.
Remove(r) ==
  /\ requests[r].at = "remove"
  /\ row' = NoRow
  /\ Finished(r)
  /\ UNCHANGED <<serving, client, intentions, wish, sent, configs, failures,
                 clouded, tangled, botched>>

\* guardedLifecycle looks for the row before it acts on the client.
Look(r) ==
  /\ requests[r].at = "look"
  /\ IF row.there THEN Becomes(r, "act") ELSE Finished(r)
  /\ UNCHANGED <<serving, row, client, intentions, wish, sent, configs, failures,
                 clouded, tangled, botched>>

\* start, stop and restart of ClientManager; without a client nothing is done.
Act(r) ==
  /\ requests[r].at = "act"
  /\ IF client.there
     THEN /\ client' = [client EXCEPT !.runs = requests[r].op # "stop"]
          /\ Intend(requests[r].op # "stop")
     ELSE UNCHANGED <<client, intentions, wish, clouded>>
  /\ Finished(r)
  /\ UNCHANGED <<serving, row, sent, configs, failures, tangled, botched>>

\* A call fails: a creation ends with an error, a change is answered as not
\* found, and a deletion pretends that it was done.
CallFails(r) ==
  /\ failures < MaxFailures
  /\ requests[r].at \in {"insert", "assign", "update", "read", "remove", "look"}
  /\ Finished(r)
  /\ failures' = failures + 1
  /\ botched' = (botched \/ requests[r].at \in {"assign", "read", "remove"})
  /\ UNCHANGED <<serving, row, client, intentions, wish, sent, configs, clouded, tangled>>

\* restartAllOnline restarts every client that is online.
RestartAllOnline ==
  /\ serving /\ client.runs /\ sent < MaxRequests
  /\ sent' = sent + 1
  /\ Intend(TRUE)
  /\ UNCHANGED <<serving, row, client, requests, configs, failures, tangled, botched>>

\* A write of the intent is answered; without a row it fails, and nothing is lost.
IntentWritten ==
  \E on \in {o \in BOOLEAN : intentions[o] > 0} :
    /\ row' = IF row.there THEN [row EXCEPT !.autoStart = on] ELSE row
    /\ intentions' = [intentions EXCEPT ![on] = @ - 1]
    /\ UNCHANGED <<serving, client, wish, requests, sent, configs, failures,
                   clouded, tangled, botched>>

IntentLost ==
  /\ failures < MaxFailures
  /\ \E on \in {o \in BOOLEAN : intentions[o] > 0} :
       intentions' = [intentions EXCEPT ![on] = @ - 1]
  /\ failures' = failures + 1
  /\ clouded' = TRUE
  /\ UNCHANGED <<serving, row, client, wish, requests, sent, configs, tangled, botched>>

\* The backend dies: what was under way may be partly done.
BackendDies ==
  /\ serving /\ failures < MaxFailures
  /\ serving' = FALSE
  /\ failures' = failures + 1
  /\ client' = NoClient
  /\ clouded' = (clouded \/ intentions # AllWritten)
  /\ intentions' = AllWritten
  /\ requests' = [r \in Requests |-> Idle]
  /\ tangled' = FALSE /\ botched' = FALSE
  /\ UNCHANGED <<row, wish, sent, configs>>

\* loadAll registers every row and connects those meant to run.
LoadAllAccounts ==
  /\ ~serving
  /\ serving' = TRUE
  /\ client' = IF row.there
               THEN [there |-> TRUE, config |-> row.config, runs |-> row.autoStart]
               ELSE NoClient
  /\ UNCHANGED <<row, intentions, wish, requests, sent, configs, failures,
                 clouded, tangled, botched>>

RecordsNext ==
  \/ \E r \in Requests :
       \/ Send(r) \/ Insert(r) \/ Assign(r) \/ Update(r) \/ ReadFull(r) \/ Register(r)
       \/ Unregister(r) \/ Remove(r) \/ Look(r) \/ Act(r) \/ CallFails(r)
  \/ RestartAllOnline
  \/ IntentWritten \/ IntentLost
  \/ BackendDies \/ LoadAllAccounts

-----------------------------------------------------------------------------
(***************************************************************************)
(* What must hold.                                                         *)
(***************************************************************************)

\* A client that runs has a row, whatever starts, stops and restarts come in
\* between: without one, nobody could stop it. When no creation, change or
\* deletion is under way, the clients are the rows, with their configuration;
\* only a request of which a call failed halfway leaves a row without client or
\* a client with an older configuration. Two of these requests at once are
\* excepted: there is no order between them, and a change can register a client
\* again after the deletion.
ClientsAreRows ==
  serving /\ ~tangled =>
    /\ client.runs => row.there
    /\ (\A r \in UnderWay : requests[r].op \notin Shaping) =>
         /\ client.there => row.there /\ (client.config = row.config \/ botched)
         /\ row.there => client.there \/ botched

\* Once the writes of the intent are answered, the row says whether the last
\* order was to run, unless a write overlapped the one before or was lost; so
\* does the client, and the one a restarted backend resumes. A client made
\* again for a row whose deletion was only begun is offline.
AutoStartFollowsOrders ==
  row.there /\ ~clouded /\ intentions = AllWritten =>
    /\ row.autoStart = wish
    /\ client.there => client.runs = wish \/ tangled \/ botched

\* The row, the registered client and the orders given agree.
RecordsAgree == ClientsAreRows /\ AutoStartFollowsOrders
=============================================================================
