--------------------------- MODULE BackendProofs ----------------------------
(***************************************************************************)
(* Proofs about the parts of the backend that MCBackend checks: the row,   *)
(* the client and the orders of an account (AccountRecords), the earnings  *)
(* history (EarningsHistory), the chain of status writes, the duties of    *)
(* the supervisor and the address bans, for any number of requests, reads, *)
(* sales, intervals and addresses; and the theorems about all five parts.  *)
(***************************************************************************)
EXTENDS MCBackend, TLAPS

-----------------------------------------------------------------------------
(***************************************************************************)
(* The account. The invariant follows the requests: what each of them      *)
(* relies on at its next call, as long as no two shape the account at once. *)
(***************************************************************************)

\* The calls of each operation.
RequestStages ==
  \A r \in Requests :
    \/ requests[r] = Idle
    \/ requests[r].op = "create" /\ requests[r].at \in {"insert", "assign", "read", "register"}
    \/ requests[r].op = "patch" /\ requests[r].at \in {"update", "read", "register"}
    \/ requests[r].op = "delete" /\ requests[r].at \in {"unregister", "remove"}
    \/ requests[r].op \in Orders /\ requests[r].at \in {"look", "act"}

NobodyAsks == \A r \in Requests : requests[r] = Idle

\* While the backend is down nothing is under way.
DownIsIdle ==
  ~serving =>
    /\ NobodyAsks
    /\ client = NoClient /\ intentions = AllWritten
    /\ ~tangled /\ ~botched

Untouched ==
  row = NoRow /\ client = NoClient /\ ~wish /\ intentions = AllWritten

\* The account is created once, and before it is there nobody asks for it.
CreatedOnce ==
  /\ configs = 0 => Untouched /\ NobodyAsks
  /\ \A r \in Requests : requests[r].at = "insert" =>
       /\ Untouched /\ configs > 0
       /\ \A other \in Requests : other # r => requests[other] = Idle

\* What a creation, change or deletion that is alone relies on at its next call.
ShapingAlone ==
  ~tangled =>
    /\ \A r, other \in Requests :
         requests[r].op \in Shaping /\ requests[other].op \in Shaping => r = other
    /\ \A r \in Requests :
         /\ requests[r].at = "remove" => ~client.there
         /\ requests[r].at = "register" => row.there /\ requests[r].config = row.config
         /\ requests[r].op = "create" => ~client.there /\ ~wish

\* A client has a row; a row has a client unless it is being created or
\* deleted; and the client has the row's configuration unless it is being given one.
ClientIsRow ==
  ~tangled /\ serving =>
    /\ client.there => row.there
    /\ (\A r \in Requests : requests[r].op \in Shaping => requests[r].op = "patch") =>
         (row.there => client.there \/ botched)
    /\ (\A r \in Requests : requests[r].op \in Shaping => requests[r].at = "update") =>
         (client.there => client.config = row.config \/ botched)

\* The intent not yet written is the last order, and the row says what was
\* written; a client does what it was ordered.
IntentIsWish ==
  ~clouded =>
    /\ intentions = AllWritten \/ intentions = [AllWritten EXCEPT ![wish] = 1]
    /\ row.there /\ intentions = AllWritten => row.autoStart = wish
    /\ client.there /\ ~tangled /\ ~botched => client.runs = wish

RecordsConsistent ==
  /\ RecordsTypeOK /\ RequestStages /\ DownIsIdle /\ CreatedOnce
  /\ ShapingAlone /\ ClientIsRow /\ IntentIsWish

\* An account that has not been created.
LEMMA RecordsInitConsistent == RecordsInit => RecordsConsistent
<1> SUFFICES ASSUME RecordsInit PROVE RecordsConsistent
  OBVIOUS
<1> USE AccountRecordsAssumption DEF RecordsInit
<1>1. RecordsTypeOK
  <2>1. requests \in [Requests -> RequestStates]
    BY DEF RequestStates, Idle
  <2>2. row \in [there : BOOLEAN, config : 0..MaxConfigs, autoStart : BOOLEAN]
    BY DEF NoRow
  <2>3. client \in [there : BOOLEAN, config : 0..MaxConfigs, runs : BOOLEAN]
    BY DEF NoClient
  <2>4. intentions \in [BOOLEAN -> Nat]
    BY DEF AllWritten
  <2>5. serving \in BOOLEAN /\ {wish, clouded, tangled, botched} \subseteq BOOLEAN
    BY Zenon
  <2>6. sent \in 0..MaxRequests /\ configs \in 0..MaxConfigs /\ failures \in 0..MaxFailures
    OBVIOUS
  <2> QED BY <2>1, <2>2, <2>3, <2>4, <2>5, <2>6 DEF RecordsTypeOK
<1>2. NobodyAsks /\ Untouched
  BY DEF NobodyAsks, Untouched
<1>3. RequestStages /\ DownIsIdle /\ CreatedOnce
  BY <1>2 DEF RequestStages, DownIsIdle, CreatedOnce, Idle, NobodyAsks
<1>4. ShapingAlone /\ ClientIsRow /\ IntentIsWish
  BY <1>2 DEF ShapingAlone, ClientIsRow, IntentIsWish, Untouched, NobodyAsks, Idle, NoRow, NoClient, Shaping
<1> QED BY <1>1, <1>3, <1>4 DEF RecordsConsistent

\* A request goes on, or ends.
LEMMA RequestMoves ==
  ASSUME requests \in [Requests -> RequestStates], NEW r \in Requests,
         NEW stage \in {"none", "insert", "assign", "update", "read", "register",
                        "unregister", "remove", "look", "act"},
         Becomes(r, stage)
  PROVE  /\ requests' \in [Requests -> RequestStates]
         /\ \A s \in Requests : s # r => requests'[s] = requests[s]
         /\ requests'[r].op = requests[r].op /\ requests'[r].at = stage
         /\ requests'[r].config = requests[r].config
BY DEF Becomes, RequestStates

\* A request ends, and the others go on.
LEMMA RequestEnds ==
  ASSUME requests \in [Requests -> RequestStates], NEW r \in Requests, Finished(r)
  PROVE  /\ requests' \in [Requests -> RequestStates]
         /\ \A s \in Requests : s # r => requests'[s] = requests[s]
         /\ requests'[r] = Idle
<1>1. Idle \in RequestStates
  BY AccountRecordsAssumption DEF Idle, RequestStates
<1> QED BY <1>1 DEF Finished

\* Requests are made only of a backend that serves.
LEMMA AskedServes ==
  ASSUME RecordsConsistent, NEW r \in Requests, requests[r].at # "none"
  PROVE  serving /\ requests[r] # Idle /\ configs # 0
BY DEF RecordsConsistent, DownIsIdle, CreatedOnce, NobodyAsks, Idle

\* The row is inserted.
LEMMA InsertConsistent ==
  ASSUME RecordsConsistent, NEW r \in Requests, Insert(r)
  PROVE  RecordsConsistent'
<1> USE AccountRecordsAssumption DEF RecordsConsistent
<1>1. /\ requests[r].at = "insert" /\ requests[r].op = "create" /\ serving
      /\ row'.there /\ ~row'.autoStart /\ row'.config = requests[r].config
      /\ UNCHANGED <<serving, client, intentions, wish, sent, configs, failures,
                     clouded, tangled, botched>>
  BY AskedServes DEF Insert, RequestStages, Idle, Orders
<1>2. /\ requests' \in [Requests -> RequestStates]
      /\ \A s \in Requests : s # r => requests'[s] = requests[s]
      /\ requests'[r].op = requests[r].op /\ requests'[r].at \in {"assign", "read"}
  BY RequestMoves DEF Insert, RecordsTypeOK
<1>3. Untouched /\ \A s \in Requests : s # r => requests[s] = Idle
  BY <1>1 DEF CreatedOnce
<1>4. RecordsTypeOK'
  <2>1. row' \in [there : BOOLEAN, config : 0..MaxConfigs, autoStart : BOOLEAN]
    BY DEF Insert, RecordsTypeOK, RequestStates
  <2> QED BY <1>1, <1>2, <2>1 DEF RecordsTypeOK
<1>5. RequestStages'
  BY <1>1, <1>2 DEF RequestStages
<1>6. DownIsIdle' /\ CreatedOnce'
  BY <1>1, <1>2, <1>3, AskedServes DEF DownIsIdle, CreatedOnce, Idle
<1>7. ShapingAlone'
  BY <1>1, <1>2, <1>3 DEF ShapingAlone, Untouched, Idle, Shaping, NoClient
<1>8. ClientIsRow'
  BY <1>1, <1>2, <1>3 DEF ClientIsRow, Untouched, Idle, NoClient, Shaping
<1>9. IntentIsWish'
  <2>1. row'.autoStart = FALSE /\ wish \in BOOLEAN
    BY DEF Insert, RecordsTypeOK
  <2>2. row'.autoStart = wish
    BY <1>3, <2>1 DEF Untouched
  <2> QED BY <1>1, <1>3, <2>2 DEF IntentIsWish, Untouched, NoClient
<1> QED BY <1>4, <1>5, <1>6, <1>7, <1>8, <1>9

\* A request that only looks goes on, or ends without a trace.
LEMMA LooksConsistent ==
  ASSUME RecordsConsistent, NEW r \in Requests, Assign(r) \/ Look(r)
  PROVE  RecordsConsistent'
<1> USE AccountRecordsAssumption DEF RecordsConsistent
<1>1. /\ requests[r].at \in {"assign", "look"} /\ serving /\ configs # 0
      /\ UNCHANGED <<serving, row, client, intentions, wish, sent, configs, failures,
                     clouded, tangled, botched>>
  BY AskedServes DEF Assign, Look
<1>2. /\ requests' \in [Requests -> RequestStates]
      /\ \A s \in Requests : s # r => requests'[s] = requests[s]
      /\ \/ /\ requests[r].at = "look" /\ requests'[r] = Idle
         \/ /\ requests[r].at = "assign" /\ requests'[r].at = "read"
            /\ requests'[r].op = requests[r].op
         \/ /\ requests[r].at = "look" /\ requests'[r].at = "act"
            /\ requests'[r].op = requests[r].op
  <2>1. requests \in [Requests -> RequestStates]
    BY DEF RecordsTypeOK
  <2>2. \/ requests[r].at = "assign" /\ Becomes(r, "read")
        \/ requests[r].at = "look" /\ Becomes(r, "act")
        \/ requests[r].at = "look" /\ Finished(r)
    BY DEF Assign, Look
  <2>3. CASE requests[r].at = "assign" /\ Becomes(r, "read")
    <3>1. /\ requests' \in [Requests -> RequestStates]
          /\ \A s \in Requests : s # r => requests'[s] = requests[s]
          /\ requests'[r].op = requests[r].op /\ requests'[r].at = "read"
      BY <2>1, <2>3, RequestMoves
    <3> QED BY <2>3, <3>1
  <2>4. CASE requests[r].at = "look" /\ Becomes(r, "act")
    <3>1. /\ requests' \in [Requests -> RequestStates]
          /\ \A s \in Requests : s # r => requests'[s] = requests[s]
          /\ requests'[r].op = requests[r].op /\ requests'[r].at = "act"
      BY <2>1, <2>4, RequestMoves
    <3> QED BY <2>4, <3>1
  <2>5. CASE requests[r].at = "look" /\ Finished(r)
    BY <2>1, <2>5, RequestEnds
  <2> QED BY <2>2, <2>3, <2>4, <2>5
<1>3. RecordsTypeOK'
  BY <1>1, <1>2 DEF RecordsTypeOK
<1>4. RequestStages'
  BY <1>1, <1>2 DEF RequestStages, Idle, Orders
<1>5. DownIsIdle' /\ CreatedOnce'
  BY <1>1, <1>2 DEF DownIsIdle, CreatedOnce, Untouched, Idle
<1>6. \A s \in Requests : requests'[s].op \in Shaping =>
        /\ requests[s].op = requests'[s].op
        /\ requests'[s].at \in {"remove", "register", "update"} => requests'[s] = requests[s]
  BY <1>1, <1>2 DEF Idle, Shaping
<1>7. /\ requests[r].at = "assign" => requests[r].op = "create"
      /\ requests[r].at = "look" => requests[r].op \in Orders
      /\ \A s \in Requests : requests[s].op \in Shaping => requests'[s].op = requests[s].op
  <2>1. /\ requests[r].at = "assign" => requests[r].op = "create"
        /\ requests[r].at = "look" => requests[r].op \in Orders
    BY <1>1 DEF RequestStages, Idle, Orders
  <2> QED BY <1>1, <1>2, <2>1 DEF Shaping, Orders
<1>8. ShapingAlone'
  BY <1>1, <1>2, <1>4, <1>6 DEF ShapingAlone, RequestStages, Idle, Shaping, Orders
<1>9. ClientIsRow'
  BY <1>1, <1>2, <1>6, <1>7 DEF ClientIsRow, Idle, Shaping, Orders
<1>10. IntentIsWish'
  BY <1>1 DEF IntentIsWish
<1> QED BY <1>3, <1>4, <1>5, <1>8, <1>9, <1>10

\* A change of the row, of which the client is told later.
LEMMA UpdateConsistent ==
  ASSUME RecordsConsistent, NEW r \in Requests, Update(r)
  PROVE  RecordsConsistent'
<1> USE AccountRecordsAssumption DEF RecordsConsistent
<1>1. /\ requests[r].at = "update" /\ requests[r].op = "patch" /\ serving /\ configs # 0
      /\ UNCHANGED <<serving, client, intentions, wish, sent, configs, failures,
                     clouded, tangled, botched>>
  BY AskedServes DEF Update, RequestStages, Idle, Orders
<1>2. CASE ~row.there
  <2>1. /\ requests' \in [Requests -> RequestStates] /\ row' = row
        /\ \A s \in Requests : s # r => requests'[s] = requests[s]
        /\ requests'[r] = Idle
    BY <1>2, RequestEnds DEF Update, RecordsTypeOK
  <2>2. RecordsTypeOK'
    BY <1>1, <2>1 DEF RecordsTypeOK
  <2>3. RequestStages' /\ DownIsIdle' /\ CreatedOnce' /\ IntentIsWish'
    BY <1>1, <2>1 DEF RequestStages, DownIsIdle, CreatedOnce, IntentIsWish, Untouched, Idle
  <2>4. ShapingAlone'
    BY <1>1, <2>1 DEF ShapingAlone, Idle, Shaping
  <2>5. ClientIsRow'
    BY <1>1, <1>2, <2>1 DEF ClientIsRow, Idle, Shaping
  <2> QED BY <2>2, <2>3, <2>4, <2>5
<1>3. CASE row.there
  <2>1. /\ row'.there = row.there /\ row'.autoStart = row.autoStart
        /\ row' \in [there : BOOLEAN, config : 0..MaxConfigs, autoStart : BOOLEAN]
    BY <1>3 DEF Update, RecordsTypeOK, RequestStates
  <2>2. /\ requests' \in [Requests -> RequestStates]
        /\ \A s \in Requests : s # r => requests'[s] = requests[s]
        /\ requests'[r].op = requests[r].op /\ requests'[r].at = "read"
    BY <1>3, RequestMoves DEF Update, RecordsTypeOK
  <2>3. RecordsTypeOK'
    BY <1>1, <1>3, <2>1, <2>2 DEF RecordsTypeOK
  <2>4. RequestStages' /\ DownIsIdle' /\ CreatedOnce' /\ IntentIsWish'
    BY <1>1, <1>3, <2>1, <2>2
       DEF RequestStages, DownIsIdle, CreatedOnce, IntentIsWish, Untouched, NoRow, Idle
  <2>5. ShapingAlone'
    BY <1>1, <1>3, <2>1, <2>2 DEF ShapingAlone, RequestStages, Idle, Shaping, Orders
  <2>6. ClientIsRow'
    BY <1>1, <1>3, <2>1, <2>2 DEF ClientIsRow, Shaping
  <2> QED BY <2>3, <2>4, <2>5, <2>6
<1> QED BY <1>2, <1>3

\* The row is read for the client.
LEMMA ReadFullConsistent ==
  ASSUME RecordsConsistent, NEW r \in Requests, ReadFull(r)
  PROVE  RecordsConsistent'
<1> USE AccountRecordsAssumption DEF RecordsConsistent
<1>1. /\ requests[r].at = "read" /\ requests[r].op \in {"create", "patch"}
      /\ serving /\ configs # 0
      /\ UNCHANGED <<serving, row, client, intentions, wish, sent, configs, failures,
                     clouded, tangled, botched>>
  BY AskedServes DEF ReadFull, RequestStages, Idle, Orders
<1>2. /\ requests' \in [Requests -> RequestStates]
      /\ \A s \in Requests : s # r => requests'[s] = requests[s]
      /\ \/ ~row.there /\ requests'[r] = Idle
         \/ /\ row.there
            /\ requests'[r].op = requests[r].op /\ requests'[r].at = "register"
            /\ requests'[r].config = row.config
  <2>1. CASE row.there
    <3>1. requests' = [requests EXCEPT ![r] = [@ EXCEPT !.at = "register", !.config = row.config]]
      BY <2>1 DEF ReadFull, RecordsTypeOK
    <3>2. requests \in [Requests -> RequestStates] /\ row.config \in 0..MaxConfigs
      BY DEF RecordsTypeOK
    <3> QED BY <2>1, <3>1, <3>2 DEF RequestStates
  <2>2. CASE ~row.there
    BY <2>2, RequestEnds DEF ReadFull, RecordsTypeOK
  <2> QED BY <2>1, <2>2
<1>3. RecordsTypeOK'
  BY <1>1, <1>2 DEF RecordsTypeOK
<1>4. RequestStages' /\ DownIsIdle' /\ CreatedOnce' /\ IntentIsWish'
  BY <1>1, <1>2 DEF RequestStages, DownIsIdle, CreatedOnce, IntentIsWish, Untouched, Idle
<1>5. ShapingAlone'
  BY <1>1, <1>2 DEF ShapingAlone, Idle, Shaping
<1>6. ClientIsRow'
  BY <1>1, <1>2 DEF ClientIsRow, Idle, Shaping
<1> QED BY <1>3, <1>4, <1>5, <1>6

\* An order accepted is the last one, and its write is the only one unless the
\* order clouds what the row will say.
LEMMA IntendWritesWish ==
  ASSUME RecordsTypeOK, NEW on \in BOOLEAN, Intend(on)
  PROVE  /\ wish' = on /\ intentions' \in [BOOLEAN -> Nat] /\ clouded' \in BOOLEAN
         /\ intentions' # AllWritten
         /\ ~clouded' => intentions' = [AllWritten EXCEPT ![wish'] = 1]
<1>1. /\ wish' = on /\ intentions' = [intentions EXCEPT ![on] = @ + 1]
      /\ intentions \in [BOOLEAN -> Nat]
      /\ clouded' = (intentions # AllWritten)
  BY DEF Intend, RecordsTypeOK
<1>2. intentions' \in [BOOLEAN -> Nat] /\ intentions'[on] = intentions[on] + 1
      /\ intentions[on] \in Nat
  BY <1>1
<1>3. AllWritten[on] = 0
  BY DEF AllWritten
<1>4. intentions' # AllWritten
  BY <1>2, <1>3
<1>5. ~clouded' => intentions' = [AllWritten EXCEPT ![wish'] = 1]
  <2>1. ~clouded' => intentions = AllWritten
    BY <1>1
  <2>2. [AllWritten EXCEPT ![on] = @ + 1] = [AllWritten EXCEPT ![on] = 1]
    BY <1>3
  <2> QED BY <1>1, <2>1, <2>2
<1>6. clouded' \in BOOLEAN
  BY <1>1
<1> QED BY <1>1, <1>2, <1>4, <1>5, <1>6

\* With a client there, no request is about to insert the row.
LEMMA InsertNone ==
  ASSUME RecordsConsistent, client.there
  PROVE  \A r \in Requests : requests[r].at # "insert"
<1>1. client # NoClient
  BY DEF NoClient
<1> QED BY <1>1 DEF RecordsConsistent, CreatedOnce, Untouched

\* The client is given the row's configuration.
LEMMA RegisterConsistent ==
  ASSUME RecordsConsistent, NEW r \in Requests, Register(r)
  PROVE  RecordsConsistent'
<1> USE AccountRecordsAssumption DEF RecordsConsistent
<1>1. /\ requests[r].at = "register" /\ requests[r].op \in {"create", "patch"}
      /\ serving /\ configs # 0
      /\ UNCHANGED <<serving, row, sent, configs, failures, tangled, botched>>
  BY AskedServes DEF Register, RequestStages, Idle, Orders
<1>2. /\ requests' \in [Requests -> RequestStates]
      /\ \A s \in Requests : s # r => requests'[s] = requests[s]
      /\ requests'[r] = Idle
  BY RequestEnds DEF Register, RecordsTypeOK
<1>3. /\ client' \in [there : BOOLEAN, config : 0..MaxConfigs, runs : BOOLEAN]
      /\ client'.there /\ client'.runs = client.runs /\ client'.config = requests[r].config
  BY DEF Register, RecordsTypeOK, RequestStates
<1>4. \/ UNCHANGED <<intentions, wish, clouded>>
      \/ /\ client.runs /\ wish' = TRUE /\ intentions' # AllWritten
         /\ intentions' \in [BOOLEAN -> Nat] /\ clouded' \in BOOLEAN
         /\ ~clouded' => intentions' = [AllWritten EXCEPT ![wish'] = 1]
  BY IntendWritesWish DEF Register
<1>5. \A s \in Requests : requests'[s].at # "insert" /\ (s # r => requests[s].at # "insert")
  BY <1>1, <1>2 DEF CreatedOnce, Idle
<1>6. RecordsTypeOK'
  <2>1. wish' \in BOOLEAN /\ clouded' \in BOOLEAN /\ intentions' \in [BOOLEAN -> Nat]
    BY <1>4 DEF RecordsTypeOK
  <2> QED BY <1>1, <1>2, <1>3, <2>1 DEF RecordsTypeOK
<1>7. RequestStages' /\ DownIsIdle' /\ CreatedOnce'
  BY <1>1, <1>2, <1>5 DEF RequestStages, DownIsIdle, CreatedOnce
<1>8. ~tangled => /\ row.there /\ client'.config = row.config
                  /\ \A s \in Requests : s # r => requests[s].op \notin Shaping
  BY <1>1, <1>3 DEF ShapingAlone, Shaping
<1>9. ShapingAlone'
  BY <1>1, <1>2, <1>8 DEF ShapingAlone, Idle, Shaping, RequestStages, Orders
<1>10. ClientIsRow'
  BY <1>1, <1>3, <1>8 DEF ClientIsRow
<1>11. IntentIsWish'
  <2>1. CASE UNCHANGED <<intentions, wish, clouded>>
    <3>1. ~clouded /\ ~tangled /\ ~botched => client'.runs = wish
      <4>1. CASE client.there
        BY <1>3, <4>1 DEF IntentIsWish
      <4>2. CASE ~client.there
        <5>1. client.runs = FALSE /\ wish \in BOOLEAN
          BY <4>2 DEF RecordsTypeOK, NoClient
        <5>2. ~tangled /\ ~botched => requests[r].op = "create"
          BY <1>1, <1>8, <4>2 DEF ClientIsRow
        <5>3. ~tangled /\ ~botched => wish = FALSE
          BY <5>1, <5>2 DEF ShapingAlone
        <5> QED BY <1>3, <5>1, <5>3
      <4> QED BY <4>1, <4>2
    <3> QED BY <1>1, <2>1, <3>1 DEF IntentIsWish
  <2>2. CASE client.runs /\ wish' = TRUE /\ intentions' # AllWritten
             /\ (~clouded' => intentions' = [AllWritten EXCEPT ![wish'] = 1])
    <3>1. client'.runs = TRUE
      BY <1>3, <2>2 DEF RecordsTypeOK
    <3> QED BY <1>1, <2>2, <3>1 DEF IntentIsWish
  <2> QED BY <1>4, <2>1, <2>2
<1> QED BY <1>6, <1>7, <1>9, <1>10, <1>11

\* The client is disposed of before its row.
LEMMA UnregisterConsistent ==
  ASSUME RecordsConsistent, NEW r \in Requests, Unregister(r)
  PROVE  RecordsConsistent'
<1> USE AccountRecordsAssumption DEF RecordsConsistent
<1>1. /\ requests[r].at = "unregister" /\ requests[r].op = "delete" /\ serving /\ configs # 0
      /\ client' = NoClient
      /\ UNCHANGED <<serving, row, intentions, wish, sent, configs, failures,
                     clouded, tangled, botched>>
  BY AskedServes DEF Unregister, RequestStages, Idle, Orders
<1>2. /\ requests' \in [Requests -> RequestStates]
      /\ \A s \in Requests : s # r => requests'[s] = requests[s]
      /\ requests'[r].op = requests[r].op /\ requests'[r].at = "remove"
  BY RequestMoves DEF Unregister, RecordsTypeOK
<1>3. ~client'.there /\ client' \in [there : BOOLEAN, config : 0..MaxConfigs, runs : BOOLEAN]
  BY <1>1 DEF NoClient
<1>4. RecordsTypeOK'
  BY <1>1, <1>2, <1>3 DEF RecordsTypeOK
<1>5. RequestStages' /\ DownIsIdle' /\ CreatedOnce'
  BY <1>1, <1>2 DEF RequestStages, DownIsIdle, CreatedOnce, Untouched, Idle
<1>6. ShapingAlone' /\ ClientIsRow' /\ IntentIsWish'
  BY <1>1, <1>2, <1>3 DEF ShapingAlone, ClientIsRow, IntentIsWish, Shaping
<1> QED BY <1>4, <1>5, <1>6

\* The row is deleted after its client.
LEMMA RemoveConsistent ==
  ASSUME RecordsConsistent, NEW r \in Requests, Remove(r)
  PROVE  RecordsConsistent'
<1> USE AccountRecordsAssumption DEF RecordsConsistent
<1>1. /\ requests[r].at = "remove" /\ requests[r].op = "delete" /\ serving /\ configs # 0
      /\ row' = NoRow
      /\ UNCHANGED <<serving, client, intentions, wish, sent, configs, failures,
                     clouded, tangled, botched>>
  BY AskedServes DEF Remove, RequestStages, Idle, Orders
<1>2. /\ requests' \in [Requests -> RequestStates]
      /\ \A s \in Requests : s # r => requests'[s] = requests[s]
      /\ requests'[r] = Idle
  BY RequestEnds DEF Remove, RecordsTypeOK
<1>3. ~row'.there /\ row' \in [there : BOOLEAN, config : 0..MaxConfigs, autoStart : BOOLEAN]
  BY <1>1 DEF NoRow
<1>4. RecordsTypeOK'
  BY <1>1, <1>2, <1>3 DEF RecordsTypeOK
<1>5. RequestStages' /\ DownIsIdle' /\ CreatedOnce'
  BY <1>1, <1>2 DEF RequestStages, DownIsIdle, CreatedOnce, Untouched, Idle
<1>6. ~tangled => /\ ~client.there
                  /\ \A s \in Requests : s # r => requests[s].op \notin Shaping
  BY <1>1 DEF ShapingAlone, Shaping
<1>7. ShapingAlone'
  BY <1>1, <1>2, <1>5, <1>6 DEF ShapingAlone, RequestStages, Idle, Shaping, Orders
<1>8. ClientIsRow' /\ IntentIsWish'
  BY <1>1, <1>3, <1>6 DEF ClientIsRow, IntentIsWish
<1> QED BY <1>4, <1>5, <1>7, <1>8

\* An order reaches the client, if there is one.
LEMMA ActConsistent ==
  ASSUME RecordsConsistent, NEW r \in Requests, Act(r)
  PROVE  RecordsConsistent'
<1> USE AccountRecordsAssumption DEF RecordsConsistent
<1>1. /\ requests[r].at = "act" /\ requests[r].op \in Orders /\ serving /\ configs # 0
      /\ UNCHANGED <<serving, row, sent, configs, failures, tangled, botched>>
  BY AskedServes DEF Act, RequestStages, Idle
<1>2. /\ requests' \in [Requests -> RequestStates]
      /\ \A s \in Requests : s # r => requests'[s] = requests[s]
      /\ requests'[r] = Idle
  BY RequestEnds DEF Act, RecordsTypeOK
<1>3. /\ client' \in [there : BOOLEAN, config : 0..MaxConfigs, runs : BOOLEAN]
      /\ client'.there = client.there /\ client'.config = client.config
      /\ \/ UNCHANGED <<client, intentions, wish, clouded>>
         \/ /\ client.there /\ client'.runs = wish' /\ wish' \in BOOLEAN
            /\ intentions' # AllWritten
            /\ intentions' \in [BOOLEAN -> Nat] /\ clouded' \in BOOLEAN
            /\ ~clouded' => intentions' = [AllWritten EXCEPT ![wish'] = 1]
  <2>1. CASE client.there
    <3>1. PICK on \in BOOLEAN : on = (requests[r].op # "stop")
      BY Zenon
    <3>2. client' = [client EXCEPT !.runs = on] /\ Intend(on)
      BY <2>1, <3>1 DEF Act
    <3>3. /\ wish' = on /\ intentions' \in [BOOLEAN -> Nat] /\ clouded' \in BOOLEAN
          /\ intentions' # AllWritten
          /\ ~clouded' => intentions' = [AllWritten EXCEPT ![wish'] = 1]
      BY <3>2, IntendWritesWish
    <3> QED BY <2>1, <3>2, <3>3 DEF RecordsTypeOK
  <2>2. CASE ~client.there
    BY <2>2 DEF Act, RecordsTypeOK
  <2> QED BY <2>1, <2>2
<1>4. client.there => \A s \in Requests : requests[s].at # "insert"
  BY InsertNone
<1>5. RecordsTypeOK'
  <2>1. wish' \in BOOLEAN /\ clouded' \in BOOLEAN /\ intentions' \in [BOOLEAN -> Nat]
    BY <1>3 DEF RecordsTypeOK
  <2>2. ~client'.there => client' = NoClient
    BY <1>3 DEF RecordsTypeOK
  <2> QED BY <1>1, <1>2, <1>3, <2>1, <2>2 DEF RecordsTypeOK
<1>6. RequestStages' /\ DownIsIdle'
  BY <1>1, <1>2 DEF RequestStages, DownIsIdle
<1>7. CreatedOnce'
  BY <1>1, <1>2, <1>3, <1>4 DEF CreatedOnce, Untouched, Idle
<1>8. ShapingAlone'
  <2>1. ~client.there => wish' = wish
    BY <1>3
  <2> QED BY <1>1, <1>2, <1>3, <2>1 DEF ShapingAlone, Idle, Shaping
<1>9. ClientIsRow'
  <2>1. \A s \in Requests : requests[s].op \in Shaping => requests'[s] = requests[s]
    BY <1>1, <1>2 DEF Shaping, Orders
  <2> QED BY <1>1, <1>3, <2>1 DEF ClientIsRow
<1>10. IntentIsWish'
  BY <1>1, <1>3 DEF IntentIsWish
<1> QED BY <1>5, <1>6, <1>7, <1>8, <1>9, <1>10

\* What the first call of an operation is.
LEMMA FirstCalls ==
  /\ FirstCall["create"] = "insert" /\ FirstCall["patch"] = "update"
  /\ FirstCall["delete"] = "unregister"
  /\ \A op \in Orders : FirstCall[op] = "look"
BY DEF FirstCall, Orders

\* A request that comes in relies on nothing yet; one that shapes the account
\* is alone, or the account is tangled.
LEMMA SendConsistent ==
  ASSUME RecordsConsistent, NEW r \in Requests, Send(r)
  PROVE  RecordsConsistent'
<1> USE AccountRecordsAssumption DEF RecordsConsistent
<1>1. PICK op \in Shaping \union Orders, again \in BOOLEAN :
        /\ IF op = "create" THEN configs = 0 ELSE row.there
        /\ op \in {"create", "patch"} => configs < MaxConfigs
        /\ configs' = IF op \in {"create", "patch"} THEN configs + 1 ELSE configs
        /\ requests' = [requests EXCEPT ![r] =
             [op |-> op, at |-> FirstCall[op], config |-> configs', restarts |-> again]]
        /\ tangled' = \/ tangled
                      \/ /\ op \in Shaping
                         /\ \E other \in UnderWay : requests[other].op \in Shaping
  BY DEF Send
<1>2. /\ serving /\ requests[r] = Idle /\ sent < MaxRequests /\ sent' = sent + 1
      /\ UNCHANGED <<serving, row, client, intentions, wish, failures, clouded, botched>>
  BY DEF Send
<1>3. /\ FirstCall[op] \in {"insert", "update", "unregister", "look"}
      /\ FirstCall[op] = "insert" <=> op = "create"
      /\ op = "patch" => FirstCall[op] = "update"
      /\ op = "delete" => FirstCall[op] = "unregister"
      /\ op \in Orders => FirstCall[op] = "look"
  BY FirstCalls DEF Shaping, Orders
<1>4. configs' \in 0..MaxConfigs /\ configs' >= configs /\ (op = "create" => configs' > 0)
  BY <1>1 DEF RecordsTypeOK
<1>5. /\ requests' \in [Requests -> RequestStates]
      /\ \A s \in Requests : s # r => requests'[s] = requests[s]
      /\ requests'[r].op = op /\ requests'[r].at = FirstCall[op]
  <2>1. [op |-> op, at |-> FirstCall[op], config |-> configs', restarts |-> again]
          \in RequestStates
    BY <1>3, <1>4 DEF RequestStates
  <2> QED BY <1>1, <2>1 DEF RecordsTypeOK
<1>6. RecordsTypeOK'
  <2>1. tangled' \in BOOLEAN
    BY <1>1 DEF RecordsTypeOK
  <2>2. sent' \in 0..MaxRequests
    BY <1>2 DEF RecordsTypeOK
  <2> QED BY <1>2, <1>4, <1>5, <2>1, <2>2 DEF RecordsTypeOK
<1>7. RequestStages' /\ DownIsIdle'
  <2>1. RequestStages'
    BY <1>3, <1>5 DEF RequestStages, Shaping, Orders
  <2> QED BY <1>2, <2>1 DEF DownIsIdle
<1>8. CreatedOnce'
  <2>1. CASE op = "create"
    <3>1. Untouched /\ NobodyAsks
      BY <1>1, <2>1 DEF CreatedOnce
    <3>2. Untouched'
      BY <1>2, <3>1 DEF Untouched
    <3> QED BY <1>4, <1>5, <2>1, <3>1, <3>2 DEF CreatedOnce, NobodyAsks, Idle
  <2>2. CASE op # "create"
    <3>1. row # NoRow
      BY <1>1, <2>2 DEF NoRow
    <3>2. configs # 0 /\ \A s \in Requests : requests[s].at # "insert"
      BY <3>1 DEF CreatedOnce, Untouched
    <3>3. configs' # 0
      BY <1>4, <3>2 DEF RecordsTypeOK
    <3> QED BY <1>3, <1>5, <2>2, <3>2, <3>3 DEF CreatedOnce
  <2> QED BY <2>1, <2>2
<1>9. ~tangled' => ~tangled /\ (op \in Shaping =>
        \A s \in Requests : requests[s].op \notin Shaping)
  BY <1>1 DEF UnderWay, Idle, Shaping
<1>10. ShapingAlone'
  <2>1. op = "create" => ~client.there /\ ~wish
    BY <1>1 DEF CreatedOnce, Untouched, NoClient
  <2> QED BY <1>2, <1>3, <1>5, <1>9, <2>1 DEF ShapingAlone
<1>11. ClientIsRow'
  <2>1. \A s \in Requests : requests[s].op \in Shaping => requests'[s] = requests[s]
    BY <1>2, <1>5 DEF Idle, Shaping
  <2> QED BY <1>2, <1>3, <1>5, <1>9, <2>1 DEF ClientIsRow
<1>12. IntentIsWish'
  BY <1>2, <1>9 DEF IntentIsWish
<1> QED BY <1>6, <1>7, <1>8, <1>10, <1>11, <1>12

\* A call fails before it took effect.
LEMMA CallFailsConsistent ==
  ASSUME RecordsConsistent, NEW r \in Requests, CallFails(r)
  PROVE  RecordsConsistent'
<1> USE AccountRecordsAssumption DEF RecordsConsistent
<1>1. /\ requests[r].at \in {"insert", "assign", "update", "read", "remove", "look"}
      /\ serving /\ configs # 0
      /\ failures < MaxFailures /\ failures' = failures + 1
      /\ botched' = (botched \/ requests[r].at \in {"assign", "read", "remove"})
      /\ UNCHANGED <<serving, row, client, intentions, wish, sent, configs, clouded, tangled>>
  BY AskedServes DEF CallFails
<1>2. /\ requests' \in [Requests -> RequestStates]
      /\ \A s \in Requests : s # r => requests'[s] = requests[s]
      /\ requests'[r] = Idle
  BY RequestEnds DEF CallFails, RecordsTypeOK
<1>3. RecordsTypeOK'
  <2>1. botched' \in BOOLEAN
    BY <1>1
  <2>2. failures' \in 0..MaxFailures
    BY <1>1 DEF RecordsTypeOK
  <2> QED BY <1>1, <1>2, <2>1, <2>2 DEF RecordsTypeOK
<1>4. RequestStages' /\ DownIsIdle' /\ CreatedOnce'
  BY <1>1, <1>2 DEF RequestStages, DownIsIdle, CreatedOnce, Untouched, Idle
<1>5. ShapingAlone'
  BY <1>1, <1>2 DEF ShapingAlone, Idle, Shaping
<1>6. ClientIsRow'
  <2>1. CASE requests[r].at \in {"assign", "read", "remove"}
    <3>1. botched' = TRUE
      BY <1>1, <2>1
    <3> QED BY <1>1, <3>1 DEF ClientIsRow
  <2>2. CASE requests[r].at = "insert"
    <3>1. ~row'.there /\ ~client'.there
      BY <1>1, <2>2 DEF CreatedOnce, Untouched, NoRow, NoClient
    <3> QED BY <3>1 DEF ClientIsRow
  <2>3. CASE requests[r].at \in {"update", "look"}
    <3>1. requests[r].op \in Shaping => requests[r].op = "patch" /\ requests[r].at = "update"
      BY <2>3 DEF RequestStages, Idle, Shaping, Orders
    <3>2. botched' = botched
      BY <1>1, <2>3 DEF RecordsTypeOK
    <3> QED BY <1>1, <1>2, <3>1, <3>2 DEF ClientIsRow
  <2> QED BY <1>1, <2>1, <2>2, <2>3
<1>7. IntentIsWish'
  BY <1>1 DEF IntentIsWish
<1> QED BY <1>3, <1>4, <1>5, <1>6, <1>7

\* The intent is given, written or lost.
LEMMA IntentConsistent ==
  ASSUME RecordsConsistent, RestartAllOnline \/ IntentWritten \/ IntentLost
  PROVE  RecordsConsistent'
<1> USE AccountRecordsAssumption DEF RecordsConsistent
<1>1. CASE RestartAllOnline
  <2>1. /\ client.runs /\ sent < MaxRequests /\ sent' = sent + 1 /\ Intend(TRUE)
        /\ UNCHANGED <<serving, row, client, requests, configs, failures, tangled, botched>>
    BY <1>1 DEF RestartAllOnline
  <2>2. /\ wish' = TRUE /\ intentions' \in [BOOLEAN -> Nat] /\ clouded' \in BOOLEAN
        /\ intentions' # AllWritten
        /\ ~clouded' => intentions' = [AllWritten EXCEPT ![wish'] = 1]
    BY <2>1, IntendWritesWish
  <2>3. client.there /\ client.runs = TRUE /\ configs # 0 /\ serving
    BY <2>1 DEF RecordsTypeOK, NoClient, DownIsIdle, CreatedOnce, Untouched
  <2>4. RecordsTypeOK'
    <3>1. sent' \in 0..MaxRequests /\ wish' \in BOOLEAN
      BY <2>1, <2>2 DEF RecordsTypeOK
    <3> QED BY <2>1, <2>2, <3>1 DEF RecordsTypeOK
  <2>5. RequestStages' /\ DownIsIdle' /\ CreatedOnce'
    BY <2>1, <2>3, InsertNone DEF RequestStages, DownIsIdle, CreatedOnce
  <2>6. ShapingAlone' /\ ClientIsRow'
    BY <2>1, <2>3 DEF ShapingAlone, ClientIsRow
  <2>7. IntentIsWish'
    BY <2>1, <2>2, <2>3 DEF IntentIsWish
  <2> QED BY <2>4, <2>5, <2>6, <2>7
<1>2. ASSUME NEW on \in BOOLEAN, intentions[on] > 0,
             intentions' = [intentions EXCEPT ![on] = @ - 1],
             UNCHANGED <<serving, client, wish, requests, sent, configs, tangled, botched>>
      PROVE  /\ intentions' \in [BOOLEAN -> Nat] /\ serving /\ configs # 0
             /\ \A r \in Requests : requests[r].at # "insert"
             /\ ~clouded => on = wish /\ intentions' = AllWritten
  <2>1. intentions \in [BOOLEAN -> Nat] /\ intentions' \in [BOOLEAN -> Nat]
    BY <1>2 DEF RecordsTypeOK
  <2>2. intentions # AllWritten
    BY <1>2 DEF AllWritten
  <2>3. serving /\ configs # 0 /\ \A r \in Requests : requests[r].at # "insert"
    BY <2>2 DEF DownIsIdle, CreatedOnce, Untouched
  <2>4. ASSUME ~clouded PROVE on = wish /\ intentions' = AllWritten
    <3>1. intentions = [AllWritten EXCEPT ![wish] = 1] /\ wish \in BOOLEAN
      BY <2>2, <2>4 DEF IntentIsWish, RecordsTypeOK
    <3>2. on = wish
      BY <1>2, <3>1 DEF AllWritten
    <3>3. intentions[on] = 1 /\ \A o \in BOOLEAN : o # on => intentions[o] = 0
      BY <3>1, <3>2 DEF AllWritten
    <3>4. \A o \in BOOLEAN : intentions'[o] = 0
      BY <1>2, <2>1, <3>3
    <3> QED BY <2>1, <3>2, <3>4 DEF AllWritten
  <2> QED BY <2>1, <2>3, <2>4
<1>3. CASE IntentWritten
  <2>1. PICK on \in BOOLEAN :
          /\ intentions[on] > 0
          /\ row' = IF row.there THEN [row EXCEPT !.autoStart = on] ELSE row
          /\ intentions' = [intentions EXCEPT ![on] = @ - 1]
          /\ UNCHANGED <<serving, client, wish, requests, sent, configs, failures,
                         clouded, tangled, botched>>
    BY <1>3 DEF IntentWritten
  <2>2. /\ row' \in [there : BOOLEAN, config : 0..MaxConfigs, autoStart : BOOLEAN]
        /\ row'.there = row.there /\ row'.config = row.config
        /\ row.there => row'.autoStart = on
        /\ ~row.there => row' = row
    BY <2>1 DEF RecordsTypeOK
  <2>3. /\ intentions' \in [BOOLEAN -> Nat] /\ serving /\ configs # 0
        /\ \A r \in Requests : requests[r].at # "insert"
        /\ ~clouded => on = wish /\ intentions' = AllWritten
    BY <1>2, <2>1
  <2>4. RecordsTypeOK'
    BY <2>1, <2>2, <2>3 DEF RecordsTypeOK
  <2>5. RequestStages' /\ DownIsIdle' /\ CreatedOnce'
    BY <2>1, <2>3 DEF RequestStages, DownIsIdle, CreatedOnce
  <2>6. ShapingAlone' /\ ClientIsRow' /\ IntentIsWish'
    BY <2>1, <2>2, <2>3 DEF ShapingAlone, ClientIsRow, IntentIsWish
  <2> QED BY <2>4, <2>5, <2>6
<1>4. CASE IntentLost
  <2>1. PICK on \in BOOLEAN :
          /\ intentions[on] > 0
          /\ intentions' = [intentions EXCEPT ![on] = @ - 1]
    BY <1>4 DEF IntentLost
  <2>2. /\ failures < MaxFailures /\ failures' = failures + 1 /\ clouded' = TRUE
        /\ UNCHANGED <<serving, row, client, wish, requests, sent, configs, tangled, botched>>
    BY <1>4 DEF IntentLost
  <2>3. /\ intentions' \in [BOOLEAN -> Nat] /\ serving /\ configs # 0
        /\ \A r \in Requests : requests[r].at # "insert"
    BY <1>2, <2>1, <2>2
  <2>4. RecordsTypeOK'
    <3>1. clouded' \in BOOLEAN /\ failures' \in 0..MaxFailures
      BY <2>2 DEF RecordsTypeOK
    <3> QED BY <2>2, <2>3, <3>1 DEF RecordsTypeOK
  <2>5. RequestStages' /\ DownIsIdle' /\ CreatedOnce'
    BY <2>2, <2>3 DEF RequestStages, DownIsIdle, CreatedOnce
  <2>6. ShapingAlone' /\ ClientIsRow' /\ IntentIsWish'
    BY <2>2 DEF ShapingAlone, ClientIsRow, IntentIsWish
  <2> QED BY <2>4, <2>5, <2>6
<1> QED BY <1>1, <1>3, <1>4

\* What was under way dies with the backend; what is loaded is what the row says.
LEMMA RestartConsistent ==
  ASSUME RecordsConsistent, BackendDies \/ LoadAllAccounts
  PROVE  RecordsConsistent'
<1> USE AccountRecordsAssumption DEF RecordsConsistent
<1>1. CASE BackendDies
  <2>1. /\ serving' = FALSE /\ failures < MaxFailures /\ failures' = failures + 1
        /\ client' = NoClient /\ intentions' = AllWritten
        /\ clouded' = (clouded \/ intentions # AllWritten)
        /\ requests' = [r \in Requests |-> Idle]
        /\ tangled' = FALSE /\ botched' = FALSE
        /\ UNCHANGED <<row, wish, sent, configs>>
    BY <1>1 DEF BackendDies
  <2>2. /\ client' \in [there : BOOLEAN, config : 0..MaxConfigs, runs : BOOLEAN]
        /\ ~client'.there
        /\ intentions' \in [BOOLEAN -> Nat]
        /\ requests' \in [Requests -> RequestStates]
        /\ failures' \in 0..MaxFailures
    <3>1. Idle \in RequestStates
      BY DEF Idle, RequestStates
    <3> QED BY <2>1, <3>1 DEF NoClient, AllWritten, RecordsTypeOK
  <2>3. RecordsTypeOK'
    <3>1. serving' \in BOOLEAN /\ clouded' \in BOOLEAN /\ tangled' \in BOOLEAN /\ botched' \in BOOLEAN
      BY <2>1, Zenon
    <3> QED BY <2>1, <2>2, <3>1 DEF RecordsTypeOK
  <2>4. RequestStages' /\ DownIsIdle'
    BY <2>1 DEF RequestStages, DownIsIdle, NobodyAsks
  <2>5. CreatedOnce'
    BY <2>1 DEF CreatedOnce, Untouched, NobodyAsks, Idle
  <2>6. ShapingAlone' /\ ClientIsRow' /\ IntentIsWish'
    BY <2>1, <2>2 DEF ShapingAlone, ClientIsRow, IntentIsWish, Idle, Shaping
  <2> QED BY <2>3, <2>4, <2>5, <2>6
<1>2. CASE LoadAllAccounts
  <2>1. /\ ~serving /\ serving' = TRUE
        /\ UNCHANGED <<row, intentions, wish, requests, sent, configs, failures,
                       clouded, tangled, botched>>
    BY <1>2 DEF LoadAllAccounts
  <2>2. /\ client' \in [there : BOOLEAN, config : 0..MaxConfigs, runs : BOOLEAN]
        /\ client'.there = row.there
        /\ row.there => client'.config = row.config /\ client'.runs = row.autoStart
        /\ ~row.there => client' = NoClient
    <3>1. row \in [there : BOOLEAN, config : 0..MaxConfigs, autoStart : BOOLEAN]
      BY DEF RecordsTypeOK
    <3>2. CASE row.there
      <4>1. client' = [there |-> TRUE, config |-> row.config, runs |-> row.autoStart]
        BY <1>2, <3>2 DEF LoadAllAccounts
      <4>2. row.there = TRUE
        BY <3>1, <3>2
      <4> QED BY <3>1, <4>1, <4>2
    <3>3. CASE ~row.there
      <4>1. client' = NoClient /\ row.there = FALSE
        BY <1>2, <3>1, <3>3 DEF LoadAllAccounts
      <4>2. /\ NoClient \in [there : BOOLEAN, config : 0..MaxConfigs, runs : BOOLEAN]
            /\ NoClient.there = FALSE
        BY DEF NoClient
      <4> QED BY <3>3, <4>1, <4>2
    <3> QED BY <3>2, <3>3
  <2>3. NobodyAsks /\ client = NoClient /\ intentions = AllWritten
    BY <2>1 DEF DownIsIdle
  <2>4. RecordsTypeOK'
    <3>1. serving' \in BOOLEAN
      BY <2>1, Zenon
    <3>2. ~client'.there => client' = NoClient
      BY <2>2
    <3> QED BY <2>1, <2>2, <3>1, <3>2 DEF RecordsTypeOK
  <2>5. RequestStages' /\ DownIsIdle'
    BY <2>1 DEF RequestStages, DownIsIdle
  <2>6. CreatedOnce'
    <3>1. configs = 0 => client' = NoClient
      BY <2>2 DEF CreatedOnce, Untouched, NoRow
    <3> QED BY <2>1, <2>3, <3>1 DEF CreatedOnce, Untouched, NobodyAsks, Idle
  <2>7. ShapingAlone' /\ ClientIsRow'
    BY <2>1, <2>2, <2>3 DEF ShapingAlone, ClientIsRow, NobodyAsks, Idle, Shaping
  <2>8. IntentIsWish'
    BY <2>1, <2>2, <2>3 DEF IntentIsWish
  <2> QED BY <2>4, <2>5, <2>6, <2>7, <2>8
<1> QED BY <1>1, <1>2

\* A step of the requests keeps all of it.
LEMMA RecordsStep ==
  ASSUME RecordsConsistent, [RecordsNext]_recordVars
  PROVE  RecordsConsistent'
<1>1. CASE RecordsNext
  BY <1>1, SendConsistent, InsertConsistent, LooksConsistent, UpdateConsistent, ReadFullConsistent,
     RegisterConsistent, UnregisterConsistent, RemoveConsistent, ActConsistent,
     CallFailsConsistent, IntentConsistent, RestartConsistent DEF RecordsNext
<1>2. CASE UNCHANGED recordVars
  BY <1>2 DEF recordVars, RecordsConsistent, RecordsTypeOK, RequestStages, DownIsIdle, NobodyAsks,
     CreatedOnce, Untouched, ShapingAlone, ClientIsRow, IntentIsWish
<1> QED BY <1>1, <1>2

\* The invariant is the agreement of row, client and orders.
LEMMA ConsistentRecordsAgree == RecordsConsistent => RecordsAgree
<1> SUFFICES ASSUME RecordsConsistent PROVE RecordsAgree
  OBVIOUS
<1> USE DEF RecordsConsistent
<1>1. ClientsAreRows
  <2> SUFFICES ASSUME serving, ~tangled PROVE ClientsAreRows
    BY DEF ClientsAreRows
  <2>1. client.runs => client.there
    BY DEF RecordsTypeOK, NoClient
  <2>2. (\A r \in UnderWay : requests[r].op \notin Shaping) =>
          \A r \in Requests : requests[r].op \notin Shaping
    <3>1. Idle.op = "none" /\ "none" \notin Shaping
      BY DEF Idle, Shaping
    <3> QED BY <3>1 DEF UnderWay
  <2> QED BY <2>1, <2>2 DEF ClientsAreRows, ClientIsRow
<1>2. AutoStartFollowsOrders
  BY DEF AutoStartFollowsOrders, IntentIsWish
<1> QED BY <1>1, <1>2 DEF RecordsAgree

-----------------------------------------------------------------------------
(***************************************************************************)
(* The earnings history. The invariant follows a sale from the database to *)
(* the graph: each cache on the way is dropped before the next party hears *)
(* of the sale, so that whatever is still in a cache, or under way to one, *)
(* counts what its reader has been told.                                   *)
(***************************************************************************)

\* The browser is told of no sale that has not been announced.
WireTold == \A i \in 1..Len(wire) : wire[i].sales <= told

\* Whether a read of the browser is as new as what the browser knows is told by
\* the generation it was begun in.
ReadsOwed ==
  \A r \in Reads : reads[r].at # "resting" =>
    /\ reads[r].generation <= generation
    /\ reads[r].generation = generation => reads[r].owed = heard
    /\ reads[r].owed <= told

PendingIsNew ==
  \A r \in pending : reads[r].at # "resting" /\ reads[r].generation = generation

\* A query of the current interval is for all its sales.
QueriesUpToDate ==
  \A q \in Queries : queries[q].at # "unused" =>
    /\ queries[q].end <= interval
    /\ queries[q].end = interval => queries[q].upTo = closed

\* The query in the server's cache counts every sale announced: an announcement
\* drops it.
EntryCounts ==
  entry # NoQuery =>
    /\ queries[entry].at # "unused"
    /\ queries[entry].at = "counted" => queries[entry].count >= Min2(told, queries[entry].upTo)

\* What a reader waits for is under way, or counts what the reader is owed.
ReadersServed ==
  \A r \in Reads :
    /\ reads[r].at = "waiting" <=> reads[r].query # NoQuery
    /\ reads[r].at = "waiting" =>
         /\ queries[reads[r].query].at # "unused"
         /\ queries[reads[r].query].at = "counted" =>
              queries[reads[r].query].count >= Min2(reads[r].owed, queries[reads[r].query].upTo)

CachedIsFresh ==
  /\ cached.end <= interval
  /\ CacheIsValid => cached.count >= Min2(heard, closed)

HistoryConsistent ==
  /\ HistoryTypeOK /\ WireTold /\ ReadsOwed /\ PendingIsNew /\ QueriesUpToDate
  /\ EntryCounts /\ ReadersServed /\ CachedIsFresh

\* A history that nobody has asked for.
LEMMA HistoryInitConsistent == HistoryInit => HistoryConsistent
<1> SUFFICES ASSUME HistoryInit PROVE HistoryConsistent
  OBVIOUS
<1> USE EarningsHistoryAssumption DEF HistoryInit
<1>1. HistoryTypeOK
  <2>1. /\ queries \in [Queries -> [at : {"unused", "asked", "counted"}, end : 0..MaxIntervals,
                                  upTo : 0..MaxSales, count : 0..MaxSales]]
        /\ reads \in [Reads -> [at : {"resting", "sent", "waiting"},
                              query : Queries \union {NoQuery},
                              generation : Nat, owed : 0..MaxSales]]
    BY DEF Unused, Resting
  <2>2. cached \in [end : -1..MaxIntervals, count : 0..MaxSales] /\ wire \in Seq(Messages)
    BY DEF Nothing
  <2>3. /\ sales \in 0..MaxSales /\ written \in 0..sales /\ told \in 0..written
        /\ heard \in 0..told /\ closed \in 0..sales /\ interval \in 0..MaxIntervals
        /\ joins \in 0..(MaxClears + 1) /\ clears \in 0..MaxClears
    OBVIOUS
  <2> QED BY <2>1, <2>2, <2>3 DEF HistoryTypeOK
<1>2. WireTold /\ ReadsOwed /\ PendingIsNew /\ QueriesUpToDate /\ EntryCounts
  BY DEF WireTold, ReadsOwed, PendingIsNew, QueriesUpToDate, EntryCounts, Unused, Resting
<1>3. ReadersServed /\ CachedIsFresh
  BY DEF ReadersServed, CachedIsFresh, CacheIsValid, Resting, Nothing
<1> QED BY <1>1, <1>2, <1>3 DEF HistoryConsistent

\* Sales made, written and announced.
LEMMA SalesConsistent ==
  ASSUME HistoryConsistent, Sale \/ Commit \/ Announce \/ IntervalEnds
  PROVE  HistoryConsistent'
<1> USE EarningsHistoryAssumption DEF HistoryConsistent
<1>1. CASE Sale \/ Commit
  <2>1. /\ sales' \in 0..MaxSales /\ written' \in 0..sales' /\ told \in 0..written'
        /\ closed \in 0..sales'
        /\ UNCHANGED <<told, heard, interval, closed, queries, entry, reads, pending,
                       cached, generation, wire, listening, joins, clears>>
    <3>1. /\ sales \in 0..MaxSales /\ written \in 0..sales /\ told \in 0..written
          /\ closed \in 0..sales
      BY DEF HistoryTypeOK
    <3>2. CASE Sale
      BY <3>1, <3>2 DEF Sale, socket
    <3>3. CASE Commit
      BY <3>1, <3>3 DEF Commit, socket
    <3> QED BY <1>1, <3>2, <3>3
  <2>2. HistoryTypeOK'
    BY <2>1 DEF HistoryTypeOK
  <2> QED BY <2>1, <2>2 DEF WireTold, ReadsOwed, PendingIsNew, QueriesUpToDate, EntryCounts,
                            ReadersServed, CachedIsFresh, CacheIsValid
<1>2. CASE Announce
  <2>1. /\ told' = told + 1 /\ told' <= written /\ entry' = NoQuery
        /\ UNCHANGED <<sales, written, heard, interval, closed, queries, reads, pending,
                       cached, generation, listening, joins, clears>>
    BY <1>2 DEF Announce, HistoryTypeOK
  <2>2. wire' \in Seq(Messages) /\ WireTold'
    <3> DEFINE message == [type |-> "account_sale", sales |-> told + 1]
    <3>1. message \in Messages /\ message.sales = told'
      BY <2>1 DEF HistoryTypeOK, Messages
    <3>2. wire' = Append(wire, message) \/ wire' = wire
      BY <1>2, <2>1 DEF Announce
    <3> HIDE DEF message
    <3>3. wire' \in Seq(Messages)
      <4>1. wire \in Seq(Messages)
        BY DEF HistoryTypeOK
      <4> QED BY <3>1, <3>2, <4>1
    <3>4. ASSUME NEW i \in 1..Len(wire')
          PROVE  wire'[i] = message \/ (i \in 1..Len(wire) /\ wire'[i] = wire[i])
      BY <3>1, <3>2 DEF HistoryTypeOK
    <3>5. ASSUME NEW i \in 1..Len(wire) PROVE wire[i].sales <= told'
      <4>1. wire[i] \in Messages /\ told \in Nat
        BY DEF HistoryTypeOK
      <4> QED BY <2>1, <4>1 DEF WireTold, Messages
    <3>6. told' <= told'
      BY <2>1 DEF HistoryTypeOK
    <3> QED BY <3>1, <3>3, <3>4, <3>5, <3>6 DEF WireTold
  <2>3. HistoryTypeOK'
    BY <2>1, <2>2 DEF HistoryTypeOK
  <2> QED BY <2>1, <2>2, <2>3
          DEF HistoryTypeOK, ReadsOwed, PendingIsNew, QueriesUpToDate, EntryCounts, ReadersServed,
              CachedIsFresh, CacheIsValid
<1>3. CASE IntervalEnds
  BY <1>3 DEF IntervalEnds, HistoryTypeOK, WireTold, ReadsOwed, PendingIsNew, QueriesUpToDate,
     EntryCounts, ReadersServed, CachedIsFresh, CacheIsValid, socket
<1> QED BY <1>1, <1>2, <1>3


\* The counters are numbers, and what is told has been written.
LEMMA HistoryCounters ==
  ASSUME HistoryTypeOK
  PROVE  /\ sales \in Nat /\ sales <= MaxSales /\ written \in Nat /\ written <= sales
         /\ told \in Nat /\ told <= written /\ heard \in Nat /\ heard <= told
         /\ closed \in Nat /\ closed <= sales
         /\ interval \in Nat /\ interval <= MaxIntervals /\ generation \in Nat
BY EarningsHistoryAssumption DEF HistoryTypeOK

\* What a read and a query are.
LEMMA ReadFields ==
  ASSUME HistoryTypeOK, NEW r \in Reads
  PROVE  /\ reads[r].at \in {"resting", "sent", "waiting"}
         /\ reads[r].query \in Queries \union {NoQuery}
         /\ reads[r].generation \in Nat /\ reads[r].owed \in 0..MaxSales
BY DEF HistoryTypeOK

\* What a query holds.
LEMMA QueryFields ==
  ASSUME HistoryTypeOK, NEW q \in Queries
  PROVE  /\ queries[q].at \in {"unused", "asked", "counted"}
         /\ queries[q].end \in 0..MaxIntervals
         /\ queries[q].upTo \in 0..MaxSales /\ queries[q].count \in 0..MaxSales
BY DEF HistoryTypeOK

\* A read is served by the query in the cache or by a new one.
LEMMA ServeConsistent ==
  ASSUME HistoryConsistent, NEW r \in Reads, Serve(r)
  PROVE  HistoryConsistent'
<1> USE EarningsHistoryAssumption DEF HistoryConsistent
<1>1. /\ reads[r].at = "sent" /\ UNCHANGED <<server, heard, pending, cached, generation, socket, clears>>
  BY DEF Serve
<1>2. PICK q \in Queries :
        /\ entry' = q
        /\ reads' = [reads EXCEPT ![r].at = "waiting", ![r].query = q]
        /\ \/ /\ entry = q /\ UNCHANGED queries
           \/ /\ queries[q].at = "unused"
              /\ queries' = [queries EXCEPT ![q] =
                   [at |-> "asked", end |-> interval, upTo |-> closed, count |-> 0]]
  <2>1. CASE entry # NoQuery /\ queries[entry].end = interval
    BY <2>1 DEF Serve, HistoryTypeOK
  <2>2. CASE ~(entry # NoQuery /\ queries[entry].end = interval)
    BY <2>2 DEF Serve
  <2> QED BY <2>1, <2>2
<1>3. /\ \A s \in Reads \ {r} : reads'[s] = reads[s]
      /\ reads'[r].at = "waiting" /\ reads'[r].query = q
      /\ reads'[r].generation = reads[r].generation /\ reads'[r].owed = reads[r].owed
      /\ reads' \in [Reads -> [at : {"resting", "sent", "waiting"},
                             query : Queries \union {NoQuery},
                             generation : Nat, owed : 0..MaxSales]]
  <2>1. reads \in [Reads -> [at : {"resting", "sent", "waiting"},
                            query : Queries \union {NoQuery},
                            generation : Nat, owed : 0..MaxSales]]
    BY DEF HistoryTypeOK
  <2>2. reads' = [reads EXCEPT ![r] = [@ EXCEPT !.at = "waiting", !.query = q]]
    BY <1>2, <2>1
  <2>3. [reads[r] EXCEPT !.at = "waiting", !.query = q]
          \in [at : {"resting", "sent", "waiting"}, query : Queries \union {NoQuery},
              generation : Nat, owed : 0..MaxSales]
    BY <2>1
  <2> QED BY <2>1, <2>2, <2>3
<1>4. /\ \A k \in Queries \ {q} : queries'[k] = queries[k]
      /\ \/ entry = q /\ queries' = queries
         \/ /\ queries[q].at = "unused"
            /\ queries'[q] = [at |-> "asked", end |-> interval, upTo |-> closed, count |-> 0]
      /\ queries' \in [Queries -> [at : {"unused", "asked", "counted"}, end : 0..MaxIntervals,
                                 upTo : 0..MaxSales, count : 0..MaxSales]]
  <2>1. interval \in 0..MaxIntervals /\ closed \in 0..MaxSales
    BY HistoryCounters
  <2>2. queries \in [Queries -> [at : {"unused", "asked", "counted"}, end : 0..MaxIntervals,
                                upTo : 0..MaxSales, count : 0..MaxSales]]
    BY DEF HistoryTypeOK
  <2> QED BY <1>2, <2>1, <2>2
<1>5. HistoryTypeOK' /\ WireTold'
  <2>1. UNCHANGED <<sales, written, told, interval, closed, heard, pending, cached, generation, wire,
                    listening, joins, clears>>
    BY <1>1 DEF server, socket
  <2>2. entry' \in Queries \union {NoQuery}
    BY <1>2
  <2>3. HistoryTypeOK /\ WireTold
    OBVIOUS
  <2>4. WireTold'
    BY <2>1, <2>3 DEF WireTold
  <2> QED BY <1>3, <1>4, <2>1, <2>2, <2>3, <2>4 DEF HistoryTypeOK
<1>6. ReadsOwed' /\ PendingIsNew'
  <2>1. /\ generation' = generation /\ heard' = heard /\ told' = told /\ pending' = pending
        /\ pending \subseteq Reads
    BY <1>1 DEF server, HistoryTypeOK
  <2>2. ReadsOwed'
    BY <1>1, <1>3, <2>1 DEF ReadsOwed
  <2>3. PendingIsNew'
    BY <1>3, <2>1 DEF PendingIsNew
  <2> QED BY <2>2, <2>3
<1>7. QueriesUpToDate'
  <2>1. interval \in Nat /\ interval' = interval /\ closed' = closed
    BY <1>1, HistoryCounters DEF server
  <2>2. CASE entry = q /\ queries' = queries
    BY <2>1, <2>2 DEF QueriesUpToDate
  <2>3. CASE queries'[q] = [at |-> "asked", end |-> interval, upTo |-> closed, count |-> 0]
    BY <1>4, <2>1, <2>3 DEF QueriesUpToDate
  <2> QED BY <1>4, <2>2, <2>3
<1>8. EntryCounts'
  <2>1. told' = told
    BY <1>1 DEF server
  <2>2. CASE entry = q /\ queries' = queries
    BY <1>2, <2>1, <2>2 DEF EntryCounts
  <2>3. CASE queries'[q] = [at |-> "asked", end |-> interval, upTo |-> closed, count |-> 0]
    BY <1>2, <2>3 DEF EntryCounts
  <2> QED BY <1>4, <2>2, <2>3
<1>9. ReadersServed'
  <2> SUFFICES ASSUME NEW s \in Reads
               PROVE  /\ reads'[s].at = "waiting" <=> reads'[s].query # NoQuery
                      /\ reads'[s].at = "waiting" =>
                           /\ queries'[reads'[s].query].at # "unused"
                           /\ queries'[reads'[s].query].at = "counted" =>
                                queries'[reads'[s].query].count
                                  >= Min2(reads'[s].owed, queries'[reads'[s].query].upTo)
    BY DEF ReadersServed
  <2>1. CASE s = r
    <3>1. reads[r].owed <= told /\ reads[r].owed \in Nat /\ told \in Nat /\ told' = told
      BY <1>1, ReadFields, HistoryCounters DEF ReadsOwed, server
    <3>2. queries'[q].at # "unused" /\
          (queries'[q].at = "counted" => queries'[q].count >= Min2(told, queries'[q].upTo))
      BY <1>2, <1>8, <3>1 DEF EntryCounts
    <3>3. queries'[q].upTo \in Nat /\ queries'[q].count \in Nat
      BY <1>4, EarningsHistoryAssumption
    <3>4. queries'[q].at = "counted" => queries'[q].count >= Min2(reads[r].owed, queries'[q].upTo)
      BY <3>1, <3>2, <3>3 DEF Min2
    <3> QED BY <1>3, <2>1, <3>2, <3>4
  <2>2. CASE s # r
    BY <1>3, <1>4, <2>2, ReadFields DEF ReadersServed
  <2> QED BY <2>1, <2>2
<1>10. CachedIsFresh'
  BY <1>1 DEF CachedIsFresh, CacheIsValid, server
<1> QED BY <1>5, <1>6, <1>7, <1>8, <1>9, <1>10

\* The database answers a query.
LEMMA CountConsistent ==
  ASSUME HistoryConsistent, NEW q \in Queries, Count(q)
  PROVE  HistoryConsistent'
<1> USE EarningsHistoryAssumption DEF HistoryConsistent
<1>1. /\ queries[q].at = "asked"
      /\ UNCHANGED <<server, heard, entry, reads, pending, cached, generation, socket, clears>>
  BY DEF Count
<1>2. /\ \A k \in Queries \ {q} : queries'[k] = queries[k]
      /\ queries'[q].at = "counted" /\ queries'[q].end = queries[q].end
      /\ queries'[q].upTo = queries[q].upTo /\ queries'[q].count = Min2(written, queries[q].upTo)
      /\ queries' \in [Queries -> [at : {"unused", "asked", "counted"}, end : 0..MaxIntervals,
                                 upTo : 0..MaxSales, count : 0..MaxSales]]
  <2>1. Min2(written, queries[q].upTo) \in 0..MaxSales
    BY QueryFields DEF HistoryTypeOK, Min2
  <2> DEFINE Query == [at : {"unused", "asked", "counted"}, end : 0..MaxIntervals,
                       upTo : 0..MaxSales, count : 0..MaxSales]
  <2>2. queries \in [Queries -> Query] /\ queries[q] \in Query
    BY DEF HistoryTypeOK
  <2>3. ASSUME NEW k \in Query, NEW n \in 0..MaxSales
        PROVE  /\ [k EXCEPT !.at = "counted", !.count = n] \in Query
               /\ [k EXCEPT !.at = "counted", !.count = n].at = "counted"
               /\ [k EXCEPT !.at = "counted", !.count = n].end = k.end
               /\ [k EXCEPT !.at = "counted", !.count = n].upTo = k.upTo
               /\ [k EXCEPT !.at = "counted", !.count = n].count = n
    OBVIOUS
  <2>4. queries' = [queries EXCEPT ![q] = [queries[q] EXCEPT !.at = "counted",
                                             !.count = Min2(written, queries[q].upTo)]]
    BY <2>2 DEF Count
  <2> HIDE DEF Query
  <2>5. PICK n \in 0..MaxSales : n = Min2(written, queries[q].upTo)
    BY <2>1
  <2>6. queries' = [queries EXCEPT ![q] = [queries[q] EXCEPT !.at = "counted", !.count = n]]
    BY <2>4, <2>5
  <2>7. queries' \in [Queries -> Query]
    BY <2>2, <2>3, <2>6
  <2>8. /\ \A k \in Queries \ {q} : queries'[k] = queries[k]
        /\ queries'[q] = [queries[q] EXCEPT !.at = "counted", !.count = n]
    BY <2>2, <2>6
  <2>9. /\ queries'[q].at = "counted" /\ queries'[q].end = queries[q].end
        /\ queries'[q].upTo = queries[q].upTo /\ queries'[q].count = n
    BY <2>2, <2>8 DEF Query
  <2> QED BY <2>5, <2>7, <2>8, <2>9 DEF Query
<1>3. HistoryTypeOK' /\ WireTold' /\ ReadsOwed' /\ PendingIsNew' /\ CachedIsFresh'
  BY <1>1, <1>2 DEF HistoryTypeOK, WireTold, ReadsOwed, PendingIsNew, CachedIsFresh, CacheIsValid,
                    server, socket
<1>4. QueriesUpToDate'
  BY <1>1, <1>2 DEF QueriesUpToDate, server
<1>5. ASSUME NEW owed \in 0..told PROVE queries'[q].count >= Min2(owed, queries'[q].upTo)
  <2>1. queries[q].upTo \in Nat /\ told <= written /\ told \in Nat /\ written \in Nat
    BY QueryFields, HistoryCounters
  <2> QED BY <1>2, <2>1 DEF Min2
<1>6. EntryCounts'
  <2>1. told' = told /\ told \in 0..told /\ entry' = entry
    BY <1>1, HistoryCounters DEF server
  <2>2. entry # NoQuery => entry \in Queries
    BY DEF HistoryTypeOK
  <2> QED BY <1>1, <1>2, <1>5, <2>1, <2>2 DEF EntryCounts
<1>7. ReadersServed'
  <2>1. \A r \in Reads : reads[r].at = "waiting" => reads[r].owed \in 0..told
    BY ReadFields DEF ReadsOwed, HistoryTypeOK
  <2> QED BY <1>1, <1>2, <1>5, <2>1, ReadFields DEF ReadersServed
<1> QED BY <1>3, <1>4, <1>6, <1>7

\* A query fails, or leaves the cache, or is no longer referred to.
LEMMA ForgetConsistent ==
  ASSUME HistoryConsistent,
         ServerForgets \/ \E q \in Queries : CountFails(q) \/ Reuse(q)
  PROVE  HistoryConsistent'
<1> USE EarningsHistoryAssumption DEF HistoryConsistent
<1>1. CASE ServerForgets
  BY <1>1 DEF ServerForgets, HistoryTypeOK, WireTold, ReadsOwed, PendingIsNew, QueriesUpToDate,
     EntryCounts, ReadersServed, CachedIsFresh, CacheIsValid, server, socket
<1>2. ASSUME NEW q \in Queries, CountFails(q) \/ Reuse(q) PROVE HistoryConsistent'
  <2>1. /\ queries' = [queries EXCEPT ![q] = Unused]
        /\ entry' # q /\ (entry' # NoQuery => entry' = entry)
        /\ entry' \in Queries \union {NoQuery}
        /\ \A r \in Reads : \/ reads'[r] = Resting
                            \/ reads'[r] = reads[r] /\ reads[r].query # q
        /\ reads' \in [Reads -> [at : {"resting", "sent", "waiting"},
                               query : Queries \union {NoQuery},
                               generation : Nat, owed : 0..MaxSales]]
        /\ pending' \subseteq pending /\ \A r \in pending' : reads'[r] = reads[r]
        /\ UNCHANGED <<server, heard, cached, generation, socket, clears>>
    <3>1. CASE CountFails(q)
      BY <3>1 DEF CountFails, HistoryTypeOK, Resting
    <3>2. CASE Reuse(q)
      BY <3>2 DEF Reuse, HistoryTypeOK
    <3> QED BY <1>2, <3>1, <3>2
  <2>2. /\ queries'[q].at = "unused" /\ \A k \in Queries \ {q} : queries'[k] = queries[k]
        /\ queries' \in [Queries -> [at : {"unused", "asked", "counted"}, end : 0..MaxIntervals,
                                   upTo : 0..MaxSales, count : 0..MaxSales]]
    BY <2>1 DEF HistoryTypeOK, Unused
  <2>3. HistoryTypeOK' /\ WireTold' /\ CachedIsFresh'
    BY <2>1, <2>2 DEF HistoryTypeOK, WireTold, CachedIsFresh, CacheIsValid, server, socket
  <2>4. ReadsOwed' /\ PendingIsNew'
    <3>1. /\ generation' = generation /\ heard' = heard /\ told' = told
          /\ pending \subseteq Reads
      BY <2>1 DEF server, HistoryTypeOK
    <3>2. ReadsOwed'
      BY <2>1, <3>1 DEF ReadsOwed, Resting
    <3>3. PendingIsNew'
      BY <2>1, <3>1 DEF PendingIsNew
    <3> QED BY <3>2, <3>3
  <2>5. QueriesUpToDate' /\ EntryCounts'
    BY <2>1, <2>2 DEF QueriesUpToDate, EntryCounts, HistoryTypeOK, server
  <2>6. ReadersServed'
    BY <2>1, <2>2, ReadFields DEF ReadersServed, Resting
  <2> QED BY <2>3, <2>4, <2>5, <2>6
<1> QED BY <1>1, <1>2

\* A read that is asked for shares the one under way, which is owed the same.
LEMMA ReadConsistent ==
  ASSUME HistoryConsistent, Read
  PROVE  HistoryConsistent'
<1> USE EarningsHistoryAssumption DEF HistoryConsistent
<1>1. /\ cached' = Nothing
      /\ UNCHANGED <<server, heard, queries, entry, generation, socket, clears>>
  BY DEF Read
<1>2. CachedIsFresh'
  <2>1. interval' \in Nat
    BY <1>1, HistoryCounters DEF server
  <2> QED BY <1>1, <2>1 DEF CachedIsFresh, CacheIsValid, Nothing
<1>3. WireTold' /\ QueriesUpToDate' /\ EntryCounts'
  BY <1>1 DEF WireTold, QueriesUpToDate, EntryCounts, server, socket
<1>4. CASE pending # {}
  <2>1. /\ \A r \in pending : [reads[r] EXCEPT !.owed = heard] = reads[r]
        /\ reads \in [Reads -> [at : {"resting", "sent", "waiting"},
                              query : Queries \union {NoQuery},
                              generation : Nat, owed : 0..MaxSales]]
    <3>1. reads \in [Reads -> [at : {"resting", "sent", "waiting"},
                             query : Queries \union {NoQuery},
                             generation : Nat, owed : 0..MaxSales]]
      BY DEF HistoryTypeOK
    <3>2. \A r \in pending : r \in Reads /\ reads[r].owed = heard
      BY DEF PendingIsNew, ReadsOwed, HistoryTypeOK
    <3> QED BY <3>1, <3>2
  <2>2. reads' = [r \in Reads |-> IF r \in pending
                    THEN [reads[r] EXCEPT !.owed = heard] ELSE reads[r]] /\ pending' = pending
    BY <1>4 DEF Read
  <2>3. reads' = reads
    BY <2>1, <2>2
  <2>4. cached' \in [end : -1..MaxIntervals, count : 0..MaxSales]
    BY <1>1 DEF Nothing
  <2>5. UNCHANGED <<sales, written, told, heard, interval, closed, queries, entry, generation,
                    wire, listening, joins, clears>>
    BY <1>1 DEF server, socket
  <2>6. HistoryTypeOK'
    BY <2>2, <2>3, <2>4, <2>5 DEF HistoryTypeOK
  <2>7. ReadsOwed' /\ PendingIsNew' /\ ReadersServed'
    BY <2>2, <2>3, <2>5 DEF ReadsOwed, PendingIsNew, ReadersServed
  <2> QED BY <1>2, <1>3, <2>6, <2>7
<1>5. CASE pending = {}
  <2>1. PICK r \in Reads :
          /\ reads[r].at = "resting" /\ pending' = {r}
          /\ reads' = [reads EXCEPT ![r] =
               [at |-> "sent", query |-> NoQuery, generation |-> generation, owed |-> heard]]
    BY <1>5 DEF Read
  <2>2. /\ reads'[r] = [at |-> "sent", query |-> NoQuery, generation |-> generation, owed |-> heard]
        /\ \A s \in Reads \ {r} : reads'[s] = reads[s]
        /\ reads' \in [Reads -> [at : {"resting", "sent", "waiting"},
                               query : Queries \union {NoQuery},
                               generation : Nat, owed : 0..MaxSales]]
    <3>1. /\ reads \in [Reads -> [at : {"resting", "sent", "waiting"},
                                query : Queries \union {NoQuery},
                                generation : Nat, owed : 0..MaxSales]]
          /\ heard \in 0..MaxSales /\ generation \in Nat
      <4>1. heard \in 0..MaxSales /\ generation \in Nat
        BY HistoryCounters
      <4> QED BY <4>1 DEF HistoryTypeOK
    <3> QED BY <2>1, <3>1
  <2>3. HistoryTypeOK'
    <3>1. cached' \in [end : -1..MaxIntervals, count : 0..MaxSales]
      BY <1>1 DEF Nothing
    <3>2. pending' \subseteq Reads /\ \A i, j \in pending' : i = j
      BY <2>1
    <3>3. UNCHANGED <<sales, written, told, heard, interval, closed, queries, entry, generation,
                      wire, listening, joins, clears>>
      BY <1>1 DEF server, socket
    <3> QED BY <2>2, <3>1, <3>2, <3>3 DEF HistoryTypeOK
  <2>4. ReadsOwed' /\ PendingIsNew'
    <3>1. generation' = generation /\ heard' = heard /\ told' = told /\ heard <= told
          /\ generation \in Nat /\ heard \in Nat
      BY <1>1, HistoryCounters DEF server
    <3>2. ReadsOwed'
      BY <2>2, <3>1 DEF ReadsOwed
    <3>3. PendingIsNew'
      BY <2>1, <2>2, <3>1 DEF PendingIsNew
    <3> QED BY <3>2, <3>3
  <2>5. ReadersServed'
    BY <1>1, <2>2 DEF ReadersServed
  <2> QED BY <1>2, <1>3, <2>3, <2>4, <2>5
<1> QED BY <1>4, <1>5

\* An answer is kept only if nothing was dropped since it was asked for, so
\* that its reader knew what the browser knows.
LEMMA DeliverConsistent ==
  ASSUME HistoryConsistent, NEW r \in Reads, Deliver(r)
  PROVE  HistoryConsistent'
<1> USE EarningsHistoryAssumption DEF HistoryConsistent
<1>1. PICK q \in Queries : q = reads[r].query
  BY ReadFields DEF Deliver, ReadersServed
<1>2. /\ reads[r].at = "waiting" /\ queries[q].at = "counted"
      /\ cached' = IF reads[r].generation = generation /\ queries[q].end = interval
                   THEN [end |-> queries[q].end, count |-> queries[q].count] ELSE cached
      /\ reads' = [reads EXCEPT ![r] = Resting] /\ pending' = pending \ {r}
      /\ UNCHANGED <<server, heard, queries, entry, generation, socket, clears>>
  BY <1>1 DEF Deliver
<1>3. /\ reads'[r] = Resting /\ \A s \in Reads \ {r} : reads'[s] = reads[s]
      /\ reads' \in [Reads -> [at : {"resting", "sent", "waiting"},
                             query : Queries \union {NoQuery},
                             generation : Nat, owed : 0..MaxSales]]
  <2>1. Resting \in [at : {"resting", "sent", "waiting"}, query : Queries \union {NoQuery},
                     generation : Nat, owed : 0..MaxSales]
    BY DEF Resting
  <2> QED BY <1>2, <2>1 DEF HistoryTypeOK
<1>4. cached' \in [end : -1..MaxIntervals, count : 0..MaxSales]
  <2>1. cached \in [end : -1..MaxIntervals, count : 0..MaxSales]
    BY DEF HistoryTypeOK
  <2> QED BY <1>2, <2>1, QueryFields
<1>5. HistoryTypeOK' /\ WireTold' /\ QueriesUpToDate' /\ EntryCounts'
  BY <1>2, <1>3, <1>4 DEF HistoryTypeOK, WireTold, QueriesUpToDate, EntryCounts, server, socket
<1>6. ReadsOwed' /\ PendingIsNew'
  <2>1. generation' = generation /\ heard' = heard /\ told' = told /\ pending \subseteq Reads
    BY <1>2 DEF server, HistoryTypeOK
  <2>2. ReadsOwed'
    BY <1>3, <2>1 DEF ReadsOwed, Resting
  <2>3. PendingIsNew'
    BY <1>2, <1>3, <2>1 DEF PendingIsNew
  <2> QED BY <2>2, <2>3
<1>7. ReadersServed'
  BY <1>2, <1>3 DEF ReadersServed, Resting
<1>8. CachedIsFresh'
  <2>1. interval' = interval /\ heard' = heard /\ closed' = closed /\ interval \in Nat
    BY <1>2, HistoryCounters DEF server
  <2>2. CASE reads[r].generation = generation /\ queries[q].end = interval
    <3>1. reads[r].owed = heard
      BY <1>2, <2>2 DEF ReadsOwed
    <3>2. queries[q].upTo = closed
      BY <1>2, <2>2 DEF QueriesUpToDate
    <3>3. queries[q].count >= Min2(heard, closed)
      BY <1>1, <1>2, <3>1, <3>2 DEF ReadersServed
    <3> QED BY <1>2, <2>1, <2>2, <3>3 DEF CachedIsFresh, CacheIsValid
  <2>3. CASE ~(reads[r].generation = generation /\ queries[q].end = interval)
    BY <1>2, <2>1, <2>3 DEF CachedIsFresh, CacheIsValid
  <2> QED BY <2>2, <2>3
<1> QED BY <1>5, <1>6, <1>7, <1>8

\* Dropping everything begins a generation nobody has read in.
LEMMA DropConsistent ==
  ASSUME HistoryConsistent, DropAll, heard' \in 0..told, clears' \in 0..MaxClears,
         wire' \in Seq(Messages), WireTold',
         UNCHANGED <<server, queries, entry, reads, listening, joins>>
  PROVE  HistoryConsistent'
<1> USE EarningsHistoryAssumption DEF HistoryConsistent
<1>1. generation' = generation + 1 /\ pending' = {} /\ cached' = Nothing
  BY DEF DropAll
<1>2. HistoryTypeOK'
  BY <1>1 DEF HistoryTypeOK, Nothing, server
<1>3. QueriesUpToDate' /\ EntryCounts' /\ ReadersServed'
  BY DEF QueriesUpToDate, EntryCounts, ReadersServed, server
<1>4. ReadsOwed' /\ PendingIsNew'
  <2>1. told' = told /\ generation \in Nat
    BY HistoryCounters DEF server
  <2> QED BY <1>1, <2>1, ReadFields DEF ReadsOwed, PendingIsNew
<1>5. CachedIsFresh'
  <2>1. interval' \in Nat
    BY HistoryCounters DEF server
  <2> QED BY <1>1, <2>1 DEF CachedIsFresh, CacheIsValid, Nothing
<1> QED BY <1>2, <1>3, <1>4, <1>5

\* What the socket brings, and what the user changes.
LEMMA SocketConsistent ==
  ASSUME HistoryConsistent,
         Join \/ LoseConnection \/ Handle \/ UserChanges \/ BrowserForgets
  PROVE  HistoryConsistent'
<1> USE EarningsHistoryAssumption DEF HistoryConsistent
<1>1. CASE Join
  <2>1. wire' \in Seq(Messages) /\ WireTold'
    <3>1. told' = told /\ told \in Nat
      BY <1>1, HistoryCounters DEF Join, server
    <3>2. [type |-> "statuses", sales |-> told] \in Messages
      BY <3>1 DEF Messages
    <3> QED BY <1>1, <3>1, <3>2 DEF Join, WireTold
  <2>2. joins' \in 0..(MaxClears + 1) /\ listening' \in BOOLEAN
        /\ UNCHANGED <<server, heard, queries, entry, reads, pending, cached, generation, clears>>
    BY <1>1 DEF Join, HistoryTypeOK
  <2> QED BY <2>1, <2>2 DEF HistoryTypeOK, ReadsOwed, PendingIsNew, QueriesUpToDate, EntryCounts,
                            ReadersServed, CachedIsFresh, CacheIsValid, server
<1>2. CASE LoseConnection
  <2>1. wire' \in Seq(Messages) /\ WireTold'
    BY <1>2 DEF LoseConnection, WireTold
  <2>2. clears' \in 0..MaxClears /\ listening' \in BOOLEAN
        /\ UNCHANGED <<server, heard, queries, entry, reads, pending, cached, generation, joins>>
    <3>1. clears \in 0..MaxClears /\ MaxClears \in Nat
      BY DEF HistoryTypeOK
    <3>2. clears < MaxClears /\ clears' = clears + 1 /\ listening' = FALSE
          /\ UNCHANGED <<server, heard, queries, entry, reads, pending, cached, generation, joins>>
      BY <1>2 DEF LoseConnection
    <3>3. clears' \in 0..MaxClears
      BY <3>1, <3>2
    <3>4. listening' \in BOOLEAN
      BY <3>2, Zenon
    <3> QED BY <3>2, <3>3, <3>4
  <2> QED BY <2>1, <2>2 DEF HistoryTypeOK, ReadsOwed, PendingIsNew, QueriesUpToDate, EntryCounts,
                            ReadersServed, CachedIsFresh, CacheIsValid, server
<1>3. CASE Handle
  <2>1. /\ wire # <<>> /\ wire' = Tail(wire) /\ wire \in Seq(Messages)
        /\ UNCHANGED <<server, queries, entry, reads, listening, joins, clears>>
        /\ told' = told
    BY <1>3 DEF Handle, HistoryTypeOK, server
  <2>2. wire' \in Seq(Messages) /\ \A i \in 1..Len(wire') : wire'[i] = wire[i + 1] /\ i + 1 \in 1..Len(wire)
    BY <2>1
  <2>3. WireTold'
    BY <2>1, <2>2 DEF WireTold
  <2>4. clears' \in 0..MaxClears
    BY <2>1 DEF HistoryTypeOK
  <2>5. CASE Head(wire).type = "account_sale" \/ joins > 1
    <3>1. heard' = Head(wire).sales /\ DropAll
      BY <1>3, <2>5 DEF Handle
    <3>2. Head(wire) = wire[1] /\ 1 \in 1..Len(wire) /\ wire[1] \in Messages
      BY <2>1
    <3>3. heard' \in 0..told
      <4>1. wire[1].sales \in Nat /\ told \in Nat
        BY <3>2, HistoryCounters DEF Messages
      <4> QED BY <3>1, <3>2, <4>1 DEF WireTold
    <3> QED BY <2>1, <2>2, <2>3, <2>4, <3>1, <3>3, DropConsistent
  <2>6. CASE ~(Head(wire).type = "account_sale" \/ joins > 1)
    <3>1. UNCHANGED <<heard, generation, pending, cached>>
      BY <1>3, <2>6 DEF Handle
    <3> QED BY <2>1, <2>2, <2>3, <3>1
            DEF HistoryTypeOK, ReadsOwed, PendingIsNew, QueriesUpToDate, EntryCounts,
                ReadersServed, CachedIsFresh, CacheIsValid, server
  <2> QED BY <2>5, <2>6
<1>4. CASE UserChanges
  <2>1. heard' \in 0..told /\ clears' \in 0..MaxClears /\ wire' \in Seq(Messages) /\ WireTold'
    BY <1>4 DEF UserChanges, HistoryTypeOK, WireTold, server, socket
  <2> QED BY <1>4, <2>1, DropConsistent DEF UserChanges, socket
<1>5. CASE BrowserForgets
  <2>1. CachedIsFresh' /\ cached' \in [end : -1..MaxIntervals, count : 0..MaxSales]
    <3>1. interval' \in Nat
      BY <1>5, HistoryCounters DEF BrowserForgets, server
    <3> QED BY <1>5, <3>1 DEF BrowserForgets, CachedIsFresh, CacheIsValid, Nothing
  <2> QED BY <1>5, <2>1 DEF BrowserForgets, HistoryTypeOK, WireTold, ReadsOwed, PendingIsNew,
     QueriesUpToDate, EntryCounts, ReadersServed, server, socket
<1> QED BY <1>1, <1>2, <1>3, <1>4, <1>5

\* Every step of the history keeps its invariant.
LEMMA HistoryStep ==
  ASSUME HistoryConsistent, [HistoryNext]_historyVars
  PROVE  HistoryConsistent'
<1>1. CASE HistoryNext
  BY <1>1, SalesConsistent, ServeConsistent, CountConsistent, ForgetConsistent, ReadConsistent,
     DeliverConsistent, SocketConsistent DEF HistoryNext
<1>2. CASE UNCHANGED historyVars
  BY <1>2 DEF historyVars, HistoryConsistent, HistoryTypeOK, WireTold, ReadsOwed, PendingIsNew,
     QueriesUpToDate, EntryCounts, ReadersServed, CachedIsFresh, CacheIsValid
<1> QED BY <1>1, <1>2

\* The invariant is what a reader is promised.
LEMMA HistoryIsFresh == HistoryConsistent => ReadIsFresh
BY DEF HistoryConsistent, ReadersServed, CachedIsFresh, ReadIsFresh

-----------------------------------------------------------------------------
(***************************************************************************)
(* The chain of status writes.                                             *)
(***************************************************************************)

\* While the process is down nothing is queued, and the supervisor it will
\* register is offline.
DownIsEmpty == ~up => queue = <<>> /\ status = Offline

StatusConsistent == TypeOK /\ ChainEndsInStatus /\ DownIsEmpty

\* The process is down, and nothing is queued.
LEMMA StatusInitConsistent == Init => StatusConsistent
<1> SUFFICES ASSUME Init PROVE StatusConsistent
  OBVIOUS
<1>1. queue \in Seq(Statuses)
  BY DEF Init
<1>2. TypeOK
  <2>1. up \in BOOLEAN
    BY Zenon DEF Init
  <2>2. /\ status \in Statuses /\ column \in Statuses /\ changes \in 0..MaxChanges
        /\ lastRequested \in Statuses \union {Undefined} /\ faults \in 0..MaxFaults
    BY StatusPersistenceAssumption DEF Init
  <2> QED BY <1>1, <2>1, <2>2 DEF TypeOK
<1>3. lastRequested = Undefined /\ queue = <<>> /\ status = Offline
  BY DEF Init
<1> QED BY <1>2, <1>3 DEF StatusConsistent, ChainEndsInStatus, DownIsEmpty

\* What is left of the chain ends as before; its only write ends it.
LEMMA ChainTail ==
  ASSUME queue \in Seq(Statuses), queue # <<>>
  PROVE  /\ Head(queue) \in Statuses /\ Tail(queue) \in Seq(Statuses)
         /\ Tail(queue) = <<>> => Head(queue) = queue[Len(queue)]
         /\ Tail(queue) # <<>> => Tail(queue)[Len(Tail(queue))] = queue[Len(queue)]
<1>1. Len(queue) \in Nat \ {0} /\ Len(Tail(queue)) = Len(queue) - 1 /\ Tail(queue) \in Seq(Statuses)
  OBVIOUS
<1>2. Head(queue) = queue[1] /\ queue[1] \in Statuses
  BY <1>1
<1>3. Tail(queue) = <<>> => Head(queue) = queue[Len(queue)]
  <2>1. Tail(queue) = <<>> => Len(queue) = 1
    <3> SUFFICES ASSUME Tail(queue) = <<>> PROVE Len(queue) = 1
      OBVIOUS
    <3>1. PICK rest : rest = Tail(queue)
      OBVIOUS
    <3>2. rest = <<>> /\ Len(rest) = Len(queue) - 1
      BY <1>1, <3>1, Zenon
    <3>3. Len(rest) = 0
      BY <3>2
    <3>4. PICK length \in Nat : length = Len(queue)
      BY <1>1
    <3>5. 0 = length - 1
      BY <3>2, <3>3, <3>4, Zenon
    <3> QED BY <3>4, <3>5
  <2> QED BY <1>2, <2>1
<1>4. Tail(queue) # <<>> => Tail(queue)[Len(Tail(queue))] = queue[Len(queue)]
  BY <1>1
<1> QED BY <1>1, <1>2, <1>3, <1>4

\* A write of the status is chained, unless it was the last one chained.
LEMMA PersistConsistent ==
  ASSUME StatusConsistent, up, up' = up, column' = column, faults' = faults,
         status' \in Statuses, changes' \in 0..MaxChanges, Persist(status')
  PROVE  StatusConsistent'
<1>1. lastRequested \in Statuses \union {Undefined} /\ queue \in Seq(Statuses)
  BY DEF StatusConsistent, TypeOK
<1>2. CASE status' = lastRequested
  <2>1. status' = status /\ lastRequested' = lastRequested /\ queue' = queue
    BY <1>1, <1>2, StatusPersistenceAssumption DEF Persist, StatusConsistent, ChainEndsInStatus
  <2> QED BY <1>2, <2>1 DEF StatusConsistent, TypeOK, ChainEndsInStatus, DownIsEmpty
<1>3. CASE status' # lastRequested
  <2>1. lastRequested' = status' /\ queue' = Append(queue, status')
    BY <1>3 DEF Persist
  <2>2. queue' \in Seq(Statuses) /\ queue' # <<>> /\ queue'[Len(queue')] = status'
    BY <1>1, <2>1
  <2> QED BY <2>1, <2>2 DEF StatusConsistent, TypeOK, ChainEndsInStatus, DownIsEmpty
<1> QED BY <1>2, <1>3

\* A step of the chain keeps all of it.
LEMMA StatusStep ==
  ASSUME StatusConsistent, [Next]_vars
  PROVE  StatusConsistent'
<1> USE StatusPersistenceAssumption
<1>1. CASE StatusChanges
  BY <1>1, PersistConsistent DEF StatusChanges, StatusConsistent, TypeOK
<1>2. CASE SnapshotRepeats
  <2>1. Persist(status') /\ status' \in Statuses /\ changes' \in 0..MaxChanges
    BY <1>2 DEF SnapshotRepeats, StatusConsistent, TypeOK, Persist
  <2> QED BY <1>2, <2>1, PersistConsistent DEF SnapshotRepeats
<1>3. CASE WriteSucceeds
  <2>1. /\ queue # <<>> /\ column' = Head(queue) /\ queue' = Tail(queue)
        /\ UNCHANGED <<up, status, lastRequested, changes, faults>>
    BY <1>3 DEF WriteSucceeds
  <2>2. queue \in Seq(Statuses)
    BY DEF StatusConsistent, TypeOK
  <2> QED BY <2>1, <2>2, ChainTail DEF StatusConsistent, TypeOK, ChainEndsInStatus, DownIsEmpty
<1>4. CASE WriteFails
  <2>1. /\ queue # <<>> /\ column' \in {column, Head(queue)} /\ queue' = Tail(queue)
        /\ lastRequested' = IF lastRequested = Head(queue) THEN Undefined ELSE lastRequested
        /\ UNCHANGED <<up, status, changes>> /\ faults' \in 0..MaxFaults
    BY <1>4 DEF WriteFails, StatusConsistent, TypeOK
  <2>2. queue \in Seq(Statuses)
    BY DEF StatusConsistent, TypeOK
  <2>3. TypeOK'
    BY <2>1, <2>2, ChainTail DEF StatusConsistent, TypeOK
  <2>4. up
    BY <2>1 DEF StatusConsistent, DownIsEmpty
  <2>5. ChainEndsInStatus'
    <3> SUFFICES ASSUME lastRequested' # Undefined PROVE ChainEndsInStatus'
      BY DEF ChainEndsInStatus
    <3>1. lastRequested' = lastRequested /\ lastRequested # Head(queue) /\ lastRequested # Undefined
      BY <2>1
    <3>2. lastRequested = status /\ queue[Len(queue)] = status
      BY <2>1, <2>4, <3>1 DEF StatusConsistent, ChainEndsInStatus
    <3>3. Tail(queue) # <<>> /\ Tail(queue)[Len(Tail(queue))] = status
      BY <2>1, <2>2, <3>1, <3>2, ChainTail
    <3> QED BY <2>1, <3>1, <3>2, <3>3 DEF ChainEndsInStatus
  <2> QED BY <2>1, <2>3, <2>4, <2>5 DEF StatusConsistent, DownIsEmpty
<1>5. CASE Crash
  <2>1. column' \in Statuses
    <3>1. queue \in Seq(Statuses) /\ column \in Statuses
      BY DEF StatusConsistent, TypeOK
    <3> QED BY <1>5, <3>1 DEF Crash
  <2>2. ~up' /\ queue' = <<>> /\ status' = Offline /\ lastRequested' = Undefined
        /\ changes' = changes /\ faults < MaxFaults /\ faults' = faults + 1
    BY <1>5 DEF Crash
  <2>3. up' \in BOOLEAN /\ queue' \in Seq(Statuses)
    <3>1. up' \in BOOLEAN
      BY <1>5, Zenon DEF Crash
    <3>2. queue' \in Seq(Statuses)
      BY <2>2
    <3> QED BY <3>1, <3>2
  <2>4. changes' \in 0..MaxChanges /\ faults' \in 0..MaxFaults
    BY <2>2 DEF StatusConsistent, TypeOK
  <2>5. TypeOK'
    BY <2>1, <2>2, <2>3, <2>4 DEF TypeOK
  <2> QED BY <2>2, <2>5 DEF StatusConsistent, ChainEndsInStatus, DownIsEmpty
<1>6. CASE LoadAll
  BY <1>6 DEF LoadAll, StatusConsistent, TypeOK, ChainEndsInStatus, DownIsEmpty
<1>7. CASE UNCHANGED vars
  BY <1>7 DEF vars, StatusConsistent, TypeOK, ChainEndsInStatus, DownIsEmpty
<1> QED BY <1>1, <1>2, <1>3, <1>4, <1>5, <1>6, <1>7 DEF Next

-----------------------------------------------------------------------------
(***************************************************************************)
(* The duties of the supervisor: the pause before a restart of the server, *)
(* and the cadence of the crouch checks.                                   *)
(***************************************************************************)

\* A stop of the user holds; and the pause of every controller that has begun
\* reaches past the restart, before it signs in as well as after.
StopHolds == stopOrdered => phase = "stopped"
PauseSuffices ==
  configured \/ phase = "attempting" => pause.until >= restartIn + SellCooldown

ChecksCounted == restartCheck # Off => checksLeft # 0

DutiesConsistent ==
  DutiesTypeOK /\ StopHolds /\ PauseSuffices /\ ChecksCounted /\ CadenceFollowsWish

\* The window in which a restart is checked for is a natural number.
LEMMA WindowType == RestartChecks * CheckInterval \in Nat
BY DutiesAssumption

\* A pause lasts to the end of the cool-down.
LEMMA PauseWindow ==
  ASSUME NEW due \in Int, due >= Past, Announced(due)
  PROVE  /\ SellPauseWindow(due) \in [from : Nat, until : Nat]
         /\ Announced(SellPauseWindow(due).from)
         /\ Announced(SellPauseWindow(due).until - SellCooldown)
         /\ SellPauseWindow(due).until >= due + SellCooldown
BY DutiesAssumption DEF SellPauseWindow, NoPause, Positive, Past, Announced

\* No pause is a pause that has passed.
LEMMA NoPauseType ==
  /\ NoPause \in [from : Nat, until : Nat]
  /\ Announced(NoPause.from) /\ Announced(NoPause.until - SellCooldown)
BY DutiesAssumption DEF NoPause, Announced

\* The cadence after setStatus, disconnect or updateConfig.
LEMMA SyncKeepsCadence ==
  ASSUME DutiesConsistent, Account!TypeOK', crouchEnabled' \in BOOLEAN, SyncPeriodicCrouchChecks,
         phase' = "online" => ~stopOrdered'
  PROVE  /\ periodicCheck' \in {Off} \union (0..CheckPeriod)
         /\ periodicPending' \in BOOLEAN
         /\ CadenceFollowsWish'
<1> USE DutiesAssumption DEF DutiesConsistent
<1>1. CASE stopOrdered' \/ ~crouchEnabled' \/ phase' = "failed"
  BY <1>1 DEF Account!TypeOK, CadenceFollowsWish, SyncPeriodicCrouchChecks, Off
<1>2. CASE ~(stopOrdered' \/ ~crouchEnabled' \/ phase' = "failed") /\ phase' = "online"
  <2>1. periodicPending' = FALSE
        /\ periodicCheck' = IF periodicCheck = Off THEN CheckPeriod ELSE periodicCheck
    BY <1>2 DEF SyncPeriodicCrouchChecks
  <2>2. periodicCheck' \in 0..CheckPeriod
    BY <2>1 DEF DutiesTypeOK, Off
  <2>3. CadenceFollowsWish'
    BY <1>2, <2>1, <2>2 DEF Account!TypeOK, CadenceFollowsWish, Off
  <2> QED BY <2>1, <2>2, <2>3
<1>3. CASE ~(stopOrdered' \/ ~crouchEnabled' \/ phase' = "failed") /\ phase' # "online"
  BY <1>3 DEF Account!TypeOK, DutiesTypeOK, CadenceFollowsWish, SyncPeriodicCrouchChecks
<1> QED BY <1>1, <1>2, <1>3

\* A supervisor that was just registered.
LEMMA DutiesInitConsistent == DutiesInit => DutiesConsistent
<1> SUFFICES ASSUME DutiesInit PROVE DutiesConsistent
  OBVIOUS
<1> USE DutiesAssumption DEF DutiesInit
<1>1. Account!TypeOK /\ StopHolds /\ PauseSuffices
  BY DEF Account!Init, Account!TypeOK, Account!Phases, StopHolds, PauseSuffices
<1>2. /\ pause \in [from : Nat, until : Nat]
      /\ Announced(pause.from) /\ Announced(pause.until - SellCooldown)
  BY NoPauseType
<1>3. /\ restartIn \in Int /\ restartIn >= Past /\ Announced(restartIn)
      /\ checkedRestartIn \in PastChecked..ShortNotice
  BY DEF Past, PastChecked, Announced
<1>4. ChecksCounted /\ CadenceFollowsWish
  BY DEF ChecksCounted, CadenceFollowsWish, Account!Init
<1>5. restartCheck = Off /\ checksLeft \in 0..RestartChecks
      /\ windowLeft = Off /\ periodicCheck = Off
  OBVIOUS
<1> HIDE DEF DutiesInit
<1>6. {crouchEnabled, toldCrouch, configured, restartPending, periodicPending} \subseteq BOOLEAN
  BY DEF DutiesInit
<1> QED BY <1>1, <1>2, <1>3, <1>4, <1>5, <1>6 DEF DutiesConsistent, DutiesTypeOK

\* A controller begins, or the connection ends.
LEMMA ReconnectConsistent ==
  ASSUME DutiesConsistent, Reconnect
  PROVE  DutiesConsistent'
<1> USE DutiesAssumption DEF DutiesConsistent
<1>1. Account!TypeOK' /\ StopHolds' /\ phase' # "online"
  <2>1. \/ Account!Start \/ Account!Stop \/ Account!Restart \/ Account!Resume \/ Account!Lose
    BY DEF Reconnect
  <2>2. phase \in Account!Phases /\ stopOrdered \in BOOLEAN /\ StopHolds
    BY DEF DutiesTypeOK, Account!TypeOK
  <2>3. CASE Account!Start \/ Account!Resume
    <3>1. phase' \in {"attempting", "waiting", "failed"}
      BY <2>3 DEF Account!Start, Account!Resume, Account!Attempt
    <3>2. stopOrdered' = FALSE
      BY <2>2, <2>3 DEF Account!Start, Account!Resume, StopHolds
    <3> QED BY <3>1, <3>2 DEF StopHolds, Account!TypeOK, Account!Phases
  <2>4. CASE Account!Stop \/ Account!Restart
    BY <2>4 DEF StopHolds, Account!Stop, Account!Restart, Account!TypeOK, Account!Phases
  <2>5. CASE Account!Lose
    BY <2>2, <2>5 DEF StopHolds, Account!Lose, Account!TypeOK, Account!Phases
  <2> HIDE DEF DutiesConsistent
  <2> QED BY <2>1, <2>3, <2>4, <2>5
<1>2. UNCHANGED <<crouchEnabled, restarts, checks, restartPending>> /\ Replace
      /\ SyncPeriodicCrouchChecks
  BY DEF Reconnect
<1>3. /\ toldCrouch' \in BOOLEAN /\ configured' = FALSE
      /\ pause' \in [from : Nat, until : Nat]
      /\ Announced(pause.from)' /\ Announced(pause.until - SellCooldown)'
      /\ PauseSuffices'
  BY <1>2, PauseWindow, NoPauseType DEF Replace, PauseSuffices, DutiesTypeOK, restarts, Announced
<1>4. /\ periodicCheck' \in {Off} \union (0..CheckPeriod)
      /\ periodicPending' \in BOOLEAN
      /\ CadenceFollowsWish'
  BY <1>1, <1>2, SyncKeepsCadence DEF DutiesTypeOK
<1> QED BY <1>1, <1>2, <1>3, <1>4 DEF DutiesTypeOK, ChecksCounted, restarts, checks, Announced

\* The session of the attempt has signed in.
LEMMA ConfigureConsistent ==
  ASSUME DutiesConsistent, Configure
  PROVE  DutiesConsistent'
BY DEF DutiesConsistent, DutiesTypeOK, StopHolds, PauseSuffices, ChecksCounted, CadenceFollowsWish, Configure,
       Account!TypeOK, connection, restarts, checks, pendings, Announced

\* The player enters the world, or it again after a death.
LEMMA SpawnConsistent ==
  ASSUME DutiesConsistent, Spawn
  PROVE  DutiesConsistent'
<1> USE DutiesAssumption DEF DutiesConsistent
<1>1. Account!TypeOK' /\ StopHolds' /\ (phase' = "online" => ~stopOrdered')
  BY DEF Spawn, StopHolds, DutiesTypeOK, Account!Enter, Account!TypeOK, Account!Phases, connection
<1>2. /\ UNCHANGED <<crouchEnabled, toldCrouch, selling, restarts, checks>> /\ configured
      /\ restartPending' \in BOOLEAN
  BY DEF Spawn, DutiesTypeOK
<1>3. PauseSuffices'
  BY <1>2 DEF PauseSuffices, selling, restarts
<1>4. /\ periodicCheck' \in {Off} \union (0..CheckPeriod)
      /\ periodicPending' \in BOOLEAN
      /\ CadenceFollowsWish'
  <2>1. CASE phase = "online"
    BY <1>2, <2>1 DEF Spawn, DutiesTypeOK, CadenceFollowsWish, connection, Account!Enter
  <2>2. CASE phase # "online"
    BY <1>1, <1>2, <2>2, SyncKeepsCadence DEF Spawn, DutiesTypeOK
  <2> QED BY <2>1, <2>2
<1> QED BY <1>1, <1>2, <1>3, <1>4
        DEF DutiesTypeOK, ChecksCounted, selling, restarts, checks, Announced

\* The user changes the configuration while the account runs.
LEMMA UpdateConfigConsistent ==
  ASSUME DutiesConsistent, NEW enabled \in BOOLEAN, UpdateConfig(enabled)
  PROVE  DutiesConsistent'
<1> USE DutiesAssumption DEF DutiesConsistent
<1>1. /\ crouchEnabled' \in BOOLEAN /\ toldCrouch' \in BOOLEAN
      /\ UNCHANGED <<connection, selling, restarts, checks, restartPending>>
      /\ SyncPeriodicCrouchChecks
  BY DEF UpdateConfig, DutiesTypeOK
<1>2. /\ periodicCheck' \in {Off} \union (0..CheckPeriod)
      /\ periodicPending' \in BOOLEAN
      /\ CadenceFollowsWish'
  <2>1. Account!TypeOK' /\ (phase' = "online" => ~stopOrdered')
    BY <1>1 DEF connection, StopHolds, DutiesTypeOK, Account!TypeOK
  <2> QED BY <1>1, <2>1, SyncKeepsCadence DEF DutiesTypeOK
<1> QED BY <1>1, <1>2
        DEF DutiesTypeOK, StopHolds, PauseSuffices, ChecksCounted, Account!TypeOK, connection, selling, restarts,
            checks, Announced

\* The server announces a restart.
LEMMA AnnounceConsistent ==
  ASSUME DutiesConsistent, NEW notice \in Notices, AnnounceRestart(notice)
  PROVE  DutiesConsistent'
<1> USE DutiesAssumption DEF DutiesConsistent
<1>1. notice \in Int /\ notice >= Past /\ Announced(notice)
  BY DEF Past, Announced
<1>2. /\ restartIn' = notice /\ pause' = SellPauseWindow(notice)
      /\ UNCHANGED <<connection, crouchEnabled, toldCrouch, configured, periodicPending,
                     periodicCheck>>
  BY DEF AnnounceRestart
<1>3. /\ restartIn' \in Int /\ restartIn' >= Past /\ Announced(restartIn)'
      /\ pause' \in [from : Nat, until : Nat]
      /\ Announced(pause.from)' /\ Announced(pause.until - SellCooldown)'
      /\ PauseSuffices'
  BY <1>1, <1>2, PauseWindow DEF PauseSuffices, Announced
<1>4. /\ checkedRestartIn' \in PastChecked..ShortNotice
      /\ restartCheck' \in {Off} \union (0..CheckInterval)
      /\ checksLeft' \in 0..RestartChecks
      /\ windowLeft' \in {Off} \union (0..(RestartChecks * CheckInterval))
      /\ restartPending' \in BOOLEAN
      /\ ChecksCounted'
  <2>1. CASE UNCHANGED <<checkedRestartIn, checks, restartPending>>
    BY <2>1 DEF DutiesTypeOK, ChecksCounted, checks
  <2>2. CASE /\ notice <= ShortNotice /\ checkedRestartIn' = notice
             /\ restartCheck' = CheckInterval /\ checksLeft' = RestartChecks
             /\ windowLeft' = RestartChecks * CheckInterval /\ restartPending' = FALSE
    <3>1. windowLeft' \in 0..(RestartChecks * CheckInterval)
      BY <2>2, WindowType
    <3>2. checkedRestartIn' \in PastChecked..ShortNotice
      BY <1>1, <2>2 DEF PastChecked
    <3>3. /\ restartCheck' \in {Off} \union (0..CheckInterval)
          /\ checksLeft' \in 0..RestartChecks /\ ChecksCounted'
      BY <2>2 DEF ChecksCounted
    <3> QED BY <2>2, <3>1, <3>2, <3>3
  <2> QED BY <2>1, <2>2 DEF AnnounceRestart, ScheduleRestartCrouchChecks
<1> QED BY <1>2, <1>3, <1>4
        DEF DutiesTypeOK, StopHolds, ChecksCounted, CadenceFollowsWish, Account!TypeOK, connection

\* A crouch check is due.
LEMMA ChecksFireConsistent ==
  ASSUME DutiesConsistent, RestartCheckFires \/ PeriodicCheckFires
  PROVE  DutiesConsistent'
<1> USE DutiesAssumption DEF DutiesConsistent
<1>1. CASE RestartCheckFires
  BY <1>1 DEF RestartCheckFires, DutiesTypeOK, StopHolds, PauseSuffices, ChecksCounted, CadenceFollowsWish,
              Account!TypeOK, connection, selling, restarts, Announced, Off
<1>2. CASE PeriodicCheckFires
  BY <1>2 DEF PeriodicCheckFires, DutiesTypeOK, StopHolds, PauseSuffices, ChecksCounted, CadenceFollowsWish,
              Account!TypeOK, connection, selling, restarts, checks, Announced, Off
<1> QED BY <1>1, <1>2

\* Time passes.
LEMMA DutiesTickConsistent ==
  ASSUME DutiesConsistent, Tick
  PROVE  DutiesConsistent'
<1> USE DutiesAssumption DEF DutiesConsistent
<1>1. /\ restartIn' \in Int /\ restartIn' >= Past /\ Announced(restartIn)'
      /\ checkedRestartIn' \in PastChecked..ShortNotice
  BY DEF Tick, Nearer, DutiesTypeOK, Past, PastChecked, Announced
<1>2. /\ restartCheck' \in {Off} \union (0..CheckInterval)
      /\ windowLeft' \in {Off} \union (0..(RestartChecks * CheckInterval))
      /\ periodicCheck' \in {Off} \union (0..CheckPeriod)
      /\ periodicCheck' = Off <=> periodicCheck = Off
      /\ ChecksCounted'
  BY DEF Tick, Shorter, DutiesTypeOK, ChecksCounted, Off
<1>3. UNCHANGED <<connection, crouchEnabled, toldCrouch, configured, checksLeft, pendings>>
  BY DEF Tick
<1>4. /\ pause' \in [from : Nat, until : Nat]
      /\ Announced(pause.from)' /\ Announced(pause.until - SellCooldown)'
      /\ PauseSuffices'
  BY DEF Tick, Nearer, Positive, DutiesTypeOK, PauseSuffices, Past, Announced, connection
<1>5. StopHolds' /\ CadenceFollowsWish'
  BY <1>2, <1>3 DEF StopHolds, CadenceFollowsWish, connection, pendings
<1> QED BY <1>1, <1>2, <1>3, <1>4, <1>5 DEF DutiesTypeOK, Account!TypeOK, connection, pendings

\* A step of the duties keeps all of it.
LEMMA DutiesStep ==
  ASSUME DutiesConsistent, [DutiesNext]_dutyVars
  PROVE  DutiesConsistent'
<1>1. CASE DutiesNext
  BY <1>1, ReconnectConsistent, ConfigureConsistent, SpawnConsistent, UpdateConfigConsistent,
     AnnounceConsistent, ChecksFireConsistent, DutiesTickConsistent DEF DutiesNext
<1>2. CASE UNCHANGED dutyVars
  BY <1>2 DEF dutyVars, connection, selling, restarts, checks, pendings, DutiesConsistent,
              DutiesTypeOK, Account!TypeOK, StopHolds, PauseSuffices, ChecksCounted, CadenceFollowsWish, Announced
<1> QED BY <1>1, <1>2

\* The step of a due check that is dropped.
LEMMA DueChecksStep ==
  ASSUME DutiesConsistent, DutiesConsistent', [DutiesNext]_dutyVars, periodicPending, ~periodicPending'
  PROVE  phase' = "online" \/ phase' \in {"stopped", "failed"} \/ ~crouchEnabled'
<1> USE DEF DutiesConsistent
<1>1. CASE SyncPeriodicCrouchChecks
  BY <1>1 DEF SyncPeriodicCrouchChecks, StopHolds
<1>2. CASE Reconnect \/ Spawn \/ \E enabled \in BOOLEAN : UpdateConfig(enabled)
  BY <1>1, <1>2 DEF Reconnect, Spawn, UpdateConfig
<1>3. CASE PeriodicCheckFires
  BY <1>3 DEF PeriodicCheckFires, connection
<1>4. CASE \/ Configure \/ RestartCheckFires \/ Tick
           \/ \E notice \in Notices : AnnounceRestart(notice)
  BY <1>4 DEF Configure, RestartCheckFires, Tick, AnnounceRestart, pendings
<1>5. CASE UNCHANGED dutyVars
  BY <1>5 DEF dutyVars, pendings
<1> QED BY <1>2, <1>3, <1>4, <1>5 DEF DutiesNext

-----------------------------------------------------------------------------
(***************************************************************************)
(* The address bans: the table before the cache, one direction per address. *)
(***************************************************************************)

\* The requests under way for an address that no contrary request or failed
\* statement has parted all bring about the same, and once one of them awaits
\* only the cache, the table says so.
OneDirection ==
  \A i, j \in Inquiries :
    /\ inquiries[i] # NoInquiry /\ inquiries[i].does # "login" /\ inquiries[i].ip \notin parted
    /\ inquiries[j] # NoInquiry /\ inquiries[j].does # "login" /\ inquiries[j].ip = inquiries[i].ip
    => (inquiries[i].does = "unban") = (inquiries[j].does = "unban")

TableFirst ==
  \A i \in Inquiries :
    /\ inquiries[i] # NoInquiry /\ inquiries[i].at = "cache" /\ inquiries[i].ip \notin parted
    => (inquiries[i].ip \in bannedRows <=> inquiries[i].does # "unban")

BansConsistent == BansTypeOK /\ OneDirection /\ TableFirst /\ BansInForce

\* What an inquiry of the bans holds.
LEMMA InquiryFields ==
  ASSUME NEW inquiry \in Inquiry
  PROVE  /\ inquiry # NoInquiry
         /\ inquiry.ip \in Addresses
         /\ inquiry.does \in {"login", "ban", "auto", "unban"}
         /\ inquiry.at \in {"password", "table", "cache"}
         /\ inquiry.at = "password" <=> inquiry.does = "login"
         /\ inquiry.at = "table" => [inquiry EXCEPT !.at = "cache"] \in Inquiry
BY NoInquiryAssumption DEF Inquiry

\* A backend that starts has read the table.
LEMMA BansInitConsistent == BansInit => BansConsistent
<1> SUFFICES ASSUME BansInit PROVE BansConsistent
  OBVIOUS
<1> USE AddressBansAssumption
<1>1. BansTypeOK
  BY DEF BansInit, BansTypeOK
<1>2. OneDirection /\ TableFirst
  BY DEF BansInit, OneDirection, TableFirst
<1>3. BansInForce
  <2> SUFFICES ASSUME NEW ip \in Addresses
               PROVE  (ip \in bannedIps <=> ip \in bannedRows) /\ ~ failedLogins[ip] >= Threshold
    BY DEF BansInForce
  <2> QED BY DEF BansInit
<1> QED BY <1>1, <1>2, <1>3 DEF BansConsistent

\* Every step keeps the types.
LEMMA BansTypeStep ==
  ASSUME BansTypeOK, BansNext
  PROVE  BansTypeOK'
<1> USE AddressBansAssumption DEF BansTypeOK
<1>1. ASSUME NEW i \in Inquiries, NEW ip \in Addresses, NEW does \in {"ban", "unban"},
             Ruling(i, does, ip)
      PROVE  BansTypeOK'
  BY <1>1 DEF Ruling, GoesOn, PartedBy, Inquiry
<1>2. ASSUME NEW i \in Inquiries, NEW ip \in Addresses, LoginArrives(i, ip)
      PROVE  BansTypeOK'
  BY <1>2 DEF LoginArrives, GoesOn, Inquiry
<1>3. ASSUME NEW i \in Inquiries, LoginSucceeds(i)
      PROVE  BansTypeOK'
  BY <1>3, InquiryFields DEF LoginSucceeds, GoesOn
<1>4. ASSUME NEW i \in Inquiries, LoginFails(i)
      PROVE  BansTypeOK'
  <2> inquiries[i] \in Inquiry
    BY <1>4 DEF LoginFails
  <2> DEFINE ip == inquiries[i].ip
  <2> ip \in Addresses
    BY InquiryFields
  <2>1. PICK kept \in 0..failedLogins[ip] :
           failedLogins' = [failedLogins EXCEPT ![ip] = kept + 1]
    BY <1>4 DEF LoginFails
  <2>2. failedLogins' \in [Addresses -> Nat]
    BY <2>1
  <2>3. [does |-> "auto", ip |-> ip, at |-> "table"] \in Inquiry
    BY DEF Inquiry
  <2>4. inquiries' \in [Inquiries -> Inquiry \union {NoInquiry}] /\ parted' \subseteq Addresses
    BY <1>4, <2>3 DEF LoginFails, GoesOn, PartedBy
  <2> QED BY <1>4, <2>2, <2>4 DEF LoginFails
<1>5. ASSUME NEW i \in Inquiries, TableWritten(i) \/ TableFails(i) \/ CacheFollows(i)
      PROVE  BansTypeOK'
  <2> inquiries[i] \in Inquiry
    BY <1>5 DEF TableWritten, TableFails, CacheFollows
  <2>1. CASE TableWritten(i)
    BY <2>1, InquiryFields DEF TableWritten, Written, GoesOn
  <2>2. CASE TableFails(i)
    BY <2>2, InquiryFields DEF TableFails, Written, GoesOn
  <2>3. CASE CacheFollows(i)
    BY <2>3, InquiryFields DEF CacheFollows, GoesOn
  <2> QED BY <1>5, <2>1, <2>2, <2>3
<1>6. CASE RestartsWithBans
  BY <1>6 DEF RestartsWithBans
<1> QED BY <1>1, <1>2, <1>3, <1>4, <1>5, <1>6 DEF BansNext

\* The requests that concern an address, after a step that answers or changes
\* only the i-th.
LEMMA BansDirectionStep ==
  ASSUME BansConsistent, BansNext
  PROVE  OneDirection' /\ TableFirst'
<1> USE AddressBansAssumption, NoInquiryAssumption DEF BansConsistent, BansTypeOK
<1>1. ASSUME NEW i \in Inquiries, NEW ip \in Addresses, NEW does \in {"ban", "unban"},
             Ruling(i, does, ip)
      PROVE  OneDirection' /\ TableFirst'
  BY <1>1, InquiryFields DEF Ruling, GoesOn, PartedBy, About, OneDirection, TableFirst
<1>2. ASSUME NEW i \in Inquiries, NEW ip \in Addresses, LoginArrives(i, ip)
      PROVE  OneDirection' /\ TableFirst'
  BY <1>2, InquiryFields DEF LoginArrives, GoesOn, OneDirection, TableFirst
<1>3. ASSUME NEW i \in Inquiries, LoginSucceeds(i)
      PROVE  OneDirection' /\ TableFirst'
  BY <1>3, InquiryFields DEF LoginSucceeds, GoesOn, OneDirection, TableFirst
<1>4. ASSUME NEW i \in Inquiries, LoginFails(i)
      PROVE  OneDirection' /\ TableFirst'
  <2> DEFINE ip == inquiries[i].ip
  <2> inquiries[i] \in Inquiry /\ ip \in Addresses
    BY <1>4, InquiryFields DEF LoginFails
  <2>1. CASE inquiries' = [inquiries EXCEPT ![i] = NoInquiry] /\ parted' = parted
    BY <1>4, <2>1 DEF LoginFails, OneDirection, TableFirst
  <2>2. CASE /\ inquiries' = [inquiries EXCEPT ![i] = [does |-> "auto", ip |-> ip, at |-> "table"]]
             /\ parted' = parted \union PartedBy("auto", ip)
    BY <1>4, <2>2, InquiryFields DEF LoginFails, PartedBy, About, OneDirection, TableFirst
  <2> QED BY <1>4, <2>1, <2>2 DEF LoginFails, GoesOn
<1>5. ASSUME NEW i \in Inquiries, TableWritten(i)
      PROVE  OneDirection' /\ TableFirst'
  <2>1. inquiries[i] \in Inquiry /\ inquiries[i].does # "login"
    BY <1>5, InquiryFields DEF TableWritten
  <2>2. /\ inquiries' = [inquiries EXCEPT ![i] = [inquiries[i] EXCEPT !.at = "cache"]]
        /\ [inquiries[i] EXCEPT !.at = "cache"].does = inquiries[i].does
        /\ [inquiries[i] EXCEPT !.at = "cache"].ip = inquiries[i].ip
    BY <1>5, <2>1 DEF TableWritten, GoesOn, Inquiry
  <2>3. OneDirection'
    BY <1>5, <2>1, <2>2, InquiryFields DEF TableWritten, OneDirection
  <2>4. ASSUME NEW k \in Inquiries, inquiries'[k] # NoInquiry, inquiries'[k].at = "cache",
               inquiries'[k].ip \notin parted
        PROVE  inquiries'[k].ip \in bannedRows' <=> inquiries'[k].does # "unban"
    <3>1. bannedRows' = IF inquiries[i].does = "unban" THEN bannedRows \ {inquiries[i].ip}
                        ELSE bannedRows \union {inquiries[i].ip}
      BY <1>5 DEF TableWritten, Written
    <3>2. CASE k = i
      BY <2>2, <2>4, <3>1, <3>2
    <3>3. CASE k # i /\ inquiries[k].ip # inquiries[i].ip
      BY <2>2, <2>4, <3>1, <3>3 DEF TableFirst
    <3>4. CASE k # i /\ inquiries[k].ip = inquiries[i].ip
      <4>1. inquiries[k] \in Inquiry /\ inquiries[k].does # "login"
        BY <2>2, <2>4, <3>4, InquiryFields
      <4>2. (inquiries[k].does = "unban") = (inquiries[i].does = "unban")
        BY <2>1, <2>2, <2>4, <3>4, <4>1, InquiryFields DEF OneDirection
      <4> QED BY <2>2, <2>4, <3>1, <3>4, <4>2
    <3> QED BY <3>2, <3>3, <3>4
  <2>5. TableFirst'
    BY <1>5, <2>4 DEF TableWritten, TableFirst
  <2> QED BY <2>3, <2>5
<1>6. ASSUME NEW i \in Inquiries, TableFails(i)
      PROVE  OneDirection' /\ TableFirst'
  BY <1>6, InquiryFields DEF TableFails, Written, GoesOn, OneDirection, TableFirst
<1>7. ASSUME NEW i \in Inquiries, CacheFollows(i)
      PROVE  OneDirection' /\ TableFirst'
  BY <1>7, InquiryFields DEF CacheFollows, GoesOn, OneDirection, TableFirst
<1>8. CASE RestartsWithBans
  BY <1>8 DEF RestartsWithBans, OneDirection, TableFirst
<1> QED BY <1>1, <1>2, <1>3, <1>4, <1>5, <1>6, <1>7, <1>8 DEF BansNext

\* Every step keeps a ban in force, in the table and in the cache.
LEMMA BansForceStep ==
  ASSUME BansConsistent, BansNext
  PROVE  BansInForce'
<1> USE AddressBansAssumption, NoInquiryAssumption DEF BansConsistent, BansTypeOK
<1>1. ASSUME NEW i \in Inquiries, NEW ip \in Addresses, NEW does \in {"ban", "unban"},
             Ruling(i, does, ip)
      PROVE  BansInForce'
  BY <1>1, InquiryFields DEF Ruling, GoesOn, PartedBy, About, BansInForce
<1>2. ASSUME NEW i \in Inquiries, NEW ip \in Addresses, LoginArrives(i, ip)
      PROVE  BansInForce'
  BY <1>2, InquiryFields DEF LoginArrives, GoesOn, About, BansInForce
<1>3. ASSUME NEW i \in Inquiries, LoginSucceeds(i)
      PROVE  BansInForce'
  <2>1. inquiries[i] \in Inquiry /\ inquiries[i].does = "login"
    BY <1>3, InquiryFields DEF LoginSucceeds
  <2>2. \A ip \in Addresses : About(ip)' = About(ip)
    BY <1>3, <2>1 DEF LoginSucceeds, GoesOn, About
  <2> QED BY <1>3, <2>1, <2>2, InquiryFields DEF LoginSucceeds, BansInForce
<1>4. ASSUME NEW i \in Inquiries, LoginFails(i)
      PROVE  BansInForce'
  <2>0. inquiries[i] \in Inquiry /\ inquiries[i].does = "login"
    BY <1>4, InquiryFields DEF LoginFails
  <2> PICK ip \in Addresses : ip = inquiries[i].ip
    BY <2>0, InquiryFields
  <2>1. PICK kept \in 0..failedLogins[ip] :
          /\ failedLogins' = [failedLogins EXCEPT ![ip] = kept + 1]
          /\ IF kept + 1 >= Threshold /\ ip \notin bannedIps
             THEN /\ GoesOn(i, [does |-> "auto", ip |-> ip, at |-> "table"])
                  /\ parted' = parted \union PartedBy("auto", ip)
             ELSE /\ GoesOn(i, NoInquiry)
                  /\ UNCHANGED parted
    BY <1>4 DEF LoginFails
  <2>2. bannedIps' = bannedIps /\ bannedRows' = bannedRows
    BY <1>4 DEF LoginFails
  <2>3. CASE kept + 1 >= Threshold /\ ip \notin bannedIps
    <3>1. inquiries' = [inquiries EXCEPT ![i] = [does |-> "auto", ip |-> ip, at |-> "table"]]
      BY <2>1, <2>3 DEF GoesOn
    <3>2. i \in About(ip)' /\ \A other \in Addresses \ {ip} : About(other)' = About(other)
      BY <2>0, <3>1, NoInquiryAssumption DEF About, Inquiry
    <3>3. parted \subseteq parted'
      BY <2>1, <2>3
    <3>4. \A other \in Addresses \ {ip} : failedLogins'[other] = failedLogins[other]
      BY <2>1
    <3> QED BY <2>2, <3>2, <3>3, <3>4 DEF BansInForce
  <2>4. CASE ~(kept + 1 >= Threshold /\ ip \notin bannedIps)
    <3>1. inquiries' = [inquiries EXCEPT ![i] = NoInquiry] /\ parted' = parted
      BY <2>1, <2>4 DEF GoesOn
    <3>2. \A other \in Addresses : About(other)' = About(other)
      BY <2>0, <3>1 DEF About
    <3> QED BY <2>1, <2>2, <2>4, <3>1, <3>2 DEF BansInForce
  <2> QED BY <2>3, <2>4
<1>5. ASSUME NEW i \in Inquiries, TableWritten(i)
      PROVE  BansInForce'
  BY <1>5, InquiryFields DEF TableWritten, Written, GoesOn, About, BansInForce
<1>6. ASSUME NEW i \in Inquiries, TableFails(i)
      PROVE  BansInForce'
  BY <1>6, InquiryFields DEF TableFails, Written, GoesOn, About, BansInForce
<1>7. ASSUME NEW i \in Inquiries, CacheFollows(i)
      PROVE  BansInForce'
  BY <1>7, InquiryFields DEF CacheFollows, GoesOn, About, BansInForce, OneDirection, TableFirst
<1>8. CASE RestartsWithBans
  BY <1>8 DEF RestartsWithBans, About, BansInForce
<1> QED BY <1>1, <1>2, <1>3, <1>4, <1>5, <1>6, <1>7, <1>8 DEF BansNext

LEMMA BansStep ==
  ASSUME BansConsistent, [BansNext]_banVars
  PROVE  BansConsistent'
<1>1. CASE BansNext
  <2>1. BansTypeOK'
    BY <1>1, BansTypeStep DEF BansConsistent
  <2> QED BY <1>1, <2>1, BansDirectionStep, BansForceStep DEF BansConsistent
<1>2. CASE UNCHANGED banVars
  BY <1>2 DEF banVars, BansConsistent, BansTypeOK, OneDirection, TableFirst, BansInForce, About
<1> QED BY <1>1, <1>2

-----------------------------------------------------------------------------
(***************************************************************************)
(* The parts together.                                                     *)
(***************************************************************************)

\* Every step of the backend is a step of each of its parts, or leaves it alone.
LEMMA BackendStep ==
  ASSUME [BackendNext]_backendVars
  PROVE  /\ [Next]_vars /\ [RecordsNext]_recordVars /\ [HistoryNext]_historyVars
         /\ [DutiesNext]_dutyVars /\ [BansNext]_banVars
BY DEF BackendNext, backendVars

BackendConsistent ==
  /\ StatusConsistent /\ RecordsConsistent /\ HistoryConsistent
  /\ DutiesConsistent /\ BansConsistent

\* The conjunction of the parts' invariants is inductive.
THEOREM BackendAlwaysConsistent == BackendSpec => []BackendConsistent
<1>1. BackendInit => BackendConsistent
  BY StatusInitConsistent, RecordsInitConsistent, HistoryInitConsistent, DutiesInitConsistent,
     BansInitConsistent DEF BackendInit, BackendConsistent
<1>2. BackendConsistent /\ [BackendNext]_backendVars => BackendConsistent'
  BY BackendStep, StatusStep, RecordsStep, HistoryStep, DutiesStep, BansStep DEF BackendConsistent
<1> QED BY <1>1, <1>2, PTL DEF BackendSpec

\* The variables of the five parts have their types, whatever the constants.
THEOREM BackendTypeCorrect == BackendSpec => []BackendTypeOK
<1>1. BackendConsistent => BackendTypeOK
  BY DEF BackendConsistent, BackendTypeOK, StatusConsistent, RecordsConsistent, HistoryConsistent,
         DutiesConsistent, BansConsistent
<1> QED BY <1>1, BackendAlwaysConsistent, PTL

\* The chain of createStatusPersistence ends in the supervisor's status unless
\* it knows that its last write failed (the safety half of ColumnFollowsStatus).
THEOREM ChainAlwaysEndsInStatus == BackendSpec => []ChainEndsInStatus
<1>1. BackendConsistent => ChainEndsInStatus
  BY DEF BackendConsistent, StatusConsistent
<1> QED BY <1>1, BackendAlwaysConsistent, PTL

\* Row, client and orders of an account agree, for any number of requests of
\* accounts/routes.ts interleaved at their database calls.
THEOREM RecordsAlwaysAgree == BackendSpec => []RecordsAgree
<1>1. BackendConsistent => RecordsAgree
  BY ConsistentRecordsAgree DEF BackendConsistent
<1> QED BY <1>1, BackendAlwaysConsistent, PTL

\* No reader of the earnings history misses a sale the browser had heard of.
THEOREM ReadAlwaysFresh == BackendSpec => []ReadIsFresh
<1>1. BackendConsistent => ReadIsFresh
  BY HistoryIsFresh DEF BackendConsistent
<1> QED BY <1>1, BackendAlwaysConsistent, PTL

\* The controller's pause reaches beyond every restart of the server that was
\* announced.
THEOREM NeverSellsTooSoonAlways == BackendSpec => []NeverSellsTooSoon
<1>1. BackendConsistent => NeverSellsTooSoon
  BY DEF BackendConsistent, DutiesConsistent, PauseSuffices, NeverSellsTooSoon
<1> QED BY <1>1, BackendAlwaysConsistent, PTL

\* The crouch checks keep their cadence and follow the wish for them; a due
\* check is dropped only with the wish.
THEOREM CrouchChecksAlwaysKept == BackendSpec => CrouchChecksKept
<1>1. BackendConsistent => CadenceFollowsWish
  BY DEF BackendConsistent, DutiesConsistent
<1>2. BackendConsistent /\ BackendConsistent' /\ [BackendNext]_backendVars
        => [periodicPending /\ ~periodicPending'
              => phase' = "online" \/ phase' \in {"stopped", "failed"} \/ ~crouchEnabled']_dutyVars
  BY BackendStep, DueChecksStep DEF BackendConsistent
<1> QED BY <1>1, <1>2, BackendAlwaysConsistent, PTL DEF BackendSpec, CrouchChecksKept, DueChecksKept

\* An address that is banned stays out, in the table and in the cache.
THEOREM BansAlwaysInForce == BackendSpec => []BansInForce
<1>1. BackendConsistent => BansInForce
  BY DEF BackendConsistent, BansConsistent
<1> QED BY <1>1, BackendAlwaysConsistent, PTL

=============================================================================
