---------------------------- MODULE EngineProofs ----------------------------
(***************************************************************************)
(* Proofs about the parts of the engine that MCEngine checks: the stop of the *)
(* bot in the shared service, the native AutoSell, the behaviours of a bot and *)
(* its session, for any number of controllers, homes and stacks and every  *)
(* choice of the times.                                                    *)
(***************************************************************************)
EXTENDS MCEngine, SequenceTheorems, TLAPS

-----------------------------------------------------------------------------
(***************************************************************************)
(* The bot in the shared service. If the service applies the requests in   *)
(* order, the supervisor's stop request for the controller it let go last  *)
(* stops the bot for good: no request to run comes after it.               *)
(***************************************************************************)

Busy == {"preparing", "asking", "playing"}
StopOf(c) == [who |-> "supervisor", for |-> c]
Places == 1..Len(requests)

\* Only the attached controller's session runs, and it is attached while the
\* backend is up. Its supervisor has not begun to stop it.
OneAttached == \A c \in Controllers : session[c] \in Busy => attached = c
AttachedRuns ==
  attached # NoController =>
    backend = "up" /\ session[attached] \in Busy /\ stopping[attached] = "idle"

\* A process that is not there, or only begins, has no controllers, and what it
\* has sent is from nobody, the last from its beginning.
DownIsQuiet ==
  backend \in {"down", "exited", "reconciling"} =>
    \A c \in Controllers : session[c] = "gone" /\ stopping[c] = "idle"
DownSends ==
  /\ backend \in {"down", "exited"} => \A i \in Places : requests[i].by = Nobody
  /\ backend = "reconciling" =>
       /\ Len(requests) > 0 /\ requests[Len(requests)] = [state |-> "STOPPED", by |-> Startup]
       /\ \A i \in 1..Len(requests) - 1 : requests[i].by = Nobody
  /\ backend \in {"up", "exiting"} => \A i \in Places : requests[i].by # Startup

\* The supervisor has one stop request under way for each controller.
OneStop ==
  \A c \in Controllers :
    /\ stopping[c] # "waiting" => \A i \in Places : requests[i].by # StopOf(c)
    /\ \A i, j \in Places : requests[i].by = StopOf(c) /\ requests[j].by = StopOf(c) => i = j

\* A bot that was never named has not been asked for.
UnnamedIsQuiet ==
  ~recorded =>
    /\ Len(requests) = 0 /\ bot = "stopped"
    /\ \A c \in Controllers : session[c] \in {"gone", "preparing"}

\* The bot is stopped and nobody has asked for it to run.
Dark == bot = "stopped" /\ \A i \in Places : requests[i].state = "STOPPED"

\* The stop request for the controller let go last will be sent, or is under
\* way, with no request to run behind it.
LastStopDue ==
  /\ lastStop # NoController
  /\ \/ stopping[lastStop] = "reading"
     \/ \E i \in Places :
          /\ requests[i].by = StopOf(lastStop)
          /\ \A j \in i..Len(requests) : requests[j].state = "STOPPED"

WillBeStopped == backend \in {"up", "exiting"} => Dark \/ attached # NoController \/ LastStopDue
ExitedIsDark == backend = "exited" => Dark

InOrderConsistent ==
  /\ OneAttached /\ AttachedRuns /\ DownIsQuiet /\ DownSends /\ OneStop /\ UnnamedIsQuiet
  /\ WillBeStopped /\ ExitedIsDark

BotConsistent == TypeOK /\ (reliable => InOrderConsistent)

\* What a request consists of.
LEMMA RequestFields ==
  ASSUME NEW r \in Requests
  PROVE  /\ r.state \in {"RUNNING", "STOPPED"} /\ r.by \in Senders
         /\ r.by.who \in {"session", "supervisor", "startup", "nobody"}
         /\ r.by.who \in {"session", "supervisor"} => r.by.for \in Controllers
         /\ r.by.who \in {"startup", "nobody"} => r.by.for = NoController
         /\ [r EXCEPT !.by = Nobody] \in Requests
         /\ [r EXCEPT !.by = Nobody].by = Nobody
         /\ [r EXCEPT !.by = Nobody].state = r.state
<1>1. /\ r.state \in {"RUNNING", "STOPPED"} /\ r.by \in Senders
      /\ [r EXCEPT !.by = Nobody] = [state |-> r.state, by |-> Nobody]
  BY DEF Requests
<1>2. Nobody \in Senders
  BY DEF Nobody, Senders
<1> QED BY <1>1, <1>2 DEF Requests, Senders

\* What is sent.
LEMMA SentFields ==
  ASSUME NEW state \in {"RUNNING", "STOPPED"}
  PROVE  /\ \A who \in {"session", "supervisor"}, c \in Controllers :
              /\ Request(state, who, c) \in Requests
              /\ Request(state, who, c).state = state
              /\ Request(state, who, c).by = [who |-> who, for |-> c]
         /\ [state |-> state, by |-> Startup] \in Requests
BY DEF Request, Requests, Senders, Startup

\* What is left of the requests when one is gone, for the one sent first.
LEMMA RequestsWithout ==
  ASSUME requests \in Seq(Requests), NEW i \in DOMAIN requests
  PROVE  /\ Without(i) \in Seq(Requests)
         /\ Len(Without(i)) = Len(requests) - 1
         /\ i = 1 => \A j \in 1..Len(requests) - 1 : Without(i)[j] = requests[j + 1]
<1> DEFINE before == SubSeq(requests, 1, i - 1)
           after == SubSeq(requests, i + 1, Len(requests))
<1>1. Len(requests) \in Nat /\ i \in 1..Len(requests) /\ \A j \in 1..Len(requests) : requests[j] \in Requests
  BY LenProperties, ElementOfSeq
<1>2. before \in Seq(Requests) /\ Len(before) = i - 1
  <2>1. \A j \in 1..(i - 1) : requests[j] \in Requests
    BY <1>1
  <2>2. before \in Seq(Requests) /\ Len(before) = IF 1 <= i - 1 THEN i - 1 - 1 + 1 ELSE 0
    BY <1>1, <2>1, SubSeqProperties
  <2> QED BY <1>1, <2>2
<1>3. /\ after \in Seq(Requests) /\ Len(after) = Len(requests) - i
      /\ \A j \in 1..Len(requests) - i : after[j] = requests[i + j]
  <2>1. \A j \in (i + 1)..Len(requests) : requests[j] \in Requests
    BY <1>1
  <2>2. i + 1 \in Int /\ Len(requests) \in Int
    BY <1>1
  <2>3. /\ after \in Seq(Requests)
        /\ Len(after) = IF i + 1 <= Len(requests) THEN Len(requests) - (i + 1) + 1 ELSE 0
        /\ \A j \in 1..(Len(requests) - (i + 1) + 1) : after[j] = requests[(i + 1) + j - 1]
    BY <2>1, <2>2, SubSeqProperties
  <2> QED BY <1>1, <2>3
<1>4. Without(i) = before \o after
  BY DEF Without
<1> HIDE DEF before, after
<1>5. /\ before \o after \in Seq(Requests)
      /\ Len(before \o after) = Len(before) + Len(after)
      /\ \A j \in 1..Len(before) + Len(after) :
           (before \o after)[j] = IF j <= Len(before) THEN before[j] ELSE after[j - Len(before)]
  BY <1>2, <1>3, ConcatProperties
<1>6. Len(before) + Len(after) = Len(requests) - 1
  BY <1>1, <1>2, <1>3
<1>7. ASSUME i = 1, NEW j \in 1..(Len(requests) - 1)
      PROVE  (before \o after)[j] = requests[j + 1]
  <2>1. Len(before) = 0 /\ Len(after) = Len(requests) - 1 /\ ~(j <= 0)
    BY <1>1, <1>2, <1>3, <1>7
  <2>2. (before \o after)[j] = after[j - 0]
    BY <1>5, <1>6, <1>7, <2>1
  <2>3. after[j] = requests[1 + j]
    BY <1>3, <1>7
  <2> QED BY <1>1, <1>7, <2>2, <2>3
<1> QED BY <1>4, <1>5, <1>6, <1>7

\* What the end of the process leaves of them.
LEMMA RequestsOfNobody ==
  ASSUME requests \in Seq(Requests), Vanish
  PROVE  /\ requests' \in Seq(Requests) /\ Len(requests') = Len(requests)
         /\ \A j \in 1..Len(requests) :
              requests'[j].by = Nobody /\ requests'[j].state = requests[j].state
<1>1. DOMAIN requests = 1..Len(requests) /\ Len(requests) \in Nat
      /\ \A j \in 1..Len(requests) : requests[j] \in Requests
  BY LenProperties, ElementOfSeq
<1>2. requests' = [j \in 1..Len(requests) |-> [requests[j] EXCEPT !.by = Nobody]]
  BY <1>1 DEF Vanish
<1>3. \A j \in 1..Len(requests) : [requests[j] EXCEPT !.by = Nobody] \in Requests
  BY <1>1, RequestFields
<1>4. requests' \in [1..Len(requests) -> Requests]
  BY <1>2, <1>3
<1>5. requests' \in Seq(Requests)
  BY <1>1, <1>4
<1>6. Len(requests') = Len(requests)
  BY <1>1, <1>4, <1>5, LenProperties
<1> QED BY <1>1, <1>2, <1>5, <1>6, RequestFields

\* What the supervisor keeps of its controllers.
KeptTypes ==
  /\ attached' \in Controllers \union {NoController}
  /\ session' \in [Controllers -> SessionSteps]
  /\ stopping' \in [Controllers -> StopSteps]
  /\ lastStop' \in Controllers \union {NoController}

\* Letting go of a controller keeps the types,
LEMMA LetGoTypes ==
  ASSUME TypeOK, NEW c \in Controllers, LetGo(c)
  PROVE  KeptTypes
BY DEF TypeOK, LetGo, KeptTypes, SessionSteps, StopSteps

\* if there is one,
LEMMA LetGoIfAttachedTypes ==
  ASSUME TypeOK, LetGoIfAttached
  PROVE  KeptTypes
<1>1. CASE attached = NoController
  BY <1>1 DEF LetGoIfAttached, TypeOK, KeptTypes
<1>2. CASE attached # NoController
  BY <1>2, LetGoTypes DEF LetGoIfAttached, TypeOK
<1> QED BY <1>1, <1>2

\* and so does what an answer,
LEMMA AnsweredTypes ==
  ASSUME TypeOK, NEW r \in Requests, Answered(r.by)
  PROVE  KeptTypes /\ backend' \in Backends
<1>1. CASE r.by.who = "session"
  BY <1>1, RequestFields DEF Answered, TypeOK, KeptTypes, SessionSteps, Backends
<1>2. CASE r.by.who = "supervisor"
  BY <1>2, RequestFields DEF Answered, TypeOK, KeptTypes, StopSteps, Backends
<1>3. CASE r.by.who \notin {"session", "supervisor"}
  BY <1>3 DEF Answered, TypeOK, KeptTypes, Backends
<1> QED BY <1>1, <1>2, <1>3

\* or the end of the patience, makes of the sender.
LEMMA GivenUpTypes ==
  ASSUME TypeOK, NEW r \in Requests, GivenUp(r)
  PROVE  KeptTypes /\ backend' \in Backends
<1>1. CASE r.state = "RUNNING" /\ r.by.who = "session" /\ session[r.by.for] = "asking"
  <2>1. LetGo(r.by.for) /\ backend' = backend /\ r.by.for \in Controllers
    BY <1>1, RequestFields DEF GivenUp
  <2> QED BY <2>1, LetGoTypes DEF TypeOK
<1>2. CASE ~(r.state = "RUNNING" /\ r.by.who = "session" /\ session[r.by.for] = "asking")
  BY <1>2, AnsweredTypes DEF GivenUp
<1> QED BY <1>1, <1>2

\* A step of the service.
LEMMA ServiceTypes ==
  ASSUME TypeOK, NEW i \in DOMAIN requests, Apply(i) \/ Lose(i) \/ GiveUp(i)
  PROVE  TypeOK'
<1>1. requests \in Seq(Requests) /\ requests[i] \in Requests /\ i \in 1..Len(requests)
  BY LenProperties, ElementOfSeq DEF TypeOK
<1>2. KeptTypes /\ backend' \in Backends
  <2>1. CASE UNCHANGED <<backend, attached, session, stopping, lastStop>>
    BY <2>1 DEF TypeOK, KeptTypes
  <2>2. CASE Answered(requests[i].by)
    BY <1>1, <2>2, AnsweredTypes
  <2>3. CASE GivenUp(requests[i])
    BY <1>1, <2>3, GivenUpTypes
  <2> QED BY <2>1, <2>2, <2>3 DEF Apply, Lose, GiveUp
<1>3. requests' \in Seq(Requests)
  <2>1. CASE Apply(i) \/ Lose(i)
    BY <1>1, <2>1, RequestsWithout DEF Apply, Lose
  <2>2. CASE GiveUp(i)
    <3> DEFINE r == [requests[i] EXCEPT !.by = Nobody]
    <3>1. requests' = [requests EXCEPT ![i] = r] /\ r \in Requests
      BY <1>1, <2>2, RequestFields DEF GiveUp
    <3> HIDE DEF r
    <3> QED BY <1>1, <3>1, ExceptSeq
  <2> QED BY <2>1, <2>2
<1>4. bot' \in {"running", "stopped"}
  BY DEF Apply, Lose, GiveUp, Applied, TypeOK
<1>5. orders' \in 0..MaxOrders /\ faults' \in 0..MaxFaults
  BY SharedBotAssumption DEF Apply, Lose, GiveUp, TypeOK, Faulty
<1>6. wanted' = wanted /\ awaited' = awaited /\ recorded' = recorded /\ reliable' = reliable
  BY DEF Apply, Lose, GiveUp
<1> QED BY <1>2, <1>3, <1>4, <1>5, <1>6 DEF TypeOK, KeptTypes

\* A step of a controller.
LEMMA ControllerTypes ==
  ASSUME TypeOK, NEW c \in Controllers, Controller(c)
  PROVE  TypeOK'
<1>1. requests \in Seq(Requests)
  BY DEF TypeOK
<1>2. CASE Fail(c) \/ NoticeStopped(c)
  <2>1. LetGo(c)
    BY <1>2 DEF Fail, NoticeStopped
  <2>2. KeptTypes
    BY <2>1, LetGoTypes
  <2>3. orders' \in 0..MaxOrders /\ faults' \in 0..MaxFaults
    BY <1>2, SharedBotAssumption DEF Fail, NoticeStopped, TypeOK, Faulty
  <2> QED BY <1>2, <2>2, <2>3 DEF Fail, NoticeStopped, TypeOK, KeptTypes
<1>3. CASE SendStop(c) \/ Ask(c) \/ SendLeave(c)
  <2>1. requests' \in Seq(Requests)
    <3>1. \/ requests' = requests
          \/ \E r \in Requests : requests' = Append(requests, r)
      BY <1>3, SentFields DEF SendStop, Ask, SendLeave
    <3> QED BY <1>1, <3>1, AppendProperties
  <2>2. /\ session' \in [Controllers -> SessionSteps] /\ stopping' \in [Controllers -> StopSteps]
        /\ recorded' \in BOOLEAN
    BY <1>3 DEF SendStop, Ask, SendLeave, TypeOK, SessionSteps, StopSteps
  <2>3. UNCHANGED <<backend, wanted, attached, lastStop, awaited, bot, reliable, orders, faults>>
    BY <1>3 DEF SendStop, Ask, SendLeave
  <2> QED BY <2>1, <2>2, <2>3 DEF TypeOK
<1> QED BY <1>2, <1>3 DEF Controller

\* A new attempt keeps the types.
LEMMA AttachTypes ==
  ASSUME TypeOK, Attach
  PROVE  KeptTypes
BY DEF Attach, TypeOK, KeptTypes, SessionSteps

\* An order of the user, or the next attempt.
LEMMA OrderTypes ==
  ASSUME TypeOK, Start \/ Stop \/ Restart \/ Resume \/ Shutdown
  PROVE  TypeOK'
<1>1. KeptTypes
  BY AttachTypes, LetGoIfAttachedTypes DEF Start, Stop, Restart, Resume, Shutdown
<1>2. orders' \in 0..MaxOrders /\ faults' = faults
  BY SharedBotAssumption DEF Start, Stop, Restart, Resume, Shutdown, Ordered, TypeOK
<1>3. wanted' \in BOOLEAN /\ backend' \in Backends
  BY DEF Start, Stop, Restart, Resume, Shutdown, TypeOK, Backends
<1>4. awaited' \in Controllers \union {NoController}
  BY DEF Start, Stop, Restart, Resume, Shutdown, TypeOK
<1>5. recorded' = recorded /\ requests' = requests /\ bot' = bot /\ reliable' = reliable
  BY DEF Start, Stop, Restart, Resume, Shutdown
<1> QED BY <1>1, <1>2, <1>3, <1>4, <1>5 DEF KeptTypes, TypeOK

\* The process ends, or begins.
LEMMA ProcessTypes ==
  ASSUME TypeOK, Crash \/ Exit \/ LoadAll \/ ServiceRestarts
  PROVE  TypeOK'
<1>1. CASE Crash \/ Exit
  <2>1. Vanish /\ recorded' = recorded /\ wanted' = wanted /\ bot' = bot /\ reliable' = reliable
    BY <1>1 DEF Crash, Exit
  <2>2. requests' \in Seq(Requests)
    BY <2>1, RequestsOfNobody DEF TypeOK
  <2>3. KeptTypes /\ awaited' \in Controllers \union {NoController}
    BY <2>1 DEF Vanish, KeptTypes, SessionSteps, StopSteps
  <2>4. backend' \in Backends /\ orders' \in 0..MaxOrders /\ faults' \in 0..MaxFaults
    BY <1>1, SharedBotAssumption DEF Crash, Exit, Faulty, TypeOK, Backends
  <2> QED BY <2>1, <2>2, <2>3, <2>4 DEF KeptTypes, TypeOK
<1>2. CASE LoadAll
  <2>1. requests' \in Seq(Requests)
    <3>1. \/ requests' = requests
          \/ requests' = Append(requests, [state |-> "STOPPED", by |-> Startup])
      BY <1>2 DEF LoadAll
    <3>2. [state |-> "STOPPED", by |-> Startup] \in Requests /\ requests \in Seq(Requests)
      BY SentFields DEF TypeOK
    <3> QED BY <3>1, <3>2, AppendProperties
  <2>2. backend' \in Backends
    BY <1>2 DEF LoadAll, Backends
  <2> QED BY <1>2, <2>1, <2>2 DEF LoadAll, TypeOK
<1>3. CASE ServiceRestarts
  <2>1. faults' \in 0..MaxFaults /\ orders' = orders
    BY <1>3, SharedBotAssumption DEF ServiceRestarts, Faulty, TypeOK
  <2> QED BY <1>3, <2>1 DEF ServiceRestarts, TypeOK
<1> QED BY <1>1, <1>2, <1>3

\* Every step keeps the types.
LEMMA BotTypeStep == TypeOK /\ [Next]_vars => TypeOK'
<1>1. TypeOK /\ Next => TypeOK'
  BY ServiceTypes, ControllerTypes, OrderTypes, ProcessTypes DEF Next, Service
<1>2. TypeOK /\ UNCHANGED vars => TypeOK'
  BY DEF TypeOK, vars
<1> QED BY <1>1, <1>2

-----------------------------------------------------------------------------
\* The types that the steps below rely on.
LEMMA BotTypes ==
  ASSUME TypeOK
  PROVE  /\ requests \in Seq(Requests) /\ Len(requests) \in Nat /\ DOMAIN requests = Places
         /\ \A i \in Places : requests[i] \in Requests
         /\ session \in [Controllers -> SessionSteps] /\ stopping \in [Controllers -> StopSteps]
         /\ attached \in Controllers \union {NoController}
         /\ lastStop \in Controllers \union {NoController}
         /\ NoController \notin Controllers
BY SharedBotAssumption, LenProperties, ElementOfSeq DEF TypeOK, Places

\* A controller is let go: its stop request is due.
LEMMA LetGoInOrder ==
  ASSUME TypeOK, InOrderConsistent, NEW c \in Controllers, attached = c, LetGo(c),
         backend' \in {"up", "exiting"}, requests' = requests, recorded' = recorded, bot' = bot
  PROVE  InOrderConsistent'
<1> USE BotTypes DEF InOrderConsistent
<1>1. /\ attached' = NoController /\ lastStop' = c
      /\ session' = [session EXCEPT ![c] = IF @ = "preparing" THEN "gone" ELSE "leaving"]
      /\ stopping' = [stopping EXCEPT ![c] = "reading"]
  BY DEF LetGo
<1>2. backend = "up" /\ stopping[c] = "idle"
  BY DEF AttachedRuns
<1>3. OneAttached'
  BY <1>1 DEF OneAttached, Busy
<1>4. AttachedRuns' /\ DownIsQuiet' /\ ExitedIsDark'
  BY <1>1 DEF AttachedRuns, DownIsQuiet, ExitedIsDark
<1>5. DownSends'
  BY <1>2 DEF DownSends, Places
<1>6. OneStop'
  BY <1>1, <1>2 DEF OneStop, Places
<1>7. UnnamedIsQuiet'
  <2>1. ~recorded => session[c] = "preparing"
    BY DEF UnnamedIsQuiet, AttachedRuns, Busy
  <2>2. session'[c] = (IF session[c] = "preparing" THEN "gone" ELSE "leaving")
    BY <1>1
  <2>3. \A d \in Controllers : d # c => session'[d] = session[d]
    BY <1>1
  <2> QED BY <2>1, <2>2, <2>3 DEF UnnamedIsQuiet
<1>8. LastStopDue'
  BY <1>1 DEF LastStopDue
<1> QED BY <1>3, <1>4, <1>5, <1>6, <1>7, <1>8 DEF WillBeStopped

\* A new attempt: there is a controller now that will be let go.
LEMMA AttachInOrder ==
  ASSUME TypeOK, InOrderConsistent, attached = NoController, Attach,
         backend = "up", backend' = backend, requests' = requests, recorded' = recorded, bot' = bot
  PROVE  InOrderConsistent'
<1> USE BotTypes DEF InOrderConsistent
<1>1. PICK c \in Controllers :
        /\ Fresh(c) /\ attached' = c
        /\ session' = [session EXCEPT ![c] = "preparing"]
        /\ stopping' = stopping /\ lastStop' = lastStop
  BY DEF Attach
<1>2. OneAttached'
  BY <1>1 DEF OneAttached
<1>3. AttachedRuns'
  <2>1. session'[c] = "preparing" /\ stopping'[c] = "idle"
    BY <1>1 DEF Fresh
  <2> QED BY <1>1, <2>1 DEF AttachedRuns, Busy
<1>4. DownIsQuiet' /\ DownSends' /\ ExitedIsDark'
  BY DEF DownIsQuiet, DownSends, ExitedIsDark, Places
<1>5. OneStop'
  BY <1>1 DEF OneStop, Places
<1>6. UnnamedIsQuiet'
  <2>1. \A d \in Controllers : session'[d] \in {session[d], "preparing"}
    BY <1>1
  <2> QED BY <2>1 DEF UnnamedIsQuiet
<1>7. WillBeStopped'
  BY <1>1 DEF WillBeStopped
<1> QED BY <1>2, <1>3, <1>4, <1>5, <1>6, <1>7

\* Orders of the user, and the next attempt.
LEMMA OrderInOrder ==
  ASSUME TypeOK, InOrderConsistent, Start \/ Stop \/ Restart \/ Resume \/ Shutdown
  PROVE  InOrderConsistent'
<1>1. CASE Start \/ Resume
  BY <1>1, AttachInOrder DEF Start, Resume
<1>2. CASE Stop \/ Restart \/ Shutdown
  <2>1. /\ LetGoIfAttached /\ backend = "up" /\ backend' \in {"up", "exiting"}
        /\ requests' = requests /\ recorded' = recorded /\ bot' = bot
    BY <1>2 DEF Stop, Restart, Shutdown
  <2>2. CASE attached = NoController
    <3>1. UNCHANGED <<attached, session, stopping, lastStop>>
      BY <2>1, <2>2 DEF LetGoIfAttached
    <3>2. OneAttached' /\ AttachedRuns' /\ DownIsQuiet' /\ ExitedIsDark'
      BY <2>1, <2>2, <3>1
         DEF InOrderConsistent, OneAttached, AttachedRuns, DownIsQuiet, ExitedIsDark, Busy
    <3>3. DownSends' /\ OneStop' /\ UnnamedIsQuiet'
      BY <2>1, <3>1 DEF InOrderConsistent, DownSends, OneStop, UnnamedIsQuiet, Places
    <3>4. WillBeStopped'
      BY <2>1, <3>1 DEF InOrderConsistent, WillBeStopped, Dark, LastStopDue, Places
    <3> QED BY <3>2, <3>3, <3>4 DEF InOrderConsistent
  <2>3. CASE attached # NoController
    <3>1. attached \in Controllers /\ LetGo(attached)
      BY <2>1, <2>3, BotTypes DEF LetGoIfAttached
    <3> QED BY <2>1, <3>1, LetGoInOrder
  <2> QED BY <2>2, <2>3
<1> QED BY <1>1, <1>2

\* What becomes of the requests when one more is sent.
LEMMA OneMoreSent ==
  ASSUME TypeOK, NEW r \in Requests, requests' = Append(requests, r)
  PROVE  /\ Len(requests') = Len(requests) + 1
         /\ requests'[Len(requests) + 1] = r
         /\ \A i \in Places : requests'[i] = requests[i]
         /\ Places' = Places \union {Len(requests) + 1}
<1>1. requests \in Seq(Requests) /\ Len(requests) \in Nat
  BY BotTypes
<1> QED BY <1>1, AppendProperties DEF Places

\* The supervisor's stop request goes out.
LEMMA SendStopInOrder ==
  ASSUME TypeOK, InOrderConsistent, NEW c \in Controllers, SendStop(c)
  PROVE  InOrderConsistent'
<1> USE BotTypes DEF InOrderConsistent
<1>1. /\ stopping[c] = "reading" /\ backend' = backend /\ attached' = attached /\ session' = session
      /\ lastStop' = lastStop /\ recorded' = recorded /\ bot' = bot
  BY DEF SendStop
<1>2. backend \in {"up", "exiting"} /\ attached # c
  BY <1>1 DEF DownIsQuiet, AttachedRuns, TypeOK, Backends
<1>3. OneAttached' /\ ExitedIsDark'
  BY <1>1, <1>2 DEF OneAttached, ExitedIsDark
<1>4. AttachedRuns' /\ DownIsQuiet'
  BY <1>1, <1>2 DEF AttachedRuns, DownIsQuiet, SendStop
<1>5. CASE ~recorded
  <2>1. requests' = requests /\ stopping' = [stopping EXCEPT ![c] = "idle"]
    BY <1>5 DEF SendStop
  <2>2. DownSends' /\ UnnamedIsQuiet'
    BY <1>1, <2>1 DEF DownSends, UnnamedIsQuiet, Places
  <2>3. OneStop'
    BY <1>1, <2>1 DEF OneStop, Places
  <2>4. Dark'
    BY <1>1, <1>5, <2>1 DEF UnnamedIsQuiet, Dark, Places
  <2> QED BY <1>3, <1>4, <2>2, <2>3, <2>4 DEF WillBeStopped
<1>6. CASE recorded
  <2> DEFINE r == Request("STOPPED", "supervisor", c)
             n == Len(requests) + 1
  <2>1. requests' = Append(requests, r) /\ stopping' = [stopping EXCEPT ![c] = "waiting"]
    BY <1>6 DEF SendStop
  <2>2. r \in Requests /\ r.state = "STOPPED" /\ r.by = StopOf(c)
    BY SentFields DEF StopOf
  <2> HIDE DEF r
  <2>3. /\ Len(requests') = n /\ requests'[n] = r /\ Places' = Places \union {n}
        /\ \A i \in Places : requests'[i] = requests[i]
    BY <2>1, <2>2, OneMoreSent
  <2>4. DownSends'
    BY <1>1, <1>2, <2>2, <2>3 DEF DownSends, StopOf, Startup
  <2>5. UnnamedIsQuiet'
    BY <1>1, <1>6 DEF UnnamedIsQuiet
  <2>6. OneStop'
    <3>1. \A i \in Places : requests[i].by # StopOf(c)
      BY <1>1 DEF OneStop
    <3>2. \A d \in Controllers : r.by = StopOf(d) => d = c
      BY <2>2 DEF StopOf
    <3>3. \A d \in Controllers : d # c => stopping'[d] = stopping[d]
      BY <2>1
    <3>4. stopping'[c] = "waiting"
      BY <2>1
    <3> QED BY <2>3, <3>1, <3>2, <3>3, <3>4 DEF OneStop
  <2>7. Dark => Dark'
    BY <1>1, <2>2, <2>3 DEF Dark
  <2>8. LastStopDue => LastStopDue'
    <3> SUFFICES ASSUME LastStopDue PROVE LastStopDue'
      OBVIOUS
    <3>1. CASE lastStop = c
      <4>1. n \in Places' /\ requests'[n].by = StopOf(lastStop') /\ n..Len(requests') = {n}
        BY <1>1, <2>2, <2>3, <3>1
      <4> QED BY <1>1, <2>2, <2>3, <4>1 DEF LastStopDue
    <3>2. CASE lastStop # c /\ stopping[lastStop] = "reading"
      BY <1>1, <2>1, <3>2 DEF LastStopDue
    <3>3. CASE lastStop # c /\ stopping[lastStop] # "reading"
      <4>1. PICK i \in Places :
              /\ requests[i].by = StopOf(lastStop)
              /\ \A j \in i..Len(requests) : requests[j].state = "STOPPED"
        BY <3>3 DEF LastStopDue
      <4>2. i \in Places' /\ requests'[i].by = StopOf(lastStop')
        BY <1>1, <2>3, <4>1
      <4>3. \A j \in i..Len(requests') : requests'[j].state = "STOPPED"
        <5> SUFFICES ASSUME NEW j \in i..Len(requests') PROVE requests'[j].state = "STOPPED"
          OBVIOUS
        <5>1. j = n \/ (j \in i..Len(requests) /\ j \in Places)
          BY <2>3, <4>1 DEF Places
        <5> QED BY <2>2, <2>3, <4>1, <5>1
      <4> QED BY <1>1, <4>2, <4>3 DEF LastStopDue
    <3> QED BY <3>1, <3>2, <3>3
  <2> QED BY <1>1, <1>3, <1>4, <2>4, <2>5, <2>6, <2>7, <2>8 DEF WillBeStopped
<1> QED BY <1>5, <1>6

\* The requests of a session: to run while it is attached, to stop at its end.
LEMMA SessionInOrder ==
  ASSUME TypeOK, InOrderConsistent, NEW c \in Controllers, Ask(c) \/ SendLeave(c)
  PROVE  InOrderConsistent'
<1> USE BotTypes DEF InOrderConsistent
<1> DEFINE n == Len(requests) + 1
<1>1. /\ stopping' = stopping /\ backend' = backend /\ attached' = attached
      /\ lastStop' = lastStop /\ bot' = bot
  BY DEF Ask, SendLeave
<1>2. backend \in {"up", "exiting"}
  BY DEF Ask, SendLeave, DownIsQuiet, TypeOK, Backends
<1>3. recorded'
  BY DEF Ask, SendLeave, UnnamedIsQuiet
<1>4. PICK state \in {"RUNNING", "STOPPED"} :
        /\ requests' = Append(requests, Request(state, "session", c))
        /\ state = "RUNNING" => Ask(c)
  BY DEF Ask, SendLeave
<1> DEFINE r == Request(state, "session", c)
<1>5. r \in Requests /\ r.state = state /\ r.by = [who |-> "session", for |-> c]
  BY SentFields
<1> HIDE DEF r
<1>6. /\ Len(requests') = n /\ requests'[n] = r /\ Places' = Places \union {n}
      /\ \A i \in Places : requests'[i] = requests[i]
  BY <1>4, <1>5, OneMoreSent DEF r
<1>7. OneAttached'
  <2>1. \A d \in Controllers : session'[d] \in Busy => session[d] \in Busy
    BY DEF Ask, SendLeave, Busy
  <2> QED BY <1>1, <2>1 DEF OneAttached
<1>8. AttachedRuns' /\ DownIsQuiet' /\ ExitedIsDark' /\ UnnamedIsQuiet'
  <2>1. \A d \in Controllers : session[d] \in Busy => session'[d] \in Busy
    BY DEF Ask, SendLeave, Busy
  <2>2. AttachedRuns'
    BY <1>1, <2>1 DEF AttachedRuns
  <2> QED BY <1>1, <1>2, <1>3, <2>2 DEF DownIsQuiet, ExitedIsDark, UnnamedIsQuiet
<1>9. DownSends'
  BY <1>1, <1>2, <1>5, <1>6 DEF DownSends, Startup
<1>10. OneStop'
  <2>1. \A d \in Controllers : r.by # StopOf(d)
    BY <1>5 DEF StopOf
  <2> QED BY <1>1, <1>6, <2>1 DEF OneStop
<1>11. WillBeStopped'
  <2>1. CASE Ask(c)
    <3>1. attached # NoController
      BY <2>1 DEF Ask, OneAttached, Busy
    <3> QED BY <1>1, <3>1 DEF WillBeStopped
  <2>2. CASE state = "STOPPED"
    <3>1. Dark => Dark'
      BY <1>1, <1>5, <1>6, <2>2 DEF Dark
    <3>2. LastStopDue => LastStopDue'
      <4> SUFFICES ASSUME LastStopDue PROVE LastStopDue'
        OBVIOUS
      <4>1. CASE stopping[lastStop] = "reading"
        BY <1>1, <4>1 DEF LastStopDue
      <4>2. CASE stopping[lastStop] # "reading"
        <5>1. PICK i \in Places :
                /\ requests[i].by = StopOf(lastStop)
                /\ \A j \in i..Len(requests) : requests[j].state = "STOPPED"
          BY <4>2 DEF LastStopDue
        <5>2. i \in Places' /\ requests'[i].by = StopOf(lastStop')
          BY <1>1, <1>6, <5>1
        <5>3. \A j \in i..Len(requests') : requests'[j].state = "STOPPED"
          <6> SUFFICES ASSUME NEW j \in i..Len(requests') PROVE requests'[j].state = "STOPPED"
            OBVIOUS
          <6>1. j = n \/ (j \in i..Len(requests) /\ j \in Places)
            BY <1>6, <5>1 DEF Places
          <6> QED BY <1>5, <1>6, <2>2, <5>1, <6>1
        <5> QED BY <1>1, <5>2, <5>3 DEF LastStopDue
      <4> QED BY <4>1, <4>2
    <3> QED BY <1>1, <3>1, <3>2 DEF WillBeStopped
  <2> QED BY <1>4, <2>1, <2>2
<1> QED BY <1>7, <1>8, <1>9, <1>10, <1>11

\* The service restarts without the bot.
LEMMA ServiceRestartsInOrder ==
  ASSUME TypeOK, InOrderConsistent, ServiceRestarts
  PROVE  InOrderConsistent'
<1> USE BotTypes DEF InOrderConsistent
<1>1. /\ requests = <<>> /\ bot' = "stopped"
      /\ UNCHANGED <<backend, attached, session, stopping, lastStop, recorded, requests>>
  BY DEF ServiceRestarts
<1>2. OneAttached' /\ AttachedRuns' /\ DownIsQuiet'
  BY <1>1 DEF OneAttached, AttachedRuns, DownIsQuiet
<1>3. DownSends' /\ OneStop' /\ UnnamedIsQuiet'
  BY <1>1 DEF DownSends, OneStop, UnnamedIsQuiet, Places
<1>4. Dark'
  BY <1>1 DEF Dark, Places
<1> QED BY <1>2, <1>3, <1>4 DEF WillBeStopped, ExitedIsDark

\* The process dies, or exits: nothing of it is left but what it has sent.
LEMMA VanishInOrder ==
  ASSUME TypeOK, InOrderConsistent, Crash \/ Exit
  PROVE  InOrderConsistent'
<1> USE BotTypes DEF InOrderConsistent
<1>1. /\ Vanish /\ recorded' = recorded /\ bot' = bot /\ backend' \in {"down", "exited"}
      /\ backend' = "exited" => Exit
  BY DEF Crash, Exit
<1>2. /\ Len(requests') = Len(requests) /\ Places' = Places
      /\ \A j \in Places : requests'[j].by = Nobody /\ requests'[j].state = requests[j].state
  BY <1>1, RequestsOfNobody DEF Places
<1>3. /\ attached' = NoController /\ lastStop' = NoController
      /\ \A c \in Controllers : session'[c] = "gone" /\ stopping'[c] = "idle"
  BY <1>1 DEF Vanish
<1>4. OneAttached' /\ AttachedRuns' /\ DownIsQuiet'
  BY <1>3 DEF OneAttached, AttachedRuns, DownIsQuiet, Busy
<1>5. DownSends'
  BY <1>1, <1>2 DEF DownSends
<1>6. OneStop'
  BY <1>2, <1>3 DEF OneStop, StopOf, Nobody
<1>7. UnnamedIsQuiet'
  BY <1>1, <1>2, <1>3 DEF UnnamedIsQuiet
<1>8. Dark => Dark'
  BY <1>1, <1>2 DEF Dark
<1>9. Exit => Dark
  <2> SUFFICES ASSUME Exit PROVE Dark
    OBVIOUS
  <2>1. backend = "exiting" /\ (lastStop # NoController => stopping[lastStop] = "idle")
    BY DEF Exit
  <2>2. attached = NoController
    BY <2>1 DEF AttachedRuns
  <2>3. ~LastStopDue
    BY <2>1 DEF LastStopDue, OneStop
  <2> QED BY <2>1, <2>2, <2>3 DEF WillBeStopped
<1>10. ExitedIsDark'
  BY <1>1, <1>8, <1>9 DEF ExitedIsDark
<1>11. WillBeStopped'
  BY <1>1 DEF WillBeStopped
<1> QED BY <1>4, <1>5, <1>6, <1>7, <1>10, <1>11

\* The backend begins with a stop request for the bot it knows.
LEMMA LoadAllInOrder ==
  ASSUME TypeOK, InOrderConsistent, LoadAll
  PROVE  InOrderConsistent'
<1> USE BotTypes DEF InOrderConsistent
<1>1. /\ backend \in {"down", "exited"}
      /\ UNCHANGED <<attached, session, stopping, lastStop, recorded, bot>>
  BY DEF LoadAll
<1>2. \A c \in Controllers : session[c] = "gone" /\ stopping[c] = "idle"
  BY <1>1 DEF DownIsQuiet
<1>3. attached = NoController
  BY <1>1 DEF AttachedRuns
<1>4. OneAttached' /\ AttachedRuns' /\ DownIsQuiet'
  BY <1>1, <1>2, <1>3 DEF OneAttached, AttachedRuns, DownIsQuiet, Busy
<1>5. CASE ~recorded
  <2>1. backend' = "up" /\ requests' = requests
    BY <1>5 DEF LoadAll
  <2>2. DownSends'
    BY <1>1, <2>1 DEF DownSends, Places, Nobody, Startup
  <2>3. OneStop' /\ UnnamedIsQuiet'
    BY <1>1, <2>1 DEF OneStop, UnnamedIsQuiet, Places
  <2>4. Dark'
    BY <1>1, <1>5, <2>1 DEF UnnamedIsQuiet, Dark, Places
  <2> QED BY <1>4, <2>1, <2>2, <2>3, <2>4 DEF WillBeStopped, ExitedIsDark
<1>6. CASE recorded
  <2> DEFINE r == [state |-> "STOPPED", by |-> Startup]
             n == Len(requests) + 1
  <2>1. backend' = "reconciling" /\ requests' = Append(requests, r)
    BY <1>6 DEF LoadAll
  <2>2. r \in Requests
    BY SentFields
  <2>3. r.by = Startup
    OBVIOUS
  <2>4. /\ Len(requests') = n /\ requests'[n] = r /\ Places' = Places \union {n}
        /\ \A i \in Places : requests'[i] = requests[i]
    BY <2>1, <2>2, OneMoreSent
  <2>5. DownSends'
    <3>1. \A i \in 1..Len(requests') - 1 : requests'[i].by = Nobody
      BY <1>1, <2>4 DEF DownSends, Places
    <3>2. Len(requests') > 0 /\ requests'[Len(requests')] = r
      BY <2>4
    <3> QED BY <2>1, <3>1, <3>2 DEF DownSends
  <2>6. OneStop'
    <3>1. \A i \in Places' : requests'[i].by \in {Nobody, Startup}
      BY <1>1, <2>3, <2>4 DEF DownSends
    <3>2. \A c \in Controllers : StopOf(c) \notin {Nobody, Startup}
      BY DEF StopOf, Nobody, Startup
    <3> QED BY <3>1, <3>2 DEF OneStop
  <2>7. UnnamedIsQuiet'
    BY <1>1, <1>6 DEF UnnamedIsQuiet
  <2> QED BY <1>4, <2>1, <2>5, <2>6, <2>7 DEF WillBeStopped, ExitedIsDark
<1> QED BY <1>5, <1>6

\* The answer to a request moves its sender only.
LEMMA AnsweredChanges ==
  ASSUME TypeOK, NEW r \in Requests, Answered(r.by)
  PROVE  /\ attached' = attached /\ lastStop' = lastStop
         /\ backend' = (IF r.by = Startup THEN "up" ELSE backend)
         /\ \A d \in Controllers :
              /\ session'[d] \in Busy <=> session[d] \in Busy
              /\ session[d] = "gone" => session'[d] = "gone"
              /\ session[d] = "preparing" => session'[d] = "preparing"
              /\ stopping'[d] = (IF r.by = StopOf(d) THEN "idle" ELSE stopping[d])
<1> USE BotTypes
<1>1. r.by.who = "startup" <=> r.by = Startup
  BY RequestFields DEF Requests, Senders, Startup
<1>2. \A d \in Controllers : r.by = StopOf(d) <=> r.by.who = "supervisor" /\ r.by.for = d
  BY RequestFields DEF Requests, Senders, StopOf
<1>3. \A d \in Controllers : stopping'[d] = (IF r.by = StopOf(d) THEN "idle" ELSE stopping[d])
  BY <1>2, RequestFields DEF Answered
<1>4. ASSUME NEW d \in Controllers
      PROVE  /\ session'[d] \in Busy <=> session[d] \in Busy
             /\ session[d] = "gone" => session'[d] = "gone"
             /\ session[d] = "preparing" => session'[d] = "preparing"
  <2>1. \/ session'[d] = session[d]
        \/ session[d] = "asking" /\ session'[d] = "playing"
        \/ session[d] = "stopping" /\ session'[d] = "gone"
    BY RequestFields DEF Answered
  <2> QED BY <2>1 DEF Busy
<1> QED BY <1>1, <1>3, <1>4 DEF Answered

\* The service applies the request it got first.
LEMMA ApplyInOrder ==
  ASSUME TypeOK, InOrderConsistent, 1 \in DOMAIN requests, Apply(1)
  PROVE  InOrderConsistent'
<1> USE BotTypes DEF InOrderConsistent
<1> DEFINE r == requests[1]
           m == Len(requests) - 1
<1>1. /\ 1 \in Places /\ r \in Requests /\ m \in Nat /\ recorded' = recorded
      /\ bot' = (IF r.state = "RUNNING" THEN "running" ELSE "stopped")
  BY DEF Apply, Applied, Places
<1>2. /\ Len(requests') = m /\ Places' = 1..m
      /\ \A j \in 1..m : j + 1 \in Places /\ requests'[j] = requests[j + 1]
  <2>1. requests' = Without(1)
    BY DEF Apply
  <2>2. /\ Len(requests') = m
        /\ \A j \in 1..Len(requests) - 1 : requests'[j] = requests[j + 1]
    BY <2>1, RequestsWithout
  <2>3. \A j \in 1..m : j + 1 \in Places
    BY DEF Places
  <2> QED BY <2>2, <2>3 DEF Places
<1>3. /\ attached' = attached /\ lastStop' = lastStop
      /\ backend' = (IF r.by = Startup THEN "up" ELSE backend)
      /\ \A d \in Controllers :
           /\ session'[d] \in Busy <=> session[d] \in Busy
           /\ session[d] = "gone" => session'[d] = "gone"
           /\ session[d] = "preparing" => session'[d] = "preparing"
           /\ stopping'[d] = (IF r.by = StopOf(d) THEN "idle" ELSE stopping[d])
  <2>1. CASE Awaits(r)
    <3>1. Answered(r.by)
      BY <2>1 DEF Apply
    <3> QED BY <1>1, <3>1, AnsweredChanges
  <2>2. CASE ~Awaits(r)
    <3>1. UNCHANGED <<backend, attached, session, stopping, lastStop>>
      BY <2>2 DEF Apply
    <3>2. r.by.who = "session"
      BY <2>2 DEF Awaits
    <3>3. r.by # Startup /\ \A d \in Controllers : r.by # StopOf(d)
      BY <3>2 DEF Startup, StopOf
    <3> QED BY <3>1, <3>3
  <2> QED BY <2>1, <2>2
<1> HIDE DEF r
<1>4. recorded
  BY <1>1 DEF UnnamedIsQuiet, Places
<1>5. OneAttached' /\ UnnamedIsQuiet'
  BY <1>1, <1>3, <1>4 DEF OneAttached, UnnamedIsQuiet
<1>6. AttachedRuns'
  <2> SUFFICES ASSUME attached # NoController
               PROVE  backend' = "up" /\ session'[attached] \in Busy /\ stopping'[attached] = "idle"
    BY <1>3 DEF AttachedRuns
  <2> QED BY <1>3 DEF AttachedRuns
<1>7. DownIsQuiet'
  <2>1. backend' \in {"down", "exited", "reconciling"} => backend' = backend
    BY <1>3
  <2> QED BY <1>3, <2>1 DEF DownIsQuiet
<1>8. OneStop'
  <2> SUFFICES ASSUME NEW c \in Controllers
               PROVE  /\ stopping'[c] # "waiting" => \A i \in Places' : requests'[i].by # StopOf(c)
                      /\ \A i, j \in Places' :
                           requests'[i].by = StopOf(c) /\ requests'[j].by = StopOf(c) => i = j
    BY DEF OneStop
  <2>1. \A i, j \in Places : requests[i].by = StopOf(c) /\ requests[j].by = StopOf(c) => i = j
    BY DEF OneStop
  <2>2. \A i, j \in Places' : requests'[i].by = StopOf(c) /\ requests'[j].by = StopOf(c) => i = j
    <3> SUFFICES ASSUME NEW i \in Places', NEW j \in Places',
                        requests'[i].by = StopOf(c), requests'[j].by = StopOf(c)
                 PROVE  i = j
      OBVIOUS
    <3>1. i \in 1..m /\ j \in 1..m
      BY <1>2
    <3>2. i + 1 = j + 1
      BY <1>2, <2>1, <3>1
    <3> QED BY <1>1, <3>1, <3>2
  <2>3. stopping'[c] # "waiting" => \A i \in Places' : requests'[i].by # StopOf(c)
    <3>1. CASE r.by = StopOf(c)
      <4>1. \A i \in Places : requests[i].by = StopOf(c) => i = 1
        BY <1>1, <2>1, <3>1 DEF r
      <4> QED BY <1>1, <1>2, <4>1
    <3>2. CASE r.by # StopOf(c)
      <4>1. stopping'[c] = stopping[c]
        BY <1>3, <3>2
      <4>2. stopping[c] # "waiting" => \A i \in Places : requests[i].by # StopOf(c)
        BY DEF OneStop
      <4> QED BY <1>2, <4>1, <4>2
    <3> QED BY <3>1, <3>2
  <2> QED BY <2>2, <2>3
<1>9. (\A i \in 2..Len(requests) : requests[i].state = "STOPPED") /\ r.state = "STOPPED" => Dark'
  BY <1>1, <1>2 DEF Dark, Places
<1>10. Dark => Dark'
  BY <1>1, <1>9 DEF Dark, Places, r
<1>11. DownSends'
  <2>1. CASE backend = "reconciling"
    <3>1. CASE m = 0
      <4>1. Len(requests) = 1
        BY <3>1
      <4>2. r.by = Startup
        BY <2>1, <4>1 DEF DownSends, r
      <4>3. backend' = "up"
        BY <1>3, <4>2
      <4>4. Places' = {}
        <5>1. Places' = 1..m /\ m = 0
          BY <1>2, <3>1
        <5>2. 1..0 = {}
          OBVIOUS
        <5> HIDE DEF m
        <5> QED BY <5>1, <5>2, Zenon
      <4> QED BY <4>3, <4>4 DEF DownSends
    <3>2. CASE m # 0
      <4>1. backend' = "reconciling"
        BY <1>1, <1>3, <2>1, <3>2 DEF DownSends, r, Nobody, Startup
      <4>2. requests'[m] = [state |-> "STOPPED", by |-> Startup]
        BY <1>1, <1>2, <2>1, <3>2 DEF DownSends
      <4>3. \A i \in 1..m - 1 : requests'[i].by = Nobody
        BY <1>1, <1>2, <2>1, <3>2 DEF DownSends
      <4> QED BY <1>1, <1>2, <3>2, <4>1, <4>2, <4>3 DEF DownSends
    <3> QED BY <3>1, <3>2
  <2>2. CASE backend \in {"down", "exited"}
    <3>1. backend' = backend
      BY <1>1, <1>3, <2>2 DEF DownSends, r, Nobody, Startup
    <3> QED BY <1>2, <2>2, <3>1 DEF DownSends
  <2>3. CASE backend \in {"up", "exiting"}
    <3>1. backend' = backend
      BY <1>1, <1>3, <2>3 DEF DownSends, r
    <3> QED BY <1>2, <2>3, <3>1 DEF DownSends
  <2> QED BY <2>1, <2>2, <2>3 DEF TypeOK, Backends
<1>12. ExitedIsDark'
  BY <1>3, <1>10 DEF ExitedIsDark
<1>13. WillBeStopped'
  <2>1. CASE backend = "reconciling"
    <3>1. backend' \in {"up", "exiting"} => m = 0 /\ r.state = "STOPPED"
      BY <1>1, <1>3, <2>1 DEF DownSends, r, Nobody, Startup
    <3>2. m = 0 /\ r.state = "STOPPED" => Dark'
      <4>1. m = 0 => 2..Len(requests) = {}
        OBVIOUS
      <4> QED BY <1>9, <4>1
    <3> QED BY <3>1, <3>2 DEF WillBeStopped
  <2>2. CASE backend \in {"down", "exited"}
    <3>1. backend' = backend
      BY <1>1, <1>3, <2>2 DEF DownSends, r, Nobody, Startup
    <3> QED BY <2>2, <3>1 DEF WillBeStopped
  <2>3. CASE backend \in {"up", "exiting"} /\ LastStopDue
    <3>1. CASE stopping[lastStop] = "reading"
      <4>1. lastStop \in Controllers
        BY <2>3 DEF LastStopDue
      <4>2. r.by # StopOf(lastStop)
        BY <1>1, <3>1, <4>1 DEF OneStop, r
      <4> QED BY <1>3, <2>3, <3>1, <4>1, <4>2 DEF LastStopDue, WillBeStopped
    <3>2. CASE stopping[lastStop] # "reading"
      <4>1. PICK i \in Places :
              /\ requests[i].by = StopOf(lastStop)
              /\ \A j \in i..Len(requests) : requests[j].state = "STOPPED"
        BY <2>3, <3>2 DEF LastStopDue
      <4>2. CASE i = 1
        <5>1. Dark'
          BY <1>1, <1>9, <4>1, <4>2 DEF Places, r
        <5> QED BY <5>1 DEF WillBeStopped
      <4>3. CASE i # 1
        <5>1. i - 1 \in Places' /\ requests'[i - 1].by = StopOf(lastStop')
          BY <1>1, <1>2, <1>3, <4>1, <4>3 DEF Places
        <5>2. \A j \in (i - 1)..Len(requests') : requests'[j].state = "STOPPED"
          <6>1. SUFFICES ASSUME NEW j \in (i - 1)..Len(requests') PROVE requests'[j].state = "STOPPED"
            OBVIOUS
          <6>2. j + 1 \in i..Len(requests) /\ j \in 1..Len(requests')
            BY <1>1, <1>2, <4>1, <4>3 DEF Places
          <6> QED BY <1>2, <4>1, <6>2
        <5> QED BY <1>3, <2>3, <5>1, <5>2 DEF LastStopDue, WillBeStopped
      <4> QED BY <4>2, <4>3
    <3> QED BY <3>1, <3>2
  <2>4. CASE backend \in {"up", "exiting"} /\ (Dark \/ attached # NoController)
    BY <1>3, <1>10, <2>4 DEF WillBeStopped
  <2> QED BY <2>1, <2>2, <2>3, <2>4 DEF WillBeStopped, TypeOK, Backends
<1> QED BY <1>5, <1>6, <1>7, <1>8, <1>11, <1>12, <1>13

\* At first there is no bot, and nothing is asked of the service.
LEMMA BotInitConsistent == Init => BotConsistent
<1> SUFFICES ASSUME Init PROVE BotConsistent
  OBVIOUS
<1>1. /\ requests \in Seq(Requests) /\ Len(requests) = 0
      /\ session \in [Controllers -> SessionSteps] /\ stopping \in [Controllers -> StopSteps]
  BY DEF Init, SessionSteps, StopSteps
<1>2. TypeOK
  <2>1. wanted \in BOOLEAN /\ reliable \in BOOLEAN
    BY Zenon DEF Init
  <2>2. orders \in 0..MaxOrders /\ faults \in 0..MaxFaults
    BY SharedBotAssumption DEF Init
  <2> QED BY <1>1, <2>1, <2>2 DEF Init, TypeOK, Backends
<1>3. InOrderConsistent
  BY <1>1 DEF Init, InOrderConsistent, OneAttached, AttachedRuns, DownIsQuiet, DownSends, OneStop,
              UnnamedIsQuiet, WillBeStopped, ExitedIsDark, Places, Busy
<1> QED BY <1>2, <1>3 DEF BotConsistent

\* Every step of a reliable service and of the backend keeps the invariant.
LEMMA BotStep == BotConsistent /\ [Next]_vars => BotConsistent'
<1> SUFFICES ASSUME BotConsistent, [Next]_vars PROVE BotConsistent'
  OBVIOUS
<1>1. TypeOK'
  BY BotTypeStep DEF BotConsistent
<1>2. reliable' = reliable
  BY DEF Next, vars, Start, Stop, Restart, Resume, Controller, Fail, SendStop, Ask, NoticeStopped, SendLeave,
         Service, Apply, Lose, GiveUp, ServiceRestarts, Crash, Shutdown, Exit, LoadAll
<1>3. ASSUME reliable PROVE InOrderConsistent'
  <2>1. TypeOK /\ InOrderConsistent
    BY <1>3 DEF BotConsistent
  <2>2. CASE UNCHANGED vars
    <3>1. OneAttached' /\ AttachedRuns' /\ DownIsQuiet' /\ DownSends' /\ OneStop' /\ UnnamedIsQuiet'
      BY <2>1, <2>2 DEF vars, InOrderConsistent, OneAttached, AttachedRuns, DownIsQuiet, DownSends, OneStop,
                        UnnamedIsQuiet, Places
    <3>2. WillBeStopped' /\ ExitedIsDark'
      BY <2>1, <2>2 DEF vars, InOrderConsistent, WillBeStopped, ExitedIsDark, Dark, LastStopDue, Places
    <3> QED BY <3>1, <3>2 DEF InOrderConsistent
  <2>3. ASSUME NEW c \in Controllers, Controller(c) PROVE InOrderConsistent'
    <3>1. CASE Fail(c) \/ NoticeStopped(c)
      <4>1. /\ attached = c /\ LetGo(c) /\ backend' = backend
            /\ requests' = requests /\ recorded' = recorded /\ bot' = bot
        BY <3>1 DEF Fail, NoticeStopped
      <4>2. backend = "up"
        BY <2>1, <4>1, BotTypes DEF InOrderConsistent, AttachedRuns
      <4> QED BY <2>1, <4>1, <4>2, LetGoInOrder
    <3> QED BY <2>1, <2>3, <3>1, SendStopInOrder, SessionInOrder DEF Controller
  <2>4. ASSUME NEW i \in DOMAIN requests, Apply(i) \/ Lose(i) \/ GiveUp(i) PROVE InOrderConsistent'
    <3>1. Apply(i) /\ i = 1
      BY <1>3, <2>4 DEF Apply, Lose, GiveUp, InOrder
    <3> QED BY <2>1, <2>4, <3>1, ApplyInOrder
  <2> QED BY <2>1, <2>2, <2>3, <2>4, OrderInOrder, ServiceRestartsInOrder, VanishInOrder, LoadAllInOrder
          DEF Next, Service
<1> QED BY <1>1, <1>2, <1>3 DEF BotConsistent

\* Without anybody in the backend who attends to it, the bot is stopped.
LEMMA ConsistentNoneLeft == BotConsistent /\ reliable => NeverUnattended
<1> SUFFICES ASSUME BotConsistent, reliable, Unattended PROVE bot = "stopped"
  BY DEF NeverUnattended
<1>1. TypeOK /\ InOrderConsistent
  BY DEF BotConsistent
<1>2. ~LastStopDue
  BY <1>1, BotTypes DEF LastStopDue, Unattended, InOrderConsistent, OneStop
<1>3. Dark
  BY <1>1, <1>2 DEF InOrderConsistent, WillBeStopped, ExitedIsDark, Unattended
<1> QED BY <1>3 DEF Dark

-----------------------------------------------------------------------------
(***************************************************************************)
(* Selling by the plugin: the lease and the menus of the user.             *)
(***************************************************************************)

\* What is left of the lease, and what a renewal under way would make of it,
\* was given by a renewal that is no older than that.
LeaseOfLastRenewal == lease + unheard <= LeaseMax /\ renewal + unheard <= LeaseMax

\* A menu of the user is not sold in, and no sale that it could be taken for
\* is waited for.
UsersMenuLetBe == menu.of = "manual" /\ ~menu.awaited => ~waiting /\ selling # "current"

\* No stack is moved twice.
MovedOnce == left + moving <= Slots

SellConsistent == SellTypeOK /\ LeaseOfLastRenewal /\ UsersMenuLetBe /\ MovedOnce

AskedKinds == SaleMenus \union {"foreign"}

\* Every time and every bound is positive.
LEMMA SellBounds ==
  /\ LeaseMax \in Nat \ {0} /\ ManualWindow \in Nat \ {0} /\ ReplyWait \in Nat \ {0}
  /\ Recognise \in Nat \ {0} /\ Stall \in Nat \ {0} /\ Rest \in Nat \ {0} /\ Interval \in Nat \ {0}
  /\ Slots \in Nat \ {0} /\ MaxAsked \in Nat \ {0}
BY NativeSellingAssumption

\* At first there is no lease and no menu.
LEMMA SellInitConsistent == SellInit => SellConsistent
<1> SUFFICES ASSUME SellInit PROVE SellConsistent
  OBVIOUS
<1>1. asked \in Seq(SaleMenus \union {"foreign"}) /\ Len(asked) <= MaxAsked
  BY SellBounds DEF SellInit
<1>2. /\ renewal \in None..LeaseMax /\ lease \in 0..LeaseMax /\ unheard \in 0..LeaseMax
      /\ manual \in 0..ManualWindow /\ age \in 0..Recognise
      /\ left \in 0..Slots /\ moving \in 0..Slots /\ stalled \in 0..Stall
      /\ rest \in 0..Rest /\ nextIn \in 0..Later(Rest, Interval)
  BY SellBounds DEF SellInit, None, Later
<1>3. SellTypeOK
  BY <1>1, <1>2 DEF SellInit, SellTypeOK
<1> QED BY <1>3, SellBounds
        DEF SellInit, SellConsistent, LeaseOfLastRenewal, UsersMenuLetBe, MovedOnce, NoMenu, None

\* The times that pass, and those that are set, stay in their ranges.
LEMMA SellTimes ==
  ASSUME SellConsistent, SellNext
  PROVE  /\ renewal' \in None..LeaseMax /\ lease' \in 0..LeaseMax /\ unheard' \in 0..LeaseMax
         /\ LeaseOfLastRenewal'
         /\ manual' \in 0..ManualWindow /\ age' \in 0..Recognise
         /\ rest' \in 0..Rest /\ nextIn' \in 0..Later(Rest, Interval)
<1> USE SellBounds DEF SellConsistent
<1>1. /\ renewal \in None..LeaseMax /\ lease \in 0..LeaseMax /\ unheard \in 0..LeaseMax
      /\ manual \in 0..ManualWindow /\ age \in 0..Recognise
      /\ rest \in 0..Rest /\ nextIn \in 0..Later(Rest, Interval)
  BY DEF SellTypeOK
<1>2. CASE SellingElapses
  <2>1. /\ renewal' \in None..LeaseMax /\ lease' \in 0..LeaseMax /\ unheard' \in 0..LeaseMax
        /\ LeaseOfLastRenewal'
    BY <1>1, <1>2 DEF SellingElapses, Less, Older, None, LeaseOfLastRenewal
  <2>2. manual' \in 0..ManualWindow /\ age' \in 0..Recognise /\ rest' \in 0..Rest
    BY <1>1, <1>2 DEF SellingElapses, Less, Older
  <2>3. nextIn' \in 0..Later(Rest, Interval)
    BY <1>1, <1>2 DEF SellingElapses, Less, Later
  <2> QED BY <2>1, <2>2, <2>3
<1>3. CASE ~SellingElapses
  <2>1. /\ renewal' \in None..LeaseMax /\ lease' \in 0..LeaseMax /\ unheard' \in 0..LeaseMax
        /\ LeaseOfLastRenewal'
    <3>1. CASE SendRenewal \/ Renew \/ LoseRenewal
      BY <1>1, <3>1 DEF SendRenewal, Renew, LoseRenewal, None, LeaseOfLastRenewal
    <3>2. CASE UNCHANGED control
      BY <1>1, <3>2 DEF control, LeaseOfLastRenewal
    <3> QED BY <1>3, <3>1, <3>2
            DEF SellNext, Configure, Bar, Suspend, CloseForCommand, SendCommand, OpenMenu, IgnoreCommand,
                CloseMenu, Content, Confirm, Reject, Teleported, TickHeldBack, TickGivesUp, TickTakes,
                TickMoves, TickCloses, TickGivesUpWaiting, TickForgets, TickAsks
  <2>2. manual' \in 0..ManualWindow
    BY <1>1, <1>3
       DEF SellNext, SendRenewal, Renew, LoseRenewal, Configure, Bar, Suspend, CloseForCommand, SendCommand,
           OpenMenu, IgnoreCommand, CloseMenu, Content, Confirm, Reject, Teleported, TickHeldBack, TickGivesUp,
           TickTakes, TickMoves, TickCloses, TickGivesUpWaiting, TickForgets, TickAsks, settings
  <2>3. age' \in 0..Recognise /\ rest' \in 0..Rest
    BY <1>1, <1>3
       DEF SellNext, SendRenewal, Renew, LoseRenewal, Configure, Bar, Suspend, CloseForCommand, SendCommand,
           OpenMenu, IgnoreCommand, CloseMenu, Content, Confirm, Reject, Teleported, TickHeldBack, TickGivesUp,
           TickTakes, TickMoves, TickCloses, TickGivesUpWaiting, TickForgets, TickAsks, game
  <2>4. nextIn' \in 0..Later(Rest, Interval)
    BY <1>1, <1>3
       DEF SellNext, SendRenewal, Renew, LoseRenewal, Configure, Bar, Suspend, CloseForCommand, SendCommand,
           OpenMenu, IgnoreCommand, CloseMenu, Content, Confirm, Reject, Teleported, TickHeldBack, TickGivesUp,
           TickTakes, TickMoves, TickCloses, TickGivesUpWaiting, TickForgets, TickAsks, game, Later
  <2> QED BY <2>1, <2>2, <2>3, <2>4
<1> QED BY <1>2, <1>3

\* The commands the server has not answered.
LEMMA SellAsked ==
  ASSUME SellConsistent, SellNext
  PROVE  asked' \in Seq(AskedKinds) /\ Len(asked') <= MaxAsked
<1>1. asked \in Seq(AskedKinds) /\ Len(asked) <= MaxAsked /\ Len(asked) \in Nat /\ MaxAsked \in Nat
  BY SellBounds DEF SellConsistent, SellTypeOK, AskedKinds
<1>2. CASE SendCommand \/ TickAsks
  <2>1. PICK answer \in AskedKinds : asked' = Append(asked, answer) /\ Len(asked) < MaxAsked
    BY <1>2 DEF SendCommand, TickAsks, AskedKinds, SaleMenus
  <2> QED BY <1>1, <2>1, AppendProperties
<1>3. CASE OpenMenu \/ IgnoreCommand
  <2>1. asked # <<>> /\ asked' = Tail(asked)
    BY <1>3 DEF OpenMenu, IgnoreCommand
  <2> QED BY <1>1, <2>1, HeadTailProperties
<1>4. CASE asked' = asked
  BY <1>1, <1>4
<1> QED BY <1>2, <1>3, <1>4
        DEF SellNext, SendRenewal, Renew, LoseRenewal, Configure, Bar, Suspend, CloseForCommand, CloseMenu,
            Content, Confirm, Reject, Teleported, TickHeldBack, TickGivesUp, TickTakes, TickMoves, TickCloses,
            TickGivesUpWaiting, TickForgets, SellingElapses, game

\* The stacks of a sale.
LEMMA SellStacks ==
  ASSUME SellConsistent, SellNext
  PROVE  left' \in 0..Slots /\ moving' \in 0..Slots /\ stalled' \in 0..Stall /\ MovedOnce'
<1> USE SellBounds DEF SellConsistent
<1>1. left \in 0..Slots /\ moving \in 0..Slots /\ stalled \in 0..Stall
  BY DEF SellTypeOK
<1>2. CASE TickMoves
  <2>1. PICK n \in 1..left : \E filled \in 0..n : left' = left - n /\ moving' = moving + filled
    BY <1>2 DEF TickMoves
  <2>2. PICK filled \in 0..n : left' = left - n /\ moving' = moving + filled
    BY <2>1
  <2>3. stalled' \in {0, stalled}
    BY <1>2 DEF TickMoves
  <2> QED BY <1>1, <2>1, <2>2, <2>3 DEF MovedOnce
<1>3. CASE OpenMenu
  BY <1>1, <1>3 DEF OpenMenu, sale, MovedOnce
<1>4. CASE Confirm \/ SellingElapses
  BY <1>1, <1>4 DEF Confirm, SellingElapses, Older, MovedOnce
<1>5. CASE left' = left /\ moving' = moving /\ stalled' = stalled
  BY <1>1, <1>5 DEF MovedOnce
<1>6. CASE (left' = 0 \/ left' = Slots) /\ moving' = 0 /\ stalled' = 0
  <2>1. left' \in 0..Slots /\ moving' \in 0..Slots /\ stalled' \in 0..Stall
    BY <1>6
  <2>2. left' + moving' <= Slots
    BY <1>6
  <2> QED BY <2>1, <2>2 DEF MovedOnce
<1>7. CASE Teleported \/ TickHeldBack \/ TickGivesUp \/ TickTakes
  BY <1>6, <1>7 DEF Teleported, TickHeldBack, TickGivesUp, TickTakes, Cancel
<1>8. CASE SendRenewal \/ Renew \/ LoseRenewal \/ Configure \/ Bar \/ Suspend \/ CloseForCommand
           \/ SendCommand \/ IgnoreCommand \/ CloseMenu \/ Content \/ Reject
           \/ TickCloses \/ TickGivesUpWaiting \/ TickForgets \/ TickAsks
  BY <1>5, <1>8
     DEF SendRenewal, Renew, LoseRenewal, Configure, Bar, Suspend, CloseForCommand, SendCommand,
         IgnoreCommand, CloseMenu, Content, Reject, TickCloses, TickGivesUpWaiting, TickForgets, TickAsks,
         game, sale
<1> QED BY <1>2, <1>3, <1>4, <1>7, <1>8 DEF SellNext

MenuTypes ==
  /\ waiting \in BOOLEAN
  /\ menu \in {NoMenu} \union OpenMenus
  /\ selling \in {"none", "current", "other"}
  /\ selling = "current" => menu.of \in SaleMenus
  /\ UsersMenuLetBe

\* Where no menu is open it is nobody's.
LEMMA NoMenuFields == NoMenu.of = "none"
BY DEF NoMenu

\* What a menu that opens consists of.
LEMMA OpenMenuFields ==
  ASSUME NEW kind \in AskedKinds, NEW b \in BOOLEAN
  PROVE  /\ [of |-> kind, ready |-> FALSE, awaited |-> b] \in OpenMenus
         /\ [of |-> kind, ready |-> FALSE, awaited |-> b].of = kind
         /\ [of |-> kind, ready |-> FALSE, awaited |-> b].awaited = b
BY DEF OpenMenus, AskedKinds

\* The menu that opens.
LEMMA SellOpens ==
  ASSUME SellConsistent, OpenMenu
  PROVE  MenuTypes'
<1>1. /\ asked \in Seq(AskedKinds) /\ waiting \in BOOLEAN
      /\ menu \in {NoMenu} \union OpenMenus /\ selling \in {"none", "current", "other"}
  BY DEF SellConsistent, SellTypeOK, AskedKinds
<1> DEFINE kind == Head(asked)
           recognised == kind \in SaleMenus /\ age < Recognise
           expected == kind = "manual" /\ waiting
           opened == [of |-> kind, ready |-> FALSE, awaited |-> expected]
<1>2. kind \in AskedKinds
  BY <1>1 DEF OpenMenu
<1>3. expected \in BOOLEAN /\ recognised \in BOOLEAN
  BY Zenon
<1>4. opened \in OpenMenus /\ opened.of = kind /\ opened.awaited = expected
  BY <1>2, <1>3, OpenMenuFields
<1>5. /\ menu' = IF recognised /\ ~waiting /\ manual = 0 THEN NoMenu ELSE opened
      /\ selling' = IF recognised /\ waiting THEN "current"
                    ELSE IF selling = "current" THEN "other" ELSE selling
      /\ waiting' = waiting
  BY DEF OpenMenu
<1>6. menu' \in {NoMenu} \union OpenMenus /\ waiting' \in BOOLEAN
  BY <1>1, <1>4, <1>5
<1>7. selling' \in {"none", "current", "other"} /\ (selling' = "current" => recognised /\ waiting)
  BY <1>1, <1>5
<1>8. selling' = "current" => menu'.of \in SaleMenus
  BY <1>4, <1>5, <1>7
<1>9. UsersMenuLetBe'
  <2>1. menu' = opened /\ kind = "manual" /\ ~expected => ~waiting
    BY <1>3
  <2> QED BY <1>4, <1>5, <1>7, <2>1, NoMenuFields DEF UsersMenuLetBe
<1> QED BY <1>6, <1>7, <1>8, <1>9 DEF MenuTypes

\* The menu that is there.
LEMMA SellMenus ==
  ASSUME SellConsistent, SellNext
  PROVE  MenuTypes'
<1> USE DEF SellConsistent
<1>1. MenuTypes
  BY DEF SellTypeOK, MenuTypes
<1>2. CASE OpenMenu
  BY <1>2, SellOpens
<1>3. CASE menu' = NoMenu /\ waiting' \in BOOLEAN /\ selling' \in {"none", "other"}
  BY <1>3, NoMenuFields DEF MenuTypes, UsersMenuLetBe
<1>4. CASE menu' = menu /\ waiting' \in BOOLEAN /\ (waiting' => waiting) /\ selling' \in {selling, "none"}
  <2>1. /\ selling' \in {"none", "current", "other"}
        /\ selling' = "current" => selling = "current"
    BY <1>1, <1>4 DEF MenuTypes
  <2> QED BY <1>1, <1>4, <2>1 DEF MenuTypes, UsersMenuLetBe
<1>5. CASE Content
  <2>1. /\ menu' = [menu EXCEPT !.ready = TRUE] /\ waiting' = waiting /\ selling' = selling
        /\ menu.of \in SaleMenus
    BY <1>5 DEF Content
  <2>2. menu \in OpenMenus
    BY <1>1, <2>1, NoMenuFields DEF MenuTypes, SaleMenus
  <2>3. menu' \in OpenMenus /\ menu'.of = menu.of /\ menu'.awaited = menu.awaited
    BY <2>1, <2>2 DEF OpenMenus
  <2> QED BY <1>1, <2>1, <2>3 DEF MenuTypes, UsersMenuLetBe
<1>6. CASE Cancel
  <2>1. waiting' \in BOOLEAN
    BY <1>6, Zenon DEF Cancel
  <2>2. selling' = "none" /\ menu' \in {menu, NoMenu} /\ (waiting' => waiting)
    BY <1>6 DEF Cancel
  <2> QED BY <1>1, <2>1, <2>2, NoMenuFields DEF MenuTypes, UsersMenuLetBe
<1>7. CASE TickTakes
  <2>1. IsOwn /\ selling # "current" /\ selling' = "current" /\ menu' = menu /\ waiting' = waiting
    BY <1>7 DEF TickTakes
  <2> QED BY <1>1, <2>1 DEF MenuTypes, UsersMenuLetBe, IsOwn
<1>8. CASE CloseForCommand \/ CloseMenu
  <2>1. menu' = NoMenu /\ waiting' = waiting /\ selling' = IF selling = "current" THEN "other" ELSE selling
    BY <1>8 DEF CloseForCommand, CloseMenu
  <2>2. selling' \in {"none", "other"} /\ waiting' \in BOOLEAN
    BY <1>1, <2>1 DEF MenuTypes
  <2> QED BY <1>3, <2>1, <2>2
<1>9. CASE TickCloses \/ TickAsks
  BY <1>3, <1>9 DEF TickCloses, TickAsks
<1>10. CASE Teleported \/ TickHeldBack \/ TickGivesUp
  BY <1>6, <1>10 DEF Teleported, TickHeldBack, TickGivesUp
<1>11. CASE Configure \/ TickGivesUpWaiting \/ TickForgets
  <2>1. /\ menu' = menu /\ (waiting' = waiting \/ ~waiting') /\ waiting' \in BOOLEAN
        /\ (selling' = selling \/ selling' = "none")
    BY <1>1, <1>11 DEF Configure, TickGivesUpWaiting, TickForgets, MenuTypes
  <2> QED BY <1>4, <2>1
<1>12. CASE SendRenewal \/ Renew \/ LoseRenewal \/ Bar \/ Suspend \/ SendCommand \/ IgnoreCommand
            \/ Confirm \/ Reject \/ TickMoves \/ SellingElapses
  <2>1. menu' = menu /\ waiting' = waiting /\ selling' = selling
    BY <1>12 DEF SendRenewal, Renew, LoseRenewal, Bar, Suspend, SendCommand, IgnoreCommand, Confirm,
                 Reject, TickMoves, SellingElapses, game
  <2> QED BY <1>1, <2>1 DEF MenuTypes, UsersMenuLetBe
<1> QED BY <1>2, <1>5, <1>7, <1>8, <1>9, <1>10, <1>11, <1>12 DEF SellNext

\* Every step keeps the invariant.
LEMMA SellStep == SellConsistent /\ [SellNext]_sellVars => SellConsistent'
<1> SUFFICES ASSUME SellConsistent, [SellNext]_sellVars PROVE SellConsistent'
  OBVIOUS
<1>1. CASE UNCHANGED sellVars
  BY <1>1 DEF sellVars, SellConsistent, SellTypeOK, LeaseOfLastRenewal, UsersMenuLetBe, MovedOnce
<1>2. CASE SellNext
  <2>1. allowed' \in {"yes", "barred", "off"} /\ command' \in {"none", "close", "send"}
    BY <1>2 DEF SellConsistent, SellTypeOK, SellNext, SendRenewal, Renew, LoseRenewal, Configure, Bar,
       Suspend, CloseForCommand, SendCommand, OpenMenu, IgnoreCommand, CloseMenu, Content, Confirm, Reject,
       Teleported, TickHeldBack, TickGivesUp, TickTakes, TickMoves, TickCloses, TickGivesUpWaiting,
       TickForgets, TickAsks, SellingElapses, settings
  <2> QED BY <1>2, <2>1, SellTimes, SellAsked, SellStacks, SellMenus
          DEF SellConsistent, SellTypeOK, MenuTypes, AskedKinds
<1> QED BY <1>1, <1>2

\* A sale asked for, or a stack moved, is by a live lease.
LEMMA SellsByLease ==
  ASSUME SellConsistent, [SellNext]_sellVars, (waiting' /\ ~waiting) \/ moving' > moving
  PROVE  unheard < LeaseMax
<1>1. moving \in 0..Slots /\ left \in 0..Slots
  BY DEF SellConsistent, SellTypeOK
<1>2. ~HeldBack
  <2>1. SellNext
    BY <1>1, SellBounds DEF sellVars
  <2>2. waiting' /\ ~waiting => TickAsks
    BY <2>1 DEF SellNext, SendRenewal, Renew, LoseRenewal, Configure, Bar,
       Suspend, CloseForCommand, SendCommand, OpenMenu, IgnoreCommand, CloseMenu, Content, Confirm, Reject,
       Teleported, TickHeldBack, TickGivesUp, TickTakes, TickMoves, TickCloses, TickGivesUpWaiting,
       TickForgets, SellingElapses, game, Cancel
  <2>3. moving' > moving => TickMoves
    BY <1>1, <2>1, SellBounds DEF SellNext, SendRenewal, Renew, LoseRenewal, Configure, Bar,
       Suspend, CloseForCommand, SendCommand, OpenMenu, IgnoreCommand, CloseMenu, Content, Confirm, Reject,
       Teleported, TickHeldBack, TickGivesUp, TickTakes, TickCloses, TickGivesUpWaiting,
       TickForgets, TickAsks, SellingElapses, game, sale, Cancel
  <2> QED BY <2>2, <2>3 DEF TickAsks, TickMoves, Selling
<1> QED BY <1>2, SellBounds DEF HeldBack, SellConsistent, SellTypeOK, LeaseOfLastRenewal

\* A menu of the user is left alone, but for a sale menu that was waited for.
LEMMA ManualMenusLeft ==
  ASSUME SellConsistent, [SellNext]_sellVars, menu.of \in {"manual", "foreign"}, ~menu.awaited
  PROVE  /\ moving' <= moving
         /\ GameTick => menu' = menu
<1>1. selling # "current" /\ ~IsOwn /\ menu # NoMenu
  BY NoMenuFields DEF SellConsistent, SellTypeOK, SaleMenus, UsersMenuLetBe, IsOwn
<1>2. moving \in 0..Slots /\ left \in 0..Slots
  BY DEF SellConsistent, SellTypeOK
<1>3. GameTick => menu' = menu
  BY <1>1 DEF GameTick, TickHeldBack, TickGivesUp, TickTakes, TickMoves, TickCloses, TickGivesUpWaiting,
              TickForgets, TickAsks, Cancel, Selling
<1>4. moving' \in {0, moving, moving - 1}
  <2>1. ~TickMoves
    BY <1>1 DEF TickMoves, Selling
  <2> QED BY <2>1
      DEF SellNext, SendRenewal, Renew, LoseRenewal, Configure, Bar,
       Suspend, CloseForCommand, SendCommand, OpenMenu, IgnoreCommand, CloseMenu, Content, Confirm, Reject,
       Teleported, TickHeldBack, TickGivesUp, TickTakes, TickCloses, TickGivesUpWaiting,
       TickForgets, TickAsks, SellingElapses, game, sale, Cancel, sellVars
<1> QED BY <1>2, <1>3, <1>4, SellBounds

-----------------------------------------------------------------------------
(***************************************************************************)
(* The behaviours: the home to return to, and the task in a menu.          *)
(***************************************************************************)

\* A name that is to be saved is that of the home to return to, and stays to
\* be saved while the file is written.
ToSaveIsHome == saveHome # Nothing => saveHome = home
SavesUntilDone == pass.at = "save" => saveHome # Nothing

BehaviorConsistent == BehaviorTypeOK /\ WorldKept /\ ToSaveIsHome /\ SavesUntilDone

\* What the types say of each variable.
LEMMA BehaviorTypes ==
  ASSUME BehaviorTypeOK
  PROVE  /\ autoReturn \in BOOLEAN /\ online \in BOOLEAN /\ returningHome \in BOOLEAN
         /\ homeGateRetry \in BOOLEAN /\ homePending \in BOOLEAN /\ gate \in BOOLEAN
         /\ began \in 0..MaxResets /\ generation \in 0..MaxResets
         /\ home \in Homes \union {NoHome} /\ saved \in Homes \union {NoHome}
BY DEF BehaviorTypeOK

\* And the other way round.
LEMMA TypesBehavior ==
  ASSUME autoReturn' \in BOOLEAN, online' \in BOOLEAN, returningHome' \in BOOLEAN,
         homeGateRetry' \in BOOLEAN, homePending' \in BOOLEAN, gate' \in BOOLEAN,
         began' \in 0..MaxResets, generation' \in 0..MaxResets, foreground' \in 0..NoTask,
         home' \in Homes \union {NoHome}, saved' \in Homes \union {NoHome},
         spawning' \in {"no", "held", "gate"},
         queue' \in Seq(Commands), Len(queue') <= MaxQueue,
         pass' \in Passes,
         pendingHome' \in Homes \union {NoHome, Nothing},
         saveHome' \in Homes \union {NoHome, Nothing},
         writes' \in [{"pass", "spawn"} -> WriteStates],
         trips' \subseteq Homes, given' \in 0..MaxCommands, mishaps' \in 0..MaxMishaps
  PROVE  BehaviorTypeOK'
BY DEF BehaviorTypeOK

\* What a pass and a command consist of.
LEMMA PassFields ==
  ASSUME NEW p \in Passes
  PROVE  /\ p.at \in Awaited /\ p.for \in Commands \union {NoCommand}
         /\ p.name \in Homes \union {NoHome}
         /\ p.for.does = "home" => p.for.to \in Homes
         /\ \A at \in Awaited : [p EXCEPT !.at = at] \in Passes /\ [p EXCEPT !.at = at].at = at
         /\ \A at \in Awaited : [p EXCEPT !.at = at].for = p.for
<1>1. /\ p.at \in Awaited /\ p.for \in Commands \union {NoCommand}
      /\ p.name \in Homes \union {NoHome}
  BY DEF Passes
<1>2. p.for.does = "home" => p.for.to \in Homes
  BY <1>1 DEF Commands, NoCommand
<1>3. /\ \A at \in Awaited : [p EXCEPT !.at = at] \in Passes /\ [p EXCEPT !.at = at].at = at
      /\ \A at \in Awaited : [p EXCEPT !.at = at].for = p.for
  BY <1>1 DEF Passes
<1> QED BY <1>1, <1>2, <1>3

\* What a pass can begin with.
LEMMA FreshPass ==
  /\ Idle \in Passes /\ Idle.at = "idle"
  /\ \A at \in Awaited : [Idle EXCEPT !.at = at] \in Passes /\ [Idle EXCEPT !.at = at].at = at
  /\ \A at \in Awaited, name \in Homes \union {NoHome} :
       /\ [Idle EXCEPT !.at = at, !.name = name] \in Passes
       /\ [Idle EXCEPT !.at = at, !.name = name].at = at
       /\ [Idle EXCEPT !.at = at, !.name = name].name = name
  /\ \A at \in Awaited, order \in Commands :
       /\ [Idle EXCEPT !.at = at, !.for = order] \in Passes
       /\ [Idle EXCEPT !.at = at, !.for = order].at = at
BY DEF Idle, Passes, Awaited

\* A write to the gate, begun, landed and over.
LEMMA WriteTypes ==
  ASSUME BehaviorTypeOK, NEW w \in {"pass", "spawn"}
  PROVE  /\ writes[w].value \in BOOLEAN
         /\ \A b \in BOOLEAN :
              [writes EXCEPT ![w] = [value |-> b, landed |-> FALSE, open |-> TRUE]]
                \in [{"pass", "spawn"} -> WriteStates]
         /\ [writes EXCEPT ![w] = NoWrite] \in [{"pass", "spawn"} -> WriteStates]
         /\ [writes EXCEPT ![w].landed = TRUE] \in [{"pass", "spawn"} -> WriteStates]
<1>1. writes \in [{"pass", "spawn"} -> WriteStates] /\ writes[w] \in WriteStates
  BY DEF BehaviorTypeOK
<1>2. NoWrite \in WriteStates
  BY DEF NoWrite, WriteStates
<1>3. /\ writes[w].value \in BOOLEAN
      /\ [writes[w] EXCEPT !.landed = TRUE] \in WriteStates
  BY <1>1 DEF WriteStates
<1>4. \A b \in BOOLEAN : [value |-> b, landed |-> FALSE, open |-> TRUE] \in WriteStates
  BY DEF WriteStates
<1> QED BY <1>1, <1>2, <1>3, <1>4

\* The home in the file is the home to return to, and no task is under way.
LEMMA BehaviorInitConsistent == BehaviorInit => BehaviorConsistent
<1> SUFFICES ASSUME BehaviorInit PROVE BehaviorConsistent
  OBVIOUS
<1> USE BehaviorsAssumption
<1>1. queue \in Seq(Commands) /\ Len(queue) = 0
  BY DEF BehaviorInit
<1>2. pass \in Passes /\ pass.at = "idle"
  BY FreshPass DEF BehaviorInit
<1>3. writes \in [{"pass", "spawn"} -> WriteStates]
  BY DEF BehaviorInit, WriteStates, NoWrite
<1>4. homePending \in BOOLEAN /\ gate \in BOOLEAN
  BY Zenon DEF BehaviorInit
<1>5. BehaviorTypeOK
  <2>1. MaxQueue \in Nat /\ MaxCommands \in Nat /\ MaxResets \in Nat /\ MaxMishaps \in Nat
    OBVIOUS
  <2>2. /\ {autoReturn, online, returningHome, homeGateRetry, homePending, gate} \subseteq BOOLEAN
        /\ spawning \in {"no", "held", "gate"}
    BY <1>4 DEF BehaviorInit
  <2>3. /\ {began, generation} \subseteq 0..MaxResets /\ foreground \in 0..NoTask
        /\ given \in 0..MaxCommands /\ mishaps \in 0..MaxMishaps /\ Len(queue) <= MaxQueue
    BY <1>1, <2>1 DEF BehaviorInit, NoTask
  <2>4. /\ {home, saved} \subseteq Homes \union {NoHome}
        /\ pendingHome \in Homes \union {NoHome, Nothing}
        /\ saveHome \in Homes \union {NoHome, Nothing}
        /\ trips \subseteq Homes
    BY DEF BehaviorInit
  <2> QED BY <1>1, <1>2, <1>3, <2>2, <2>3, <2>4 DEF BehaviorTypeOK
<1>6. WorldKept /\ ToSaveIsHome /\ SavesUntilDone
  BY <1>2 DEF BehaviorInit, WorldKept, HomeSaved, TaskOfThisWorld, ToSaveIsHome, SavesUntilDone
<1> QED BY <1>5, <1>6 DEF BehaviorConsistent

\* Spawns, deaths and teleports: the tasks of the last world end.
LEMMA BehaviorSpawnStep ==
  ASSUME BehaviorConsistent,
         Spawn \/ SpawnHeld \/ SpawnDone \/ SpawnFails \/ Die \/ Transition
  PROVE  BehaviorConsistent'
<1> USE BehaviorsAssumption DEF BehaviorConsistent
<1>1. MaxResets \in Nat /\ MaxMishaps \in Nat /\ foreground \in 0..NoTask /\ mishaps \in 0..MaxMishaps
  BY DEF BehaviorTypeOK
<1>2. /\ home' = home /\ saveHome' = saveHome /\ saved' = saved /\ pass' = pass
      /\ pendingHome' = pendingHome /\ trips' = trips /\ queue' = queue /\ given' = given
      /\ autoReturn' = autoReturn /\ began' = began /\ homeGateRetry' = homeGateRetry /\ gate' = gate
  BY DEF Spawn, SpawnHeld, SpawnDone, SpawnFails, Die, Transition, worksite, bounds, setting
<1>3. /\ generation' \in 0..MaxResets /\ foreground' \in 0..NoTask /\ TaskOfThisWorld'
  <2>1. CASE ResetTasks
    BY <1>1, <2>1, BehaviorTypes DEF ResetTasks, NoTask, TaskOfThisWorld
  <2>2. CASE generation' = generation /\ foreground' = foreground
    BY <1>1, <2>2, BehaviorTypes DEF NoTask, TaskOfThisWorld, WorldKept
  <2> QED BY <2>1, <2>2 DEF Spawn, SpawnHeld, SpawnDone, SpawnFails, Die, Transition
<1>4. mishaps' \in 0..MaxMishaps
  BY <1>1 DEF Spawn, SpawnHeld, SpawnDone, SpawnFails, Die, Transition, bounds, Mishap
<1>5. spawning' \in {"no", "held", "gate"} /\ online' \in BOOLEAN
  BY BehaviorTypes DEF Spawn, SpawnHeld, SpawnDone, SpawnFails, Die, Transition, BehaviorTypeOK
<1>6. returningHome' \in BOOLEAN
  <2>1. CASE SpawnHeld
    BY <2>1, BehaviorTypes, Zenon DEF SpawnHeld
  <2> QED BY <2>1, BehaviorTypes DEF Spawn, SpawnDone, SpawnFails, Die, Transition, worksite
<1>7. homePending' \in BOOLEAN
  BY BehaviorTypes, WriteTypes
     DEF Spawn, SpawnHeld, SpawnDone, SpawnFails, Die, Transition, setting, WriteAnswered, GivesUp
<1>8. writes' \in [{"pass", "spawn"} -> WriteStates]
  <2>1. writes \in [{"pass", "spawn"} -> WriteStates]
    BY DEF BehaviorTypeOK
  <2>2. CASE SpawnHeld
    BY <2>1, <2>2, <1>6, WriteTypes DEF SpawnHeld, Writing
  <2>3. CASE ~SpawnHeld
    BY <2>1, <2>3, WriteTypes
       DEF Spawn, SpawnDone, SpawnFails, Die, Transition, setting, WriteAnswered, GivesUp
  <2> QED BY <2>2, <2>3
<1>9. BehaviorTypeOK'
  BY <1>2, <1>3, <1>4, <1>5, <1>6, <1>7, <1>8, BehaviorTypes, TypesBehavior DEF BehaviorTypeOK
<1>10. HomeSaved' /\ ToSaveIsHome' /\ SavesUntilDone'
  BY <1>2 DEF WorldKept, HomeSaved, ToSaveIsHome, SavesUntilDone
<1> QED BY <1>3, <1>9, <1>10 DEF WorldKept

\* The steps that leave the count of the resets and the task of this world.
LEMMA WorldStays ==
  ASSUME BehaviorTypeOK, TaskOfThisWorld, generation' = generation,
         foreground' \in {foreground, NoTask, generation}
  PROVE  /\ foreground' \in 0..NoTask /\ TaskOfThisWorld'
         /\ generation' \in 0..MaxResets
BY BehaviorsAssumption, BehaviorTypes DEF BehaviorTypeOK, TaskOfThisWorld, NoTask

\* What the game confirms and the controller hands over: a new home is to be
\* saved.
LEMMA BehaviorEventStep ==
  ASSUME BehaviorConsistent, Arrive \/ ForgetPending \/ Land \/ Enqueue \/ ConfigureReturn
  PROVE  BehaviorConsistent'
<1> USE BehaviorsAssumption DEF BehaviorConsistent, WorldKept
<1>1. /\ given \in 0..MaxCommands /\ MaxCommands \in Nat /\ trips \subseteq Homes
      /\ queue \in Seq(Commands) /\ Len(queue) <= MaxQueue /\ MaxQueue \in Nat
      /\ writes \in [{"pass", "spawn"} -> WriteStates] /\ pass \in Passes
      /\ pendingHome \in Homes \union {NoHome, Nothing}
      /\ saveHome \in Homes \union {NoHome, Nothing}
  BY DEF BehaviorTypeOK
<1>2. /\ generation' = generation /\ foreground' = foreground /\ began' = began
      /\ saved' = saved /\ mishaps' = mishaps /\ online' = online /\ spawning' = spawning
      /\ homePending' = homePending /\ pass' = pass
  BY DEF Arrive, ForgetPending, Land, Enqueue, ConfigureReturn, worksite, bounds, setting
<1>3. foreground' \in 0..NoTask /\ generation' \in 0..MaxResets /\ TaskOfThisWorld'
  BY <1>2, WorldStays
<1>4. /\ trips' \subseteq Homes /\ home' \in Homes \union {NoHome}
      /\ pendingHome' \in Homes \union {NoHome, Nothing}
      /\ saveHome' \in Homes \union {NoHome, Nothing}
      /\ HomeSaved' /\ ToSaveIsHome' /\ (saveHome # Nothing => saveHome' # Nothing)
  BY <1>1, BehaviorTypes
     DEF Arrive, ForgetPending, Land, Enqueue, ConfigureReturn, worksite, bounds, HomeSaved, ToSaveIsHome
<1>5. returningHome' \in BOOLEAN /\ homeGateRetry' \in BOOLEAN
  BY BehaviorTypes DEF Arrive, ForgetPending, Land, Enqueue, ConfigureReturn, worksite
<1>6. autoReturn' \in BOOLEAN
  BY BehaviorTypes DEF Arrive, ForgetPending, Land, Enqueue, ConfigureReturn
<1>7. gate' \in BOOLEAN /\ writes' \in [{"pass", "spawn"} -> WriteStates]
  <2>1. CASE Land
    <3>1. PICK w \in {"pass", "spawn"} :
            gate' = writes[w].value /\ writes' = [writes EXCEPT ![w].landed = TRUE]
      BY <2>1 DEF Land
    <3> QED BY <3>1, WriteTypes
  <2> QED BY <1>1, <2>1, BehaviorTypes DEF Arrive, ForgetPending, Enqueue, ConfigureReturn, setting
<1>8. given' \in 0..MaxCommands
  BY <1>1 DEF Arrive, ForgetPending, Land, Enqueue, ConfigureReturn, bounds
<1>9. queue' \in Seq(Commands) /\ Len(queue') <= MaxQueue
  <2>1. CASE Enqueue
    <3>1. PICK order \in Commands :
            queue' = IF (\E i \in DOMAIN queue : queue[i] = order) \/ Len(queue) >= MaxQueue
                     THEN queue ELSE Append(queue, order)
      BY <2>1 DEF Enqueue
    <3> QED BY <1>1, <3>1, AppendProperties
  <2> QED BY <1>1, <2>1 DEF Arrive, ForgetPending, Land, ConfigureReturn
<1>10. SavesUntilDone'
  BY <1>2, <1>4 DEF SavesUntilDone
<1>11. BehaviorTypeOK'
  <2>1. /\ online' \in BOOLEAN /\ homePending' \in BOOLEAN /\ began' \in 0..MaxResets
        /\ saved' \in Homes \union {NoHome} /\ spawning' \in {"no", "held", "gate"}
        /\ pass' \in Passes /\ mishaps' \in 0..MaxMishaps
    BY <1>2, BehaviorTypes DEF BehaviorTypeOK
  <2> QED BY <2>1, <1>3, <1>4, <1>5, <1>6, <1>7, <1>8, <1>9, TypesBehavior
<1> QED BY <1>3, <1>4, <1>10, <1>11

PassStep ==
  \/ TickGate \/ GateDone \/ TickSave \/ SaveDone \/ PassEnds
  \/ TakeCommand \/ Suspended \/ Closed \/ Released \/ Dispatched
  \/ TaskEnds \/ TickReturn \/ ReturnSent \/ PassFails

\* What becomes of the pass itself.
LEMMA PassStepPass ==
  ASSUME BehaviorConsistent, PassStep
  PROVE  /\ pass' \in Passes
         /\ pass'.at = "save" => TickSave
<1> USE BehaviorsAssumption DEF BehaviorConsistent
<1>1. pass \in Passes /\ queue \in Seq(Commands)
      /\ home \in Homes \union {NoHome} /\ saveHome \in Homes \union {NoHome, Nothing}
  BY BehaviorTypes DEF BehaviorTypeOK
<1>2. CASE TickGate
  BY <1>2, FreshPass DEF TickGate, Awaited
<1>3. CASE GateDone
  BY <1>3, FreshPass DEF GateDone, Awaited
<1>4. CASE TickSave
  <2>1. saveHome \in Homes \union {NoHome} /\ "save" \in Awaited
    BY <1>1, <1>4 DEF TickSave, Awaited
  <2> QED BY <1>4, <2>1, FreshPass DEF TickSave
<1>5. CASE SaveDone
  BY <1>5, FreshPass DEF SaveDone, Awaited
<1>6. CASE TakeCommand
  <2>1. Head(queue) \in Commands /\ "suspend" \in Awaited
    BY <1>1, <1>6 DEF TakeCommand, Awaited
  <2> QED BY <1>6, <2>1, FreshPass DEF TakeCommand
<1>7. CASE Suspended \/ Closed \/ Released
  <2>1. PICK at \in {"close", "release", "dispatch"} : pass' = [pass EXCEPT !.at = at]
    BY <1>7 DEF Suspended, Closed, Released
  <2>2. at \in Awaited
    BY DEF Awaited
  <2> QED BY <1>1, <2>1, <2>2, PassFields
<1>8. CASE TickReturn
  <2>1. "return" \in Awaited
    BY DEF Awaited
  <2> QED BY <1>1, <1>8, <2>1, FreshPass DEF TickReturn
<1>9. CASE PassEnds \/ Dispatched \/ TaskEnds \/ ReturnSent \/ PassFails
  BY <1>9, FreshPass DEF PassEnds, Dispatched, TaskEnds, ReturnSent, PassFails
<1> QED BY <1>2, <1>3, <1>4, <1>5, <1>6, <1>7, <1>8, <1>9 DEF PassStep

\* A pass: what is written is to be saved still, and a task begins in the world
\* its command began in.
LEMMA BehaviorPassStep ==
  ASSUME BehaviorConsistent, PassStep
  PROVE  BehaviorConsistent'
<1> USE BehaviorsAssumption DEF BehaviorConsistent, WorldKept
<1>1. /\ queue \in Seq(Commands) /\ Len(queue) <= MaxQueue /\ MaxQueue \in Nat
      /\ writes \in [{"pass", "spawn"} -> WriteStates] /\ pass \in Passes
      /\ pendingHome \in Homes \union {NoHome, Nothing}
      /\ saveHome \in Homes \union {NoHome, Nothing}
      /\ mishaps \in 0..MaxMishaps /\ MaxMishaps \in Nat /\ trips \subseteq Homes
      /\ given \in 0..MaxCommands /\ spawning \in {"no", "held", "gate"}
  BY DEF BehaviorTypeOK
<1>2. /\ generation' = generation /\ autoReturn' = autoReturn /\ online' = online
      /\ spawning' = spawning /\ given' = given /\ gate' = gate
      /\ began' \in {began, generation}
      /\ foreground' \in {foreground, NoTask, generation}
  BY DEF PassStep, TickGate, GateDone, TickSave, SaveDone, PassEnds, TakeCommand, Suspended, Closed,
         Released, Dispatched, TaskEnds, TickReturn, ReturnSent, PassFails, stream, bounds, setting, Begins
<1>3. foreground' \in 0..NoTask /\ generation' \in 0..MaxResets /\ TaskOfThisWorld'
  BY <1>2, WorldStays
<1>4. pass' \in Passes /\ (pass'.at = "save" => TickSave)
  BY PassStepPass
<1>5. queue' \in Seq(Commands) /\ Len(queue') <= MaxQueue
  <2>1. CASE TakeCommand
    <3>1. queue # <<>> /\ queue' = Tail(queue)
      BY <2>1 DEF TakeCommand
    <3> QED BY <1>1, <3>1, HeadTailProperties
  <2> QED BY <1>1, <2>1
          DEF PassStep, TickGate, GateDone, TickSave, SaveDone, PassEnds, Suspended, Closed,
              Released, Dispatched, TaskEnds, TickReturn, ReturnSent, PassFails
<1>6. homePending' \in BOOLEAN /\ writes' \in [{"pass", "spawn"} -> WriteStates]
  BY <1>1, BehaviorTypes, WriteTypes
     DEF PassStep, TickGate, GateDone, TickSave, SaveDone, PassEnds, TakeCommand, Suspended, Closed,
         Released, Dispatched, TaskEnds, TickReturn, ReturnSent, PassFails, setting, Writing,
         WriteAnswered, GivesUp
<1>7. homeGateRetry' \in BOOLEAN
  BY BehaviorTypes
     DEF PassStep, TickGate, GateDone, TickSave, SaveDone, PassEnds, TakeCommand, Suspended, Closed,
         Released, Dispatched, TaskEnds, TickReturn, ReturnSent, PassFails
<1>8. returningHome' \in BOOLEAN
  <2>1. CASE Closed
    BY <2>1, BehaviorTypes, Zenon DEF Closed
  <2> QED BY <2>1, BehaviorTypes
          DEF PassStep, TickGate, GateDone, TickSave, SaveDone, PassEnds, TakeCommand, Suspended,
              Released, Dispatched, TaskEnds, TickReturn, ReturnSent, PassFails, worksite
<1>9. pendingHome' \in Homes \union {NoHome, Nothing}
  BY <1>1, BehaviorTypes, PassFields
     DEF PassStep, TickGate, GateDone, TickSave, SaveDone, PassEnds, TakeCommand, Suspended, Closed,
         Released, Dispatched, TaskEnds, TickReturn, ReturnSent, PassFails, worksite
<1>10. /\ home' \in Homes \union {NoHome} /\ saveHome' \in Homes \union {NoHome, Nothing}
       /\ saved' \in Homes \union {NoHome} /\ HomeSaved' /\ ToSaveIsHome'
  <2>1. CASE SaveDone
    BY <1>1, <2>1, BehaviorTypes, PassFields DEF SaveDone, ToSaveIsHome, SavesUntilDone, HomeSaved
  <2>2. CASE Closed \/ Released
    BY <1>1, <2>2, BehaviorTypes DEF Closed, Released, LeaveWorksite, ToSaveIsHome, HomeSaved
  <2>3. CASE PassFails
    BY <1>1, <2>3, BehaviorTypes, PassFields
       DEF PassFails, worksite, ToSaveIsHome, HomeSaved, SavesUntilDone
  <2>4. CASE ~(SaveDone \/ Closed \/ Released \/ PassFails)
    <3>1. home' = home /\ saveHome' = saveHome /\ saved' = saved
      BY <2>4 DEF PassStep, TickGate, GateDone, TickSave, PassEnds, TakeCommand, Suspended,
                  Dispatched, TaskEnds, TickReturn, ReturnSent, worksite
    <3> QED BY <1>1, <3>1, BehaviorTypes DEF ToSaveIsHome, HomeSaved
  <2> QED BY <2>1, <2>2, <2>3, <2>4
<1>11. SavesUntilDone'
  BY <1>4 DEF SavesUntilDone, TickSave, worksite
<1>12. trips' \subseteq Homes
  <2>1. CASE Dispatched
    BY <1>1, <2>1, PassFields DEF Dispatched
  <2>2. CASE ReturnSent
    BY <1>1, <2>2, PassFields DEF ReturnSent, Requested
  <2>3. CASE PassFails
    BY <1>1, <2>3, PassFields DEF PassFails, Requested
  <2> QED BY <1>1, <2>1, <2>2, <2>3
          DEF PassStep, TickGate, GateDone, TickSave, SaveDone, PassEnds, TakeCommand, Suspended, Closed,
              Released, TaskEnds, TickReturn, bounds
<1>13. mishaps' \in 0..MaxMishaps
  <2>1. CASE PassFails
    BY <1>1, <2>1 DEF PassFails, Mishap
  <2>2. CASE ~PassFails
    BY <1>1, <2>2
       DEF PassStep, TickGate, GateDone, TickSave, SaveDone, PassEnds, TakeCommand, Suspended, Closed,
           Released, Dispatched, TaskEnds, TickReturn, ReturnSent, bounds
  <2> QED BY <2>1, <2>2
<1>14. BehaviorTypeOK'
  <2>1. /\ autoReturn' \in BOOLEAN /\ online' \in BOOLEAN /\ gate' \in BOOLEAN
        /\ began' \in 0..MaxResets /\ spawning' \in {"no", "held", "gate"} /\ given' \in 0..MaxCommands
    BY <1>1, <1>2, BehaviorTypes
  <2> QED BY <2>1, <1>3, <1>4, <1>5, <1>6, <1>7, <1>8, <1>9, <1>10, <1>12, <1>13, TypesBehavior
<1> QED BY <1>3, <1>10, <1>11, <1>14

\* Every step keeps the invariant.
LEMMA BehaviorStep == BehaviorConsistent /\ [BehaviorNext]_behaviorVars => BehaviorConsistent'
<1> SUFFICES ASSUME BehaviorConsistent, [BehaviorNext]_behaviorVars PROVE BehaviorConsistent'
  OBVIOUS
<1>1. CASE UNCHANGED behaviorVars
  BY <1>1 DEF behaviorVars, BehaviorConsistent, BehaviorTypeOK, WorldKept, HomeSaved, TaskOfThisWorld,
              ToSaveIsHome, SavesUntilDone
<1>2. CASE BehaviorNext
  BY <1>2, BehaviorSpawnStep, BehaviorEventStep, BehaviorPassStep DEF BehaviorNext, PassStep
<1> QED BY <1>1, <1>2

-----------------------------------------------------------------------------
(***************************************************************************)
(* The session: what it tells of its end, and its heartbeat.               *)
(***************************************************************************)

\* Only a game that runs and whose player lives is frozen.
FrozenInGame == frozen => client \in {"starting", "world"}

WatchConsistent == WatchTypeOK /\ ToldOnce /\ FrozenInGame

\* What the types say of each variable, in either direction.
LEMMA WatchTypes ==
  ASSUME WatchTypeOK
  PROVE  /\ frozen \in BOOLEAN /\ reachable \in BOOLEAN /\ inWorld \in BOOLEAN
         /\ stocked \in BOOLEAN /\ outage \in BOOLEAN
         /\ beat \in {0, 1} /\ reports \in 0..2 /\ ended \in {"no", "killed", "failed"}
         /\ client \in Clients /\ seen \in Clients /\ frames \in Seq(Kinds)
         /\ start \in {"preparing", "sent", "applied", "running"}
         /\ watch \in {"idle", "open", "spawning", "entering", "respawning", "delay"}
         /\ poll \in {"idle", "asked", "answered", "spawning", "probing", "probed"}
         /\ shown \in 0..MaxFrames /\ troubles \in 0..MaxTroubles
BY DEF WatchTypeOK

\* At first nothing is told.
LEMMA WatchInitConsistent == WatchInit => WatchConsistent
<1> SUFFICES ASSUME WatchInit PROVE WatchConsistent
  OBVIOUS
<1>1. frames \in Seq(Kinds)
  BY DEF WatchInit
<1>2. {frozen, reachable, inWorld, stocked, outage} \subseteq BOOLEAN
  BY DEF WatchInit
<1>3. reports \in 0..2 /\ shown \in 0..MaxFrames /\ troubles \in 0..MaxTroubles
  BY SessionWatchAssumption DEF WatchInit
<1> QED BY <1>1, <1>2, <1>3 DEF WatchInit, WatchConsistent, WatchTypeOK, ToldOnce, FrozenInGame, Clients

\* The end of the session, and what is told of it.
EndTypes == reports' \in 0..2 /\ ended' \in {"no", "killed", "failed"} /\ ToldOnce'

\* A part of the session tells of its end only while the session runs.
LEMMA EndKept ==
  ASSUME WatchConsistent, UNCHANGED ends \/ (Running /\ Report)
  PROVE  EndTypes
BY WatchTypes DEF WatchConsistent, ToldOnce, EndTypes, Running, Report, ends

\* Every step that tells of it does so then.
LEMMA WatchEnd ==
  ASSUME WatchConsistent, WatchNext
  PROVE  EndTypes
<1>1. CASE Kill
  BY <1>1, WatchTypes DEF Kill, WatchConsistent, ToldOnce, EndTypes, Running
<1>2. CASE Service_
  <2>1. UNCHANGED ends
    BY <1>2 DEF Service_, RunsClient, EntersWorld, ShowsGame, DropsFrames, PlayerDies, LeavesGame, Freezes,
                Vanishes, Recovers, Outside
  <2> QED BY <2>1, EndKept
<1>3. CASE PrepareFails \/ Begin \/ StartAnswered \/ StartFails
  <2>1. UNCHANGED ends \/ (Running /\ Report)
    BY <1>3 DEF PrepareFails, Begin, StartAnswered, StartFails
  <2> QED BY <2>1, EndKept
<1>4. CASE Watching
  <2>1. UNCHANGED ends \/ (Running /\ Report)
    BY <1>4 DEF Watching, TakeFrame, StreamSpawned, StreamSpawnFails, RespawnAnswered, RespawnFails,
                StreamBreaks, Resubscribes, StreamOver, StreamLost
  <2> QED BY <2>1, EndKept
<1>5. CASE Polling
  <2>1. UNCHANGED ends \/ (Running /\ Report)
    BY <1>5 DEF Polling, PollBegins, PollServed, PollAnswered, PollSpawned, PollFails, PollSpawnFails,
                ProbeServed, ProbeAnswered, ProbeFails, PollOver, PollLost, PollDenied
  <2> QED BY <2>1, EndKept
<1> QED BY <1>1, <1>2, <1>3, <1>4, <1>5 DEF WatchNext

\* What the session knows, and its heartbeat.
ViewTypes ==
  /\ inWorld' \in BOOLEAN /\ stocked' \in BOOLEAN /\ outage' \in BOOLEAN /\ beat' \in {0, 1}
  /\ watch' \in {"idle", "open", "spawning", "entering", "respawning", "delay"}
  /\ poll' \in {"idle", "asked", "answered", "spawning", "probing", "probed"}
  /\ seen' \in Clients

\* A heartbeat changes the two variables that show it within their types.
LEMMA BeatTypes ==
  ASSUME WatchTypeOK, outage' = outage \/ outage' = FALSE \/ outage' = TRUE,
         beat' = beat \/ beat' = 1 - beat
  PROVE  outage' \in BOOLEAN /\ beat' \in {0, 1}
<1>1. outage' \in BOOLEAN
  BY WatchTypes
<1>2. beat' \in {0, 1}
  <2>1. beat = 0 \/ beat = 1
    BY WatchTypes
  <2> QED BY <2>1
<1> QED BY <1>1, <1>2

\* Every step keeps the types of what the session knows,
LEMMA WatchView ==
  ASSUME WatchConsistent, WatchNext
  PROVE  ViewTypes
<1> USE WatchTypes DEF WatchConsistent
<1>1. CASE Service_
  BY <1>1 DEF Service_, RunsClient, EntersWorld, ShowsGame, DropsFrames, PlayerDies, LeavesGame, Freezes,
              Vanishes, Recovers, Outside, view, ViewTypes
<1>2. CASE PrepareFails \/ Begin \/ StartAnswered \/ StartFails \/ Kill
  BY <1>2 DEF PrepareFails, Begin, StartAnswered, StartFails, Kill, view, ViewTypes
<1>3. CASE Watching
  <2>1. poll' = poll /\ seen' = seen
    BY <1>3 DEF Watching, TakeFrame, StreamSpawned, StreamSpawnFails, RespawnAnswered, RespawnFails,
                StreamBreaks, Resubscribes, StreamOver, Away
  <2>2. watch' \in {"idle", "open", "spawning", "entering", "respawning", "delay"}
    BY <1>3 DEF Watching, TakeFrame, StreamSpawned, StreamSpawnFails, RespawnAnswered, RespawnFails,
                StreamBreaks, Resubscribes, StreamOver, StreamLost, Spawned
  <2>3. outage' \in BOOLEAN /\ beat' \in {0, 1}
    <3>1. Beat \/ NoBeat
      BY <1>3 DEF Watching, TakeFrame, StreamSpawned, StreamSpawnFails, RespawnAnswered, RespawnFails,
                  StreamBreaks, Resubscribes, StreamOver, NoBeat
    <3> QED BY <3>1, BeatTypes DEF Beat, NoBeat
  <2>4. inWorld' \in BOOLEAN
    BY <1>3 DEF Watching, TakeFrame, StreamSpawned, StreamSpawnFails, RespawnAnswered, RespawnFails,
                StreamBreaks, Resubscribes, StreamOver, Spawned, view
  <2>5. stocked' \in BOOLEAN
    BY <1>3 DEF Watching, TakeFrame, StreamSpawned, StreamSpawnFails, RespawnAnswered, RespawnFails,
                StreamBreaks, Resubscribes, StreamOver, StreamLost, view, InventoryReset, InventoryUpdated
  <2> QED BY <2>1, <2>2, <2>3, <2>4, <2>5 DEF ViewTypes
<1>4. CASE Polling
  <2>1. watch' = watch /\ stocked' = stocked
    BY <1>4 DEF Polling, PollBegins, PollServed, PollAnswered, PollSpawned, PollFails, PollSpawnFails,
                ProbeServed, ProbeAnswered, ProbeFails, PollOver, Beside, view
  <2>2. poll' \in {"idle", "asked", "answered", "spawning", "probing", "probed"} /\ seen' \in Clients
    BY <1>4 DEF Polling, PollBegins, PollServed, PollAnswered, PollSpawned, PollFails, PollSpawnFails,
                ProbeServed, ProbeAnswered, ProbeFails, PollOver, PollLost, PollDenied, Beside
  <2>3. outage' \in BOOLEAN /\ beat' \in {0, 1}
    <3>1. /\ outage' = outage \/ outage' = FALSE \/ outage' = TRUE
          /\ beat' = beat \/ beat' = 1 - beat
      <4>1. CASE PollAnswered
        BY <4>1 DEF PollAnswered
      <4>2. CASE ~PollAnswered
        BY <1>4, <4>2
           DEF Polling, PollBegins, PollServed, PollSpawned, PollFails, PollSpawnFails,
               ProbeServed, ProbeAnswered, ProbeFails, PollOver, Beat, NoBeat
      <4> QED BY <4>1, <4>2
    <3> QED BY <3>1, BeatTypes
  <2>4. inWorld' \in BOOLEAN
    BY <1>4 DEF Polling, PollBegins, PollServed, PollAnswered, PollSpawned, PollFails, PollSpawnFails,
                ProbeServed, ProbeAnswered, ProbeFails, PollOver, view
  <2> QED BY <2>1, <2>2, <2>3, <2>4 DEF ViewTypes
<1> QED BY <1>1, <1>2, <1>3, <1>4 DEF WatchNext

\* The service, and what it has sent.
OutsideTypes ==
  /\ client' \in Clients /\ frozen' \in BOOLEAN /\ reachable' \in BOOLEAN
  /\ FrozenInGame'
  /\ frames' \in Seq(Kinds)
  /\ start' \in {"preparing", "sent", "applied", "running"}
  /\ shown' \in 0..MaxFrames /\ troubles' \in 0..MaxTroubles

\* of what is under way to it,
LEMMA WatchFrames ==
  ASSUME WatchConsistent, WatchNext
  PROVE  frames' \in Seq(Kinds)
<1> USE WatchTypes DEF WatchConsistent
<1>1. CASE frames' = frames \/ frames' = <<>>
  <2>1. frames \in Seq(Kinds) /\ <<>> \in Seq(Kinds)
    OBVIOUS
  <2> QED BY <1>1, <2>1, Zenon
<1>2. ASSUME NEW kind \in Kinds, frames' = Append(frames, kind)
      PROVE  frames' \in Seq(Kinds)
  BY <1>2, AppendProperties
<1>3. CASE frames # <<>> /\ frames' = Tail(frames)
  <2>1. frames \in Seq(Kinds)
    OBVIOUS
  <2> QED BY <1>3, <2>1, HeadTailProperties
<1>4. CASE frames' = <<"resync">>
  BY <1>4 DEF Kinds
<1>5. ASSUME NEW kind \in Kinds, Put(kind)
      PROVE  frames' \in Seq(Kinds)
  BY <1>1, <1>2, <1>5 DEF Put
<1>6. CASE Service_
  <2>1. CASE EntersWorld
    BY <1>5, <2>1 DEF EntersWorld, Kinds
  <2>2. CASE ShowsGame
    BY <1>5, <2>2 DEF ShowsGame, Kinds
  <2>3. CASE PlayerDies
    BY <1>5, <2>3 DEF PlayerDies, Kinds
  <2>4. CASE LeavesGame
    BY <1>5, <2>4 DEF LeavesGame, Kinds
  <2> QED BY <1>1, <1>4, <1>6, <2>1, <2>2, <2>3, <2>4
          DEF Service_, RunsClient, DropsFrames, Freezes, Vanishes, Recovers
<1>7. CASE Watching
  <2>1. CASE RespawnAnswered
    BY <1>1, <1>2, <2>1 DEF RespawnAnswered, Kinds
  <2> QED BY <1>1, <1>3, <1>7, <2>1
          DEF Watching, TakeFrame, StreamSpawned, StreamSpawnFails, RespawnFails, StreamBreaks, Resubscribes,
              StreamOver, StreamLost, Away
<1>8. CASE Polling
  BY <1>1, <1>8
     DEF Polling, PollBegins, PollServed, PollAnswered, PollSpawned, PollFails, PollSpawnFails, ProbeServed,
         ProbeAnswered, ProbeFails, PollOver, Beside
<1>9. CASE PrepareFails \/ Begin \/ StartAnswered \/ StartFails \/ Kill
  BY <1>1, <1>9 DEF PrepareFails, Begin, StartAnswered, StartFails, Kill
<1> QED BY <1>6, <1>7, <1>8, <1>9 DEF WatchNext

\* and of the rest.
LEMMA WatchOutside ==
  ASSUME WatchConsistent, WatchNext
  PROVE  OutsideTypes
<1> USE WatchTypes, SessionWatchAssumption DEF WatchConsistent
<1>1. client' \in Clients /\ frozen' \in BOOLEAN /\ reachable' \in BOOLEAN
      /\ start' \in {"preparing", "sent", "applied", "running"}
  <2>1. CASE Service_
    BY <2>1 DEF Service_, RunsClient, EntersWorld, ShowsGame, DropsFrames, PlayerDies, LeavesGame, Freezes,
                Vanishes, Recovers, Outside, external, Clients
  <2>2. CASE PrepareFails \/ Begin \/ StartAnswered \/ StartFails \/ Kill
    BY <2>2 DEF PrepareFails, Begin, StartAnswered, StartFails, Kill, external
  <2>3. CASE Watching
    BY <2>3 DEF Watching, TakeFrame, StreamSpawned, StreamSpawnFails, RespawnAnswered, RespawnFails,
                StreamBreaks, Resubscribes, StreamOver, Away, external, Clients
  <2>4. CASE Polling
    BY <2>4 DEF Polling, PollBegins, PollServed, PollAnswered, PollSpawned, PollFails, PollSpawnFails,
                ProbeServed, ProbeAnswered, ProbeFails, PollOver, Beside, external
  <2> QED BY <2>1, <2>2, <2>3, <2>4 DEF WatchNext
<1>4. FrozenInGame'
  <2>1. CASE Service_
    BY <2>1 DEF FrozenInGame, Service_, RunsClient, EntersWorld, ShowsGame, DropsFrames, PlayerDies,
                LeavesGame, Freezes, Vanishes, Recovers, external
  <2>2. CASE PrepareFails \/ Begin \/ StartAnswered \/ StartFails \/ Kill
    BY <2>2 DEF FrozenInGame, PrepareFails, Begin, StartAnswered, StartFails, Kill, external
  <2>3. CASE Watching
    BY <2>3 DEF FrozenInGame, Watching, TakeFrame, StreamSpawned, StreamSpawnFails, RespawnAnswered,
                RespawnFails, StreamBreaks, Resubscribes, StreamOver, Away, external
  <2>4. CASE Polling
    BY <2>4 DEF FrozenInGame, Polling, PollBegins, PollServed, PollAnswered, PollSpawned, PollFails,
                PollSpawnFails, ProbeServed, ProbeAnswered, ProbeFails, PollOver, Beside, external
  <2> QED BY <2>1, <2>2, <2>3, <2>4 DEF WatchNext
<1>2. shown' \in 0..MaxFrames
  <2>1. CASE ShowsGame
    BY <2>1 DEF ShowsGame
  <2>2. CASE ~ShowsGame
    BY <2>2
       DEF WatchNext, Service_, RunsClient, EntersWorld, DropsFrames, PlayerDies, LeavesGame, Freezes,
           Vanishes, Recovers, PrepareFails, Begin, StartAnswered, StartFails, Kill, Watching, TakeFrame,
           StreamSpawned, StreamSpawnFails, RespawnAnswered, RespawnFails, StreamBreaks, Resubscribes,
           StreamOver, Away, Polling, PollBegins, PollServed, PollAnswered, PollSpawned, PollFails,
           PollSpawnFails, ProbeServed, ProbeAnswered, ProbeFails, PollOver, Beside
  <2> QED BY <2>1, <2>2
<1>3. troubles' \in 0..MaxTroubles
  <2>1. CASE Trouble
    BY <2>1 DEF Trouble
  <2>2. CASE ~Trouble
    BY <2>2
       DEF WatchNext, Service_, RunsClient, EntersWorld, ShowsGame, DropsFrames, PlayerDies, LeavesGame,
           Freezes, Vanishes, Recovers, PrepareFails, Begin, StartAnswered, StartFails, Kill, Watching,
           TakeFrame, StreamSpawned, StreamSpawnFails, RespawnAnswered, RespawnFails, StreamBreaks,
           Resubscribes, StreamOver, Away, Polling, PollBegins, PollServed, PollAnswered, PollSpawned,
           PollFails, PollSpawnFails, ProbeServed, ProbeAnswered, ProbeFails, PollOver, Beside
  <2> QED BY <2>1, <2>2
<1> QED BY <1>1, <1>2, <1>3, <1>4, WatchFrames DEF OutsideTypes

\* Every step keeps the invariant.
LEMMA WatchStep == WatchConsistent /\ [WatchNext]_watchVars => WatchConsistent'
<1> SUFFICES ASSUME WatchConsistent, [WatchNext]_watchVars PROVE WatchConsistent'
  OBVIOUS
<1>1. CASE UNCHANGED watchVars
  BY <1>1 DEF watchVars, external, view, ends, WatchConsistent, WatchTypeOK, ToldOnce, FrozenInGame
<1>2. CASE WatchNext
  BY <1>2, WatchEnd, WatchView, WatchOutside
     DEF EndTypes, ViewTypes, OutsideTypes, WatchConsistent, WatchTypeOK
<1> QED BY <1>1, <1>2

\* A heartbeat follows something that the service sent of the game, and a frozen
\* game has nothing sent of it.
LEMMA SilentStep ==
  ASSUME WatchConsistent, [WatchNext]_watchVars, frozen, ~UnderWay
  PROVE  beat' = beat /\ (frozen' => ~UnderWay')
<1>1. frames = <<>> /\ poll \notin {"answered", "spawning"} /\ watch # "entering"
  BY DEF UnderWay
<1>2. frozen /\ client # "dead"
  BY DEF WatchConsistent, FrozenInGame
<1>3. CASE Service_
  <2>1. beat' = beat /\ poll' = poll /\ watch' = watch
    BY <1>3 DEF Service_, RunsClient, EntersWorld, ShowsGame, DropsFrames, PlayerDies, LeavesGame, Freezes,
                Vanishes, Recovers, Outside
  <2>2. frozen' => frames' = frames
    BY <1>1, <1>2, <1>3
       DEF Service_, RunsClient, EntersWorld, ShowsGame, DropsFrames, PlayerDies, LeavesGame, Freezes,
           Vanishes, Recovers, external
  <2> QED BY <1>1, <2>1, <2>2 DEF UnderWay
<1>4. CASE Watching
  <2>1. beat' = beat /\ poll' = poll /\ frames' = <<>>
    BY <1>1, <1>2, <1>4
       DEF Watching, TakeFrame, StreamSpawned, StreamSpawnFails, RespawnAnswered, RespawnFails,
           StreamBreaks, Resubscribes, StreamOver, StreamLost, Away, NoBeat
  <2>2. watch' # "entering"
    BY <1>1, <1>4
       DEF Watching, TakeFrame, StreamSpawned, StreamSpawnFails, RespawnAnswered, RespawnFails,
           StreamBreaks, Resubscribes, StreamOver, StreamLost
  <2> QED BY <1>1, <2>1, <2>2 DEF UnderWay
<1>5. CASE Polling
  <2>1. beat' = beat /\ watch' = watch /\ frames' = frames
    BY <1>1, <1>5
       DEF Polling, PollBegins, PollServed, PollAnswered, PollSpawned, PollFails, PollSpawnFails, ProbeServed,
           ProbeAnswered, ProbeFails, PollOver, Beside
  <2>2. poll' \notin {"answered", "spawning"}
    BY <1>1, <1>2, <1>5
       DEF Polling, PollBegins, PollServed, PollAnswered, PollSpawned, PollFails, PollSpawnFails, ProbeServed,
           ProbeAnswered, ProbeFails, PollOver, Beside, PollLost, PollDenied
  <2> QED BY <1>1, <2>1, <2>2 DEF UnderWay
<1>6. CASE PrepareFails \/ Begin \/ StartAnswered \/ StartFails \/ Kill
  BY <1>1, <1>6 DEF PrepareFails, Begin, StartAnswered, StartFails, Kill, UnderWay
<1>7. CASE UNCHANGED watchVars
  BY <1>1, <1>7 DEF watchVars, UnderWay
<1> QED BY <1>3, <1>4, <1>5, <1>6, <1>7 DEF WatchNext

-----------------------------------------------------------------------------
(***************************************************************************)
(* The four parts together.                                                *)
(***************************************************************************)

EngineConsistent == BotConsistent /\ SellConsistent /\ BehaviorConsistent /\ WatchConsistent

\* What one part does leaves the others as they are.
LEMMA EngineStep ==
  ASSUME [EngineNext]_engineVars
  PROVE  [Next]_vars /\ [SellNext]_sellVars /\ [BehaviorNext]_behaviorVars /\ [WatchNext]_watchVars
<1>1. CASE UNCHANGED engineVars
  BY <1>1 DEF engineVars
<1>2. CASE EngineNext
  BY <1>2 DEF EngineNext
<1> QED BY <1>1, <1>2

\* The invariants of the four parts, whatever part is exercised.
THEOREM EngineAlwaysConsistent == EngineSpec => []EngineConsistent
<1>1. EngineInit => EngineConsistent
  BY BotInitConsistent, SellInitConsistent, BehaviorInitConsistent, WatchInitConsistent
     DEF EngineInit, EngineConsistent
<1>2. EngineConsistent /\ [EngineNext]_engineVars => EngineConsistent'
  BY EngineStep, BotStep, SellStep, BehaviorStep, WatchStep DEF EngineConsistent
<1> QED BY <1>1, <1>2, PTL DEF EngineSpec

\* The variables of the four parts have their types, whatever the constants.
THEOREM EngineTypeCorrect == EngineSpec => []EngineTypeOK
<1>1. EngineConsistent => EngineTypeOK
  BY DEF EngineConsistent, EngineTypeOK, BotConsistent, SellConsistent, BehaviorConsistent, WatchConsistent
<1> QED BY <1>1, EngineAlwaysConsistent, PTL

\* The file of the home follows the home to return to, whatever the game
\* confirms while it is written and whichever writes fail, and a task in a menu
\* is of the world the bot is in.
THEOREM WorldAlwaysKept == EngineSpec => []WorldKept
<1>1. EngineConsistent => WorldKept
  BY DEF EngineConsistent, BehaviorConsistent
<1> QED BY <1>1, EngineAlwaysConsistent, PTL

\* A service that applies every request in order is never left with a running
\* bot that nobody attends to, for any number of controllers, crashes and
\* orderly exits (the safety half of Settles).
THEOREM ReliableNeverUnattended == EngineSpec => [](reliable => NeverUnattended)
<1>1. EngineConsistent => (reliable => NeverUnattended)
  BY ConsistentNoneLeft DEF EngineConsistent
<1> QED BY <1>1, EngineAlwaysConsistent, PTL

\* The plugin asks for no sale and moves no stack once no renewal was sent for
\* the length of a lease, however late the last one arrived.
THEOREM AlwaysSellsForController == EngineSpec => SellsOnlyForController
<1>1. EngineConsistent /\ [EngineNext]_engineVars
        => [ (waiting' /\ ~waiting) \/ moving' > moving => unheard < LeaseMax ]_sellVars
  BY EngineStep, SellsByLease DEF EngineConsistent
<1> QED BY <1>1, EngineAlwaysConsistent, PTL DEF EngineSpec, SellsOnlyForController

\* The plugin moves nothing out of an open menu that answers a command of the user,
\* a sale menu or another, and no tick of its closes it, late or not; unless it is a
\* sale menu that opened while one was waited for. (A late one that the opening itself
\* closes never is open.)
THEOREM AlwaysLeavesManualMenus == EngineSpec => LeavesManualMenus
<1>1. EngineConsistent /\ [EngineNext]_engineVars
        => [ menu.of \in {"manual", "foreign"} /\ ~menu.awaited =>
               /\ moving' <= moving
               /\ GameTick => menu' = menu ]_sellVars
  BY EngineStep, ManualMenusLeft DEF EngineConsistent
<1> QED BY <1>1, EngineAlwaysConsistent, PTL DEF EngineSpec, LeavesManualMenus

\* Why a session ended by itself is told exactly once, whichever of its parts
\* finds out.
THEOREM AlwaysToldOnce == EngineSpec => []ToldOnce
<1>1. EngineConsistent => ToldOnce
  BY DEF EngineConsistent, WatchConsistent
<1> QED BY <1>1, EngineAlwaysConsistent, PTL

\* Once what a game sent before it froze has been dealt with no heartbeat comes of it,
\* nor anything that one could follow from, until it is no longer frozen.
THEOREM AlwaysSilentWhenFrozen == EngineSpec => SilentWhenFrozen
<1>1. EngineConsistent /\ [EngineNext]_engineVars
        => [frozen /\ ~UnderWay => beat' = beat /\ (frozen' => ~UnderWay')]_watchVars
  BY EngineStep, SilentStep DEF EngineConsistent
<1> QED BY <1>1, EngineAlwaysConsistent, PTL DEF EngineSpec, SilentWhenFrozen

=============================================================================
