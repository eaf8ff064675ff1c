--------------------------- MODULE SupervisorProofs ---------------------------
(***************************************************************************)
(* Proofs about the supervisor of an account, for every number of          *)
(* controllers and every choice of the delays, limits and intervals.       *)
(***************************************************************************)
EXTENDS Supervisor, TLAPS

-----------------------------------------------------------------------------
(***************************************************************************)
(* The back-off.                                                           *)
(***************************************************************************)

\* 2 ** n is at least 1: no back-off is shorter than its base.
LEMMA PowerOfTwoType ==
  ASSUME NEW n \in Int
  PROVE  PowerOfTwo(n) \in {1, 2, 4, 8}
BY DEF PowerOfTwo

NoFewerFailures(before, after) ==
  /\ after.failures >= before.failures
  /\ after.loginRejections >= before.loginRejections

\* Doubling is monotone.
LEMMA PowerOfTwoGrows ==
  ASSUME NEW m \in Int, NEW n \in Int, m <= n, 0 <= m, n <= 3
  PROVE  PowerOfTwo(m) <= PowerOfTwo(n)
BY DEF PowerOfTwo

\* A capped multiple lies between the base and the cap, if the cap is no
\* smaller than the base.
LEMMA CappedProduct ==
  ASSUME NEW base \in Nat \ {0}, NEW cap \in Nat \ {0}, NEW p \in {1, 2, 4, 8}
  PROVE  /\ Smaller(cap, base * p) \in Nat \ {0}
         /\ Smaller(cap, base) <= Smaller(cap, base * p)
         /\ Smaller(cap, base * p) <= cap
<1>1. base * p \in Nat \ {0} /\ base <= base * p
  OBVIOUS
<1> QED BY <1>1 DEF Smaller

\* It does not shrink when the factor grows.
LEMMA CappedProductGrows ==
  ASSUME NEW base \in Nat \ {0}, NEW cap \in Nat \ {0},
         NEW p \in {1, 2, 4, 8}, NEW q \in {1, 2, 4, 8}, p <= q
  PROVE  Smaller(cap, base * p) <= Smaller(cap, base * q)
<1>1. base * p \in Nat /\ base * q \in Nat /\ base * p <= base * q
  OBVIOUS
<1> QED BY <1>1 DEF Smaller

\* delay() of each class of failure: a positive time, which setTimeout really
\* waits for; never shorter than the class's base, except for a smaller cap,
\* and never longer than its cap.
THEOREM DelayBounds ==
  ASSUME NEW counters \in Policies, NEW reason \in Reasons
  PROVE  /\ Delay(counters, reason) \in Nat \ {0}
         /\ reason = "throttled" =>
              Delay(counters, reason) \in Smaller(ThrottleCap, ThrottleDelay)..ThrottleCap
         /\ reason = "packets" => Delay(counters, reason) = PacketDelay
         /\ reason = "unavailable" =>
              Delay(counters, reason) \in Smaller(OutageCap, BaseDelay)..OutageCap
         /\ reason = "other" => Delay(counters, reason) = BaseDelay
<1> USE DelayAssumption
<1>1. CASE reason = "throttled"
  <2> DEFINE p == PowerOfTwo(Smaller(3, counters.loginRejections - 1))
  <2>1. p \in {1, 2, 4, 8}
    BY PowerOfTwoType DEF Policies, Smaller, RejectionCap
  <2>2. Delay(counters, reason) = Smaller(ThrottleCap, ThrottleDelay * p)
    BY <1>1 DEF Delay
  <2>3. Smaller(ThrottleCap, ThrottleDelay) \in Nat
    BY DEF Smaller
  <2> HIDE DEF p
  <2>4. /\ Smaller(ThrottleCap, ThrottleDelay * p) \in Nat \ {0}
        /\ Smaller(ThrottleCap, ThrottleDelay) <= Smaller(ThrottleCap, ThrottleDelay * p)
        /\ Smaller(ThrottleCap, ThrottleDelay * p) <= ThrottleCap
    BY <2>1, CappedProduct
  <2> QED BY <1>1, <2>2, <2>3, <2>4
<1>2. CASE reason = "packets"
  BY <1>2 DEF Delay
<1>3. CASE reason = "unavailable"
  <2> DEFINE p == PowerOfTwo(Larger(0, Smaller(3, counters.failures - 2)))
  <2>1. p \in {1, 2, 4, 8}
    BY PowerOfTwoType DEF Policies, Smaller, Larger, FailureCap
  <2>2. Delay(counters, reason) = Smaller(OutageCap, BaseDelay * p)
    BY <1>3 DEF Delay
  <2>3. Smaller(OutageCap, BaseDelay) \in Nat
    BY DEF Smaller
  <2> HIDE DEF p
  <2>4. /\ Smaller(OutageCap, BaseDelay * p) \in Nat \ {0}
        /\ Smaller(OutageCap, BaseDelay) <= Smaller(OutageCap, BaseDelay * p)
        /\ Smaller(OutageCap, BaseDelay * p) <= OutageCap
    BY <2>1, CappedProduct
  <2> QED BY <1>3, <2>2, <2>3, <2>4
<1>4. CASE reason = "other"
  BY <1>4 DEF Delay
<1> QED BY <1>1, <1>2, <1>3, <1>4 DEF Reasons

\* The more often an account has failed, the longer it stays away: no failure
\* and no login rejection more ever shortens the delay of the same class. When
\* delay() is asked about a throttled login it has counted that rejection.
THEOREM DelayGrows ==
  ASSUME NEW before \in Policies, NEW after \in Policies, NEW reason \in Reasons,
         NoFewerFailures(before, after),
         reason = "throttled" => before.loginRejections > 0
  PROVE  Delay(before, reason) <= Delay(after, reason)
<1> USE DelayAssumption
<1>1. CASE reason = "throttled"
  <2> DEFINE m == Smaller(3, before.loginRejections - 1)
             n == Smaller(3, after.loginRejections - 1)
  <2>1. m \in Int /\ n \in Int /\ 0 <= m /\ m <= n /\ n <= 3
    BY <1>1 DEF NoFewerFailures, Policies, Smaller, RejectionCap
  <2>2. /\ Delay(before, reason) = Smaller(ThrottleCap, ThrottleDelay * PowerOfTwo(m))
        /\ Delay(after, reason) = Smaller(ThrottleCap, ThrottleDelay * PowerOfTwo(n))
    BY <1>1 DEF Delay
  <2> HIDE DEF m, n
  <2>3. /\ PowerOfTwo(m) \in {1, 2, 4, 8} /\ PowerOfTwo(n) \in {1, 2, 4, 8}
        /\ PowerOfTwo(m) <= PowerOfTwo(n)
    BY <2>1, PowerOfTwoType, PowerOfTwoGrows
  <2>4. Smaller(ThrottleCap, ThrottleDelay * PowerOfTwo(m)) <= Smaller(ThrottleCap, ThrottleDelay * PowerOfTwo(n))
    BY <2>3, CappedProductGrows
  <2> QED BY <2>2, <2>4
<1>2. CASE reason = "unavailable"
  <2> DEFINE m == Larger(0, Smaller(3, before.failures - 2))
             n == Larger(0, Smaller(3, after.failures - 2))
  <2>1. m \in Int /\ n \in Int /\ 0 <= m /\ m <= n /\ n <= 3
    BY DEF NoFewerFailures, Policies, Smaller, Larger, FailureCap
  <2>2. /\ Delay(before, reason) = Smaller(OutageCap, BaseDelay * PowerOfTwo(m))
        /\ Delay(after, reason) = Smaller(OutageCap, BaseDelay * PowerOfTwo(n))
    BY <1>2 DEF Delay
  <2> HIDE DEF m, n
  <2>3. /\ PowerOfTwo(m) \in {1, 2, 4, 8} /\ PowerOfTwo(n) \in {1, 2, 4, 8}
        /\ PowerOfTwo(m) <= PowerOfTwo(n)
    BY <2>1, PowerOfTwoType, PowerOfTwoGrows
  <2>4. Smaller(OutageCap, BaseDelay * PowerOfTwo(m)) <= Smaller(OutageCap, BaseDelay * PowerOfTwo(n))
    BY <2>3, CappedProductGrows
  <2> QED BY <2>2, <2>4
<1>3. CASE reason \in {"packets", "other"}
  BY <1>3 DEF Delay
<1> QED BY <1>1, <1>2, <1>3 DEF Reasons

\* The counters stay in their range, one failure at a time.
LEMMA CountedType ==
  ASSUME NEW counters \in Policies, NEW reason, NEW stableFor
  PROVE  Counted(counters, reason, stableFor) \in Policies
BY DEF Counted, Policies, NoFailures, Smaller, FailureCap, RejectionCap

-----------------------------------------------------------------------------
(***************************************************************************)
(* The private methods, as far as their types go.                          *)
(***************************************************************************)
TimerType == [TimerNames -> Nat \union {Off}]

\* Timers of which some are cleared are timers.
LEMMA WithoutType ==
  ASSUME NEW armed \in TimerType, NEW names
  PROVE  Without(armed, names) \in TimerType
BY DEF Without, TimerType, Off

\* The end of a connection keeps the types.
LEMMA EndConnectionType ==
  ASSUME TypeOK, manuallyStopped' \in BOOLEAN,
         NEW reason \in Reasons, NEW armed \in TimerType, NEW counters \in Policies,
         NEW stableFor,
         EndConnection(reason, armed, counters, stableFor)
  PROVE  /\ status' \in Statuses
         /\ subprocess' = NoController
         /\ timers' \in TimerType
         /\ connectionEnded' = TRUE
         /\ signIn' = "none"
         /\ connectedFor' = Never
         /\ policy' \in Policies
<1> DEFINE counted == Counted(counters, reason, stableFor)
           rested  == Without(armed, {"hang"})
           delay   == Delay(counted, reason)
<1>1. counted \in Policies
  BY CountedType
<1>2. delay \in Nat
  BY <1>1, DelayBounds
<1>3. rested \in TimerType
  BY WithoutType
<1>4. [rested EXCEPT !["reconnect"] = delay] \in TimerType
  BY <1>2, <1>3 DEF TimerType
<1> HIDE DEF counted, rested, delay
<1>5. /\ connectionEnded' = TRUE
      /\ \/ Teardown([rested EXCEPT !["reconnect"] = delay])
         \/ Teardown(rested)
      /\ policy' \in {counted, counters}
      /\ status' \in {"OFFLINE", "RECONNECTING", "ERROR"}
  BY DEF EndConnection, counted, rested, delay
<1> QED BY <1>1, <1>3, <1>4, <1>5, WithoutType DEF Teardown, Statuses

\* So does what a failed connection leads to,
LEMMA HandleConnectionFailureType ==
  ASSUME TypeOK, manuallyStopped' \in BOOLEAN,
         NEW reason \in Reasons, NEW armed \in TimerType,
         HandleConnectionFailure(reason, armed)
  PROVE  /\ status' \in Statuses
         /\ subprocess' \in Controllers \union {NoController}
         /\ timers' \in TimerType
         /\ connectionEnded' \in BOOLEAN
         /\ signIn' \in {"none", "code", "done"}
         /\ connectedFor' \in {Never} \union (0..StableAfter)
         /\ policy' \in Policies
BY EndConnectionType DEF HandleConnectionFailure, TypeOK

\* and an attempt to connect.
LEMMA AttemptConnectType ==
  ASSUME TypeOK, manuallyStopped' \in BOOLEAN,
         NEW shown \in {"CONNECTING", "RECONNECTING"},
         NEW armed \in TimerType, NEW counters \in Policies,
         AttemptConnect(shown, armed, counters)
  PROVE  /\ status' \in Statuses
         /\ subprocess' \in Controllers \union {NoController}
         /\ timers' \in TimerType
         /\ connectionEnded' \in BOOLEAN
         /\ signIn' \in {"none", "code", "done"}
         /\ heartbeatAge' \in 0..HeartbeatAgeCap
         /\ controlAge' = Never
         /\ connectedFor' \in {Never} \union (0..StableAfter)
         /\ policy' \in Policies
         /\ stage' \in [Controllers -> Stages]
         /\ creationFailures' \in 0..MaxCreationFailures
<1> USE SupervisorAssumption
<1>1. CASE BeginAttempt(shown, armed, counters)
  <2>1. PICK c \in Controllers :
             /\ stage' = [stage EXCEPT ![c] = "starting"]
             /\ subprocess' = c
    BY <1>1 DEF BeginAttempt
  <2>2. [armed EXCEPT !["watchdog"] = WatchdogInterval, !["hang"] = HangTimeout] \in TimerType
    BY DEF TimerType
  <2>3. 0 \in 0..HeartbeatAgeCap
    BY DEF HeartbeatAgeCap
  <2> QED BY <1>1, <2>1, <2>2, <2>3 DEF BeginAttempt, TypeOK, Statuses, Stages
<1>2. CASE CreationThrows(armed, counters)
  <2>1. EndConnection("other", armed, counters, 0)
    BY <1>2 DEF CreationThrows
  <2>2. creationFailures' \in 0..MaxCreationFailures
    BY <1>2 DEF CreationThrows, TypeOK
  <2> QED BY <1>2, <2>1, <2>2, EndConnectionType DEF CreationThrows, TypeOK, Reasons
<1> QED BY <1>1, <1>2 DEF AttemptConnect

-----------------------------------------------------------------------------
(***************************************************************************)
(* Type correctness.                                                       *)
(***************************************************************************)
\* A policy that remembers no failure.
LEMMA NoFailuresType == NoFailures \in Policies
BY DEF NoFailures, Policies, FailureCap, RejectionCap

\* The types hold at the start ...
LEMMA TypeInit == Init => TypeOK
<1> SUFFICES ASSUME Init PROVE TypeOK
  OBVIOUS
<1> USE SupervisorAssumption
<1>1. 0 \in 0..HeartbeatAgeCap /\ 0 \in 0..MaxCreationFailures
  BY DEF HeartbeatAgeCap
<1>2. timers \in [TimerNames -> Nat \union {Off}] /\ stage \in [Controllers -> Stages]
  BY DEF Init, Stages
<1>3. policy \in Policies
  BY NoFailuresType DEF Init
<1> QED BY <1>1, <1>2, <1>3 DEF Init, TypeOK, Statuses

\* ... and are kept by the orders of the user,
LEMMA OrderType ==
  ASSUME TypeOK, Order
  PROVE  TypeOK'
<1> USE SupervisorAssumption DEF TypeOK
<1>1. timers \in TimerType
  BY DEF TimerType
<1>2. CASE Connect
  <2>1. /\ manuallyStopped' \in BOOLEAN
        /\ AttemptConnect("CONNECTING", Without(timers, {"reconnect"}), NoFailures)
        /\ autoReconnect' \in BOOLEAN
    BY <1>2 DEF Connect
  <2> QED BY <1>1, <2>1, WithoutType, NoFailuresType, AttemptConnectType DEF TimerType
<1>3. CASE Disconnect
  BY <1>1, <1>3, WithoutType DEF Disconnect, Teardown, TimerType, Statuses
<1>4. CASE Restart
  <2>1. [Without(timers, {"reconnect", "hang"}) EXCEPT !["restart"] = RestartDelay]
          \in TimerType
    BY <1>1, WithoutType DEF TimerType
  <2> QED BY <1>4, <2>1, WithoutType, NoFailuresType
          DEF Restart, Teardown, TimerType, Statuses
<1>5. CASE \E b \in BOOLEAN : UpdateConfig(b)
  BY <1>5 DEF UpdateConfig
<1> QED BY <1>2, <1>3, <1>4, <1>5 DEF Order

\* by the reports of the controllers,
LEMMA ReportType ==
  ASSUME TypeOK, NEW c \in Controllers, Report(c)
  PROVE  TypeOK'
<1> USE SupervisorAssumption, DelayAssumption DEF TypeOK
<1>1. timers \in TimerType
  BY DEF TimerType
<1>2. \A s \in Stages : [stage EXCEPT ![c] = s] \in [Controllers -> Stages]
  OBVIOUS
<1>3. \A t \in Nat : [timers EXCEPT !["hang"] = t] \in TimerType
  BY DEF TimerType
<1>4. /\ 0 \in 0..HeartbeatAgeCap
      /\ 0 \in 0..ControlAgeCap
      /\ 0 \in 0..StableAfter
  BY DEF HeartbeatAgeCap, ControlAgeCap
<1>5. CASE SignInCode(c) \/ Profile(c)
  BY <1>2, <1>3, <1>5 DEF SignInCode, Profile, Stages, TimerType
<1>6. CASE Spawned(c)
  BY <1>1, <1>4, <1>6, WithoutType DEF Spawned, Statuses, TimerType
<1>7. CASE Heartbeat(c) \/ ControlLost(c) \/ ControlRestored(c)
  BY <1>4, <1>7 DEF Heartbeat, ControlLost, ControlRestored
<1>8. CASE \E reason \in Reasons : Failure(c, reason)
  BY <1>1, <1>8, HandleConnectionFailureType DEF Failure, TimerType
<1>9. CASE ClosesUnexplained(c)
  <2>1. stage' \in [Controllers -> Stages] /\ manuallyStopped' \in BOOLEAN
    BY <1>2, <1>9 DEF ClosesUnexplained, Stages
  <2>2. CASE manuallyStopped
    BY <1>1, <1>9, <2>1, <2>2, WithoutType DEF ClosesUnexplained, Teardown, TimerType
  <2>3. CASE ~manuallyStopped
    BY <1>1, <1>9, <2>1, <2>3, HandleConnectionFailureType
       DEF ClosesUnexplained, TimerType, Reasons
  <2> QED BY <2>2, <2>3
<1>10. CASE Closed(c)
  BY <1>2, <1>10 DEF Closed, Stages
<1> QED BY <1>5, <1>6, <1>7, <1>8, <1>9, <1>10 DEF Report

\* by the timers
LEMMA TimerFiresType ==
  ASSUME TypeOK, Timer
  PROVE  TypeOK'
<1> USE SupervisorAssumption DEF TypeOK
<1>1. timers \in TimerType
  BY DEF TimerType
<1>2. CASE ReconnectFires
  <2>1. /\ manuallyStopped' \in BOOLEAN
        /\ AttemptConnect("RECONNECTING", Without(timers, {"reconnect"}), policy)
        /\ autoReconnect' \in BOOLEAN
    BY <1>2 DEF ReconnectFires
  <2> QED BY <1>1, <2>1, WithoutType, AttemptConnectType DEF TimerType
<1>3. CASE RestartFires
  <2>1. manuallyStopped' \in BOOLEAN /\ autoReconnect' \in BOOLEAN
    BY <1>3 DEF RestartFires
  <2>2. CASE manuallyStopped
    BY <1>1, <1>3, <2>1, <2>2, WithoutType DEF RestartFires, TimerType
  <2>3. CASE ~manuallyStopped
    <3>1. AttemptConnect("CONNECTING", Without(timers, {"restart"}), policy)
      BY <1>3, <2>3 DEF RestartFires
    <3> QED BY <1>1, <2>1, <3>1, WithoutType, AttemptConnectType DEF TimerType
  <2> QED BY <2>2, <2>3
<1>4. CASE HangFires
  <2>1. /\ manuallyStopped' \in BOOLEAN
        /\ UNCHANGED <<heartbeatAge, controlAge, autoReconnect, stage, creationFailures>>
    BY <1>4 DEF HangFires
  <2>2. Without(timers, {"hang"}) \in TimerType
    BY <1>1, WithoutType
  <2>3. \/ /\ timers' = Without(timers, {"hang"})
           /\ UNCHANGED <<status, subprocess, connectionEnded, signIn, connectedFor, policy>>
        \/ \E reason \in Reasons :
              HandleConnectionFailure(reason, Without(timers, {"hang"}))
    BY <1>4 DEF HangFires, Reasons
  <2> QED BY <2>1, <2>2, <2>3, HandleConnectionFailureType DEF TimerType
<1>5. CASE WatchdogFires
  <2> DEFINE rearmed == [timers EXCEPT !["watchdog"] = WatchdogInterval]
  <2>1. /\ manuallyStopped' \in BOOLEAN
        /\ UNCHANGED <<heartbeatAge, controlAge, autoReconnect, stage, creationFailures>>
    BY <1>5 DEF WatchdogFires
  <2>2. rearmed \in TimerType
    BY <1>1 DEF TimerType
  <2>3. \/ /\ timers' = rearmed
           /\ UNCHANGED <<status, subprocess, connectionEnded, signIn, connectedFor, policy>>
        \/ HandleConnectionFailure("other", rearmed)
    BY <1>5 DEF WatchdogFires
  <2> HIDE DEF rearmed
  <2> QED BY <2>1, <2>2, <2>3, HandleConnectionFailureType DEF TimerType, Reasons
<1> QED BY <1>2, <1>3, <1>4, <1>5 DEF Timer

\* and by time that passes.
LEMMA TickType ==
  ASSUME TypeOK, Tick
  PROVE  TypeOK'
<1> USE SupervisorAssumption, DelayAssumption DEF TypeOK
<1>1. timers' \in TimerType
  <2>1. \A t \in TimerNames : timers[t] \in Nat \union {Off} /\ timers[t] # 0
    BY DEF Tick
  <2>2. \A t \in TimerNames :
          (IF timers[t] = Off THEN Off ELSE timers[t] - 1) \in Nat \union {Off}
    BY <2>1 DEF Off
  <2> QED BY <2>2 DEF Tick, TimerType
<1>2. heartbeatAge' \in 0..HeartbeatAgeCap
  BY DEF Tick, Older, HeartbeatAgeCap, Never
<1>3. controlAge' \in {Never} \union (0..ControlAgeCap)
  BY DEF Tick, Older, ControlAgeCap, Never
<1>4. connectedFor' \in {Never} \union (0..StableAfter)
  BY DEF Tick, Older, Never
<1> QED BY <1>1, <1>2, <1>3, <1>4 DEF Tick, TimerType

\* Every step keeps every variable in its type: no timer runs negative, no
\* counter leaves its bound.
THEOREM TypeCorrect == Spec => []TypeOK
<1>1. TypeOK /\ [Next]_vars => TypeOK'
  <2> SUFFICES ASSUME TypeOK, [Next]_vars PROVE TypeOK'
    OBVIOUS
  <2>1. CASE UNCHANGED vars
    BY <2>1 DEF vars, TypeOK
  <2> QED BY <2>1, OrderType, ReportType, TimerFiresType, TickType DEF Next
<1> QED BY <1>1, TypeInit, PTL DEF Spec

-----------------------------------------------------------------------------
(***************************************************************************)
(* Consistency: one driver, an honest status, a deadline for each attempt. *)
(* None of the three is inductive alone. That a deadline ends exactly the  *)
(* attempt it was armed for needs the other two, and all need the other  *)
(* conjuncts of Consistent: an attempt that has been ended has let go of    *)
(* its controller, so the early return of handleConnectionFailure never    *)
(* swallows the end of a live one.                                         *)
(***************************************************************************)

\* Ending a connection leaves at most a back-off behind.
LEMMA EndConnectionConsistent ==
  ASSUME TypeOK, manuallyStopped' \in BOOLEAN,
         NEW reason \in Reasons, NEW armed \in TimerType, NEW counters \in Policies,
         NEW stableFor,
         armed["reconnect"] = Off,
         armed["restart"] = Off,
         EndConnection(reason, armed, counters, stableFor)
  PROVE  Consistent'
<1> DEFINE counted == Counted(counters, reason, stableFor)
           delay   == Delay(counted, reason)
<1>1. delay \in Nat \ {0}
  BY CountedType, DelayBounds
<1> HIDE DEF counted, delay
<1>2. /\ subprocess' = NoController
      /\ signIn' = "none"
      /\ connectedFor' = Never
  BY EndConnectionType
<1>3. CASE manuallyStopped' \/ ~autoReconnect
  <2>1. timers' = Without(Without(armed, {"hang"}), {"watchdog"})
    BY <1>3 DEF EndConnection, Teardown
  <2>2. \A t \in TimerNames : timers'[t] = Off
    BY <2>1 DEF Without, TimerNames, TimerType
  <2>3. status' = IF manuallyStopped' THEN "OFFLINE" ELSE "ERROR"
    BY <1>3 DEF EndConnection
  <2> QED BY <1>2, <2>2, <2>3
          DEF Consistent, OneDriver, StatusAgrees, EveryAttemptHasDeadline, Attached,
              Armed, TimerNames, Never
<1>4. CASE ~manuallyStopped' /\ autoReconnect
  <2>1. timers' = Without([Without(armed, {"hang"}) EXCEPT !["reconnect"] = delay],
                          {"watchdog"})
    BY <1>4 DEF EndConnection, Teardown, counted, delay
  <2>2. /\ timers'["reconnect"] = delay
        /\ \A t \in TimerNames \ {"reconnect"} : timers'[t] = Off
    BY <2>1 DEF Without, TimerNames, TimerType
  <2>3. status' = "RECONNECTING"
    BY <1>4 DEF EndConnection
  <2> QED BY <1>1, <1>2, <1>4, <2>2, <2>3
          DEF Consistent, OneDriver, StatusAgrees, EveryAttemptHasDeadline, Attached,
              Armed, TimerNames, Never, Off
<1> QED BY <1>3, <1>4

\* While a controller is attached nothing but the deadlines of its attempt is
\* armed, and its end is not yet taken for done.
LEMMA FailureConsistent ==
  ASSUME TypeOK, Consistent, Attached, UNCHANGED manuallyStopped,
         NEW reason \in Reasons, NEW armed \in TimerType,
         armed["reconnect"] = timers["reconnect"],
         armed["restart"] = timers["restart"],
         HandleConnectionFailure(reason, armed)
  PROVE  Consistent'
<1>1. armed["reconnect"] = Off /\ armed["restart"] = Off
  BY DEF Consistent, OneDriver, Armed
<1>2. EndConnection(reason, armed, policy, Larger(0, connectedFor))
  BY DEF HandleConnectionFailure, Consistent
<1> QED BY <1>1, <1>2, EndConnectionConsistent DEF TypeOK

\* An attempt begun while nothing drives the account becomes its one driver.
LEMMA AttemptConsistent ==
  ASSUME TypeOK, Consistent, ~Attached, ~manuallyStopped',
         manuallyStopped' \in BOOLEAN,
         NEW shown \in {"CONNECTING", "RECONNECTING"},
         NEW armed \in TimerType, NEW counters \in Policies,
         armed["reconnect"] = Off,
         armed["restart"] = Off,
         AttemptConnect(shown, armed, counters)
  PROVE  Consistent'
<1> USE SupervisorAssumption
<1>1. CASE BeginAttempt(shown, armed, counters)
  <2>1. subprocess' \in Controllers
    BY <1>1 DEF BeginAttempt
  <2>2. /\ status' = shown
        /\ connectionEnded' = FALSE
        /\ timers' = [armed EXCEPT !["watchdog"] = WatchdogInterval,
                                   !["hang"] = HangTimeout]
        /\ UNCHANGED <<signIn, connectedFor>>
    BY <1>1 DEF BeginAttempt
  <2>3. /\ timers'["watchdog"] = WatchdogInterval
        /\ timers'["hang"] = HangTimeout
        /\ timers'["reconnect"] = Off
        /\ timers'["restart"] = Off
    BY <2>2 DEF TimerType, TimerNames
  <2> QED BY <2>1, <2>2, <2>3
          DEF Consistent, OneDriver, StatusAgrees, EveryAttemptHasDeadline, Attached,
              Armed, TimerNames, Off
<1>2. CASE CreationThrows(armed, counters)
  <2>1. EndConnection("other", armed, counters, 0)
    BY <1>2 DEF CreationThrows
  <2> QED BY <2>1, EndConnectionConsistent DEF Reasons
<1> QED BY <1>1, <1>2 DEF AttemptConnect

\* The inductive invariant holds at the start ...
LEMMA ConsistentInit == Init => Consistent
<1> SUFFICES ASSUME Init PROVE Consistent
  OBVIOUS
<1>1. \A t \in TimerNames : timers[t] = Off
  BY DEF Init
<1> QED BY <1>1
        DEF Init, Consistent, OneDriver, StatusAgrees, EveryAttemptHasDeadline,
            Attached, Armed, TimerNames, Never

\* ... and is kept by the orders of the user,
LEMMA OrderConsistent ==
  ASSUME TypeOK, Consistent, Order
  PROVE  Consistent'
<1> USE SupervisorAssumption
<1>1. timers \in TimerType
  BY DEF TypeOK, TimerType
<1>2. CASE Connect
  <2> DEFINE armed == Without(timers, {"reconnect"})
  <2>1. armed \in TimerType
    BY <1>1, WithoutType
  <2>2. armed["reconnect"] = Off /\ armed["restart"] = Off
    BY <1>1, <1>2 DEF Connect, Without, TimerNames
  <2>3. ~Attached /\ ~manuallyStopped' /\ manuallyStopped' \in BOOLEAN
    BY <1>2 DEF Connect, Consistent, StatusAgrees
  <2>4. AttemptConnect("CONNECTING", armed, NoFailures)
    BY <1>2 DEF Connect
  <2> HIDE DEF armed
  <2> QED BY <2>1, <2>2, <2>3, <2>4, NoFailuresType, AttemptConsistent
<1>3. CASE Disconnect
  <2>1. /\ subprocess' = NoController
        /\ status' = "OFFLINE"
        /\ signIn' = "none"
        /\ connectedFor' = Never
        /\ timers' = Without(Without(timers, {"restart", "reconnect", "hang"}), {"watchdog"})
    BY <1>3 DEF Disconnect, Teardown
  <2>2. \A t \in TimerNames : timers'[t] = Off
    BY <2>1 DEF Without, TimerNames
  <2> QED BY <2>1, <2>2
          DEF Consistent, OneDriver, StatusAgrees, EveryAttemptHasDeadline, Attached,
              Armed, TimerNames, Never
<1>4. CASE Restart
  <2>1. /\ subprocess' = NoController
        /\ status' = "OFFLINE"
        /\ signIn' = "none"
        /\ connectedFor' = Never
        /\ manuallyStopped' = FALSE
        /\ timers' = Without([Without(timers, {"reconnect", "hang"}) EXCEPT
                                !["restart"] = RestartDelay], {"watchdog"})
    BY <1>4 DEF Restart, Teardown
  <2>2. \A t \in TimerNames \ {"restart"} : timers'[t] = Off
    BY <2>1 DEF Without, TimerNames
  <2> QED BY <2>1, <2>2
          DEF Consistent, OneDriver, StatusAgrees, EveryAttemptHasDeadline, Attached,
              Armed, TimerNames, Never
<1>5. CASE \E b \in BOOLEAN : UpdateConfig(b)
  BY <1>5 DEF UpdateConfig, Consistent, OneDriver, StatusAgrees,
              EveryAttemptHasDeadline, Attached, Armed
<1> QED BY <1>2, <1>3, <1>4, <1>5 DEF Order

\* by the reports of the controllers,
LEMMA ReportConsistent ==
  ASSUME TypeOK, Consistent, NEW c \in Controllers, Report(c)
  PROVE  Consistent'
<1> USE SupervisorAssumption
<1>1. timers \in TimerType
  BY DEF TypeOK, TimerType
<1>2. Current(c) => Attached
  BY DEF Current, Attached
<1>3. CASE SignInCode(c) \/ Profile(c)
  <2>1. Attached /\ status # "ONLINE"
    BY <1>2, <1>3 DEF SignInCode, Profile, Current, Consistent
  <2>2. PICK deadline \in {SignInTimeout, EntryTimeout} :
             timers' = [timers EXCEPT !["hang"] = deadline]
    BY <1>3 DEF SignInCode, Profile
  <2>3. /\ timers'["hang"] # Off
        /\ \A t \in TimerNames \ {"hang"} : timers'[t] = timers[t]
    BY <1>1, <2>2 DEF TimerType, TimerNames, Off
  <2>4. UNCHANGED <<status, subprocess, manuallyStopped, connectionEnded, connectedFor>>
    BY <1>3 DEF SignInCode, Profile
  <2> QED BY <2>1, <2>3, <2>4
          DEF Consistent, OneDriver, StatusAgrees, EveryAttemptHasDeadline, Attached,
              Armed, TimerNames
<1>4. CASE Spawned(c)
  <2>1. /\ Attached
        /\ stage[subprocess] = "ready"
        /\ timers' = Without(timers, {"hang"})
        /\ connectedFor' = 0
        /\ status' = "ONLINE"
        /\ UNCHANGED <<subprocess, manuallyStopped, connectionEnded, stage>>
    BY <1>2, <1>4 DEF Spawned, Current
  <2>2. /\ timers'["hang"] = Off
        /\ \A t \in TimerNames \ {"hang"} : timers'[t] = timers[t]
    BY <2>1 DEF Without, TimerNames
  <2> QED BY <2>1, <2>2
          DEF Consistent, OneDriver, StatusAgrees, EveryAttemptHasDeadline, Attached,
              Armed, TimerNames, Never
<1>5. CASE Heartbeat(c) \/ ControlLost(c) \/ ControlRestored(c)
  BY <1>5 DEF Heartbeat, ControlLost, ControlRestored, Consistent, OneDriver,
              StatusAgrees, EveryAttemptHasDeadline, Attached, Armed
<1>6. CASE \E reason \in Reasons : Failure(c, reason)
  BY <1>1, <1>2, <1>6, FailureConsistent DEF Failure
<1>7. CASE ClosesUnexplained(c)
  <2>1. Attached /\ ~manuallyStopped
    BY <1>2, <1>7 DEF ClosesUnexplained, Consistent, OneDriver
  <2>2. HandleConnectionFailure("other", timers) /\ UNCHANGED manuallyStopped
    BY <1>7, <2>1 DEF ClosesUnexplained
  <2> QED BY <1>1, <2>1, <2>2, FailureConsistent DEF Reasons
<1>8. CASE Closed(c)
  <2>1. /\ c # subprocess
        /\ UNCHANGED <<status, subprocess, timers, manuallyStopped, connectionEnded,
                       signIn, connectedFor>>
        /\ stage' = [stage EXCEPT ![c] = "gone"]
    BY <1>8 DEF Closed, Current
  <2>2. status = "ONLINE" => stage'[subprocess] = stage[subprocess]
    BY <2>1 DEF TypeOK, Consistent, StatusAgrees, Attached
  <2> QED BY <2>1, <2>2 DEF Consistent, OneDriver, StatusAgrees,
                            EveryAttemptHasDeadline, Attached, Armed
<1> QED BY <1>3, <1>4, <1>5, <1>6, <1>7, <1>8 DEF Report

\* by the timers
LEMMA TimerConsistent ==
  ASSUME TypeOK, Consistent, Timer
  PROVE  Consistent'
<1> USE SupervisorAssumption
<1>1. timers \in TimerType
  BY DEF TypeOK, TimerType
<1>2. CASE ReconnectFires
  <2> DEFINE armed == Without(timers, {"reconnect"})
  <2>1. /\ ~Attached
        /\ ~manuallyStopped
        /\ timers["restart"] = Off
    BY <1>2 DEF ReconnectFires, Consistent, OneDriver, Armed, TimerNames, Off
  <2>2. /\ armed \in TimerType
        /\ armed["reconnect"] = Off
        /\ armed["restart"] = Off
    BY <1>1, <2>1, WithoutType DEF Without, TimerNames
  <2>3. AttemptConnect("RECONNECTING", armed, policy) /\ UNCHANGED manuallyStopped
    BY <1>2 DEF ReconnectFires
  <2> HIDE DEF armed
  <2> QED BY <2>1, <2>2, <2>3, AttemptConsistent DEF TypeOK
<1>3. CASE RestartFires
  <2> DEFINE armed == Without(timers, {"restart"})
  <2>1. /\ ~Attached
        /\ ~manuallyStopped
        /\ timers["reconnect"] = Off
    BY <1>3 DEF RestartFires, Consistent, OneDriver, Armed, TimerNames, Off
  <2>2. /\ armed \in TimerType
        /\ armed["reconnect"] = Off
        /\ armed["restart"] = Off
    BY <1>1, <2>1, WithoutType DEF Without, TimerNames
  <2>3. AttemptConnect("CONNECTING", armed, policy) /\ UNCHANGED manuallyStopped
    BY <1>3, <2>1 DEF RestartFires
  <2> HIDE DEF armed
  <2> QED BY <2>1, <2>2, <2>3, AttemptConsistent DEF TypeOK
<1>4. CASE HangFires
  <2> DEFINE armed == Without(timers, {"hang"})
  <2>1. Attached /\ status \in {"CONNECTING", "RECONNECTING"}
    BY <1>4 DEF HangFires, Consistent, EveryAttemptHasDeadline, StatusAgrees, TypeOK,
                Statuses, Armed, Off
  <2>2. /\ armed \in TimerType
        /\ armed["reconnect"] = timers["reconnect"]
        /\ armed["restart"] = timers["restart"]
    BY <1>1, WithoutType DEF Without, TimerNames
  <2>3. PICK reason \in Reasons : HandleConnectionFailure(reason, armed)
    BY <1>4, <2>1 DEF HangFires, Reasons
  <2>4. UNCHANGED manuallyStopped
    BY <1>4 DEF HangFires
  <2> HIDE DEF armed
  <2> QED BY <2>1, <2>2, <2>3, <2>4, FailureConsistent
<1>5. CASE WatchdogFires
  <2> DEFINE rearmed == [timers EXCEPT !["watchdog"] = WatchdogInterval]
  <2>1. Attached /\ UNCHANGED manuallyStopped
    BY <1>5 DEF WatchdogFires, Consistent, EveryAttemptHasDeadline, Armed, Off
  <2>2. /\ rearmed \in TimerType
        /\ rearmed["watchdog"] # Off
        /\ \A t \in TimerNames \ {"watchdog"} : rearmed[t] = timers[t]
    BY <1>1 DEF TimerType, TimerNames, Off
  <2>3. rearmed["reconnect"] = timers["reconnect"] /\ rearmed["restart"] = timers["restart"]
    BY <2>2 DEF TimerNames
  <2>4. CASE Frozen
    <3>1. HandleConnectionFailure("other", rearmed)
      BY <1>5, <2>4 DEF WatchdogFires
    <3> HIDE DEF rearmed
    <3> QED BY <2>1, <2>2, <2>3, <3>1, FailureConsistent DEF Reasons
  <2>5. CASE ~Frozen
    <3>1. /\ timers' = rearmed
          /\ UNCHANGED <<status, subprocess, connectionEnded, signIn, connectedFor, stage>>
      BY <1>5, <2>5 DEF WatchdogFires
    <3> HIDE DEF rearmed
    <3> QED BY <2>1, <2>2, <3>1
            DEF Consistent, OneDriver, StatusAgrees, EveryAttemptHasDeadline, Attached,
                Armed, TimerNames
  <2> QED BY <2>4, <2>5
<1> QED BY <1>2, <1>3, <1>4, <1>5 DEF Timer

\* and by time that passes;
LEMMA TickConsistent ==
  ASSUME TypeOK, Consistent, Tick
  PROVE  Consistent'
<1>1. \A t \in TimerNames : timers'[t] = Off <=> timers[t] = Off
  BY DEF Tick, TypeOK, Off
<1>2. connectedFor' = Never <=> connectedFor = Never
  BY DelayAssumption DEF Tick, TypeOK, Older, Never
<1> QED BY <1>1, <1>2
        DEF Tick, Consistent, OneDriver, StatusAgrees, EveryAttemptHasDeadline, Attached,
            Armed, TimerNames

\* so by every step.
LEMMA ConsistentStep ==
  ASSUME TypeOK, Consistent, [Next]_vars
  PROVE  Consistent'
<1>1. CASE UNCHANGED vars
  BY <1>1 DEF vars, Consistent, OneDriver, StatusAgrees, EveryAttemptHasDeadline,
              Attached, Armed
<1> QED BY <1>1, OrderConsistent, ReportConsistent, TimerConsistent, TickConsistent
        DEF Next

\* The inductive invariant of the supervisor, which the theorems below rest on.
THEOREM AlwaysConsistent == Spec => []Consistent
<1>1. TypeOK /\ Consistent /\ [Next]_vars => Consistent'
  BY ConsistentStep
<1> QED BY <1>1, ConsistentInit, TypeCorrect, PTL DEF Spec

\* A user's disconnect leaves nothing behind that could bring the account
\* back, and no two things ever bring it online at once.
THEOREM OneDriverAlways == Spec => []OneDriver
BY AlwaysConsistent, PTL DEF Consistent

\* The dashboard never shows a state the supervisor is not in.
THEOREM StatusAgreesAlways == Spec => []StatusAgrees
BY AlwaysConsistent, PTL DEF Consistent

\* No attempt is ever without the timer that ends it, and no such timer is
\* ever without the attempt it was armed for.
THEOREM DeadlineAlways == Spec => []EveryAttemptHasDeadline
BY AlwaysConsistent, PTL DEF Consistent

-----------------------------------------------------------------------------
(***************************************************************************)
(* Silence. HeardOrExcused bounds an age that only the watchdog reads, and *)
(* only when it fires: the strengthening trades each tick of age for the   *)
(* tick the watchdog has come closer to firing.                            *)
(***************************************************************************)
SilenceBounded ==
  /\ timers["watchdog"] <= WatchdogInterval
  /\ status = "ONLINE" =>
       \/ heartbeatAge + timers["watchdog"] <= SilenceLimit + WatchdogInterval
       \/ /\ controlAge # Never
          /\ controlAge + timers["watchdog"] < OutageLease + WatchdogInterval

\* Nothing was heard of an account that was not started.
LEMMA SilenceInit == Init => SilenceBounded
BY SupervisorAssumption DEF Init, SilenceBounded, TimerNames, Off

\* Letting a controller go ends the silence with it.
LEMMA EndConnectionSilence ==
  ASSUME TypeOK, manuallyStopped' \in BOOLEAN,
         NEW reason \in Reasons, NEW armed \in TimerType, NEW counters \in Policies,
         NEW stableFor,
         EndConnection(reason, armed, counters, stableFor)
  PROVE  SilenceBounded'
<1>1. status' # "ONLINE"
  BY DEF EndConnection
<1>2. \E rest : timers' = Without(rest, {"watchdog"})
  BY DEF EndConnection, Teardown
<1>3. timers'["watchdog"] = Off
  BY <1>2 DEF Without, TimerNames
<1> QED BY <1>1, <1>3, SupervisorAssumption DEF SilenceBounded, Off

\* An attempt to connect begins with silence that is bounded.
LEMMA AttemptSilence ==
  ASSUME TypeOK, manuallyStopped' \in BOOLEAN,
         NEW shown \in {"CONNECTING", "RECONNECTING"},
         NEW armed \in TimerType, NEW counters \in Policies,
         AttemptConnect(shown, armed, counters)
  PROVE  SilenceBounded'
<1>1. CASE BeginAttempt(shown, armed, counters)
  <2>1. /\ status' = shown
        /\ timers' = [armed EXCEPT !["watchdog"] = WatchdogInterval,
                                   !["hang"] = HangTimeout]
    BY <1>1 DEF BeginAttempt
  <2> QED BY <2>1, SupervisorAssumption DEF SilenceBounded, TimerType, TimerNames
<1>2. CASE CreationThrows(armed, counters)
  BY <1>2, EndConnectionSilence DEF CreationThrows, Reasons
<1> QED BY <1>1, <1>2 DEF AttemptConnect

\* The silence stays bounded by the orders of the user,
LEMMA OrderSilence ==
  ASSUME TypeOK, SilenceBounded, Order
  PROVE  SilenceBounded'
<1> USE SupervisorAssumption
<1>1. timers \in TimerType
  BY DEF TypeOK, TimerType
<1>2. CASE Connect
  BY <1>1, <1>2, WithoutType, NoFailuresType, AttemptSilence DEF Connect
<1>3. CASE Disconnect \/ Restart
  <2>1. status' = "OFFLINE" /\ \E rest : timers' = Without(rest, {"watchdog"})
    BY <1>3 DEF Disconnect, Restart, Teardown
  <2>2. timers'["watchdog"] = Off
    BY <2>1 DEF Without, TimerNames
  <2> QED BY <2>1, <2>2 DEF SilenceBounded, Off
<1>4. CASE \E b \in BOOLEAN : UpdateConfig(b)
  BY <1>4 DEF UpdateConfig, SilenceBounded
<1> QED BY <1>2, <1>3, <1>4 DEF Order

\* by the reports of the controllers,
LEMMA ReportSilence ==
  ASSUME TypeOK, Consistent, SilenceBounded, NEW c \in Controllers, Report(c)
  PROVE  SilenceBounded'
<1> USE SupervisorAssumption
<1>1. timers \in TimerType
  BY DEF TypeOK, TimerType
<1>2. Current(c) => Attached
  BY DEF Current, Attached
<1>3. CASE SignInCode(c) \/ Profile(c)
  <2>1. status # "ONLINE" /\ UNCHANGED status
    BY <1>2, <1>3 DEF SignInCode, Profile, Current, Consistent
  <2>2. timers'["watchdog"] = timers["watchdog"]
    BY <1>1, <1>3 DEF SignInCode, Profile, TimerType, TimerNames
  <2> QED BY <2>1, <2>2 DEF SilenceBounded
<1>4. CASE Spawned(c)
  <2>1. timers'["watchdog"] = timers["watchdog"] /\ heartbeatAge' = 0
    BY <1>4 DEF Spawned, Without, TimerNames
  <2>2. timers["watchdog"] \in Int
    BY <1>1 DEF TimerType, TimerNames, Off
  <2> QED BY <2>1, <2>2 DEF SilenceBounded
<1>5. CASE Heartbeat(c) \/ ControlRestored(c)
  <2>1. heartbeatAge' = 0 /\ UNCHANGED <<timers, status>>
    BY <1>5 DEF Heartbeat, ControlRestored
  <2>2. timers["watchdog"] \in Int
    BY <1>1 DEF TimerType, TimerNames, Off
  <2> QED BY <2>1, <2>2 DEF SilenceBounded
<1>6. CASE ControlLost(c)
  <2>1. controlAge' = 0 /\ UNCHANGED <<timers, status>>
    BY <1>6 DEF ControlLost
  <2>2. timers["watchdog"] \in Int
    BY <1>1 DEF TimerType, TimerNames, Off
  <2> QED BY <2>1, <2>2 DEF SilenceBounded, Never
<1>7. CASE (\E reason \in Reasons : Failure(c, reason)) \/ ClosesUnexplained(c)
  <2>1. Attached /\ ~manuallyStopped /\ ~connectionEnded
    BY <1>2, <1>7 DEF Failure, ClosesUnexplained, Consistent, OneDriver
  <2>2. UNCHANGED manuallyStopped
    BY <1>7 DEF Failure, ClosesUnexplained
  <2>3. PICK reason \in Reasons :
             EndConnection(reason, timers, policy, Larger(0, connectedFor))
    BY <1>7, <2>1 DEF Failure, ClosesUnexplained, HandleConnectionFailure, Reasons
  <2> QED BY <1>1, <2>2, <2>3, EndConnectionSilence DEF TypeOK
<1>8. CASE Closed(c)
  BY <1>8 DEF Closed, SilenceBounded
<1> QED BY <1>3, <1>4, <1>5, <1>6, <1>7, <1>8 DEF Report

\* by the timers
LEMMA TimerSilence ==
  ASSUME TypeOK, Consistent, SilenceBounded, Timer
  PROVE  SilenceBounded'
<1> USE SupervisorAssumption
<1>1. timers \in TimerType /\ policy \in Policies /\ manuallyStopped \in BOOLEAN
  BY DEF TypeOK, TimerType
<1>2. CASE ReconnectFires
  <2>1. /\ AttemptConnect("RECONNECTING", Without(timers, {"reconnect"}), policy)
        /\ manuallyStopped' \in BOOLEAN
    BY <1>1, <1>2 DEF ReconnectFires
  <2> QED BY <1>1, <2>1, WithoutType, AttemptSilence
<1>3. CASE RestartFires
  <2>1. ~manuallyStopped
    BY <1>3 DEF RestartFires, Consistent, OneDriver, Armed, TimerNames, Off
  <2>2. /\ AttemptConnect("CONNECTING", Without(timers, {"restart"}), policy)
        /\ manuallyStopped' \in BOOLEAN
    BY <1>1, <1>3, <2>1 DEF RestartFires
  <2> QED BY <1>1, <2>2, WithoutType, AttemptSilence
<1>4. CASE HangFires
  <2>1. Attached /\ ~connectionEnded /\ status \in {"CONNECTING", "RECONNECTING"}
    BY <1>4 DEF HangFires, Consistent, EveryAttemptHasDeadline, StatusAgrees, TypeOK,
                Statuses, Armed, Off
  <2>2. PICK reason \in Reasons :
             EndConnection(reason, Without(timers, {"hang"}), policy,
                           Larger(0, connectedFor))
    BY <1>4, <2>1 DEF HangFires, HandleConnectionFailure, Reasons
  <2>3. manuallyStopped' \in BOOLEAN
    BY <1>1, <1>4 DEF HangFires
  <2> QED BY <1>1, <2>2, <2>3, WithoutType, EndConnectionSilence
<1>5. CASE WatchdogFires
  <2> DEFINE rearmed == [timers EXCEPT !["watchdog"] = WatchdogInterval]
  <2>1. Attached /\ ~connectionEnded /\ manuallyStopped' \in BOOLEAN
    BY <1>1, <1>5 DEF WatchdogFires, Consistent, EveryAttemptHasDeadline, Armed, Off
  <2>2. rearmed \in TimerType /\ rearmed["watchdog"] = WatchdogInterval
    BY <1>1 DEF TimerType, TimerNames
  <2>3. CASE Frozen
    <3>1. EndConnection("other", rearmed, policy, Larger(0, connectedFor))
      BY <1>5, <2>1, <2>3 DEF WatchdogFires, HandleConnectionFailure
    <3> HIDE DEF rearmed
    <3> QED BY <1>1, <2>1, <2>2, <3>1, EndConnectionSilence DEF Reasons
  <2>4. CASE ~Frozen
    <3>1. timers' = rearmed /\ UNCHANGED <<status, heartbeatAge, controlAge>>
      BY <1>5, <2>4 DEF WatchdogFires
    <3>2. heartbeatAge \in Int /\ controlAge \in Int
      BY DEF TypeOK, Never
    <3> HIDE DEF rearmed
    <3> QED BY <2>2, <2>4, <3>1, <3>2 DEF Frozen, SilenceBounded
  <2> QED BY <2>3, <2>4
<1> QED BY <1>2, <1>3, <1>4, <1>5 DEF Timer

\* and by time that passes.
LEMMA TickSilence ==
  ASSUME TypeOK, Consistent, SilenceBounded, Tick
  PROVE  SilenceBounded'
<1> USE SupervisorAssumption
<1>1. timers["watchdog"] \in Nat \union {Off} /\ timers["watchdog"] # 0
  BY DEF TypeOK, Tick, TimerNames
<1>2. timers'["watchdog"] = IF timers["watchdog"] = Off THEN Off
                                                      ELSE timers["watchdog"] - 1
  BY DEF Tick, TimerNames
<1>3. UNCHANGED status
  BY DEF Tick
<1>4. CASE status # "ONLINE"
  BY <1>1, <1>2, <1>3, <1>4 DEF SilenceBounded, Off
<1>5. CASE status = "ONLINE"
  <2>1. timers["watchdog"] # Off
    BY <1>5 DEF Consistent, StatusAgrees, EveryAttemptHasDeadline, Armed
  <2>2. heartbeatAge' = Older(heartbeatAge, HeartbeatAgeCap)
        /\ controlAge' = Older(controlAge, ControlAgeCap)
    BY <1>5 DEF Tick
  <2>3. heartbeatAge \in 0..HeartbeatAgeCap /\ controlAge \in {Never} \union (0..ControlAgeCap)
    BY DEF TypeOK
  <2>4. CASE heartbeatAge + timers["watchdog"] <= SilenceLimit + WatchdogInterval
    BY <1>1, <1>2, <2>1, <2>2, <2>3, <2>4
       DEF SilenceBounded, Older, Never, Off, HeartbeatAgeCap
  <2>5. CASE controlAge # Never
             /\ controlAge + timers["watchdog"] < OutageLease + WatchdogInterval
    BY <1>1, <1>2, <2>1, <2>2, <2>3, <2>5
       DEF SilenceBounded, Older, Never, Off, ControlAgeCap
  <2> QED BY <1>5, <2>4, <2>5 DEF SilenceBounded
<1> QED BY <1>4, <1>5

\* A bot shown ONLINE that stays silent is recycled within the silence limit
\* and one round of the watchdog; only a shared service that failed within its
\* lease and one round can put that off.
THEOREM HeardOrExcusedAlways == Spec => []HeardOrExcused
<1>1. TypeOK /\ Consistent /\ SilenceBounded /\ [Next]_vars => SilenceBounded'
  <2> SUFFICES ASSUME TypeOK, Consistent, SilenceBounded, [Next]_vars
               PROVE  SilenceBounded'
    OBVIOUS
  <2>1. CASE UNCHANGED vars
    BY <2>1 DEF vars, SilenceBounded
  <2> QED BY <2>1, OrderSilence, ReportSilence, TimerSilence, TickSilence DEF Next
<1>2. TypeOK /\ Consistent /\ SilenceBounded => HeardOrExcused
  <2> SUFFICES ASSUME TypeOK, Consistent, SilenceBounded, status = "ONLINE"
               PROVE  \/ heartbeatAge <= SilenceLimit + WatchdogInterval
                      \/ controlAge # Never /\ controlAge < OutageLease + WatchdogInterval
    BY DEF HeardOrExcused
  <2>1. timers["watchdog"] \in Nat
    BY DEF TypeOK, TimerNames, Consistent, StatusAgrees, EveryAttemptHasDeadline, Armed
  <2>2. heartbeatAge \in Int /\ controlAge \in Int
    BY DEF TypeOK, Never
  <2> QED BY <2>1, <2>2, SupervisorAssumption DEF SilenceBounded
<1> QED BY <1>1, <1>2, SilenceInit, TypeCorrect, AlwaysConsistent, PTL DEF Spec

-----------------------------------------------------------------------------
(***************************************************************************)
(* The memory of failures.                                                 *)
(***************************************************************************)
\* An unstable connection only adds to the counters.
LEMMA CountedGrows ==
  ASSUME NEW counters \in Policies, NEW reason, NEW stableFor \in Int,
         stableFor < StableAfter
  PROVE  NoFewerFailures(counters, Counted(counters, reason, stableFor))
BY DelayAssumption
   DEF NoFewerFailures, Counted, Policies, Smaller, FailureCap, RejectionCap

\* The end of a connection that was not stable forgets no failure,
LEMMA EndConnectionRemembers ==
  ASSUME TypeOK, manuallyStopped' \in BOOLEAN,
         NEW reason \in Reasons, NEW armed \in TimerType,
         NEW stableFor \in Int, stableFor < StableAfter,
         EndConnection(reason, armed, policy, stableFor)
  PROVE  NoFewerFailures(policy, policy')
<1>1. policy' \in {policy, Counted(policy, reason, stableFor)}
  BY DEF EndConnection
<1>2. NoFewerFailures(policy, policy)
  BY DEF NoFewerFailures, TypeOK, Policies
<1> QED BY <1>1, <1>2, CountedGrows DEF TypeOK

\* nor does a failed connection, unless the one that ended was stable,
LEMMA FailureRemembers ==
  ASSUME TypeOK, Consistent, Attached, manuallyStopped' \in BOOLEAN,
         NEW reason \in Reasons, NEW armed \in TimerType,
         HandleConnectionFailure(reason, armed)
  PROVE  \/ NoFewerFailures(policy, policy')
         \/ connectedFor = StableAfter /\ ~UNCHANGED subprocess
<1>1. EndConnection(reason, armed, policy, Larger(0, connectedFor))
  BY DEF HandleConnectionFailure, Consistent
<1>2. ~UNCHANGED subprocess
  BY <1>1, EndConnectionType DEF Attached, TypeOK
<1>3. CASE connectedFor # StableAfter
  <2>1. Larger(0, connectedFor) \in Int /\ Larger(0, connectedFor) < StableAfter
    BY <1>3, DelayAssumption DEF TypeOK, Larger, Never
  <2> QED BY <1>1, <2>1, EndConnectionRemembers
<1> QED BY <1>2, <1>3

\* nor an attempt to connect.
LEMMA AttemptRemembers ==
  ASSUME TypeOK, manuallyStopped' \in BOOLEAN,
         NEW shown, NEW armed \in TimerType,
         AttemptConnect(shown, armed, policy)
  PROVE  NoFewerFailures(policy, policy')
<1>1. CASE BeginAttempt(shown, armed, policy)
  BY <1>1 DEF BeginAttempt, NoFewerFailures, TypeOK, Policies
<1>2. CASE CreationThrows(armed, policy)
  BY <1>2, EndConnectionRemembers, DelayAssumption DEF CreationThrows, Reasons, TypeOK
<1> QED BY <1>1, <1>2 DEF AttemptConnect

\* Being online for a moment, a reconnect or a failed start never forgives a
\* failure: only a user's order or a stable time in the world does.
THEOREM FailuresRememberedAlways == Spec => FailuresRemembered
<1> DEFINE Kept == \/ NoFewerFailures(policy, policy')
                   \/ Connect
                   \/ Restart
                   \/ connectedFor = StableAfter /\ ~UNCHANGED subprocess
<1>1. TypeOK /\ Consistent /\ [Next]_vars => Kept \/ UNCHANGED vars
  <2> SUFFICES ASSUME TypeOK, Consistent, Next, ~Connect, ~Restart
               PROVE  Kept
    OBVIOUS
  <2> HIDE DEF Kept
  <2>1. timers \in TimerType /\ manuallyStopped \in BOOLEAN
    BY DEF TypeOK, TimerType
  <2>2. CASE UNCHANGED policy
    BY <2>2 DEF Kept, NoFewerFailures, TypeOK, Policies
  <2>3. CASE Order
    <3>1. UNCHANGED policy
      BY <2>3 DEF Order, Disconnect, UpdateConfig
    <3> QED BY <2>2, <3>1
  <2>4. CASE \E c \in Controllers : Report(c)
    <3>1. PICK c \in Controllers : Report(c)
      BY <2>4
    <3>2. CASE (\E reason \in Reasons : Failure(c, reason)) \/ ClosesUnexplained(c)
      <4>1. Attached /\ ~manuallyStopped /\ UNCHANGED manuallyStopped
        BY <3>2, SupervisorAssumption
           DEF Failure, ClosesUnexplained, Current, Attached, Consistent, OneDriver
      <4>2. PICK reason \in Reasons : HandleConnectionFailure(reason, timers)
        BY <3>2, <4>1 DEF Failure, ClosesUnexplained, Reasons
      <4> QED BY <2>1, <4>1, <4>2, FailureRemembers DEF Kept
    <3>3. CASE ~((\E reason \in Reasons : Failure(c, reason)) \/ ClosesUnexplained(c))
      <4>1. UNCHANGED policy
        BY <3>1, <3>3 DEF Report, SignInCode, Profile, Spawned, Heartbeat, ControlLost,
                          ControlRestored, Closed
      <4> QED BY <2>2, <4>1
    <3> QED BY <3>2, <3>3
  <2>5. CASE ReconnectFires
    <3>1. /\ AttemptConnect("RECONNECTING", Without(timers, {"reconnect"}), policy)
          /\ UNCHANGED manuallyStopped
      BY <2>5 DEF ReconnectFires
    <3> QED BY <2>1, <3>1, WithoutType, AttemptRemembers DEF Kept
  <2>6. CASE RestartFires
    <3>1. UNCHANGED manuallyStopped
      BY <2>6 DEF RestartFires
    <3>2. \/ UNCHANGED policy
          \/ AttemptConnect("CONNECTING", Without(timers, {"restart"}), policy)
      BY <2>6 DEF RestartFires
    <3> QED BY <2>1, <2>2, <3>1, <3>2, WithoutType, AttemptRemembers DEF Kept
  <2>7. CASE HangFires
    <3>1. Attached /\ UNCHANGED manuallyStopped
      BY <2>7 DEF HangFires, Consistent, EveryAttemptHasDeadline, Armed, Off
    <3>2. \/ UNCHANGED policy
          \/ \E reason \in Reasons :
                HandleConnectionFailure(reason, Without(timers, {"hang"}))
      BY <2>7 DEF HangFires, Reasons
    <3> QED BY <2>1, <2>2, <3>1, <3>2, WithoutType, FailureRemembers DEF Kept
  <2>8. CASE WatchdogFires
    <3> DEFINE rearmed == [timers EXCEPT !["watchdog"] = WatchdogInterval]
    <3>1. Attached /\ UNCHANGED manuallyStopped
      BY <2>8 DEF WatchdogFires, Consistent, EveryAttemptHasDeadline, Armed, Off
    <3>2. UNCHANGED policy \/ HandleConnectionFailure("other", rearmed)
      BY <2>8 DEF WatchdogFires
    <3>3. rearmed \in TimerType
      BY <2>1, SupervisorAssumption DEF TimerType
    <3> HIDE DEF rearmed
    <3> QED BY <2>1, <2>2, <3>1, <3>2, <3>3, FailureRemembers DEF Kept, Reasons
  <2>9. CASE Tick
    BY <2>2, <2>9 DEF Tick
  <2> QED BY <2>3, <2>4, <2>5, <2>6, <2>7, <2>8, <2>9 DEF Next, Timer
<1>2. Kept => \/ policy'.failures >= policy.failures
                 /\ policy'.loginRejections >= policy.loginRejections
              \/ Connect
              \/ Restart
              \/ connectedFor = StableAfter /\ ~UNCHANGED subprocess
  BY DEF NoFewerFailures
<1> HIDE DEF Kept
<1> QED BY <1>1, <1>2, TypeCorrect, AlwaysConsistent, PTL DEF Spec, FailuresRemembered

-----------------------------------------------------------------------------
(***************************************************************************)
(* The supervisor implements the abstract account (its steps; that the     *)
(* waits and attempts end is a liveness property, which TLC checks).       *)
(***************************************************************************)

\* Where ending a connection leaves the account.
LEMMA EndConnectionPhase ==
  ASSUME TypeOK, ~manuallyStopped', manuallyStopped' \in BOOLEAN,
         NEW reason \in Reasons, NEW armed \in TimerType, NEW counters \in Policies,
         NEW stableFor,
         armed["reconnect"] = Off,
         armed["restart"] = Off,
         EndConnection(reason, armed, counters, stableFor)
  PROVE  Phase' \in {"waiting", "failed"}
<1> DEFINE counted == Counted(counters, reason, stableFor)
           delay   == Delay(counted, reason)
<1>1. delay \in Nat \ {0}
  BY CountedType, DelayBounds
<1> HIDE DEF counted, delay
<1>2. subprocess' = NoController
  BY EndConnectionType
<1>3. CASE ~autoReconnect
  <2>1. timers' = Without(Without(armed, {"hang"}), {"watchdog"}) /\ status' = "ERROR"
    BY <1>3 DEF EndConnection, Teardown
  <2>2. timers'["reconnect"] = Off /\ timers'["restart"] = Off
    BY <2>1 DEF Without, TimerNames
  <2> QED BY <1>2, <2>1, <2>2 DEF Phase, Attached, Armed
<1>4. CASE autoReconnect
  <2>1. timers' = Without([Without(armed, {"hang"}) EXCEPT !["reconnect"] = delay],
                          {"watchdog"})
    BY <1>4 DEF EndConnection, Teardown, counted, delay
  <2>2. timers'["reconnect"] = delay
    BY <2>1 DEF Without, TimerNames
  <2> QED BY <1>1, <1>2, <2>2 DEF Phase, Attached, Armed, Off
<1> QED BY <1>3, <1>4

\* The phases of the account after a failure,
LEMMA FailurePhase ==
  ASSUME TypeOK, Consistent, Attached, UNCHANGED manuallyStopped,
         NEW reason \in Reasons, NEW armed \in TimerType,
         armed["reconnect"] = timers["reconnect"],
         armed["restart"] = timers["restart"],
         HandleConnectionFailure(reason, armed)
  PROVE  Phase' \in {"waiting", "failed"}
<1>1. armed["reconnect"] = Off /\ armed["restart"] = Off /\ ~manuallyStopped
  BY DEF Consistent, OneDriver, Armed
<1>2. EndConnection(reason, armed, policy, Larger(0, connectedFor))
  BY DEF HandleConnectionFailure, Consistent
<1> QED BY <1>1, <1>2, EndConnectionPhase DEF TypeOK

\* after an attempt to connect
LEMMA AttemptPhase ==
  ASSUME TypeOK, ~manuallyStopped', manuallyStopped' \in BOOLEAN,
         NEW shown \in {"CONNECTING", "RECONNECTING"},
         NEW armed \in TimerType, NEW counters \in Policies,
         armed["reconnect"] = Off,
         armed["restart"] = Off,
         AttemptConnect(shown, armed, counters)
  PROVE  Phase' \in {"attempting", "waiting", "failed"}
<1>1. CASE BeginAttempt(shown, armed, counters)
  <2>1. subprocess' \in Controllers /\ status' = shown
    BY <1>1 DEF BeginAttempt
  <2> QED BY <2>1, SupervisorAssumption DEF Phase, Attached
<1>2. CASE CreationThrows(armed, counters)
  <2>1. EndConnection("other", armed, counters, 0)
    BY <1>2 DEF CreationThrows
  <2> QED BY <2>1, EndConnectionPhase DEF Reasons
<1> QED BY <1>1, <1>2 DEF AttemptConnect

\* and with a controller.
LEMMA AttachedPhase ==
  ASSUME Attached
  PROVE  Phase = IF status = "ONLINE" THEN "online" ELSE "attempting"
BY DEF Phase

\* The initial states are those of the account,
LEMMA InitRefines == Init => Account!Init
<1> SUFFICES ASSUME Init PROVE Account!Init
  OBVIOUS
<1>1. \A t \in TimerNames : timers[t] = Off
  BY DEF Init
<1> QED BY <1>1 DEF Init, Account!Init, Phase, Attached, Armed, TimerNames

\* and the orders of the user are steps of the account, or stutter;
LEMMA OrderRefines ==
  ASSUME TypeOK, Consistent, Order
  PROVE  [Account!Next]_(Account!lifecycle)
<1>1. timers \in TimerType
  BY DEF TypeOK, TimerType
<1>2. CASE Connect
  <2> DEFINE armed == Without(timers, {"reconnect"})
  <2>1. armed \in TimerType
    BY <1>1, WithoutType
  <2>2. armed["reconnect"] = Off /\ armed["restart"] = Off
    BY <1>1, <1>2 DEF Connect, Without, TimerNames
  <2>3. ~Attached /\ manuallyStopped' = FALSE
    BY <1>2 DEF Connect, Consistent, StatusAgrees
  <2>4. Phase \in {"stopped", "failed"}
    BY <1>2, <2>3 DEF Connect, Phase, Consistent, StatusAgrees, Armed, TimerNames
  <2>5. AttemptConnect("CONNECTING", armed, NoFailures)
    BY <1>2 DEF Connect
  <2> HIDE DEF armed
  <2>6. Phase' \in {"attempting", "waiting", "failed"}
    BY <2>1, <2>2, <2>3, <2>5, NoFailuresType, AttemptPhase
  <2> QED BY <2>3, <2>4, <2>6 DEF Account!Next, Account!Start, Account!Attempt
<1>3. CASE Disconnect
  <2>1. /\ subprocess' = NoController
        /\ status' = "OFFLINE"
        /\ manuallyStopped' = TRUE
        /\ timers' = Without(Without(timers, {"restart", "reconnect", "hang"}), {"watchdog"})
    BY <1>3 DEF Disconnect, Teardown
  <2>2. \A t \in TimerNames : timers'[t] = Off
    BY <2>1 DEF Without, TimerNames
  <2>3. Phase' = "stopped"
    BY <2>1, <2>2 DEF Phase, Attached, Armed, TimerNames
  <2> QED BY <2>1, <2>3 DEF Account!Next, Account!Stop
<1>4. CASE Restart
  <2>1. /\ subprocess' = NoController
        /\ manuallyStopped' = FALSE
        /\ timers' = Without([Without(timers, {"reconnect", "hang"}) EXCEPT
                                !["restart"] = RestartDelay], {"watchdog"})
    BY <1>4 DEF Restart, Teardown
  <2>2. timers'["reconnect"] = Off /\ timers'["restart"] = RestartDelay
    BY <2>1 DEF Without, TimerNames
  <2>3. Phase' = "resting"
    BY <2>1, <2>2, SupervisorAssumption DEF Phase, Attached, Armed, Off
  <2> QED BY <2>1, <2>3 DEF Account!Next, Account!Restart
<1>5. CASE \E b \in BOOLEAN : UpdateConfig(b)
  BY <1>5 DEF UpdateConfig, Account!lifecycle, Phase, Attached, Armed
<1> QED BY <1>2, <1>3, <1>4, <1>5 DEF Order

\* so are the reports of the controllers,
LEMMA ReportRefines ==
  ASSUME TypeOK, Consistent, NEW c \in Controllers, Report(c)
  PROVE  [Account!Next]_(Account!lifecycle)
<1> USE SupervisorAssumption
<1>1. timers \in TimerType
  BY DEF TypeOK, TimerType
<1>2. Current(c) => Attached
  BY DEF Current, Attached
<1>3. CASE SignInCode(c) \/ Profile(c)
  <2>1. Attached /\ UNCHANGED <<status, subprocess, manuallyStopped>>
    BY <1>2, <1>3 DEF SignInCode, Profile
  <2> QED BY <2>1 DEF Account!lifecycle, Phase, Attached
<1>4. CASE Spawned(c)
  <2>1. Attached /\ status' = "ONLINE" /\ UNCHANGED <<subprocess, manuallyStopped>>
    BY <1>2, <1>4 DEF Spawned
  <2>2. Phase' = "online"
    BY <2>1 DEF Phase, Attached
  <2>3. Phase \in {"attempting", "online"}
    BY <2>1, AttachedPhase
  <2> QED BY <2>1, <2>2, <2>3 DEF Account!Next, Account!Enter, Account!lifecycle
<1>5. CASE Heartbeat(c) \/ ControlLost(c) \/ ControlRestored(c) \/ Closed(c)
  BY <1>5 DEF Heartbeat, ControlLost, ControlRestored, Closed, Account!lifecycle,
              Phase, Attached, Armed
<1>6. CASE (\E reason \in Reasons : Failure(c, reason)) \/ ClosesUnexplained(c)
  <2>1. Attached /\ ~manuallyStopped /\ UNCHANGED manuallyStopped
    BY <1>2, <1>6 DEF Failure, ClosesUnexplained, Consistent, OneDriver
  <2>2. PICK reason \in Reasons : HandleConnectionFailure(reason, timers)
    BY <1>6, <2>1 DEF Failure, ClosesUnexplained, Reasons
  <2>3. Phase' \in {"waiting", "failed"}
    BY <1>1, <2>1, <2>2, FailurePhase
  <2>4. Phase \in {"attempting", "online"}
    BY <2>1, AttachedPhase
  <2> QED BY <2>1, <2>3, <2>4 DEF Account!Next, Account!Lose
<1> QED BY <1>3, <1>4, <1>5, <1>6 DEF Report

\* the timers
LEMMA TimerRefines ==
  ASSUME TypeOK, Consistent, Timer
  PROVE  [Account!Next]_(Account!lifecycle)
<1> USE SupervisorAssumption
<1>1. timers \in TimerType
  BY DEF TypeOK, TimerType
<1>2. CASE ReconnectFires \/ RestartFires
  <2> DEFINE name  == IF ReconnectFires THEN "reconnect" ELSE "restart"
             armed == Without(timers, {name})
  <2>1. timers[name] # Off
    BY <1>2 DEF ReconnectFires, RestartFires, Off
  <2>2. /\ ~Attached
        /\ ~manuallyStopped
        /\ armed["reconnect"] = Off
        /\ armed["restart"] = Off
    BY <2>1 DEF Consistent, OneDriver, Armed, TimerNames, Without
  <2>3. Phase \in {"resting", "waiting"}
    BY <2>1, <2>2 DEF Phase, Armed
  <2>4. armed \in TimerType
    BY <1>1, WithoutType
  <2>5. PICK shown \in {"CONNECTING", "RECONNECTING"} :
             AttemptConnect(shown, armed, policy)
    BY <1>2, <2>2 DEF ReconnectFires, RestartFires
  <2>6. UNCHANGED manuallyStopped
    BY <1>2 DEF ReconnectFires, RestartFires
  <2> HIDE DEF armed
  <2>7. Phase' \in {"attempting", "waiting", "failed"}
    BY <2>2, <2>4, <2>5, <2>6, AttemptPhase DEF TypeOK
  <2> QED BY <2>3, <2>6, <2>7 DEF Account!Next, Account!Resume, Account!Attempt
<1>3. CASE HangFires
  <2> DEFINE armed == Without(timers, {"hang"})
  <2>1. Attached /\ status \in {"CONNECTING", "RECONNECTING"}
    BY <1>3 DEF HangFires, Consistent, EveryAttemptHasDeadline, StatusAgrees, TypeOK,
                Statuses, Armed, Off
  <2>2. /\ armed \in TimerType
        /\ armed["reconnect"] = timers["reconnect"]
        /\ armed["restart"] = timers["restart"]
    BY <1>1, WithoutType DEF Without, TimerNames
  <2>3. PICK reason \in Reasons : HandleConnectionFailure(reason, armed)
    BY <1>3, <2>1 DEF HangFires, Reasons
  <2>4. UNCHANGED manuallyStopped
    BY <1>3 DEF HangFires
  <2> HIDE DEF armed
  <2>5. Phase' \in {"waiting", "failed"}
    BY <2>1, <2>2, <2>3, <2>4, FailurePhase
  <2>6. Phase = "attempting"
    BY <2>1, AttachedPhase
  <2> QED BY <2>4, <2>5, <2>6 DEF Account!Next, Account!Lose
<1>4. CASE WatchdogFires
  <2> DEFINE rearmed == [timers EXCEPT !["watchdog"] = WatchdogInterval]
  <2>1. Attached /\ UNCHANGED manuallyStopped
    BY <1>4 DEF WatchdogFires, Consistent, EveryAttemptHasDeadline, Armed, Off
  <2>2. /\ rearmed \in TimerType
        /\ rearmed["reconnect"] = timers["reconnect"]
        /\ rearmed["restart"] = timers["restart"]
    BY <1>1 DEF TimerType, TimerNames
  <2>3. CASE Frozen
    <3>1. HandleConnectionFailure("other", rearmed)
      BY <1>4, <2>3 DEF WatchdogFires
    <3> HIDE DEF rearmed
    <3>2. Phase' \in {"waiting", "failed"}
      BY <2>1, <2>2, <3>1, FailurePhase DEF Reasons
    <3>3. Phase \in {"attempting", "online"}
      BY <2>1, AttachedPhase
    <3> QED BY <2>1, <3>2, <3>3 DEF Account!Next, Account!Lose
  <2>4. CASE ~Frozen
    <3>1. UNCHANGED <<status, subprocess>>
      BY <1>4, <2>4 DEF WatchdogFires
    <3> QED BY <2>1, <3>1 DEF Account!lifecycle, Phase, Attached
  <2> QED BY <2>3, <2>4
<1> QED BY <1>2, <1>3, <1>4 DEF Timer

\* and the time that passes.
LEMMA TickRefines ==
  ASSUME TypeOK, Tick
  PROVE  [Account!Next]_(Account!lifecycle)
<1>1. \A t \in TimerNames : timers'[t] = Off <=> timers[t] = Off
  BY DEF Tick, TypeOK, Off
<1>2. UNCHANGED <<status, subprocess, manuallyStopped>>
  BY DEF Tick
<1> QED BY <1>1, <1>2 DEF Account!lifecycle, Phase, Attached, Armed, TimerNames

\* Whatever the controllers report, however late, and however timers and users'
\* orders interleave, the account only ever moves as AccountLifecycle allows:
\* nothing but a user's order takes it out of "stopped".
THEOREM StepsImplementAccount == Spec => Account!Spec
<1>1. TypeOK /\ Consistent /\ [Next]_vars => [Account!Next]_(Account!lifecycle)
  <2> SUFFICES ASSUME TypeOK, Consistent, [Next]_vars
               PROVE  [Account!Next]_(Account!lifecycle)
    OBVIOUS
  <2>1. CASE UNCHANGED vars
    BY <2>1 DEF vars, Account!lifecycle, Phase, Attached, Armed
  <2> QED BY <2>1, OrderRefines, ReportRefines, TimerRefines, TickRefines DEF Next
<1> QED BY <1>1, InitRefines, TypeCorrect, AlwaysConsistent, PTL DEF Spec, Account!Spec
=============================================================================
