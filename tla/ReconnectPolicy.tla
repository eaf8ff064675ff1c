--------------------------- MODULE ReconnectPolicy ---------------------------
(***************************************************************************)
(* The back-off an account's supervisor applies between two attempts to    *)
(* reach its game server: class ReconnectPolicy of                         *)
(* backend/src/minecraft/reconnectPolicy.ts.                               *)
(*                                                                         *)
(* The code classifies the text of a failure with three regular            *)
(* expressions; here a failure carries its class, a member of Reasons.     *)
(* All delays are in ticks of the same clock and are parameters, so that   *)
(* the results hold for the code's values and for the small ones TLC uses. *)
(***************************************************************************)
EXTENDS Integers

CONSTANTS
  BaseDelay,       \* 15 s, after an ordinary disconnect
  ThrottleDelay,   \* 60 s, doubled with each login rejection in a row
  ThrottleCap,     \* 300 s
  PacketDelay,     \* 60 s, after a "suspicious packets" kick
  OutageCap,       \* 120 s, bound of the doubled BaseDelay of an outage
  StableAfter      \* 120 s online forget the earlier failures

ASSUME DelayAssumption ==
  /\ BaseDelay \in Nat \ {0}
  /\ ThrottleDelay \in Nat \ {0}
  /\ ThrottleCap \in Nat \ {0}
  /\ PacketDelay \in Nat \ {0}
  /\ OutageCap \in Nat \ {0}
  /\ StableAfter \in Nat \ {0}

Reasons == {"throttled", "packets", "unavailable", "other"}

Smaller(a, b) == IF a <= b THEN a ELSE b
Larger(a, b)  == IF a >= b THEN a ELSE b

(***************************************************************************)
(* The counters of the class. The code lets them grow without bound, but   *)
(* reads them only through Math.min(3, loginRejections - 1) and            *)
(* Math.min(3, failures - 2): counts past FailureCap and RejectionCap are  *)
(* indistinguishable, so the model stops counting there.                   *)
(***************************************************************************)
FailureCap   == 5
RejectionCap == 4

Policies   == [failures : 0..FailureCap, loginRejections : 0..RejectionCap]
NoFailures == [failures |-> 0, loginRejections |-> 0]

\* 2 ** n for the exponents the code uses, 0 to 3.
PowerOfTwo(n) == IF n = 0 THEN 1 ELSE IF n = 1 THEN 2 ELSE IF n = 2 THEN 4 ELSE 8

\* What one failure leaves in the counters; stableFor is the time the
\* failed connection had been in the world.
Counted(policy, reason, stableFor) ==
  LET kept == IF stableFor >= StableAfter THEN NoFailures ELSE policy
  IN  [failures |-> Smaller(FailureCap, kept.failures + 1),
       loginRejections |-> IF reason = "throttled"
                           THEN Smaller(RejectionCap, kept.loginRejections + 1)
                           ELSE kept.loginRejections]

\* Faulty: a linear back-off that forgets its lower clamp.
DelayUnclamped(policy, reason) ==
  IF reason = "unavailable"
  THEN Smaller(OutageCap, BaseDelay * (policy.failures - 2))
  ELSE BaseDelay

\* The delay before the next attempt; policy already counts this failure.
Delay(policy, reason) ==
  CASE reason = "throttled" ->
         Smaller(ThrottleCap,
                 ThrottleDelay * PowerOfTwo(Smaller(3, policy.loginRejections - 1)))
    [] reason = "packets" -> PacketDelay
    [] reason = "unavailable" ->
         Smaller(OutageCap,
                 BaseDelay * PowerOfTwo(Larger(0, Smaller(3, policy.failures - 2))))
    [] OTHER -> BaseDelay
=============================================================================
