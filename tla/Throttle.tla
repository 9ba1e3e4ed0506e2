------------------------------ MODULE Throttle ------------------------------
(***************************************************************************)
(* internal/throttle: how long a restart waits.  Pure operators; times are *)
(* numbers of one unit, the counter counts starts since the last reset.    *)
(***************************************************************************)
EXTENDS Naturals

CONSTANTS ThrottleBase,          \* the first delay
          ThrottleExponentMax    \* the delay stops doubling here

ASSUME ThrottleAssumption == /\ ThrottleBase \in Nat \ {0}
                             /\ ThrottleExponentMax \in Nat \ {0}

\* Arithmetic that a prover without induction cannot derive.
ASSUME PowersArePositive == \A k \in 0..(ThrottleExponentMax - 1) : 2 ^ k \in Nat \ {0}

ASSUME PowersGrow ==
    \A j, k \in 0..(ThrottleExponentMax - 1) : j <= k => 2 ^ j <= 2 ^ k

-----------------------------------------------------------------------------
(* Broken variants, for the sensitivity checks.                            *)

\* A counter of one is still free of charge.
NextPlanOffByOne(previous, restartDelay) ==
    [count |-> previous + 1,
     wait |-> IF previous <= 1 THEN 0 ELSE ThrottleBase * 2 ^ (previous - 1),
     throttled |-> previous > 1, restartDelayed |-> FALSE]

\* Every wait that the restart delay could explain is announced as one.
NextPlanMislabels(previous, restartDelay) ==
    [count |-> previous + 1,
     wait |-> IF previous = 0 THEN 0 ELSE restartDelay + ThrottleBase,
     throttled |-> FALSE, restartDelayed |-> previous # 0]

\* The exponent counts down instead of up.
DelayShrinks(n) == ThrottleBase * 2 ^ (IF n < ThrottleExponentMax THEN ThrottleExponentMax - n ELSE 0)

-----------------------------------------------------------------------------
Clamp(n) == IF n > ThrottleExponentMax THEN ThrottleExponentMax
            ELSE IF n < 1 THEN 1 ELSE n

Delay(n) == ThrottleBase * 2 ^ (Clamp(n) - 1)

LargerOf(a, b) == IF b > a THEN b ELSE a

(* What precedes the start after `previous` counted starts.  Exactly one   *)
(* of the two flags is set when there is a wait: it picks the event log    *)
(* record that announces it.                                               *)
NextPlan(previous, restartDelay) ==
    LET count   == previous + 1
        delayed == previous = 1 /\ restartDelay > Delay(count)
    IN  IF previous = 0
        THEN [count |-> 1, wait |-> 0, throttled |-> FALSE, restartDelayed |-> FALSE]
        ELSE [count          |-> count,
              wait           |-> LargerOf(Delay(count), restartDelay),
              throttled      |-> ~delayed,
              restartDelayed |-> delayed]

\* The counter once a child has outlived the threshold.
AfterHealthyStart(restartDelay) == IF restartDelay > 0 THEN 1 ELSE 0
=============================================================================
