------------------------------ MODULE Backoff -------------------------------
(***************************************************************************)
(* How long ReconnectDialer waits before a retry: computeBackoff of        *)
(* internal/proxy/reconnect.go.  A time.Duration is a signed integer of    *)
(* Width bits (64 in Go): `base << exp` drops the bits that do not fit,    *)
(* and d + jitter wraps around.                                            *)
(***************************************************************************)
EXTENDS Integers

CONSTANTS Width,              \* bits of a time.Duration
          maxBackoffAttempt   \* the largest shift, 30 in Go

ASSUME BackoffAssumption ==
    /\ Width \in Nat \ {0}
    /\ maxBackoffAttempt \in Nat

\* The provers know nothing of exponents: what the proofs need of this one is
\* assumed, and evaluated for the model's constants.
Pow2(n) == 2^n

ASSUME PowersOfTwo ==
    /\ \A n \in 0 .. Width + maxBackoffAttempt : Pow2(n) \in Nat \ {0}
    /\ Pow2(Width) = 2 * Pow2(Width - 1)

MaxDuration == Pow2(Width - 1) - 1
Wrap(n) == ((n + Pow2(Width - 1)) % Pow2(Width)) - Pow2(Width - 1)

\* Faulty variant: the wrapped shift is compared with the ceiling only.
CappedBaseUnsigned(attempt, base, maxBackoff) ==
    LET exp == IF attempt > maxBackoffAttempt THEN maxBackoffAttempt ELSE attempt
        d == Wrap(base * Pow2(exp))
    IN IF d > maxBackoff THEN maxBackoff ELSE d

CappedBase(attempt, base, maxBackoff) ==
    LET exp == IF attempt > maxBackoffAttempt THEN maxBackoffAttempt ELSE attempt
        d == Wrap(base * Pow2(exp))
    IN IF d <= 0 \/ d > maxBackoff THEN maxBackoff ELSE d

\* The waits rand.Int64N can give: the capped base and a jitter below its half.
computeBackoff(attempt, base, maxBackoff) ==
    LET d == CappedBase(attempt, base, maxBackoff)
    IN IF base <= 0 THEN {0}
       ELSE IF d \div 2 <= 0 THEN {d}
       ELSE {Wrap(d + jitter) : jitter \in 0 .. (d \div 2) - 1}
=============================================================================
