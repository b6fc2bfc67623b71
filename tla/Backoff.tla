------------------------------- MODULE Backoff -------------------------------
(***************************************************************************)
(* How long scheduleRetry (internal/transfer/worker.go) waits before the   *)
(* n-th retry: base * 2^(n-1) in a wrapping machine integer, clamped, then *)
(* a random time below that.                                               *)
(***************************************************************************)
EXTENDS Integers

CONSTANTS
    Width,      \* bits of a time.Duration
    Second,     \* time.Second
    MinDelay,   \* minDelay
    MaxDelay    \* maxDelay

ASSUME BackoffConstants ==
    /\ {Width, Second, MinDelay} \subseteq Nat \ {0}
    /\ MaxDelay \in Nat /\ MinDelay < MaxDelay /\ MaxDelay < 2^(Width - 1)

\* The durations of the code: nanoseconds in 64 bits, and a maximum of one hour.
GoDurations == Width = 64 /\ Second = 1000000000 /\ MaxDelay = 3600 * Second

\* What a signed integer of Width bits holds after x was computed in it.
Wrap(x) == ((x + 2^(Width - 1)) % 2^Width) - 2^(Width - 1)

\* base * (1 << (n-1)); a shift by Width bits or more leaves nothing.
Shifted(secs, n) ==
    IF n > Width THEN 0 ELSE Wrap(Wrap(secs * Second) * 2^(n - 1))

\* Variant: a product that wrapped around is not treated as too large.
ClampLargeOnly(d) ==
    IF d > MaxDelay THEN MaxDelay ELSE IF d < MinDelay THEN MinDelay ELSE d

\* The two clamps: what is too large, zero or negative becomes the maximum.
Clamp(d) ==
    IF d > MaxDelay \/ d <= 0 THEN MaxDelay
    ELSE IF d < MinDelay THEN MinDelay ELSE d

\* The longest delay the job may get.  The shortest is minDelay: rand.Int63n is
\* below its argument, so that the clamped value itself is never reached.
Longest(secs, n) ==
    LET d == Clamp(Shifted(secs, n)) IN
    IF d > MinDelay THEN MinDelay + (d - MinDelay - 1) ELSE MinDelay

\* The delay as it is meant, in unbounded arithmetic.
Intended(secs, n) == secs * Second * 2^(n - 1)
=============================================================================
