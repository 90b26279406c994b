----------------------------- MODULE RateLimiter -----------------------------
(***************************************************************************)
(* The in-memory rate limiter (middleware/rate_limiter.go) for one client  *)
(* IP: keys share nothing but the mutex, which makes allow one action.     *)
(* Time is what has passed since: an instant further back than any window  *)
(* reaches is no longer told apart from older ones.                        *)
(***************************************************************************)
EXTENDS Integers, Folds, FiniteSetsExt

CONSTANTS
    RateLimit,      \* cfg.RateLimit
    Window          \* cfg.RateWindowSec, in ticks of the clock

ASSUME LimiterAssumption == RateLimit \in Nat /\ Window \in Nat \ {0}

\* RateLimitStrict: the limit of the sensitive routes, in Go's integer division.
StrictLimit == RateLimit \div 4 + 1

VARIABLES
    age,     \* time since the bucket's windowAt, or -1 while there is no bucket
    count,   \* the bucket's count; one past the limit stands for all above it
    served   \* served[a]: requests allowed a ticks ago (what clients observe)

limiterVars == <<age, count, served>>

Ages == 0..Window

LimiterTypeOK ==
    /\ age \in -1..(Window + 1)
    /\ count \in 0..(StrictLimit + 1)
    /\ served \in [Ages -> Nat]

LimiterInit ==
    /\ age = -1
    /\ count = 0
    /\ served = [a \in Ages |-> 0]

\* A bucket lives for one tick.
BugFresh == age # 0

Fresh == age = -1 \/ age > Window

\* allow: a missing or outdated bucket is replaced, which counts the request.
BugAllowFreshKeepsCount ==
    /\ Fresh
    /\ age' = 0
    /\ count' = count + 1
    /\ served' = [served EXCEPT ![0] = @ + 1]

AllowFresh ==
    /\ Fresh
    /\ age' = 0
    /\ count' = 1
    /\ served' = [served EXCEPT ![0] = @ + 1]

\* A counted request moves the bucket's windowAt.
BugAllowCountedExtends ==
    /\ ~Fresh
    /\ count' = IF count > StrictLimit THEN count ELSE count + 1
    /\ served' = IF count' <= StrictLimit THEN [served EXCEPT ![0] = @ + 1] ELSE served
    /\ age' = 0

AllowCounted ==
    /\ ~Fresh
    /\ count' = IF count > StrictLimit THEN count ELSE count + 1
    /\ served' = IF count' <= StrictLimit THEN [served EXCEPT ![0] = @ + 1] ELSE served
    /\ age' = age

Tick ==
    /\ age' = IF age = -1 \/ age > Window THEN age ELSE age + 1
    /\ served' = [a \in Ages |-> IF a = 0 THEN 0 ELSE served[a - 1]]
    /\ count' = count

Ask == AllowFresh \/ AllowCounted

-----------------------------------------------------------------------------
\* Requests allowed in the last n ticks, the current one included.
ServedWithin(n) == MapThenSumSet(LAMBDA a : served[a], 0..(n - 1))
=============================================================================
