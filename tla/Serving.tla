------------------------------- MODULE Serving -------------------------------
(***************************************************************************)
(* A server's life and what it keeps in memory: the buckets of the rate    *)
(* limiter (NewRateLimiter, called while the routes are registered) belong *)
(* to the process. They start empty with every start and are lost with     *)
(* every crash, while the client goes on asking.                           *)
(***************************************************************************)
EXTENDS Boot, RateLimiter

CONSTANT Front   \* the server that the client's requests reach

ASSUME FrontAssumption == Front \in Servers

VARIABLE lost   \* lost[a]: buckets the front server took along a ticks ago (observed)

servingVars == <<seeds, at, tries, crashes, age, count, served, lost>>

ServingInit == BootInit /\ LimiterInit /\ lost = [a \in Ages |-> 0]

\* A process that ends takes its buckets along; what was served was served.
Memory ==
    /\ IF at'[Front] = "down"
       THEN /\ age' = -1
            /\ count' = 0
            /\ lost' = IF age = -1 THEN lost ELSE [lost EXCEPT ![0] = @ + 1]
       ELSE UNCHANGED <<age, count, lost>>
    /\ served' = served

Starting(s) == Progress(s) /\ Memory

Failing(s) == (ConnectFails(s) \/ Crash(s)) /\ Memory

\* A request reaches the limiter of a server that serves; others are refused by
\* the network.
Request ==
    /\ at[Front] = "serving"
    /\ Ask
    /\ UNCHANGED <<bootVars, lost>>

Passing ==
    /\ Tick
    /\ lost' = [a \in Ages |-> IF a = 0 THEN 0 ELSE lost[a - 1]]
    /\ UNCHANGED bootVars

ServingNext ==
    \/ \E s \in Servers : Starting(s) \/ Failing(s)
    \/ Request
    \/ Passing

ServingSpec == ServingInit /\ [][ServingNext]_servingVars

\* Containers are restarted, the clock runs, and the client keeps asking.
ServingFairSpec ==
    /\ ServingSpec
    /\ \A s \in Servers : WF_servingVars(Starting(s))
    /\ WF_servingVars(Request)
    /\ WF_servingVars(Passing)

-----------------------------------------------------------------------------
\* The front server's buckets lost in the last n ticks, the current one included.
LostWithin(n) == MapThenSumSet(LAMBDA a : lost[a], 0..(n - 1))

\* What a sliding window (the comment of RateLimiter) promises: while the server
\* keeps its buckets, no window, wherever it begins, sees more requests get
\* through than the limit. The code's buckets do not slide, and break it.
OneLimitInAnyWindow == LostWithin(Window) = 0 => ServedWithin(Window) <= StrictLimit

\* What the buckets keep instead: a burst at the seam of two of them stays under
\* two limits in any window. Only a bucket that the front server itself lost
\* within that window is worth a limit more; no other crash is.
AtMostTwoLimits == ServedWithin(Window) <= (2 + LostWithin(Window)) * StrictLimit

\* On a database that had its seed, whatever crashes, a client that keeps asking
\* is served again and again: the server comes back, and refused requests do not
\* extend the window of the client's bucket.
ServedAgain == (\A t \in Tables : seeds[t] > 0) => []<>(served[0] > 0)
=============================================================================
