------------------------------- MODULE Limits -------------------------------
(***************************************************************************)
(* middleware/rateLimit.js and modules/ask/llmBudget.js: a counter in      *)
(* Redis per window, incremented by one INCR and EXPIRE for each request.  *)
(*                                                                         *)
(* A request that gets no answer within the timeout is let through, and    *)
(* its INCR may still be applied, at any time or never: the client keeps   *)
(* it in its offline queue.  rateLimit lets a counter live for a window,   *)
(* llmBudget for a day and an hour.                                        *)
(***************************************************************************)
EXTENDS Naturals, Sequences, FiniteSets

CONSTANTS
    Visitors,   \* concurrent requests with one limiter key
    Window,     \* windowSec, or a day, in ticks; the timeout is below a tick
    Limit_,     \* requests allowed in a window
    Horizon,    \* bound: ticks
    MaxVisits   \* bound: requests

ASSUME LimitsAssumption ==
    /\ Window \in Nat \ {0}
    /\ Limit_ \in Nat
    /\ Horizon \in Nat

VARIABLES
    now,        \* the time, in ticks
    limiter,    \* which of the two limiters this is
    counter,    \* counter[w]: the value of the key of window w
    expires,    \* expires[w]: when Redis drops it
    visit,      \* visit[v]: the time a request began at, or none
    late,       \* windows of INCRs that have not arrived in time
    admitted,   \* ghost: window and time of the requests counted and let through
    visits

limitVars == <<now, limiter, counter, expires, visit, late, admitted, visits>>

Time == 0 .. Horizon
Windows == Time  \* as many windows as ticks are more than are used

\* Mutation: every second has a counter of its own.
WindowOf_Undivided(t) == t

WindowOf(t) == t \div Window

\* Mutation: the budget's counter lives for a day.
Lifetime_OneDay(l) == Window

\* windowSec, or BUDGET_TTL_SEC: an hour more than a day.
Lifetime(l) == IF l = "rateLimit" THEN Window ELSE Window + 1

NotVisiting == Horizon + 1

LimitInit ==
    /\ now = 0
    /\ limiter \in {"rateLimit", "llmBudget"}
    /\ counter = [w \in Windows |-> 0]
    /\ expires = [w \in Windows |-> 0]
    /\ visit = [v \in Visitors |-> NotVisiting]
    /\ late = [w \in Windows |-> 0]
    /\ admitted = <<>>
    /\ visits = 0

\* INCR, on a key that may have expired.
IncrementedCount(w) == (IF expires[w] > now THEN counter[w] ELSE 0) + 1

Increment(w) ==
    /\ counter' = [counter EXCEPT ![w] = IncrementedCount(w)]
    /\ expires' = [expires EXCEPT ![w] = now + Lifetime(limiter)]

Arrive(v) ==
    /\ visits < MaxVisits
    /\ visit[v] = NotVisiting
    /\ visit' = [visit EXCEPT ![v] = now]
    /\ visits' = visits + 1
    /\ UNCHANGED <<now, limiter, counter, expires, late, admitted>>

Leave(v) == visit' = [visit EXCEPT ![v] = NotVisiting]

Exceeds(count) == count > Limit_

\* Redis answers in time: at most one tick after the request began.
Count(v) ==
    LET w == WindowOf(visit[v]) IN
    /\ visit[v] # NotVisiting
    /\ Increment(w)
    /\ admitted' = IF Exceeds(IncrementedCount(w)) THEN admitted
                   ELSE Append(admitted, [window |-> w, at |-> now])
    /\ Leave(v)
    /\ UNCHANGED <<now, limiter, late, visits>>

\* The timeout: the request is let through uncounted, and the INCR is late or
\* lost.
FailOpen(v) ==
    /\ visit[v] # NotVisiting
    /\ Leave(v)
    /\ \/ late' = [late EXCEPT ![WindowOf(visit[v])] = @ + 1]
       \/ UNCHANGED late
    /\ UNCHANGED <<now, limiter, counter, expires, admitted, visits>>

LateIncrement(w) ==
    /\ late[w] > 0
    /\ late' = [late EXCEPT ![w] = @ - 1]
    /\ Increment(w)
    /\ UNCHANGED <<now, limiter, visit, admitted, visits>>

\* Time passes; no request is in flight for longer than its timeout.
Tick ==
    /\ now < Horizon
    /\ \A v \in Visitors : visit[v] = NotVisiting \/ visit[v] = now
    /\ now' = now + 1
    /\ UNCHANGED <<limiter, counter, expires, visit, late, admitted, visits>>

LimitNext ==
    \/ \E v \in Visitors : Arrive(v) \/ Count(v) \/ FailOpen(v)
    \/ \E w \in Windows : LateIncrement(w)
    \/ Tick

LimitSpec == LimitInit /\ [][LimitNext]_limitVars

-----------------------------------------------------------------------------
(* Properties; requests that were let through uncounted are not admitted *)

\* llmBudget.js:8 "The key outlives its UTC day by an hour": a request that
\* began before midnight and counts after it still meets the count of its own
\* day, so no day has more counted requests than the budget, whatever late
\* increments do.
DailyBudgetHolds ==
    limiter = "llmBudget" =>
        \A n \in DOMAIN admitted :
            Cardinality({m \in DOMAIN admitted : admitted[m].window = admitted[n].window}) <= Limit_

\* README.md:564 "a burst at a window boundary can reach twice the limit", and
\* no more than that in any stretch of a window's length, although a counter
\* that lives for its window only can be gone for a request at its end.
BurstIsAtMostTwice ==
    \A n \in DOMAIN admitted :
        Cardinality({m \in 1 .. n : admitted[m].at + Window > admitted[n].at}) <= 2 * Limit_
=============================================================================
