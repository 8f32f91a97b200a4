--------------------------- MODULE GatewayRateLimit ---------------------------
(***************************************************************************)
(* api-gateway: RateLimitMiddleware (internal/middleware/ratelimit.go) and *)
(* the Redis sorted set of one client address and route.  The set's        *)
(* members and scores are the same unix seconds, so it is a set of         *)
(* seconds.  One action is one Redis command with the code up to the next. *)
(***************************************************************************)
EXTENDS Integers, FiniteSets

CONSTANTS Handlers,      \* requests the gateway works on at a time
          Limit,         \* RATE_LIMIT_RPM, 100 by default
          Window,        \* seconds in the sliding window, 60 in the code
          MaxLag,        \* seconds a handler may take between two commands
          Lifetime,      \* seconds Redis keeps an untouched set, 120 in the code
          MaxFailures,   \* bound: seconds with requests whose commands fail
          MaxTime        \* bound: seconds the clock runs for

ASSUME LimitOK == Limit \in Nat
ASSUME WindowOK == Window \in Nat /\ MaxLag \in Nat /\ MaxLag < Window
ASSUME LifetimeOK == Lifetime \in Nat /\ Lifetime > Window
ASSUME BoundsOK == MaxTime \in Nat /\ MaxFailures \in Nat

VARIABLES clock,    \* unix time
          members,  \* the sorted set
          expires,  \* when Redis drops the set, 0 for never
          work,     \* where each handler is, and the time it has read
          passed,   \* seconds in which a request came in that was let through (ghost)
          failed    \* the same for requests one of whose commands failed (ghost)

limiterVars == <<clock, members, expires, work, passed, failed>>

-----------------------------------------------------------------------------

Seconds == 0 .. MaxTime
Steps == {"idle", "trim", "count", "add"}
Idle == [step |-> "idle", now |-> 0]

LimiterTypeOK == /\ clock \in Seconds
                 /\ members \subseteq Seconds
                 /\ expires \in Nat
                 /\ work \in [Handlers -> [step : Steps, now : Seconds]]
                 /\ passed \subseteq Seconds
                 /\ failed \subseteq Seconds

MoveTo(h, step) == work' = [work EXCEPT ![h] = [step |-> step, now |-> work[h].now]]
At(h, step) == work[h].step = step

\* The seconds that have seen a request let through in the window that ends at t.
Busy(t, length) == {s \in passed : t - length < s /\ s <= t}

-----------------------------------------------------------------------------

\* A command of handler h fails; the error is dropped.
Failing(h) == /\ failed' = failed \cup {work[h].now}
              /\ Cardinality(failed') <= MaxFailures

\* Redis keeps no empty set: its expiry goes with it.
Keep(seconds) == /\ members' = seconds
                 /\ expires' = IF seconds = {} THEN 0 ELSE expires

\* A second passes; a handler's command answers within MaxLag, by its timeout;
\* Redis drops a set whose time is over.
Tick == /\ clock < MaxTime
        /\ \A h \in Handlers : ~At(h, "idle") => clock < work[h].now + MaxLag
        /\ clock' = clock + 1
        /\ IF 0 < expires /\ expires <= clock' THEN Keep({}) ELSE UNCHANGED <<members, expires>>
        /\ UNCHANGED <<work, passed, failed>>

\* A request comes in and its handler reads the clock.
Enter(h) == /\ At(h, "idle")
            /\ work' = [work EXCEPT ![h] = [step |-> "trim", now |-> clock]]
            /\ UNCHANGED <<clock, members, expires, passed, failed>>

\* ZREMRANGEBYSCORE of what has left the window.
Trim(h) == /\ At(h, "trim")
           /\ \/ Keep({s \in members : s > work[h].now - Window}) /\ UNCHANGED failed
              \/ Failing(h) /\ UNCHANGED <<members, expires>>
           /\ MoveTo(h, "count")
           /\ UNCHANGED <<clock, passed>>

\* Mutation: the limit is compared with >, one request too late.
CountLate(h) == /\ At(h, "count")
                /\ IF Cardinality(members) > Limit
                   THEN work' = [work EXCEPT ![h] = Idle]
                   ELSE MoveTo(h, "add")
                /\ UNCHANGED <<clock, members, expires, passed, failed>>

\* ZCARD and the answer 429, or on; a failing ZCARD counts as zero.
Count(h) == /\ At(h, "count")
            /\ \/ /\ Cardinality(members) >= Limit
                  /\ work' = [work EXCEPT ![h] = Idle]
                  /\ UNCHANGED failed
               \/ /\ Cardinality(members) < Limit
                  /\ MoveTo(h, "add")
                  /\ UNCHANGED failed
               \/ /\ Failing(h) /\ Limit > 0
                  /\ MoveTo(h, "add")
            /\ UNCHANGED <<clock, members, expires, passed>>

\* ZADD and EXPIRE, which does nothing to a set that is not there; then the
\* request goes on to its handler.
Add(h) == /\ At(h, "add")
          /\ \/ /\ members' = members \cup {work[h].now}
                /\ expires' = clock + Lifetime
                /\ UNCHANGED failed
             \/ /\ Failing(h)
                /\ members' \in {members, members \cup {work[h].now}}
                /\ expires' \in {expires, clock + Lifetime}
                /\ members' = {} => expires' = 0
          /\ passed' = passed \cup {work[h].now}
          /\ work' = [work EXCEPT ![h] = Idle]
          /\ UNCHANGED clock

-----------------------------------------------------------------------------

LimiterInit == /\ clock = 0
               /\ members = {}
               /\ expires = 0
               /\ work = [h \in Handlers |-> Idle]
               /\ passed = {}
               /\ failed = {}

LimiterNext == \/ Tick
               \/ \E h \in Handlers : Enter(h) \/ Trim(h) \/ Count(h) \/ Add(h)

LimiterSpec == LimiterInit /\ [][LimiterNext]_limiterVars

-----------------------------------------------------------------------------

\* The step that answers 429.
Refused(h) == At(h, "count") /\ At(h, "idle")'

\* The seconds a refusal may look at: its window, or all once a command has failed,
\* which may have been a trim.
Reach == IF failed = {} THEN Window + MaxLag ELSE MaxTime + Window + MaxLag + 1

\* Nobody is refused without cause: when a request is, Limit different seconds in
\* reach have seen requests let through.  A client that has been quiet for a window
\* is let in, refused requests do not prolong the refusal, and a failing Redis
\* lets requests in.
RefusedWithCause ==
    [][\A h \in Handlers : Refused(h) =>
          Cardinality(Busy(work[h].now + MaxLag, Reach)) >= Limit]_limiterVars

\* What the set does limit: the different seconds in which requests are let
\* through, but for the handlers that have counted and not yet added, and for the
\* seconds of failing commands: one failure does not let the others by.
BusySecondsBounded ==
    \A t \in Seconds :
        Cardinality(Busy(t, Window - MaxLag) \ failed) < Limit + Cardinality(Handlers)

\* A limit above the seconds of the window, which 100 a minute is, is never reached
\* while no command fails.
NeverRefuses ==
    [][failed = {} /\ Limit > Window + MaxLag => \A h \in Handlers : ~Refused(h)]_limiterVars

=============================================================================
