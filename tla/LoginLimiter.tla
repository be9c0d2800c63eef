---- MODULE LoginLimiter ----
(***************************************************************************)
(* The login rate limiter of the gateway: a token bucket per client        *)
(* address behind one mutex, and the sweeper that bounds the map.          *)
(*                                                                         *)
(* Every handler reads the clock before it waits for the mutex, so allow   *)
(* sees times out of order.  Time is in whole seconds; a token is counted  *)
(* in units of 1/Window, which makes float64(burst)/window.Seconds() the   *)
(* integer Burst (float64 rounding is left out).                           *)
(***************************************************************************)
EXTENDS Integers

CONSTANTS
    Keys,      \* client addresses
    Handlers,  \* goroutines that serve POST /login
    Sweeper,   \* the goroutine that sweeps on a ticker
    Burst,     \* GATEWAY_LOGIN_BURST
    Window,    \* GATEWAY_LOGIN_WINDOW_SECONDS
    Skew,      \* how long a goroutine may wait between clock and mutex
    Horizon,   \* bound: the clock stops here
    None

ASSUME LimitsAssumption ==
    Burst \in Nat \ {0} /\ Window \in Nat \ {0} /\ Skew \in Nat /\ Horizon \in Nat
ASSUME SweeperAssumption == Sweeper \notin Handlers
ASSUME NoneAssumption == None \notin [tokens : Int, last : Nat]

Lesser(a, b) == IF a < b THEN a ELSE b

Times == 0..Horizon
Full == Burst * Window

\* The boundaries of the seconds, as marks to count attempts from and up to.
Marks == 0..Horizon + 1

VARIABLES
    clock,    \* seconds since the gateway started
    buckets,  \* key to [tokens, last], or None when the map has no entry
    waiting,  \* goroutine to the attempt or sweep it is about to make, or None
    granted   \* history: key and mark to the attempts granted with a time before it

vars == <<clock, buckets, waiting, granted>>

Init ==
    /\ clock = 0
    /\ buckets = [k \in Keys |-> None]
    /\ waiting = [g \in Handlers \cup {Sweeper} |-> None]
    /\ granted = [k \in Keys |-> [t \in Marks |-> 0]]

\* Time passes; no goroutine waits for the mutex longer than Skew.
Tick ==
    /\ clock < Horizon
    /\ \A g \in DOMAIN waiting : waiting[g] # None => clock < waiting[g].now + Skew
    /\ clock' = clock + 1
    /\ UNCHANGED <<buckets, waiting, granted>>

\* loginSubmit has read time.Now() and calls allow.
Arrive(h, k) ==
    /\ waiting[h] = None
    /\ waiting' = [waiting EXCEPT ![h] = [key |-> k, now |-> clock]]
    /\ UNCHANGED <<clock, buckets, granted>>

\* Seeded fault: tokens pile up beyond the burst.
UncappedRefill(k, now) ==
    IF buckets[k] = None THEN Full
    ELSE buckets[k].tokens + Burst * (now - buckets[k].last)

\* Seeded fault: a time before `last` does not drain the bucket.
ForwardRefill(k, now) ==
    IF buckets[k] = None THEN Full
    ELSE IF now < buckets[k].last THEN buckets[k].tokens
    ELSE Lesser(Full, buckets[k].tokens + Burst * (now - buckets[k].last))

\* The tokens of k once allow has found or created its bucket and refilled it
\* up to `now`.  A time before `last` drains it instead.
Refilled(k, now) ==
    IF buckets[k] = None THEN Full
    ELSE Lesser(Full, buckets[k].tokens + Burst * (now - buckets[k].last))

Grant(h) ==
    LET k == waiting[h].key
        now == waiting[h].now
    IN  /\ waiting[h] # None
        /\ Refilled(k, now) >= Window
        /\ buckets' = [buckets EXCEPT ![k] =
                          [tokens |-> Refilled(k, now) - Window, last |-> now]]
        /\ granted' = [granted EXCEPT ![k] =
                          [t \in Marks |-> IF t > now THEN @[t] + 1 ELSE @[t]]]
        /\ waiting' = [waiting EXCEPT ![h] = None]
        /\ UNCHANGED clock

\* Seeded fault: a refused attempt costs a token as well.
CostlyRefuse(h) ==
    LET k == waiting[h].key
        now == waiting[h].now
    IN  /\ waiting[h] # None
        /\ Refilled(k, now) < Window
        /\ buckets' = [buckets EXCEPT ![k] =
                          [tokens |-> Refilled(k, now) - Window, last |-> now]]
        /\ waiting' = [waiting EXCEPT ![h] = None]
        /\ UNCHANGED <<clock, granted>>

Refuse(h) ==
    LET k == waiting[h].key
        now == waiting[h].now
    IN  /\ waiting[h] # None
        /\ Refilled(k, now) < Window
        /\ buckets' = [buckets EXCEPT ![k] =
                          [tokens |-> Refilled(k, now), last |-> now]]
        /\ waiting' = [waiting EXCEPT ![h] = None]
        /\ UNCHANGED <<clock, granted>>

\* The ticker has fired and sweep is called.
Fire ==
    /\ waiting[Sweeper] = None
    /\ waiting' = [waiting EXCEPT ![Sweeper] = [now |-> clock]]
    /\ UNCHANGED <<clock, buckets, granted>>

\* Seeded fault: a bucket goes after half a window.
EagerSweep ==
    /\ waiting[Sweeper] # None
    /\ buckets' = [k \in Keys |->
          IF buckets[k] # None /\ 2 * (waiting[Sweeper].now - buckets[k].last) > Window
          THEN None ELSE buckets[k]]
    /\ waiting' = [waiting EXCEPT ![Sweeper] = None]
    /\ UNCHANGED <<clock, granted>>

Sweep ==
    /\ waiting[Sweeper] # None
    /\ buckets' = [k \in Keys |->
          IF buckets[k] # None /\ waiting[Sweeper].now - buckets[k].last > 2 * Window
          THEN None ELSE buckets[k]]
    /\ waiting' = [waiting EXCEPT ![Sweeper] = None]
    /\ UNCHANGED <<clock, granted>>

Next ==
    \/ Tick
    \/ \E h \in Handlers : Grant(h) \/ Refuse(h)
    \/ \E h \in Handlers, k \in Keys : Arrive(h, k)
    \/ Fire \/ Sweep

Spec == Init /\ [][Next]_vars

----
(* Properties. *)

\* Types of the variables: a bucket never holds more than Burst tokens, and a
\* time out of order takes at most Skew seconds of refill out of it.
TypeOK ==
    /\ clock \in Times
    /\ buckets \in [Keys -> [tokens : -(Burst * Skew)..Full, last : Times] \cup {None}]
    /\ DOMAIN waiting = Handlers \cup {Sweeper}
    /\ waiting[Sweeper] \in [now : Times] \cup {None}
    /\ \A h \in Handlers : waiting[h] \in [key : Keys, now : Times] \cup {None}
    /\ granted \in [Keys -> [Marks -> Nat]]

\* Attempts of k granted with a time in from..to.
GrantedIn(k, from, to) == granted[k][to + 1] - granted[k][from]

\* However the handlers and the sweeper interleave, an address is granted at
\* most Burst attempts at once plus Burst per Window over any span of time.
RateBound ==
    \A k \in Keys, a, b \in Times :
        a <= b => Window * GrantedIn(k, a, b) <= Full + Burst * (b - a)

\* A refusal is owed to attempts granted less than a window ago, never to
\* refused ones or to times out of order.
RefusalsAreEarned ==
    [][\A h \in Handlers : Refuse(h) =>
          \E t \in Times :
              t > waiting[h].now - Window /\ GrantedIn(waiting[h].key, t, t) > 0]_vars

\* When the bucket of k would be full again, in units of 1/Burst seconds.
Paid(k) ==
    IF buckets[k] = None THEN 0 ELSE Burst * buckets[k].last + Full - buckets[k].tokens

\* No attempt that waits for the mutex or is still to come is older.
Oldest == IF clock > Skew THEN clock - Skew ELSE 0

\* The limiter decides as one that keeps every debt: a sweep forgets nothing
\* that an attempt to come could notice.
Meter == INSTANCE LoginMeter WITH
    paid <- [k \in Keys |-> Paid(k)],
    grants <- [k \in Keys |-> granted[k][Horizon + 1]],
    oldest <- Oldest

FollowsMeter == Meter!Spec
====
