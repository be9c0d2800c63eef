---- MODULE LoginLimiterProofs ----
(***************************************************************************)
(* Theorems about LoginLimiter for any burst, window, skew, addresses and  *)
(* handlers.  They rest on one idea: what a bucket owes was run up by      *)
(* granted attempts, and a refusal changes the numbers but not the debt.   *)
(***************************************************************************)
EXTENDS LoginLimiter, TLAPS

\* Nobody waits for the mutex longer than Skew.
WaitInv ==
    \A g \in Handlers \cup {Sweeper} : waiting[g] # None =>
        waiting[g].now <= clock /\ clock <= waiting[g].now + Skew

\* The debt of a bucket is no older than an attempt that was granted.
OwedBy(k, t) ==
    /\ t <= clock /\ GrantedIn(k, t, t) > 0
    /\ Burst * buckets[k].last - buckets[k].tokens <= Burst * t

OwedInv == \A k \in Keys : buckets[k] # None => \E t \in Times : OwedBy(k, t)

\* No second has a negative count.
CountInv == \A k \in Keys : \A t, u \in Marks : t <= u => granted[k][t] <= granted[k][u]

IInv == TypeOK /\ WaitInv /\ CountInv /\ OwedInv

----
(* Arithmetic, with products of constants kept apart. *)

\* Multiplication by Burst distributes, keeps the order and is whole.
LEMMA Products ==
    /\ \A a, b \in Int : Burst * (a - b) = Burst * a - Burst * b
    /\ \A a, b \in Int : Burst * (a + b) = Burst * a + Burst * b
    /\ \A a, b \in Int : a <= b => Burst * a <= Burst * b
    /\ \A a \in Int : Burst * a \in Int
    /\ \A a \in Nat : a <= Burst * a
    /\ Burst \in Nat /\ Window \in Nat \ {0} /\ Skew \in Nat
    /\ Full \in Nat /\ Window <= Full
<1>1. Burst \in Nat \ {0} /\ Window \in Nat \ {0} /\ Skew \in Nat
  BY LimitsAssumption
<1>2. \A a, b \in Int : Burst * (a - b) = Burst * a - Burst * b
  BY <1>1
<1>3. \A a, b \in Int : Burst * (a + b) = Burst * a + Burst * b
  BY <1>1
<1>4. \A a, b \in Int : a <= b => Burst * a <= Burst * b
  BY <1>1
<1>5. \A a \in Nat : a <= Burst * a
  BY <1>1
<1>6. \A a \in Int : Burst * a \in Int
  BY <1>1
<1>7. Full \in Nat /\ Window <= Full
  BY <1>1, <1>5 DEF Full
<1> QED
  BY <1>1, <1>2, <1>3, <1>4, <1>5, <1>6, <1>7

\* What allow makes of a bucket: never more than Full, never further drained
\* than Skew, and no deeper in debt than before.
LEMMA Refill ==
    ASSUME IInv, NEW h \in Handlers, waiting[h] # None,
           NEW k, k = waiting[h].key, NEW now, now = waiting[h].now
    PROVE  /\ k \in Keys /\ now \in Times /\ now <= clock
           /\ Refilled(k, now) \in -(Burst * Skew)..Full
           /\ Refilled(k, now) = Full \/
                 /\ buckets[k] # None
                 /\ Burst * now - Refilled(k, now)
                      = Burst * buckets[k].last - buckets[k].tokens
<1> DEFINE b == buckets[k]
           r == b.tokens + Burst * (now - b.last)
<1>1. /\ k \in Keys /\ now \in Times /\ now \in Nat /\ now <= clock /\ clock <= now + Skew
      /\ clock \in Nat
  BY DEF IInv, TypeOK, WaitInv, Times
<1>2. -(Burst * Skew) <= Full /\ -(Burst * Skew) \in Int
  BY Products
<1>3. CASE b = None
  BY <1>1, <1>2, <1>3, Products DEF Refilled
<1>4. ASSUME b # None
      PROVE  /\ Refilled(k, now) = Lesser(Full, r) /\ r \in Int
             /\ r = b.tokens + Burst * now - Burst * b.last
             /\ -(Burst * Skew) <= r
  <2>1. b.tokens \in Int /\ b.last \in Nat
    BY <1>1, <1>2, <1>4, Products DEF IInv, TypeOK, Times
  <2>2. PICK t \in Times : t <= clock /\ Burst * b.last - b.tokens <= Burst * t
    BY <1>1, <1>4 DEF IInv, OwedInv, OwedBy
  <2>3. Refilled(k, now) = Lesser(Full, r)
    BY <1>4 DEF Refilled
  <2> HIDE DEF b
  <2>4. Burst * (now - b.last) = Burst * now - Burst * b.last
    <3>1. now \in Int /\ b.last \in Int
      BY <1>1, <2>1
    <3> HIDE DEF r
    <3> QED
      BY <3>1, Products
  <2>5. Burst * now \in Int /\ Burst * b.last \in Int /\ Burst * t \in Int
        /\ Burst * Skew \in Int
    BY <1>1, <2>1, Products DEF Times
  <2>6. Burst * t <= Burst * now + Burst * Skew
    <3>1. t <= now + Skew /\ t \in Nat
      BY <1>1, <2>2, Products DEF Times
    <3>2. Burst * t <= Burst * (now + Skew)
      BY <1>1, <3>1, Products
    <3>3. Burst * (now + Skew) = Burst * now + Burst * Skew
      BY <1>1, Products
    <3> QED
      BY <3>2, <3>3
  <2> QED
    BY <2>1, <2>2, <2>3, <2>4, <2>5, <2>6
<1>5. CASE b # None
  <2>1. b.tokens \in Int /\ b.last \in Nat
    BY <1>1, <1>2, <1>5, Products DEF IInv, TypeOK, Times
  <2>2. Burst * now \in Int /\ Burst * b.last \in Int /\ Full \in Int
    BY <1>1, <2>1, Products
  <2> HIDE DEF b, r
  <2>3. Refilled(k, now) \in {Full, r} /\ Refilled(k, now) <= Full
    BY <1>4, <1>5, <2>2 DEF Lesser
  <2> QED
    BY <1>1, <1>2, <1>4, <1>5, <2>1, <2>2, <2>3 DEF b
<1> QED
  BY <1>3, <1>5

----
(* Steps. *)

\* A grant is counted at its second and at no other.
LEMMA Counts ==
    ASSUME IInv, NEW h \in Handlers, Grant(h),
           NEW k, k = waiting[h].key, NEW now, now = waiting[h].now
    PROVE  /\ granted' \in [Keys -> [Marks -> Nat]]
           /\ \A j \in Keys : j # k => granted'[j] = granted[j]
           /\ \A t \in Marks :
                 granted'[k][t] = granted[k][t] + (IF t > now THEN 1 ELSE 0)
           /\ CountInv'
           /\ granted'[k][now + 1] - granted'[k][now] > 0
<1>1. k \in Keys /\ now \in Nat /\ now \in Marks /\ now + 1 \in Marks
  BY Refill, LimitsAssumption DEF Grant, Times, Marks
<1>2. granted \in [Keys -> [Marks -> Nat]]
  BY DEF IInv, TypeOK
<1>3. granted' = [granted EXCEPT ![k] = [t \in Marks |-> IF t > now THEN @[t] + 1 ELSE @[t]]]
  BY DEF Grant
<1>4. /\ granted' \in [Keys -> [Marks -> Nat]]
      /\ \A j \in Keys : j # k => granted'[j] = granted[j]
      /\ \A t \in Marks : granted'[k][t] = IF t > now THEN granted[k][t] + 1 ELSE granted[k][t]
  BY <1>1, <1>2, <1>3
<1>5. \A t \in Marks : t \in Int /\ granted[k][t] \in Nat
  BY <1>1, <1>2, LimitsAssumption DEF Marks
<1>6. \A t \in Marks : granted'[k][t] = granted[k][t] + (IF t > now THEN 1 ELSE 0)
  BY <1>4, <1>5
<1>7. CountInv'
  <2> SUFFICES ASSUME NEW j \in Keys, NEW t \in Marks, NEW u \in Marks, t <= u
               PROVE  granted'[j][t] <= granted'[j][u]
    BY DEF CountInv, Marks
  <2>1. granted[j][t] <= granted[j][u]
    BY DEF IInv, CountInv
  <2> QED
    BY <1>1, <1>4, <1>5, <2>1
<1>8. granted'[k][now + 1] - granted'[k][now] > 0
  <2>1. granted[k][now] <= granted[k][now + 1]
    BY <1>1 DEF IInv, CountInv
  <2> QED
    BY <1>1, <1>5, <1>6, <2>1
<1> QED
  BY <1>4, <1>6, <1>7, <1>8

\* What a decision writes: the refilled bucket, less a token if it grants.
LEMMA DecisionStep ==
    ASSUME IInv, NEW h \in Handlers, Grant(h) \/ Refuse(h)
    PROVE  IInv'
<1> DEFINE k == waiting[h].key
           now == waiting[h].now
           r == Refilled(k, now)
           left == IF Grant(h) THEN r - Window ELSE r
<1>1. /\ waiting[h] # None
      /\ buckets' = [buckets EXCEPT ![k] = [tokens |-> left, last |-> now]]
      /\ waiting' = [waiting EXCEPT ![h] = None]
      /\ clock' = clock
  BY DEF Grant, Refuse
<1>2. /\ k \in Keys /\ now \in Times /\ now <= clock
      /\ r \in -(Burst * Skew)..Full
      /\ r = Full \/ /\ buckets[k] # None
                     /\ Burst * now - r = Burst * buckets[k].last - buckets[k].tokens
  BY <1>1, Refill
<1>3. /\ Grant(h) => r >= Window
      /\ ~Grant(h) => r < Window /\ granted' = granted
  BY DEF Grant, Refuse
<1>4. -(Burst * Skew) \in Int /\ -(Burst * Skew) <= 0
  <2>1. Burst * Skew \in Nat
    BY LimitsAssumption
  <2> QED
    BY <2>1
<1>5. left \in -(Burst * Skew)..Full
  <2> HIDE DEF r, now, k
  <2>1. r \in Int /\ -(Burst * Skew) <= r /\ r <= Full
    BY <1>2, <1>4, Products
  <2>2. CASE Grant(h)
    <3>1. left = r - Window /\ r >= Window
      BY <1>3, <2>2
    <3>2. left \in Int /\ 0 <= left /\ left <= Full
      BY <2>1, <3>1, Products
    <3> QED
      BY <1>4, <3>2, Products
  <2>3. CASE ~Grant(h)
    BY <1>2, <2>3
  <2> QED
    BY <2>2, <2>3
<1>6. /\ granted' \in [Keys -> [Marks -> Nat]]
      /\ \A j \in Keys : j # k => granted'[j] = granted[j]
      /\ CountInv'
  BY <1>3, Counts DEF IInv, TypeOK, CountInv, Marks
<1>7. TypeOK'
  <2>1. buckets' \in [Keys -> [tokens : -(Burst * Skew)..Full, last : Times] \cup {None}]
    <3> HIDE DEF left, now, k
    <3> QED
      BY <1>1, <1>2, <1>5 DEF IInv, TypeOK
  <2>2. /\ DOMAIN waiting' = Handlers \cup {Sweeper}
        /\ \A g \in Handlers \cup {Sweeper} : waiting'[g] \in {waiting[g], None}
    BY <1>1 DEF IInv, TypeOK
  <2> QED
    BY <1>1, <1>6, <2>1, <2>2 DEF IInv, TypeOK
<1>8. WaitInv'
  BY <1>1 DEF IInv, TypeOK, WaitInv
<1>9. OwedInv'
  <2> SUFFICES ASSUME NEW j \in Keys, buckets'[j] # None
               PROVE  \E t \in Times : OwedBy(j, t)'
    BY DEF OwedInv
  <2>1. CASE j # k
    <3>1. buckets'[j] = buckets[j] /\ granted'[j] = granted[j]
      <4> HIDE DEF left, now, k
      <4> QED
        BY <1>1, <1>6, <2>1 DEF IInv, TypeOK
    <3>2. PICK t \in Times : OwedBy(j, t)
      BY <3>1 DEF IInv, OwedInv
    <3> QED
      BY <1>1, <3>1, <3>2 DEF OwedBy, GrantedIn
  <2>2. CASE j = k
    <3>1. buckets'[k] = [tokens |-> left, last |-> now]
      <4> HIDE DEF left, now, k
      <4> QED
        BY <1>1, <1>2 DEF IInv, TypeOK
    <3>2. r \in Int /\ Burst * now \in Int /\ Full \in Int
      <4> HIDE DEF left, now, k, r
      <4>1. r \in Int
        BY <1>2, <1>4, Products
      <4>2. now \in Int
        BY <1>2 DEF Times
      <4> QED
        BY <4>1, <4>2, Products
    <3>3. CASE Grant(h)
      <4>1. left = r - Window /\ r >= Window
        BY <1>3, <3>3
      <4>2. Burst * now - left <= Burst * now
        <5> HIDE DEF left, now, k, r
        <5> QED
          BY <3>2, <4>1, Products
      <4>3. granted'[k][now + 1] - granted'[k][now] > 0
        BY <3>3, Counts
      <4> QED
        BY <1>1, <1>2, <2>2, <3>1, <4>2, <4>3 DEF OwedBy, GrantedIn
    <3>4. CASE ~Grant(h)
      <4>1. left = r /\ r < Window /\ granted' = granted
        BY <1>3, <3>4
      <4>2. r # Full
        <5> HIDE DEF r
        <5> QED
          BY <3>2, <4>1, Products
      <4>3. PICK t \in Times : OwedBy(k, t)
        BY <1>2, <4>2 DEF IInv, OwedInv
      <4>4. Burst * now - left <= Burst * t
        BY <1>2, <4>1, <4>2, <4>3 DEF OwedBy
      <4> QED
        BY <1>1, <2>2, <3>1, <4>1, <4>3, <4>4 DEF OwedBy, GrantedIn
    <3> QED
      BY <3>3, <3>4
  <2> QED
    BY <2>1, <2>2
<1> QED
  BY <1>6, <1>7, <1>8, <1>9 DEF IInv

\* Time, arrivals and the sweeper leave every debt as it is, or drop it.
LEMMA OtherStep ==
    ASSUME IInv,
           \/ Tick \/ Fire \/ Sweep \/ UNCHANGED vars
           \/ \E h \in Handlers, k \in Keys : Arrive(h, k)
    PROVE  IInv'
<1> USE DEF IInv
<1>0. clock \in Nat /\ Skew \in Nat /\ Horizon \in Nat /\ Sweeper \notin Handlers
  BY LimitsAssumption, SweeperAssumption DEF TypeOK, Times
<1>1. CASE Tick
  <2>1. clock' \in Times /\ clock' = clock + 1
    BY <1>0, <1>1 DEF Tick, Times
  <2>2. TypeOK'
    BY <1>1, <2>1 DEF Tick, TypeOK
  <2>3. WaitInv'
    BY <1>0, <1>1 DEF Tick, WaitInv, TypeOK, Times
  <2>4. OwedInv'
    BY <1>0, <1>1 DEF Tick, OwedInv, OwedBy, GrantedIn, Times
  <2>5. CountInv'
    BY <1>1 DEF Tick, CountInv
  <2> QED
    BY <2>2, <2>3, <2>4, <2>5
<1>2. CASE Fire
  BY <1>0, <1>2 DEF Fire, TypeOK, WaitInv, CountInv, OwedInv, OwedBy, GrantedIn
<1>3. CASE Sweep
  <2>1. TypeOK'
    BY <1>0, <1>3 DEF Sweep, TypeOK
  <2>2. WaitInv'
    BY <1>0, <1>3 DEF Sweep, WaitInv, TypeOK
  <2>3. OwedInv'
    BY <1>3 DEF Sweep, OwedInv, OwedBy, GrantedIn
  <2>4. CountInv'
    BY <1>3 DEF Sweep, CountInv
  <2> QED
    BY <2>1, <2>2, <2>3, <2>4
<1>4. ASSUME NEW h \in Handlers, NEW k \in Keys, Arrive(h, k)
      PROVE  IInv'
  <2>1. TypeOK'
    BY <1>0, <1>4 DEF Arrive, TypeOK
  <2>2. WaitInv'
    BY <1>0, <1>4 DEF Arrive, WaitInv, TypeOK
  <2>3. OwedInv'
    BY <1>4 DEF Arrive, OwedInv, OwedBy, GrantedIn
  <2>4. CountInv'
    BY <1>4 DEF Arrive, CountInv
  <2> QED
    BY <2>1, <2>2, <2>3, <2>4
<1>5. CASE UNCHANGED vars
  BY <1>5 DEF vars, TypeOK, WaitInv, CountInv, OwedInv, OwedBy, GrantedIn
<1> QED
  BY <1>1, <1>2, <1>3, <1>4, <1>5

----
(* The theorems. *)

\* The invariant holds in whatever order handlers get the mutex.
LEMMA Invariant == Spec => []IInv
<1>1. Init => IInv
  BY LimitsAssumption, SweeperAssumption DEF Init, IInv, TypeOK, WaitInv, CountInv,
     OwedInv, Times, Marks
<1>2. IInv /\ [Next]_vars => IInv'
  BY DecisionStep, OtherStep DEF Next
<1> QED
  BY <1>1, <1>2, PTL DEF Spec

\* A bucket holds Burst tokens at most, and attempts that reach the mutex out
\* of order drain it by no more than Skew seconds of refill.
THEOREM TypeCorrect == Spec => []TypeOK
<1>1. IInv => TypeOK
  BY DEF IInv
<1> QED
  BY <1>1, Invariant, PTL

\* allow refuses only who was granted an attempt less than a window before.
THEOREM RefusalsEarned == Spec => RefusalsAreEarned
<1>1. ASSUME IInv, NEW h \in Handlers, Refuse(h)
      PROVE  \E t \in Times :
                t > waiting[h].now - Window /\ GrantedIn(waiting[h].key, t, t) > 0
  <2> DEFINE k == waiting[h].key
             now == waiting[h].now
             r == Refilled(k, now)
  <2>1. waiting[h] # None /\ r < Window
    BY <1>1 DEF Refuse
  <2>2. /\ now \in Times /\ k \in Keys /\ r \in -(Burst * Skew)..Full
        /\ r = Full \/ /\ buckets[k] # None
                       /\ Burst * now - r = Burst * buckets[k].last - buckets[k].tokens
    BY <1>1, <2>1, Refill
  <2>3. r # Full
    <3> HIDE DEF r
    <3>1. Full \in Nat /\ Window \in Nat /\ Window <= Full
      BY Products
    <3> QED
      BY <2>1, <3>1
  <2>4. PICK t \in Times : OwedBy(k, t)
    BY <1>1, <2>2, <2>3 DEF IInv, OwedInv
  <2>5. Burst * now - r <= Burst * t
    BY <2>2, <2>3, <2>4 DEF OwedBy
  <2>6. t > now - Window
    <3>1. /\ now \in Int /\ t \in Int /\ Window \in Int /\ r \in Int
          /\ Burst * now \in Int /\ Burst * t \in Int /\ now - Window \in Int
      <4>1. -(Burst * Skew) \in Int
        BY LimitsAssumption
      <4> HIDE DEF r, now
      <4> QED
        BY <2>2, <4>1, Products DEF Times
    <3> HIDE DEF r, now
    <3>2. SUFFICES ASSUME t <= now - Window
                   PROVE  FALSE
      BY <3>1
    <3>3. Burst * t <= Burst * (now - Window)
      BY <3>1, <3>2, Products
    <3>4. Burst * (now - Window) = Burst * now - Full
      BY <3>1, Products DEF Full
    <3> QED
      BY <2>1, <2>5, <3>1, <3>3, <3>4, Products
  <2> QED
    BY <2>4, <2>6 DEF OwedBy
<1>2. IInv /\ [Next]_vars =>
        [\A h \in Handlers : Refuse(h) =>
           \E t \in Times :
              t > waiting[h].now - Window /\ GrantedIn(waiting[h].key, t, t) > 0]_vars
  BY <1>1
<1> QED
  BY <1>2, Invariant, PTL DEF Spec, RefusalsAreEarned

----
(* The debt behind a bucket. *)

\* allow compares what is owed with what may be owed, as LoginMeter does.
LEMMA RefillDebt ==
    ASSUME IInv, NEW h \in Handlers, waiting[h] # None,
           NEW k, k = waiting[h].key, NEW now, now = waiting[h].now
    PROVE  /\ Paid(k) \in Int /\ Burst * now \in Nat
           /\ Burst * now + Full - Refilled(k, now) = Meter!Later(Paid(k), Burst * now)
<1>1. k \in Keys /\ now \in Nat
  BY Refill DEF Times
<1>2. Burst * now \in Nat /\ Full \in Nat
  BY <1>1, LimitsAssumption DEF Full
<1>3. CASE buckets[k] = None
  BY <1>2, <1>3 DEF Paid, Refilled, Meter!Later
<1>4. CASE buckets[k] # None
  <2> DEFINE last == buckets[k].last
             tokens == buckets[k].tokens
  <2>1. -(Burst * Skew) \in Int
    BY LimitsAssumption
  <2>2. tokens \in Int /\ last \in Nat
    BY <1>1, <1>4, <2>1 DEF IInv, TypeOK, Times
  <2>3. /\ Refilled(k, now) = Lesser(Full, tokens + Burst * (now - last))
        /\ Paid(k) = Burst * last + Full - tokens
    BY <1>4 DEF Refilled, Paid
  <2> HIDE DEF last, tokens
  <2>4. Burst * (now - last) = Burst * now - Burst * last /\ Burst * last \in Int
    BY <1>1, <2>2, Products
  <2> QED
    BY <1>2, <2>2, <2>3, <2>4 DEF Lesser, Meter!Later
<1> QED
  BY <1>3, <1>4

\* A grant adds to the debt of its address, within the limit; a refusal finds
\* no room and leaves the debt as it is.
LEMMA Decided ==
    ASSUME IInv, NEW h \in Handlers, Grant(h) \/ Refuse(h),
           NEW k, k = waiting[h].key, NEW now, now = waiting[h].now
    PROVE  /\ k \in Keys /\ now \in Times /\ Oldest \in Nat /\ Oldest <= now
           /\ Paid(k) \in Int /\ Burst * now \in Nat
           /\ \A j \in Keys : j # k => Paid(j)' = Paid(j)
           /\ Oldest' = Oldest
           /\ Grant(h) => /\ Paid(k)' = Meter!Later(Paid(k), Burst * now) + Window
                          /\ Paid(k)' <= Burst * now + Full
           /\ Refuse(h) => /\ Paid(k)' = Paid(k) /\ granted' = granted
                           /\ Meter!Later(Paid(k), Burst * now) + Window > Burst * now + Full
<1> DEFINE r == Refilled(k, now)
           left == IF Grant(h) THEN r - Window ELSE r
           due == Meter!Later(Paid(k), Burst * now)
<1>1. /\ waiting[h] # None
      /\ buckets' = [buckets EXCEPT ![k] = [tokens |-> left, last |-> now]]
      /\ clock' = clock
      /\ Grant(h) => r >= Window
      /\ ~Grant(h) => r < Window
      /\ Refuse(h) => r < Window /\ granted' = granted
  BY DEF Grant, Refuse
<1>2. k \in Keys /\ now \in Times /\ now \in Nat /\ r \in -(Burst * Skew)..Full
  BY <1>1, Refill DEF Times
<1>3. /\ Paid(k) \in Int /\ Burst * now \in Nat
      /\ Burst * now + Full - r = due
  BY <1>1, RefillDebt
<1>4. r \in Int /\ Full \in Nat /\ Window \in Nat \ {0} /\ Window <= Full
  <2>1. -(Burst * Skew) \in Int
    BY LimitsAssumption
  <2> HIDE DEF r
  <2> QED
    BY <1>2, <2>1, Products
<1>5. Oldest \in Nat /\ Oldest <= now /\ Oldest' = Oldest
  BY <1>1, <1>2, LimitsAssumption DEF Oldest, IInv, TypeOK, WaitInv, Times
<1>6. buckets \in [Keys -> [tokens : -(Burst * Skew)..Full, last : Times] \cup {None}]
  BY DEF IInv, TypeOK
<1> HIDE DEF r
<1>7. left \in Int
  BY <1>4
<1>8. Paid(k)' = Burst * now + Full - left
  <2> HIDE DEF left
  <2>1. buckets'[k] = [tokens |-> left, last |-> now]
    BY <1>1, <1>2, <1>6
  <2>2. buckets'[k] # None
    BY <1>2, <1>7, <2>1, NoneAssumption
  <2> QED
    BY <2>1, <2>2 DEF Paid
<1>9. \A j \in Keys : j # k => Paid(j)' = Paid(j)
  <2> HIDE DEF left
  <2> QED
    BY <1>1, <1>6 DEF Paid
<1>10. due = Paid(k) \/ due = Burst * now
  BY DEF Meter!Later
<1> HIDE DEF due
<1>11. Grant(h) => Paid(k)' = due + Window /\ Paid(k)' <= Burst * now + Full
  BY <1>1, <1>3, <1>4, <1>8
<1>12. Refuse(h) => Paid(k)' = Paid(k) /\ due + Window > Burst * now + Full
  <2> SUFFICES ASSUME Refuse(h) PROVE Paid(k)' = Paid(k) /\ due + Window > Burst * now + Full
    OBVIOUS
  <2>1. r < Window /\ left = r
    BY <1>1, <1>4
  <2>2. Paid(k)' = due /\ due + Window > Burst * now + Full /\ due # Burst * now
    BY <1>3, <1>4, <1>8, <2>1
  <2> QED
    BY <1>10, <2>2
<1> QED
  BY <1>1, <1>2, <1>3, <1>5, <1>9, <1>11, <1>12 DEF due

\* What the sweeper forgets is paid before any attempt that it could matter
\* to, as long as nobody waits for the mutex for more than half a window.
LEMMA Swept ==
    ASSUME IInv, 2 * Skew <= Window, Sweep, NEW k \in Keys
    PROVE  Paid(k)' = Paid(k) \/ (Paid(k)' = 0 /\ Paid(k) <= Burst * Oldest)
<1> DEFINE now == waiting[Sweeper].now
           last == buckets[k].last
           tokens == buckets[k].tokens
<1>1. /\ now \in Nat /\ now <= clock /\ clock \in Nat /\ clock' = clock
      /\ Window \in Nat /\ Skew \in Nat /\ Full \in Nat
  BY Products DEF Sweep, IInv, TypeOK, WaitInv, Times
<1>2. buckets'[k] = IF buckets[k] # None /\ now - last > 2 * Window THEN None ELSE buckets[k]
  BY DEF Sweep
<1>3. CASE ~(buckets[k] # None /\ now - last > 2 * Window)
  BY <1>2, <1>3 DEF Paid
<1>4. CASE buckets[k] # None /\ now - last > 2 * Window
  <2>1. Burst * Skew \in Nat /\ -(Burst * Skew) \in Int
    BY LimitsAssumption
  <2>2. tokens \in Int /\ last \in Nat /\ -(Burst * Skew) <= tokens
    BY <1>1, <1>4, <2>1 DEF IInv, TypeOK, Times
  <2>3. Paid(k) = Burst * last + Full - tokens /\ Paid(k)' = 0
    BY <1>2, <1>4 DEF Paid
  <2> HIDE DEF now, last, tokens
  <2>4. Oldest \in Nat /\ last + (Window + Skew) <= Oldest
    BY <1>1, <1>4, <2>2 DEF Oldest
  <2>5. Burst * (last + (Window + Skew)) <= Burst * Oldest
    BY <1>1, <2>2, <2>4, Products
  <2>6. Burst * (last + (Window + Skew)) = Burst * last + (Full + Burst * Skew)
    BY <1>1, <2>2, Products DEF Full
  <2>7. Burst * last \in Int /\ Burst * Oldest \in Int
    BY <2>2, <2>4, Products
  <2> QED
    BY <1>1, <2>1, <2>2, <2>3, <2>5, <2>6, <2>7
<1> QED
  BY <1>3, <1>4

----
(* The rate. *)

\* Attempts of k granted at `from` or later.
Since(k, from) == granted[k][Horizon + 1] - granted[k][from]

\* As far as an attempt to come can tell, k owes until then.
Owing(k) == Meter!Later(Paid(k), Burst * Oldest)

\* The attempts granted from any second on have all been added to the debt.
DebtInv == \A k \in Keys, a \in Times :
    Since(k, a) > 0 => Burst * a + Window * Since(k, a) <= Owing(k)

\* Multiplication by Window distributes and keeps the order.
LEMMA Shares ==
    /\ \A n \in Int : Window * n \in Int /\ Window * (n + 1) = Window * n + Window
    /\ \A n, m \in Int : n <= m => Window * n <= Window * m
<1>1. Window \in Nat
  BY LimitsAssumption
<1>2. \A n \in Int : Window * n \in Int /\ Window * (n + 1) = Window * n + Window
  BY <1>1
<1>3. \A n, m \in Int : n <= m => Window * n <= Window * m
  BY <1>1
<1> QED
  BY <1>2, <1>3

\* The debt of an address is a whole number.
LEMMA WholeDebt ==
    ASSUME IInv
    PROVE  /\ clock \in Nat /\ Oldest \in Nat /\ Burst * Oldest \in Nat
           /\ \A k \in Keys : Paid(k) \in Int
<1>1. clock \in Nat /\ Skew \in Nat /\ Burst \in Nat /\ Full \in Nat
  BY LimitsAssumption, Products DEF IInv, TypeOK, Times
<1>2. Oldest \in Nat
  BY <1>1 DEF Oldest
<1>3. Burst * Oldest \in Nat
  BY <1>1, <1>2
<1>4. ASSUME NEW k \in Keys
      PROVE  Paid(k) \in Int
  <2>1. CASE buckets[k] = None
    BY <2>1 DEF Paid
  <2>2. CASE buckets[k] # None
    <3> DEFINE last == buckets[k].last
               tokens == buckets[k].tokens
    <3>1. -(Burst * Skew) \in Int
      BY LimitsAssumption
    <3>2. tokens \in Int /\ last \in Nat
      BY <1>1, <2>2, <3>1 DEF IInv, TypeOK, Times
    <3>3. Paid(k) = Burst * last + Full - tokens
      BY <2>2 DEF Paid
    <3> HIDE DEF last, tokens
    <3> QED
      BY <1>1, <3>2, <3>3, Products
  <2> QED
    BY <2>1, <2>2
<1> QED
  BY <1>1, <1>2, <1>3, <1>4

\* Attempts are counted with whole numbers, and a span has no more of them
\* than all the time since it began.
LEMMA WholeCount ==
    ASSUME IInv, NEW k \in Keys, NEW a \in Times
    PROVE  /\ a \in Nat /\ a \in Marks /\ Horizon + 1 \in Marks
           /\ Since(k, a) \in Nat
           /\ \A b \in Times : a <= b => GrantedIn(k, a, b) \in Nat
                                        /\ GrantedIn(k, a, b) <= Since(k, a)
<1>1. /\ a \in Nat /\ a \in Marks /\ Horizon + 1 \in Marks /\ a <= Horizon + 1
      /\ \A b \in Times : b \in Int /\ b + 1 \in Marks /\ b + 1 <= Horizon + 1
  BY LimitsAssumption DEF Times, Marks
<1>2. \A t \in Marks : granted[k][t] \in Nat
  BY DEF IInv, TypeOK
<1>3. granted[k][a] <= granted[k][Horizon + 1]
  BY <1>1 DEF IInv, CountInv
<1>4. Since(k, a) \in Nat
  <2>1. granted[k][a] \in Nat /\ granted[k][Horizon + 1] \in Nat
    BY <1>1, <1>2
  <2> QED
    BY <1>3, <2>1 DEF Since
<1>5. ASSUME NEW b \in Times, a <= b
      PROVE  GrantedIn(k, a, b) \in Nat /\ GrantedIn(k, a, b) <= Since(k, a)
  <2>1. b + 1 \in Marks /\ a <= b + 1 /\ b + 1 <= Horizon + 1
    BY <1>1, <1>5
  <2>2. granted[k][a] <= granted[k][b + 1] /\ granted[k][b + 1] <= granted[k][Horizon + 1]
    BY <1>1, <2>1 DEF IInv, CountInv
  <2>3. /\ granted[k][a] \in Nat /\ granted[k][b + 1] \in Nat
        /\ granted[k][Horizon + 1] \in Nat
    BY <1>1, <1>2, <2>1
  <2> QED
    BY <2>2, <2>3 DEF Since, GrantedIn
<1> QED
  BY <1>1, <1>4, <1>5

\* A grant adds one attempt to each span that holds its second, and a token to
\* the debt.
LEMMA GrantKeepsRate ==
    ASSUME IInv, DebtInv, RateBound, NEW h \in Handlers, Grant(h)
    PROVE  DebtInv' /\ RateBound'
<1>1. PICK k, now : k = waiting[h].key /\ now = waiting[h].now
  OBVIOUS
<1> DEFINE due == Meter!Later(Paid(k), Burst * now)
<1>2. /\ k \in Keys /\ now \in Times /\ Oldest \in Nat /\ Oldest <= now
      /\ Paid(k) \in Int /\ Burst * now \in Nat
      /\ \A j \in Keys : j # k => Paid(j)' = Paid(j)
      /\ Oldest' = Oldest
      /\ Paid(k)' = due + Window /\ Paid(k)' <= Burst * now + Full
  BY <1>1, Decided
<1>3. /\ \A j \in Keys : j # k => granted'[j] = granted[j]
      /\ \A t \in Marks : granted'[k][t] = granted[k][t] + (IF t > now THEN 1 ELSE 0)
      /\ \A t \in Marks : granted[k][t] \in Nat
  BY <1>1, <1>2, Counts DEF IInv, TypeOK
<1>4. now \in Nat /\ now <= Horizon /\ Horizon \in Nat
  BY <1>2, LimitsAssumption DEF Times
<1>5. ASSUME NEW j \in Keys, j # k, NEW a \in Times
      PROVE  /\ Since(j, a)' = Since(j, a) /\ Owing(j)' = Owing(j)
             /\ \A b \in Times : GrantedIn(j, a, b)' = GrantedIn(j, a, b)
  BY <1>2, <1>3, <1>5 DEF Since, Owing, GrantedIn
<1>6. ASSUME NEW a \in Times
      PROVE  /\ Since(k, a)' = Since(k, a) + (IF a > now THEN 0 ELSE 1)
             /\ \A b \in Times : a <= b => GrantedIn(k, a, b)' =
                    GrantedIn(k, a, b) + (IF a <= now /\ now <= b THEN 1 ELSE 0)
  <2>1. a \in Nat /\ a \in Marks /\ Horizon + 1 \in Marks
    BY WholeCount, <1>2
  <2>2. \A b \in Times : b \in Nat /\ b + 1 \in Marks
    BY LimitsAssumption DEF Times, Marks
  <2>3. Since(k, a)' = Since(k, a) + (IF a > now THEN 0 ELSE 1)
    BY <1>3, <1>4, <2>1 DEF Since
  <2>4. ASSUME NEW b \in Times, a <= b
        PROVE  GrantedIn(k, a, b)' =
                  GrantedIn(k, a, b) + (IF a <= now /\ now <= b THEN 1 ELSE 0)
    <3>1. b \in Nat /\ b + 1 \in Marks
      BY <2>2
    <3>2. granted[k][a] \in Nat /\ granted[k][b + 1] \in Nat
      BY <1>3, <2>1, <3>1
    <3> QED
      BY <1>3, <1>4, <2>1, <2>4, <3>1, <3>2 DEF GrantedIn
  <2> QED
    BY <2>3, <2>4
<1>7. /\ Full \in Nat /\ Window \in Nat
      /\ due \in Int /\ Paid(k) <= due /\ Burst * now <= due
      /\ Burst * Oldest \in Nat /\ Burst * Oldest <= Burst * now
  BY <1>2, <1>4, WholeDebt, Products DEF Meter!Later
<1> HIDE DEF due
<1>8. Owing(k) \in Int /\ Owing(k) <= due
  BY <1>2, <1>7 DEF Owing, Meter!Later
<1>9. Owing(k)' \in Int /\ Paid(k)' <= Owing(k)'
  BY <1>2, <1>7 DEF Owing, Meter!Later
<1>10. ASSUME NEW a \in Times, Since(k, a)' > 0
       PROVE  /\ Burst * a + Window * Since(k, a)' <= Paid(k)' \/ a > now
              /\ Burst * a + Window * Since(k, a)' <= Owing(k)'
  <2> DEFINE n == Since(k, a)
  <2>1. a \in Nat /\ n \in Nat /\ Burst * a \in Int
    BY <1>2, WholeCount, Products
  <2>2. n > 0 => Burst * a + Window * n <= due
    <3>1. n > 0 => Burst * a + Window * n <= Owing(k)
      BY <1>2 DEF DebtInv
    <3> HIDE DEF n
    <3> QED
      BY <1>7, <1>8, <2>1, <3>1, Shares
  <2>3. CASE a > now
    <3>1. Since(k, a)' = n /\ n > 0
      BY <1>6, <1>10, <2>1, <2>3
    <3> HIDE DEF n
    <3> QED
      BY <1>2, <1>7, <1>9, <2>1, <2>2, <2>3, <3>1, Shares
  <2>4. CASE a <= now
    <3>1. Since(k, a)' = n + 1
      BY <1>4, <1>6, <2>1, <2>4
    <3>2. Burst * a <= Burst * now
      BY <1>4, <2>1, <2>4, Products
    <3>3. Window * (n + 1) = Window * n + Window /\ Window * n \in Int
          /\ (n = 0 => Window * n = 0)
      <4> HIDE DEF n
      <4> QED
        BY <1>7, <2>1, Shares
    <3> HIDE DEF n
    <3>4. Burst * a + Window * n <= due
      BY <1>2, <1>7, <2>1, <2>2, <3>2, <3>3
    <3> QED
      BY <1>2, <1>7, <1>9, <2>1, <3>1, <3>3, <3>4
  <2> QED
    BY <1>4, <2>1, <2>3, <2>4
<1>11. DebtInv'
  <2> SUFFICES ASSUME NEW j \in Keys, NEW a \in Times, Since(j, a)' > 0
               PROVE  Burst * a + Window * Since(j, a)' <= Owing(j)'
    BY DEF DebtInv
  <2>1. CASE j # k
    BY <1>5, <2>1 DEF DebtInv
  <2>2. CASE j = k
    BY <1>10, <2>2
  <2> QED
    BY <2>1, <2>2
<1>12. RateBound'
  <2> SUFFICES ASSUME NEW j \in Keys, NEW a \in Times, NEW b \in Times, a <= b
               PROVE  Window * GrantedIn(j, a, b)' <= Full + Burst * (b - a)
    BY DEF RateBound, Times
  <2>1. CASE j # k
    BY <1>5, <2>1 DEF RateBound
  <2>2. CASE j = k /\ ~(a <= now /\ now <= b)
    <3>1. GrantedIn(k, a, b)' = GrantedIn(k, a, b)
      BY <1>2, <1>6, <2>2, WholeCount
    <3> QED
      BY <2>2, <3>1 DEF RateBound
  <2>3. CASE j = k /\ a <= now /\ now <= b
    <3> DEFINE m == GrantedIn(k, a, b)'
               n == Since(k, a)'
    <3>1. a \in Nat /\ b \in Nat /\ m \in Nat /\ n \in Nat /\ m <= n
      <4>1. a \in Nat /\ b \in Nat /\ Since(k, a) \in Nat
            /\ GrantedIn(k, a, b) \in Nat /\ GrantedIn(k, a, b) <= Since(k, a)
        BY <1>2, WholeCount
      <4>2. m = GrantedIn(k, a, b) + 1 /\ n = Since(k, a) + 1
        BY <1>4, <1>6, <2>3, <4>1
      <4> QED
        BY <4>1, <4>2
    <3>2. n > 0
      BY <1>2, <1>4, <1>6, <2>3, <3>1, WholeCount
    <3>3. Burst * a + Window * n <= Paid(k)'
      BY <1>4, <1>10, <2>3, <3>1, <3>2
    <3>4. Burst * now <= Burst * b /\ Burst * (b - a) = Burst * b - Burst * a
          /\ Burst * a \in Int /\ Burst * b \in Int
      BY <1>4, <2>3, <3>1, Products
    <3>5. Window * m <= Window * n /\ Window * m \in Int /\ Window * n \in Int
      <4> HIDE DEF m, n
      <4> QED
        BY <3>1, Shares
    <3> HIDE DEF m, n
    <3>6. Window * m <= Full + Burst * (b - a)
      BY <1>2, <1>7, <3>3, <3>4, <3>5
    <3> QED
      BY <2>3, <3>6 DEF m
  <2>4. a \in Int /\ b \in Int /\ now \in Int
    BY <1>4 DEF Times
  <2> QED
    BY <2>1, <2>2, <2>3, <2>4
<1> QED
  BY <1>11, <1>12

\* No attempt to come is older than the last that could have come.
LEMMA OldestGrows ==
    ASSUME IInv, Tick
    PROVE  Oldest' \in Nat /\ Oldest <= Oldest' /\ \A k \in Keys : Paid(k)' = Paid(k)
<1>1. clock \in Nat /\ Skew \in Nat /\ clock' = clock + 1 /\ buckets' = buckets
  BY LimitsAssumption DEF Tick, IInv, TypeOK, Times
<1> QED
  BY <1>1 DEF Oldest, Paid

\* Time and the sweeper take nothing from a debt that could still matter.
LEMMA OthersKeepRate ==
    ASSUME IInv, DebtInv, RateBound, 2 * Skew <= Window,
           \/ Tick \/ Fire \/ Sweep \/ UNCHANGED vars
           \/ \E h \in Handlers : Refuse(h)
           \/ \E h \in Handlers, k \in Keys : Arrive(h, k)
    PROVE  DebtInv' /\ RateBound'
<1>1. granted' = granted
  BY DEF Tick, Fire, Sweep, vars, Refuse, Arrive
<1>2. /\ \A k \in Keys : Paid(k) \in Int /\ Paid(k)' \in Int /\ Owing(k) <= Owing(k)'
      /\ Burst * Oldest' \in Int
  <2>0. /\ Oldest \in Nat /\ Burst * Oldest \in Int
        /\ \A k \in Keys : Paid(k) \in Int
    BY WholeDebt
  <2>1. CASE Tick
    <3>1. Burst * Oldest <= Burst * Oldest' /\ Burst * Oldest' \in Int
      BY <2>0, <2>1, OldestGrows, Products
    <3> QED
      BY <2>0, <2>1, <3>1, OldestGrows DEF Owing, Meter!Later
  <2>2. CASE Sweep
    <3>1. Oldest' = Oldest
      BY <2>2 DEF Sweep, Oldest
    <3>2. \A k \in Keys : Paid(k)' = Paid(k) \/ (Paid(k)' = 0 /\ Paid(k) <= Burst * Oldest)
      BY <2>2, Swept
    <3> QED
      BY <2>0, <3>1, <3>2 DEF Owing, Meter!Later
  <2>3. ASSUME NEW h \in Handlers, Refuse(h)
        PROVE  Oldest' = Oldest /\ \A k \in Keys : Paid(k)' = Paid(k)
    <3>1. PICK k, now : k = waiting[h].key /\ now = waiting[h].now
      OBVIOUS
    <3> QED
      BY <2>3, <3>1, Decided
  <2>4. CASE Fire \/ UNCHANGED vars \/ \E h \in Handlers, k \in Keys : Arrive(h, k)
    <3>1. Oldest' = Oldest /\ \A k \in Keys : Paid(k)' = Paid(k)
      BY <2>4 DEF Fire, vars, Arrive, Oldest, Paid
    <3> QED
      BY <2>0, <3>1 DEF Owing, Meter!Later
  <2>5. CASE \E h \in Handlers : Refuse(h)
    BY <2>0, <2>3, <2>5 DEF Owing, Meter!Later
  <2> QED
    BY <2>1, <2>2, <2>4, <2>5
<1>3. RateBound'
  BY <1>1 DEF RateBound, GrantedIn
<1>4. DebtInv'
  <2> SUFFICES ASSUME NEW k \in Keys, NEW a \in Times, Since(k, a)' > 0
               PROVE  Burst * a + Window * Since(k, a)' <= Owing(k)'
    BY DEF DebtInv
  <2>1. Since(k, a)' = Since(k, a)
    BY <1>1 DEF Since
  <2>2. /\ Burst * a \in Int /\ Window * Since(k, a) \in Int
        /\ Owing(k) \in Int /\ Owing(k)' \in Int
    <3>1. a \in Int /\ Since(k, a) \in Int
      BY WholeCount
    <3>2. Burst * a \in Int /\ Window * Since(k, a) \in Int
      BY <3>1, Products, Shares
    <3>3. Owing(k) \in Int /\ Owing(k)' \in Int
      BY <1>2, WholeDebt DEF Owing, Meter!Later
    <3> QED
      BY <3>2, <3>3
  <2>3. Burst * a + Window * Since(k, a) <= Owing(k)
    BY <2>1 DEF DebtInv
  <2> QED
    BY <1>2, <2>1, <2>2, <2>3
<1> QED
  BY <1>3, <1>4

\* However the handlers and the sweeper interleave, allow grants an address no
\* more than a full bucket and its refill over any span of time, provided that
\* nobody waits for the mutex for more than half a window.
THEOREM RateIsBounded == 2 * Skew <= Window => (Spec => []RateBound)
<1> SUFFICES ASSUME 2 * Skew <= Window PROVE Spec => []RateBound
  OBVIOUS
<1>1. Init => DebtInv /\ RateBound
  <2> SUFFICES ASSUME Init PROVE DebtInv /\ RateBound
    OBVIOUS
  <2>1. \A k \in Keys : \A t \in Marks : granted[k][t] = 0
    BY DEF Init
  <2>2. \A t \in Times : t \in Int /\ t \in Marks /\ t + 1 \in Marks
    BY LimitsAssumption DEF Times, Marks
  <2>3. Horizon + 1 \in Marks
    BY LimitsAssumption DEF Marks
  <2>4. DebtInv
    BY <2>1, <2>2, <2>3 DEF DebtInv, Since
  <2>5. RateBound
    <3> SUFFICES ASSUME NEW k \in Keys, NEW a \in Times, NEW b \in Times, a <= b
                 PROVE  Window * GrantedIn(k, a, b) <= Full + Burst * (b - a)
      BY DEF RateBound, Times
    <3>1. GrantedIn(k, a, b) = 0
      BY <2>1, <2>2 DEF GrantedIn
    <3>2. b - a \in Nat
      BY <2>2
    <3>3. Burst * (b - a) \in Nat /\ Full \in Nat /\ Window * 0 = 0
      BY <3>2, LimitsAssumption, Products
    <3> QED
      BY <3>1, <3>3
  <2> QED
    BY <2>4, <2>5
<1>2. IInv /\ DebtInv /\ RateBound /\ [Next]_vars => DebtInv' /\ RateBound'
  BY GrantKeepsRate, OthersKeepRate DEF Next
<1> QED
  BY <1>1, <1>2, Invariant, PTL DEF Spec

----
(* The meter. *)

\* Every step of the limiter is one of the meter or none.
LEMMA StepFollows ==
    ASSUME IInv, 2 * Skew <= Window, [Next]_vars
    PROVE  [Meter!Next]_(Meter!vars)
<1> DEFINE paid == [k \in Keys |-> Paid(k)]
           grants == [k \in Keys |-> granted[k][Horizon + 1]]
<1>0. Oldest \in Nat /\ Burst * Oldest \in Int /\ \A k \in Keys : Paid(k) \in Int
  BY WholeDebt
<1>1. ASSUME NEW h \in Handlers, Grant(h)
      PROVE  Meter!Next
  <2>1. PICK k, now : k = waiting[h].key /\ now = waiting[h].now
    OBVIOUS
  <2>2. /\ k \in Keys /\ now \in Times /\ now \in Nat /\ Oldest <= now /\ Oldest' = Oldest
        /\ \A j \in Keys : j # k => Paid(j)' = Paid(j)
        /\ Paid(k)' = Meter!Later(Paid(k), Burst * now) + Window
        /\ Paid(k)' <= Burst * now + Full
    BY <1>1, <2>1, Decided DEF Times
  <2>3. \A j \in Keys : granted'[j][Horizon + 1] =
            IF j = k THEN granted[k][Horizon + 1] + 1 ELSE granted[j][Horizon + 1]
    <3>1. Horizon + 1 \in Marks /\ Horizon + 1 > now
      BY <2>2, LimitsAssumption DEF Marks, Times
    <3> QED
      BY <1>1, <2>1, <3>1, Counts
  <2>4. Burst * (now + Window) = Burst * now + Full
    BY <2>2, Products DEF Full
  <2>5. paid' = [paid EXCEPT ![k] = Meter!Later(paid[k], Burst * now) + Window]
    BY <2>2
  <2>6. grants' = [grants EXCEPT ![k] = @ + 1]
    BY <2>2, <2>3
  <2>7. Meter!Grant(k, now)
    <3>1. paid[k] = Paid(k)
      BY <2>2
    <3> QED
      BY <2>2, <2>4, <2>5, <2>6, <3>1 DEF Meter!Grant
  <2> QED
    BY <2>2, <2>7 DEF Meter!Next, Meter!Attempt
<1>2. ASSUME NEW h \in Handlers, Refuse(h)
      PROVE  Meter!Next
  <2>1. PICK k, now : k = waiting[h].key /\ now = waiting[h].now
    OBVIOUS
  <2>2. /\ k \in Keys /\ now \in Times /\ now \in Nat /\ Oldest <= now /\ Oldest' = Oldest
        /\ \A j \in Keys : Paid(j)' = Paid(j)
        /\ granted' = granted
        /\ Meter!Later(Paid(k), Burst * now) + Window > Burst * now + Full
    BY <1>2, <2>1, Decided DEF Times
  <2>3. Burst * (now + Window) = Burst * now + Full
    BY <2>2, Products DEF Full
  <2>4. Meter!Refuse(k, now)
    <3>1. paid[k] = Paid(k) /\ paid' = paid /\ grants' = grants
      BY <2>2
    <3> QED
      BY <2>2, <2>3, <3>1 DEF Meter!Refuse, Meter!vars
  <2> QED
    BY <2>2, <2>4 DEF Meter!Next, Meter!Attempt
<1>3. CASE Tick
  <2>1. Oldest' \in Nat /\ Oldest <= Oldest' /\ \A k \in Keys : Paid(k)' = Paid(k)
    BY <1>3, OldestGrows
  <2>2. paid' = paid /\ grants' = grants
    BY <1>3, <2>1 DEF Tick
  <2>3. CASE Oldest' = Oldest
    BY <2>2, <2>3 DEF Meter!vars
  <2>4. CASE Oldest' # Oldest
    <3>1. Oldest' > Oldest
      BY <1>0, <2>1, <2>4
    <3>2. Meter!Pass
      BY <2>2, <3>1 DEF Meter!Pass
    <3> QED
      BY <3>2 DEF Meter!Next
  <2> QED
    BY <2>3, <2>4
<1>4. CASE Sweep
  <2>1. \A k \in Keys : Paid(k)' = Paid(k) \/ (Paid(k)' = 0 /\ Paid(k) <= Burst * Oldest)
    BY <1>4, Swept
  <2>2. grants' = grants /\ Oldest' = Oldest
    BY <1>4 DEF Sweep, Oldest
  <2>3. \A k \in Keys : paid[k] = Paid(k) /\ paid'[k] = Paid(k)'
    OBVIOUS
  <2>4. paid' \in [Keys -> {0} \cup {paid[k] : k \in Keys}]
    BY <2>1, <2>3
  <2>5. \A k \in Keys : paid'[k] # paid[k] => paid'[k] = 0 /\ paid[k] <= Burst * Oldest
    BY <2>1, <2>3
  <2>6. Meter!Forget
    BY <2>2, <2>4, <2>5 DEF Meter!Forget
  <2> QED
    BY <2>6 DEF Meter!Next
<1>5. CASE Fire \/ UNCHANGED vars \/ \E h \in Handlers, k \in Keys : Arrive(h, k)
  <2>1. UNCHANGED <<clock, buckets, granted>>
    BY <1>5 DEF Fire, vars, Arrive
  <2>2. Oldest' = Oldest /\ grants' = grants /\ \A k \in Keys : Paid(k)' = Paid(k)
    BY <2>1 DEF Oldest, Paid
  <2>3. paid' = paid
    BY <2>2
  <2> QED
    BY <2>2, <2>3 DEF Meter!vars
<1> QED
  BY <1>1, <1>2, <1>3, <1>4, <1>5 DEF Next

\* The limiter with its map of buckets, its sweeper and its times out of order
\* decides each attempt as the meter that keeps every debt does.
THEOREM ImplementsMeter == 2 * Skew <= Window => (Spec => FollowsMeter)
<1> SUFFICES ASSUME 2 * Skew <= Window PROVE Spec => FollowsMeter
  OBVIOUS
<1>1. Init => Meter!Init
  <2> SUFFICES ASSUME Init PROVE Meter!Init
    OBVIOUS
  <2>1. Horizon + 1 \in Marks /\ Skew \in Nat
    BY LimitsAssumption DEF Marks
  <2>2. Oldest = 0
    BY <2>1 DEF Init, Oldest
  <2>3. \A k \in Keys : Paid(k) = 0 /\ granted[k][Horizon + 1] = 0
    BY <2>1 DEF Init, Paid
  <2> QED
    BY <2>2, <2>3 DEF Meter!Init
<1>2. IInv /\ [Next]_vars => [Meter!Next]_(Meter!vars)
  BY StepFollows
<1> QED
  BY <1>1, <1>2, Invariant, PTL DEF Spec, FollowsMeter, Meter!Spec
====
