---- MODULE LoginMeter ----
(***************************************************************************)
(* What the login limiter of the gateway promises, without a map of        *)
(* buckets to keep: each key owes for the attempts it was granted.         *)
(* paid[k] is the time, in units of 1/Burst seconds, at which the debt of  *)
(* k is paid off; an attempt is granted when the debt leaves room for it.  *)
(***************************************************************************)
EXTENDS Integers

CONSTANTS
    Keys,    \* client addresses
    Times,   \* the seconds at which attempts can be made
    Burst,   \* attempts a key has when it owes nothing
    Window   \* seconds in which a debt of Burst attempts is paid off

VARIABLES
    paid,    \* per key, when it owes nothing
    grants,  \* per key, how many attempts were granted
    oldest   \* attempts made earlier have all been decided

vars == <<paid, grants, oldest>>

Later(a, b) == IF a > b THEN a ELSE b

Init ==
    /\ paid = [k \in Keys |-> 0]
    /\ grants = [k \in Keys |-> 0]
    /\ oldest = 0

\* The attempt that k made at `now` finds room and adds to the debt.
Grant(k, now) ==
    LET due == Later(paid[k], Burst * now) + Window
    IN  /\ due <= Burst * (now + Window)
        /\ paid' = [paid EXCEPT ![k] = due]
        /\ grants' = [grants EXCEPT ![k] = @ + 1]
        /\ UNCHANGED oldest

\* There is no room; a refused attempt costs nothing.
Refuse(k, now) ==
    /\ Later(paid[k], Burst * now) + Window > Burst * (now + Window)
    /\ UNCHANGED vars

Attempt == \E k \in Keys, now \in Times :
    now >= oldest /\ (Grant(k, now) \/ Refuse(k, now))

\* Debts that every attempt to come finds paid may be forgotten.
Forget ==
    /\ paid' \in [Keys -> {0} \cup {paid[k] : k \in Keys}]
    /\ \A k \in Keys : paid'[k] # paid[k] => paid'[k] = 0 /\ paid[k] <= Burst * oldest
    /\ UNCHANGED <<grants, oldest>>

Pass == oldest' > oldest /\ UNCHANGED <<paid, grants>>

Next == Attempt \/ Forget \/ Pass

Spec == Init /\ [][Next]_vars
====
