---- MODULE SessionLifecycle ----
(***************************************************************************)
(* What a cloud session promises, whoever runs which command when: its     *)
(* status moves along the life cycle below, nothing is provisioned for a   *)
(* session that was handed over, failed or archived, and a session is      *)
(* archived only when it costs nothing any more.                           *)
(***************************************************************************)

VARIABLES
    status,  \* metadata.json's Status, or "absent" or "archived"
    billed,  \* terraform knows a VM of this session
    keyed    \* a live API key has its handle in the metadata

vars == <<status, billed, keyed>>

Doomed == {"destroying", "failed-destroy"}

Init == status = "absent" /\ ~billed /\ ~keyed

Create == status = "absent" /\ status' = "launching" /\ UNCHANGED <<billed, keyed>>

\* A launch that died may leave a terraform apply that completes while the
\* session is already being destroyed.
Provision ==
    /\ ~billed /\ status \in {"launching"} \cup Doomed
    /\ billed' = TRUE
    /\ UNCHANGED <<status, keyed>>

RecordKey ==
    /\ status = "launching" /\ billed /\ ~keyed
    /\ keyed' = TRUE
    /\ UNCHANGED <<status, billed>>

HandOver ==
    /\ status = "launching" /\ billed
    /\ status' = "ready"
    /\ UNCHANGED <<billed, keyed>>

Fail == status = "launching" /\ status' = "failed" /\ UNCHANGED <<billed, keyed>>

Retire ==
    /\ status \in {"launching", "ready", "failed", "failed-destroy"}
    /\ status' = "destroying"
    /\ UNCHANGED <<billed, keyed>>

Release ==
    /\ status \in Doomed /\ billed
    /\ billed' = FALSE
    /\ UNCHANGED <<status, keyed>>

RevokeKey ==
    /\ status = "destroying" /\ ~billed /\ keyed
    /\ keyed' = FALSE
    /\ UNCHANGED <<status, billed>>

GiveUp ==
    /\ status = "destroying"
    /\ status' = "failed-destroy"
    /\ UNCHANGED <<billed, keyed>>

Archive ==
    /\ status = "destroying" /\ ~billed /\ ~keyed
    /\ status' = "archived"
    /\ UNCHANGED <<billed, keyed>>

Next ==
    \/ Create \/ Provision \/ RecordKey \/ HandOver \/ Fail
    \/ Retire \/ Release \/ RevokeKey \/ GiveUp \/ Archive

Spec == Init /\ [][Next]_vars
====
