---- MODULE MCLocalSession ----
(* LocalSession for TLC: the launches each run explores. *)
EXTENDS LocalSession, TLC

\* One launch uses what there is to use, the others nothing.
OneFull ==
    {[l \in Launchers |-> IF l = full THEN {"kind", "setup", "ai"} ELSE {}] : full \in Launchers}

AllBare == {[l \in Launchers |-> {}]}

Symmetry == Permutations(Launchers) \cup Permutations(Destroyers)
====
