---- MODULE MCCloudSession ----
(* CloudSession for TLC: the launches and the faults each run explores. *)
EXTENDS CloudSession, TLC

\* From the bare launch to one that uses everything.
LaunchKinds == {{}, {"ai"}, {"bundle", "kind", "setup", "ai"}}
FullLaunch == {{"bundle", "kind", "setup", "ai"}}
AILaunch == {{"ai"}}

AnyFault == FaultKinds
NoFaults == {}
RedialOnly == {"redial"}
CrashAndTorn == {"crash", "torn"}
ButTorn == FaultKinds \ {"torn", "full"}
ButTornAndRedial == ButTorn \ {"redial"}

Symmetry == Permutations(Destroyers)
====
