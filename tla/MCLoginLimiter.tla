---- MODULE MCLoginLimiter ----
(* LoginLimiter for TLC: interchangeable handlers. *)
EXTENDS LoginLimiter, TLC

Symmetry == Permutations(Handlers)
====
