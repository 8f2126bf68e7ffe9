------------------------------ MODULE MCLocks ------------------------------
(* The locks with a few drivers' threads, for TLC. *)
EXTENDS Locks, TLC

CONSTANTS a, b, c, d

(* Drivers' threads are interchangeable. *)
Drivers == Permutations({a, b, c, d})
=============================================================================
