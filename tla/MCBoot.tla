------------------------------- MODULE MCBoot -------------------------------
(* The start of machines with one, two and four cores, for TLC. *)
EXTENDS Boot

(* One core, with every alignment of the memory that is left; machines with*)
(* stragglers, of which the larger has a watchdog; and one whose kernel    *)
(* loads present[i] twice.                                                 *)
Machines == {<<1, d, 1>> : d \in {0, 1, 2, 3, 5, 7, 9}}
            \union {<<2, 1, 1>>, <<4, 3, 1>>, <<2, 1, 2>>}
=============================================================================
