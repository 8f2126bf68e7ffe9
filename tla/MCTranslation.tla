--------------------------- MODULE MCTranslation ---------------------------
(* Two drivers, for TLC: the first shows one of two pages at one address,  *)
(* as show_page does, and has a screen; the second has memory that fills   *)
(* an entry of the first level table.                                      *)
EXTENDS Translation, TLC

CONSTANTS one, two, three, ShowMap, GuestMap

Vmb(s, c, p) == [start |-> s, count |-> c, memory |-> p]

MCHome == (one :> ShowMap) @@ (two :> ShowMap) @@ (three :> GuestMap)

MCCode == (ShowMap :> Vmb(0, 1, 97)) @@ (GuestMap :> Vmb(0, 1, 81))

MCData == (ShowMap :> Vmb(1, 2, 98)) @@ (GuestMap :> Vmb(1, 1, 82))

MCExtra == (ShowMap :> {Vmb(3, 1, 71), Vmb(3, 1, 72), Vmb(4, 8, 64)}) @@ (GuestMap :> {Vmb(16, 16, 32)})

MCJunk == Vmb(3, 3, 32)

(* The system driver's copy is read only by the thread inside the lock. *)
MCView == <<list, IF map_lock = Unlocked THEN << >> ELSE vmbs, tables, tlb,
            loaded_map, threadVars, map_lock, mapped>>

MCSymmetry == Permutations({one, two})
=============================================================================
