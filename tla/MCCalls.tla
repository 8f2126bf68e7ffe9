------------------------------ MODULE MCCalls ------------------------------
(* Two drivers and one more thread, for TLC. *)
EXTENDS Calls, TLC

CONSTANTS idle, a, b, new

MCBootMap == (idle :> System) @@ (a :> 3) @@ (b :> 6) @@ (new :> 0)

(* What a stack holds below its pointer is never read again, and nothing   *)
(* is once the kernel has stopped.                                         *)
UsedStack(t) == [s \in stack_pointer[t] .. StackSize - 1 |-> stack[t][s]]

MCView == IF bsod # "no" THEN <<bsod>>
          ELSE <<poolVars, current_map, pc, stack_pointer,
                 [t \in Thread |-> UsedStack(t)], runnable, loaded_map, known, offer>>
=============================================================================
