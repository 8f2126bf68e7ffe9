------------------------------- MODULE Gates -------------------------------
(***************************************************************************)
(* What the gates of Isambard promise their users, with no scheduler, no   *)
(* lists and no registers: the comments of handle_svc_gate and of          *)
(* drivers.h, read together.                                               *)
(*                                                                         *)
(* Every thread has a gate.  wait_until_woken returns at once, with the    *)
(* number of wakes that were saved up, or blocks; a blocked thread is      *)
(* released by one wake (result 0) or, when it gave a timeout, after that  *)
(* many ticks (result TimedOut).  A wake of a thread that is not waiting   *)
(* is saved up, no more than GateMax of them.                              *)
(*                                                                         *)
(* One sentence of handle_svc_gate's comment is not here, as the code does *)
(* not keep it: "wake_thread( thread ) returns the previous value of gate".*)
(* The caller of a wake finds in its register what it has put there, the   *)
(* code of the thread it wakes, whatever the gate of that thread was; and  *)
(* wake_thread in drivers.h returns nothing to the driver.                 *)
(***************************************************************************)
EXTENDS Integers

CONSTANTS Thread,    \* the threads
          Timeout,   \* the timeouts, in ticks, that threads give; 0: none
          GateMax,   \* the most wakes a gate saves up
          Result,    \* everything a result register may hold
          Own        \* there: what the thread has put into it itself

VARIABLES waiting,   \* the threads that are blocked at their gate
          saved,     \* the wakes each gate has saved up
          left,      \* the ticks a waiting thread with a timeout has left
          result     \* the result register of each thread

gateVars == <<waiting, saved, left, result>>

TimedOut == -1

GateInit ==
    /\ waiting = {}
    /\ saved = [t \in Thread |-> 0]
    /\ left = [t \in Thread |-> 0]
    /\ result \in [Thread -> Result]

(* The wait finds wakes saved up and takes them all. *)
PassGate(t) ==
    /\ t \notin waiting
    /\ saved[t] > 0
    /\ result' = [result EXCEPT ![t] = saved[t]]
    /\ saved' = [saved EXCEPT ![t] = 0]
    /\ UNCHANGED <<waiting, left>>

BlockAtGate(t, timeout) ==
    /\ t \notin waiting
    /\ saved[t] = 0
    /\ waiting' = waiting \union {t}
    /\ left' = [left EXCEPT ![t] = timeout]
    /\ result' = [result EXCEPT ![t] = 0]
    /\ UNCHANGED saved

(* A running thread opens the gate of t, and is told nothing of that gate: *)
(* its result register still holds what it has put there.                  *)
OpenGate(by, t) ==
    /\ by \notin waiting
    /\ IF t \in waiting
         THEN /\ waiting' = waiting \ {t}
              /\ left' = [left EXCEPT ![t] = 0]
              /\ UNCHANGED saved
         ELSE /\ saved' = [saved EXCEPT ![t] = IF @ < GateMax THEN @ + 1 ELSE @]
              /\ UNCHANGED <<waiting, left>>
    /\ result' = [result EXCEPT ![by] = Own]

(* One tick: everyone who waits with a timeout has one tick less, and      *)
(* exactly those who had one left are released.                            *)
Tick ==
    LET expired == {t \in waiting : left[t] = 1}
    IN  /\ waiting' = waiting \ expired
        /\ left' = [t \in Thread |-> IF t \in waiting /\ left[t] > 0
                                       THEN left[t] - 1 ELSE left[t]]
        /\ result' = [t \in Thread |-> IF t \in expired THEN TimedOut
                                                        ELSE result[t]]
        /\ UNCHANGED saved

(* A thread that is not waiting does something else with its register. *)
UseRegister(t) ==
    /\ t \notin waiting
    /\ \E v \in Result : result' = [result EXCEPT ![t] = v]
    /\ UNCHANGED <<waiting, saved, left>>

GateNext ==
    \/ \E t \in Thread : PassGate(t) \/ UseRegister(t)
    \/ \E t \in Thread, timeout \in Timeout : BlockAtGate(t, timeout)
    \/ \E by, t \in Thread : OpenGate(by, t)
    \/ Tick

GateSpec == GateInit /\ [][GateNext]_gateVars
=============================================================================
