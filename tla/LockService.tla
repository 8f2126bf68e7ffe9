---------------------------- MODULE LockService ----------------------------
(***************************************************************************)
(* What the locks of Isambard promise: one holder at a time, and those who *)
(* had to wait get the lock in the order in which they came.  No lock      *)
(* words, exclusive monitors or threads that run.                          *)
(***************************************************************************)
EXTENDS Sequences

CONSTANTS Thread, Lock, NULL

VARIABLES holder,    \* the thread that holds each lock, or NULL
          queue      \* the threads that wait for it, first come first

serviceVars == <<holder, queue>>

ServiceInit ==
    /\ holder = [l \in Lock |-> NULL]
    /\ queue = [l \in Lock |-> << >>]

(* A lock nobody holds is there for the taking. *)
Take(t, l) ==
    /\ holder[l] = NULL
    /\ holder' = [holder EXCEPT ![l] = t]
    /\ UNCHANGED queue

(* Everyone else waits in line. *)
Join(t, l) ==
    /\ holder[l] \notin {NULL, t}
    /\ queue' = [queue EXCEPT ![l] = Append(@, t)]
    /\ UNCHANGED holder

(* The holder gives the lock to the first in the line, and to nobody if    *)
(* there is no line.                                                       *)
Give(l) ==
    /\ holder[l] # NULL
    /\ IF queue[l] = << >>
         THEN holder' = [holder EXCEPT ![l] = NULL] /\ UNCHANGED queue
         ELSE /\ holder' = [holder EXCEPT ![l] = Head(queue[l])]
              /\ queue' = [queue EXCEPT ![l] = Tail(@)]

ServiceNext ==
    \E l \in Lock : Give(l) \/ \E t \in Thread : Take(t, l) \/ Join(t, l)

ServiceSpec == ServiceInit /\ [][ServiceNext]_serviceVars
=============================================================================
