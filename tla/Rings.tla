------------------------------- MODULE Rings -------------------------------
(***************************************************************************)
(* The circular doubly linked lists of include/doubly_linked_lists.h, at   *)
(* the level of the pointers.  A thread_context carries one `next` and one *)
(* `prev`; at any moment these links put it in the core's runnable ring,   *)
(* in the ring of threads blocked on some lock, or in a ring of its own.   *)
(*                                                                         *)
(* A ring here is the pair of pointer functions of all threads.  Each      *)
(* operator performs the assignments of the C function of the same name;   *)
(* the list head that *_as_head and *_at_tail also assign is a variable of *)
(* the modules that use these operators.  The `list` (owner) member is not *)
(* kept: every thread of the runnable ring has a null owner, and the       *)
(* kernel assigns core->runnable itself on every path that removes one.    *)
(***************************************************************************)

CONSTANT Thread     \* every thread_context the heap will ever hold

Ring == [next : [Thread -> Thread], prev : [Thread -> Thread]]

(* initialise_new_thread: each thread starts in a ring of its own. *)
SelfLinked == [next |-> [t \in Thread |-> t], prev |-> [t \in Thread |-> t]]

(* insert_new_thread_after_old( new, old ) *)
InsertAfter(ring, new, old) ==
    [next |-> [ring.next EXCEPT ![new] = ring.next[old], ![old] = new],
     prev |-> [ring.prev EXCEPT ![new] = old, ![ring.next[old]] = new]]

(* insert_new_thread_before_old( new, old ), which is also                 *)
(* insert_thread_at_tail on a list whose head is old, and, once the caller *)
(* has made new the head, insert_thread_as_head.                           *)
InsertBefore(ring, new, old) ==
    [next |-> [ring.next EXCEPT ![new] = old, ![ring.prev[old]] = new],
     prev |-> [ring.prev EXCEPT ![new] = ring.prev[old], ![old] = new]]

(* remove_thread( entry ) *)
MutantRemove(ring, entry) ==
    [next |-> [ring.next EXCEPT ![ring.prev[entry]] = ring.next[entry],
                                ![entry] = entry],
     prev |-> [ring.prev EXCEPT ![entry] = entry]]

Remove(ring, entry) ==
    [next |-> [ring.next EXCEPT ![ring.prev[entry]] = ring.next[entry],
                                ![entry] = entry],
     prev |-> [ring.prev EXCEPT ![ring.next[entry]] = ring.prev[entry],
                                ![entry] = entry]]

(* A set of threads that no link leaves. *)
Closed(ring, Q) == \A t \in Q : ring.next[t] \in Q /\ ring.prev[t] \in Q

(* The members of the ring that contains t: what every closed set with t   *)
(* in it has.                                                              *)
RingOf(ring, t) ==
    {u \in Thread : \A Q \in SUBSET Thread :
                        (t \in Q /\ Closed(ring, Q)) => u \in Q}

(* next and prev are inverse to each other: what is_real_thread tests of   *)
(* every thread code it is given.                                          *)
WellLinked(ring) ==
    \A t \in Thread : /\ ring.prev[ring.next[t]] = t
                      /\ ring.next[ring.prev[t]] = t

(* t is linked to nothing but itself. *)
Alone(ring, t) == ring.next[t] = t /\ ring.prev[t] = t
=============================================================================
