----------------------------- MODULE RingProofs -----------------------------
(* What the list operations do to the rings, for any set of threads. *)
EXTENDS Rings, TLAPS

(* Every thread is a member of its own ring. *)
LEMMA SelfInRing ==
    ASSUME NEW ring \in Ring, NEW t \in Thread
    PROVE  t \in RingOf(ring, t)
  BY DEF RingOf

(* A ring is a closed set, and so holds the neighbours of its members. *)
LEMMA RingClosed ==
    ASSUME NEW ring \in Ring, NEW t \in Thread
    PROVE  Closed(ring, RingOf(ring, t))
  <1> SUFFICES ASSUME NEW u \in RingOf(ring, t)
               PROVE  ring.next[u] \in RingOf(ring, t) /\ ring.prev[u] \in RingOf(ring, t)
    BY DEF Closed
  <1>1. u \in Thread /\ ring.next[u] \in Thread /\ ring.prev[u] \in Thread
    BY DEF RingOf, Ring
  <1>2. ASSUME NEW Q \in SUBSET Thread, t \in Q, Closed(ring, Q)
        PROVE  ring.next[u] \in Q /\ ring.prev[u] \in Q
    <2>1. u \in Q
      BY <1>2 DEF RingOf
    <2> QED
      BY <2>1, <1>2 DEF Closed
  <1> QED
    BY <1>1, <1>2 DEF RingOf

(* Following a link does not leave the ring: whichever member is the head, *)
(* the list has the same members.                                          *)
LEMMA RingOfNext ==
    ASSUME NEW ring \in Ring, WellLinked(ring), NEW t \in Thread
    PROVE  RingOf(ring, ring.next[t]) = RingOf(ring, t)
  <1>1. ring.next[t] \in Thread /\ ring.prev[ring.next[t]] = t
    BY DEF Ring, WellLinked
  <1>2. ASSUME NEW Q \in SUBSET Thread, Closed(ring, Q)
        PROVE  t \in Q <=> ring.next[t] \in Q
    BY <1>1, <1>2 DEF Closed
  <1> QED
    BY <1>2 DEF RingOf

(* remove_thread takes exactly its entry out of the list it was in, and    *)
(* leaves every other link pair inverse.                                   *)
LEMMA RemoveFromRing ==
    ASSUME NEW ring \in Ring, WellLinked(ring), NEW e \in Thread,
           ring.next[e] # e
    PROVE  /\ Remove(ring, e) \in Ring
           /\ WellLinked(Remove(ring, e))
           /\ Alone(Remove(ring, e), e)
           /\ \A t \in Thread : Alone(ring, t) => Alone(Remove(ring, e), t)
           /\ RingOf(Remove(ring, e), ring.next[e]) = RingOf(ring, e) \ {e}
  <1> DEFINE r == Remove(ring, e)
             n == ring.next[e]
             p == ring.prev[e]
  <1>1. n \in Thread /\ p \in Thread /\ n # e /\ p # e
    BY DEF Ring, WellLinked
  <1>2. r \in Ring
    BY <1>1 DEF Ring, Remove
  <1>3. \A t \in Thread : r.next[t] = IF t = e THEN e ELSE IF t = p THEN n ELSE ring.next[t]
    BY <1>1 DEF Ring, Remove
  <1>4. \A t \in Thread : r.prev[t] = IF t = e THEN e ELSE IF t = n THEN p ELSE ring.prev[t]
    BY <1>1 DEF Ring, Remove
  <1>5. \A t \in Thread : ring.next[t] \in Thread /\ ring.prev[t] \in Thread
    BY DEF Ring
  <1>0. ring.next[e] = n /\ ring.prev[e] = p
    OBVIOUS
  <1> HIDE DEF r, n, p
  <1>6. WellLinked(r)
    <2>1. ring.next[p] = e /\ ring.prev[n] = e
      BY <1>0 DEF WellLinked
    <2>2. ASSUME NEW t \in Thread
          PROVE  r.prev[r.next[t]] = t /\ r.next[r.prev[t]] = t
      <3>1. /\ ring.prev[ring.next[t]] = t
            /\ ring.next[ring.prev[t]] = t
            /\ ring.next[t] \in Thread
            /\ ring.prev[t] \in Thread
        BY <1>5 DEF WellLinked
      <3>2. r.prev[r.next[t]] = t
        <4>1. CASE t = e
          BY <4>1, <1>3, <1>4
        <4>2. CASE t = p
          BY <4>2, <1>1, <1>3, <1>4
        <4>3. CASE t # e /\ t # p
          BY <4>3, <3>1, <2>1, <1>1, <1>3, <1>4, <1>0
        <4> QED
          BY <4>1, <4>2, <4>3
      <3>3. r.next[r.prev[t]] = t
        <4>1. CASE t = e
          BY <4>1, <1>3, <1>4
        <4>2. CASE t = n
          BY <4>2, <1>1, <1>3, <1>4
        <4>3. CASE t # e /\ t # n
          BY <4>3, <3>1, <2>1, <1>1, <1>3, <1>4, <1>0
        <4> QED
          BY <4>1, <4>2, <4>3
      <3> QED
        BY <3>2, <3>3
    <2> QED
      BY <2>2 DEF WellLinked
  <1>7. Alone(r, e)
    BY <1>3, <1>4 DEF Alone
  <1>8. \A t \in Thread : Alone(ring, t) => Alone(r, t)
    BY <1>1, <1>3, <1>4, <1>5, <1>0 DEF Alone, WellLinked
  <1>9. ASSUME NEW Q \in SUBSET Thread, n \in Q, Closed(r, Q)
        PROVE  Closed(ring, Q \union {e}) /\ e \in Q \union {e}
    <2>1. p \in Q
      BY <1>1, <1>4, <1>9 DEF Closed
    <2> QED
      BY <2>1, <1>1, <1>3, <1>4, <1>5, <1>0, <1>9 DEF Closed, WellLinked
  <1>10. ASSUME NEW Q \in SUBSET Thread, e \in Q, Closed(ring, Q)
         PROVE  Closed(r, Q \ {e}) /\ n \in Q \ {e}
    BY <1>1, <1>3, <1>4, <1>5, <1>0, <1>10 DEF Closed, WellLinked
  <1>11. ASSUME NEW u \in RingOf(r, n)
         PROVE  u \in RingOf(ring, e) \ {e}
    <2>1. u \in Thread
      BY DEF RingOf
    <2>2. ASSUME NEW Q \in SUBSET Thread, e \in Q, Closed(ring, Q)
          PROVE  u \in Q \ {e}
      <3>1. Q \ {e} \in SUBSET Thread
        OBVIOUS
      <3> QED
        BY <3>1, <2>2, <1>10 DEF RingOf
    <2>3. Thread \in SUBSET Thread /\ Closed(ring, Thread)
      BY <1>5 DEF Closed
    <2> QED
      BY <2>1, <2>2, <2>3 DEF RingOf
  <1>12. ASSUME NEW u \in RingOf(ring, e), u # e
         PROVE  u \in RingOf(r, n)
    <2>1. u \in Thread
      BY DEF RingOf
    <2>2. ASSUME NEW Q \in SUBSET Thread, n \in Q, Closed(r, Q)
          PROVE  u \in Q
      <3>1. Q \union {e} \in SUBSET Thread
        OBVIOUS
      <3> QED
        BY <3>1, <2>2, <1>9, <1>12 DEF RingOf
    <2> QED
      BY <2>1, <2>2 DEF RingOf
  <1> QED
    BY <1>2, <1>6, <1>7, <1>8, <1>11, <1>12 DEF r, n

(* insert_new_thread_after_old adds exactly its thread to the list that    *)
(* old is in, if the thread was in no list.                                *)
LEMMA InsertAfterRing ==
    ASSUME NEW ring \in Ring, WellLinked(ring), NEW new \in Thread, NEW old \in Thread,
           Alone(ring, new), new # old
    PROVE  /\ InsertAfter(ring, new, old) \in Ring
           /\ WellLinked(InsertAfter(ring, new, old))
           /\ \A t \in Thread \ {new, old} :
                 Alone(ring, t) => Alone(InsertAfter(ring, new, old), t)
           /\ RingOf(InsertAfter(ring, new, old), old) = RingOf(ring, old) \union {new}
  <1> DEFINE r == InsertAfter(ring, new, old)
             n == ring.next[old]
  <1>1. n \in Thread /\ n # new
    BY DEF Ring, WellLinked, Alone
  <1>2. r \in Ring
    BY <1>1 DEF Ring, InsertAfter
  <1>3. \A t \in Thread : r.next[t] = IF t = old THEN new ELSE IF t = new THEN n ELSE ring.next[t]
    BY <1>1 DEF Ring, InsertAfter
  <1>4. \A t \in Thread : r.prev[t] = IF t = n THEN new ELSE IF t = new THEN old ELSE ring.prev[t]
    BY <1>1 DEF Ring, InsertAfter
  <1>5. \A t \in Thread : ring.next[t] \in Thread /\ ring.prev[t] \in Thread
    BY DEF Ring
  <1>0. ring.next[old] = n
    OBVIOUS
  <1> HIDE DEF r, n
  <1>6. WellLinked(r)
    <2>1. ring.prev[n] = old /\ ring.next[new] = new /\ ring.prev[new] = new
      BY <1>0 DEF WellLinked, Alone
    <2>2. ASSUME NEW t \in Thread
          PROVE  r.prev[r.next[t]] = t /\ r.next[r.prev[t]] = t
      <3>1. /\ ring.prev[ring.next[t]] = t
            /\ ring.next[ring.prev[t]] = t
            /\ ring.next[t] \in Thread
            /\ ring.prev[t] \in Thread
        BY <1>5 DEF WellLinked
      <3>2. r.prev[r.next[t]] = t
        <4>1. CASE t = old
          BY <4>1, <1>1, <1>3, <1>4
        <4>2. CASE t = new
          BY <4>2, <1>1, <1>3, <1>4
        <4>3. CASE t # old /\ t # new
          BY <4>3, <3>1, <2>1, <1>1, <1>3, <1>4, <1>0
        <4> QED
          BY <4>1, <4>2, <4>3
      <3>3. r.next[r.prev[t]] = t
        <4>1. CASE t = n
          BY <4>1, <1>1, <1>3, <1>4
        <4>2. CASE t = new
          BY <4>2, <1>1, <1>3, <1>4
        <4>3. CASE t # n /\ t # new
          BY <4>3, <3>1, <2>1, <1>1, <1>3, <1>4, <1>0
        <4> QED
          BY <4>1, <4>2, <4>3
      <3> QED
        BY <3>2, <3>3
    <2> QED
      BY <2>2 DEF WellLinked
  <1>7. \A t \in Thread \ {new, old} : Alone(ring, t) => Alone(r, t)
    BY <1>1, <1>3, <1>4, <1>5, <1>0 DEF WellLinked, Alone
  <1>8. ASSUME NEW Q \in SUBSET Thread, old \in Q, Closed(r, Q)
        PROVE  Closed(ring, Q \ {new}) /\ old \in Q \ {new} /\ new \in Q
    <2>1. new \in Q /\ n \in Q
      BY <1>3, <1>8 DEF Closed
    <2> QED
      BY <2>1, <1>1, <1>3, <1>4, <1>5, <1>0, <1>8 DEF Closed, WellLinked, Alone
  <1>9. ASSUME NEW Q \in SUBSET Thread, old \in Q, Closed(ring, Q)
        PROVE  Closed(r, Q \union {new})
    BY <1>1, <1>3, <1>4, <1>5, <1>0, <1>9 DEF Closed
  <1>10. ASSUME NEW u \in RingOf(r, old), u # new
         PROVE  u \in RingOf(ring, old)
    <2>1. u \in Thread
      BY DEF RingOf
    <2>2. ASSUME NEW Q \in SUBSET Thread, old \in Q, Closed(ring, Q)
          PROVE  u \in Q
      <3>1. Q \union {new} \in SUBSET Thread
        OBVIOUS
      <3> QED
        BY <3>1, <2>2, <1>9, <1>10 DEF RingOf
    <2> QED
      BY <2>1, <2>2 DEF RingOf
  <1>11. ASSUME NEW u \in RingOf(ring, old) \union {new}
         PROVE  u \in RingOf(r, old)
    <2>1. u \in Thread
      BY DEF RingOf
    <2>2. ASSUME NEW Q \in SUBSET Thread, old \in Q, Closed(r, Q)
          PROVE  u \in Q
      <3>1. Q \ {new} \in SUBSET Thread
        OBVIOUS
      <3> QED
        BY <3>1, <2>2, <1>8, <1>11 DEF RingOf
    <2> QED
      BY <2>1, <2>2 DEF RingOf
  <1> QED
    BY <1>2, <1>6, <1>7, <1>10, <1>11 DEF r, n

(* insert_new_thread_before_old is insertion after the thread before old. *)
LEMMA InsertBeforeIsAfter ==
    ASSUME NEW ring \in Ring, WellLinked(ring), NEW new \in Thread, NEW old \in Thread,
           Alone(ring, new), new # old
    PROVE  InsertBefore(ring, new, old) = InsertAfter(ring, new, ring.prev[old])
  <1>1. /\ ring.prev[old] \in Thread
        /\ ring.next[ring.prev[old]] = old
        /\ ring.prev[old] # new
    BY DEF Ring, WellLinked, Alone
  <1>2. [ring.next EXCEPT ![new] = old, ![ring.prev[old]] = new]
          = [ring.next EXCEPT ![new] = ring.next[ring.prev[old]], ![ring.prev[old]] = new]
    BY <1>1
  <1>3. [ring.prev EXCEPT ![new] = ring.prev[old], ![old] = new]
          = [ring.prev EXCEPT ![new] = ring.prev[old], ![ring.next[ring.prev[old]]] = new]
    BY <1>1
  <1> QED
    BY <1>2, <1>3 DEF InsertBefore, InsertAfter

(* insert_new_thread_before_old, and with it insert_thread_at_tail and     *)
(* insert_thread_as_head, adds exactly its thread to the list of old.      *)
LEMMA InsertBeforeRing ==
    ASSUME NEW ring \in Ring, WellLinked(ring), NEW new \in Thread, NEW old \in Thread,
           Alone(ring, new), new # old
    PROVE  /\ InsertBefore(ring, new, old) \in Ring
           /\ WellLinked(InsertBefore(ring, new, old))
           /\ \A t \in Thread \ {new, old} :
                 Alone(ring, t) => Alone(InsertBefore(ring, new, old), t)
           /\ InsertBefore(ring, new, old).next[new] = old
           /\ RingOf(InsertBefore(ring, new, old), new) = RingOf(ring, old) \union {new}
  <1> DEFINE p == ring.prev[old]
             r == InsertBefore(ring, new, old)
  <1>1. p \in Thread /\ ring.next[p] = old /\ p # new
    BY DEF Ring, WellLinked, Alone
  <1>2. r = InsertAfter(ring, new, p)
    BY InsertBeforeIsAfter
  <1>3. /\ r \in Ring
        /\ WellLinked(r)
        /\ \A t \in Thread \ {new, p} : Alone(ring, t) => Alone(r, t)
        /\ RingOf(r, p) = RingOf(ring, p) \union {new}
    BY <1>1, <1>2, InsertAfterRing
  <1>4. \A t \in Thread \ {new, old} : Alone(ring, t) => Alone(r, t)
    <2>1. \A t \in Thread \ {old} : Alone(ring, t) => t # p
      BY <1>1 DEF Alone
    <2> QED
      BY <2>1, <1>3
  <1>5. r.next[new] = old /\ r.next[p] = new
    BY <1>1 DEF InsertBefore, Ring
  <1>6. RingOf(r, p) = RingOf(r, new)
    BY <1>1, <1>3, <1>5, RingOfNext
  <1>7. RingOf(ring, p) = RingOf(ring, old)
    BY <1>1, RingOfNext
  <1> QED
    BY <1>3, <1>4, <1>5, <1>6, <1>7

(* A thread in no list is the only member of its ring. *)
LEMMA AloneRing ==
    ASSUME NEW ring \in Ring, NEW t \in Thread, Alone(ring, t)
    PROVE  RingOf(ring, t) = {t}
  <1>1. {t} \in SUBSET Thread /\ Closed(ring, {t})
    BY DEF Closed, Alone
  <1> QED
    BY <1>1 DEF RingOf

(* To take a thread out that is in no list changes nothing. *)
LEMMA RemoveAlone ==
    ASSUME NEW ring \in Ring, NEW e \in Thread, Alone(ring, e)
    PROVE  Remove(ring, e) = ring
  <1>1. ring.next[e] = e /\ ring.prev[e] = e
    BY DEF Alone
  <1>2. [ring.next EXCEPT ![ring.prev[e]] = ring.next[e], ![e] = e] = ring.next
    BY <1>1 DEF Ring
  <1>3. [ring.prev EXCEPT ![ring.next[e]] = ring.prev[e], ![e] = e] = ring.prev
    BY <1>1 DEF Ring
  <1> QED
    BY <1>2, <1>3 DEF Remove, Ring

-----------------------------------------------------------------------------
(* A list is what its own links make of it: whatever happens to the links  *)
(* of other threads, it keeps its members.                                 *)
LEMMA RingFrame ==
    ASSUME NEW ring \in Ring, NEW other \in Ring, NEW a \in Thread,
           \A t \in RingOf(ring, a) : /\ other.next[t] = ring.next[t]
                                      /\ other.prev[t] = ring.prev[t]
    PROVE  RingOf(other, a) = RingOf(ring, a)
  <1> DEFINE Q == RingOf(ring, a)
  <1>1. a \in Q /\ Closed(ring, Q) /\ Q \in SUBSET Thread
    BY SelfInRing, RingClosed DEF RingOf
  <1>2. Closed(other, Q)
    BY <1>1 DEF Closed
  <1>3. RingOf(other, a) \subseteq Q
    BY <1>1, <1>2 DEF RingOf
  <1>4. ASSUME NEW S \in SUBSET Thread, a \in S, Closed(other, S)
        PROVE  Q \subseteq S
    <2>1. Closed(ring, S \intersect Q)
      BY <1>1, <1>4 DEF Closed
    <2>2. a \in S \intersect Q /\ S \intersect Q \in SUBSET Thread
      BY <1>1, <1>4
    <2>3. Q \subseteq S \intersect Q
      BY <2>1, <2>2 DEF RingOf
    <2> QED
      BY <2>3
  <1>5. Q \subseteq RingOf(other, a)
    BY <1>1, <1>4 DEF RingOf
  <1> QED
    BY <1>3, <1>5

(* remove_thread changes no list that its entry is not in. *)
LEMMA RemoveElsewhere ==
    ASSUME NEW ring \in Ring, WellLinked(ring), NEW e \in Thread, NEW a \in Thread,
           e \notin RingOf(ring, a)
    PROVE  RingOf(Remove(ring, e), a) = RingOf(ring, a)
  <1>1. /\ ring.next \in [Thread -> Thread] /\ ring.prev \in [Thread -> Thread]
        /\ ring.next[ring.prev[e]] = e /\ ring.prev[ring.next[e]] = e
    BY DEF Ring, WellLinked
  <1>2. Closed(ring, RingOf(ring, a)) /\ RingOf(ring, a) \subseteq Thread
    BY RingClosed DEF RingOf
  <1>3. ring.prev[e] \notin RingOf(ring, a) /\ ring.next[e] \notin RingOf(ring, a)
    BY <1>1, <1>2 DEF Closed
  <1>4. Remove(ring, e) \in Ring
    BY <1>1 DEF Remove, Ring
  <1>5. \A t \in RingOf(ring, a) : /\ Remove(ring, e).next[t] = ring.next[t]
                                   /\ Remove(ring, e).prev[t] = ring.prev[t]
    BY <1>1, <1>2, <1>3 DEF Remove
  <1> QED
    BY <1>4, <1>5, RingFrame

(* insert_new_thread_before_old and insert_new_thread_after_old change no  *)
(* list but that of old.                                                   *)
LEMMA InsertElsewhere ==
    ASSUME NEW ring \in Ring, WellLinked(ring), NEW new \in Thread, NEW old \in Thread,
           NEW a \in Thread,
           new \notin RingOf(ring, a), old \notin RingOf(ring, a),
           NEW other \in {InsertBefore(ring, new, old), InsertAfter(ring, new, old)}
    PROVE  RingOf(other, a) = RingOf(ring, a)
  <1>1. /\ ring.next \in [Thread -> Thread] /\ ring.prev \in [Thread -> Thread]
        /\ ring.next[ring.prev[old]] = old /\ ring.prev[ring.next[old]] = old
    BY DEF Ring, WellLinked
  <1>2. Closed(ring, RingOf(ring, a)) /\ RingOf(ring, a) \subseteq Thread
    BY RingClosed DEF RingOf
  <1>3. ring.prev[old] \notin RingOf(ring, a) /\ ring.next[old] \notin RingOf(ring, a)
    BY <1>1, <1>2 DEF Closed
  <1>4. CASE other = InsertBefore(ring, new, old)
    <2>1. other \in Ring
      BY <1>1, <1>4 DEF InsertBefore, Ring
    <2>2. \A t \in RingOf(ring, a) : other.next[t] = ring.next[t] /\ other.prev[t] = ring.prev[t]
      BY <1>1, <1>2, <1>3, <1>4 DEF InsertBefore
    <2> QED
      BY <2>1, <2>2, RingFrame
  <1>5. CASE other = InsertAfter(ring, new, old)
    <2>1. other \in Ring
      BY <1>1, <1>5 DEF InsertAfter, Ring
    <2>2. \A t \in RingOf(ring, a) : other.next[t] = ring.next[t] /\ other.prev[t] = ring.prev[t]
      BY <1>1, <1>2, <1>3, <1>5 DEF InsertAfter
    <2> QED
      BY <2>1, <2>2, RingFrame
  <1> QED
    BY <1>4, <1>5
=============================================================================
